----------------------------- MODULE SpoolQueue -----------------------------
(***************************************************************************)
(* The spool directories of gsmsmsd: the recursion of sendSMS over the     *)
(* priority levels, what becomes of a file that was sent or failed, and    *)
(* the scripts of contrib/ that fill the directories (gsmsmsspool) and     *)
(* put failed files back (gsmsmsrequeue), which run at any time.           *)
(*                                                                         *)
(* A file keeps its identity when it is renamed; gsmsmsrequeue appends one *)
(* "r" to its name, so its name is the file and the number of retries.     *)
(* gsmsmsspool writes a file elsewhere and renames it, so that it appears  *)
(* as a whole.                                                             *)
(***************************************************************************)
EXTENDS Integers, Sequences, FiniteSets

CONSTANTS
  File,         \* the files that are ever spooled
  NoFile,       \* no file
  Priorities,   \* option --priorities: levels 1..Priorities, or only 0
  SentModes,    \* whether option --sent is given
  FailedModes,  \* whether option --failed is given
  SyslogModes,  \* whether option --syslog is given
  Retries,      \* how often gsmsmsrequeue puts a file back (12 in the script)
  FaultModes    \* whether renames fail, the answers to commands that sent a
                \* message are lost, and the daemon is killed

ASSUME SpoolQueueAssumption ==
  /\ NoFile \notin File
  /\ Priorities \in Nat /\ Retries \in Nat
  /\ {SentModes, FailedModes, SyslogModes, FaultModes} \subseteq SUBSET BOOLEAN

VARIABLES
  opt,     \* the options the daemon is always started with
  faulty,  \* the mode chosen from FaultModes
  place,   \* the directory every file is in
  level,   \* its priority
  retries, \* how often it was put back
  frames,  \* the calls of sendSMS in progress, the innermost last
  sending, \* "no", or how far the innermost call got with its file
  alive,   \* the daemon runs
  copies   \* how often a file was sent (observed, counted up to MaxCopies)

vars == <<opt, faulty, place, level, retries, frames, sending, alive, copies>>

Level     == IF Priorities = 0 THEN {0} ELSE 1..Priorities
MaxCopies == 2
Name(f)   == <<f, retries[f]>>
Queue(p)  == {f \in File : place[f] = "queue" /\ level[f] = p}

\* One call of sendSMS: the names its readdir still must and may no longer
\* return, and the file it is at.  since: the files that were tried, or
\* came to a queue, since it took that file.
NewFrame(p) == [level |-> p, must |-> {}, seen |-> {}, file |-> NoFile,
                open |-> FALSE, since |-> {}]
Top == frames[Len(frames)]
SetTop(fr) == [frames EXCEPT ![Len(frames)] = fr]
Noting(frs, f) == [i \in DOMAIN frs |-> [frs[i] EXCEPT !.since = @ \cup {f}]]

-----------------------------------------------------------------------------
(***************************************************************************)
(* sendSMS.  A call for priority p > 1 begins with the call for p - 1, and *)
(* repeats that call before each of its own files.                         *)
(***************************************************************************)
Calls(p) == IF p = 0 THEN <<NewFrame(0)>> ELSE [i \in 1..p |-> NewFrame(p + 1 - i)]

Scan ==
  /\ alive /\ frames = << >>
  /\ frames' = Calls(Priorities)
  /\ UNCHANGED <<opt, faulty, place, level, retries, sending, alive, copies>>

OpenDir ==
  /\ alive /\ frames # << >> /\ ~Top.open
  /\ frames' = SetTop([Top EXCEPT !.open = TRUE,
                                  !.must = {Name(f) : f \in Queue(Top.level)}])
  /\ UNCHANGED <<opt, faulty, place, level, retries, sending, alive, copies>>

\* Faulty variant: the more urgent files are not sent first.
TakeFileAtOnce(f) ==
  /\ alive /\ frames # << >> /\ Top.open /\ Top.file = NoFile
  /\ f \in Queue(Top.level) /\ Name(f) \notin Top.seen
  /\ frames' = SetTop([Top EXCEPT !.file = f, !.seen = @ \cup {Name(f)}, !.since = {}])
  /\ UNCHANGED <<opt, faulty, place, level, retries, sending, alive, copies>>

\* readdir returns a file; one that came after opendir may be returned too.
TakeFile(f) ==
  /\ alive /\ frames # << >> /\ Top.open /\ Top.file = NoFile
  /\ f \in Queue(Top.level) /\ Name(f) \notin Top.seen
  /\ frames' = SetTop([Top EXCEPT !.file = f, !.seen = @ \cup {Name(f)}, !.since = {}])
               \o (IF Top.level > 1 THEN Calls(Top.level - 1) ELSE << >>)
  /\ UNCHANGED <<opt, faulty, place, level, retries, sending, alive, copies>>

CloseDir ==
  /\ alive /\ frames # << >> /\ Top.open /\ Top.file = NoFile
  /\ Top.must \subseteq Top.seen
  /\ frames' = SubSeq(frames, 1, Len(frames) - 1)
  /\ UNCHANGED <<opt, faulty, place, level, retries, sending, alive, copies>>

Sent(f) == copies' = [copies EXCEPT ![f] = IF @ < MaxCopies THEN @ + 1 ELSE @]

\* MeTa::sendSMSs; a file that cannot be opened fails likewise.
Send ==
  /\ alive /\ frames # << >> /\ Top.file # NoFile /\ sending = "no"
  /\ \/ sending' = "sent" /\ Sent(Top.file)
     \/ sending' = "failed" /\ UNCHANGED copies
     \/ sending' = "failed" /\ faulty /\ Sent(Top.file)
  /\ UNCHANGED <<opt, faulty, place, level, retries, frames, alive>>

\* rename and unlink, whose results are not looked at.
Moves(f, dir) ==
  \/ place' = [place EXCEPT ![f] = dir]
  \/ faulty /\ UNCHANGED place

Next1File == frames' = Noting(SetTop([Top EXCEPT !.file = NoFile]), Top.file)

\* Faulty variants: a file that was sent stays; one that failed is moved where
\* those go that were sent, as if that stood behind the try statement.
FinishKeeping ==
  /\ alive /\ sending = "sent" /\ sending' = "no"
  /\ UNCHANGED place
  /\ Next1File
  /\ UNCHANGED <<opt, faulty, level, retries, alive, copies>>
GiveUpAsSent ==
  /\ alive /\ sending = "failed" /\ sending' = "no"
  /\ Moves(Top.file, IF opt.sent THEN "sent" ELSE "gone")
  /\ Next1File
  /\ UNCHANGED <<opt, faulty, level, retries, alive, copies>>

Finish ==
  /\ alive /\ sending = "sent" /\ sending' = "no"
  /\ Moves(Top.file, IF opt.sent THEN "sent" ELSE "gone")
  /\ Next1File
  /\ UNCHANGED <<opt, faulty, level, retries, alive, copies>>

\* Without syslog, an exception ends the daemon.
GiveUp ==
  /\ alive /\ sending = "failed" /\ sending' = "no"
  /\ IF opt.syslog
     THEN /\ IF opt.failed THEN Moves(Top.file, "failed") ELSE UNCHANGED place
          /\ Next1File
          /\ UNCHANGED alive
     ELSE alive' = FALSE /\ frames' = << >> /\ UNCHANGED place
  /\ UNCHANGED <<opt, faulty, level, retries, copies>>

-----------------------------------------------------------------------------
(***************************************************************************)
(* The scripts, and what ends and starts the daemon.                       *)
(***************************************************************************)
\* gsmsmsspool
Spool(f, p) ==
  /\ place[f] = "none"
  /\ place' = [place EXCEPT ![f] = "queue"]
  /\ level' = [level EXCEPT ![f] = p]
  /\ frames' = Noting(frames, f)
  /\ UNCHANGED <<opt, faulty, retries, sending, alive, copies>>

\* Faulty variant: the name does not change.
RequeueUnmarked(f) ==
  /\ place[f] = "failed"
  /\ place' = [place EXCEPT ![f] = "queue"]
  /\ frames' = Noting(frames, f)
  /\ UNCHANGED <<opt, faulty, level, retries, sending, alive, copies>>

\* gsmsmsrequeue: a failed file goes back to its queue, or its sender is
\* notified; the sender of a sent file is notified.
Requeue(f) ==
  /\ place[f] = "failed"
  /\ IF retries[f] >= Retries
     THEN place' = [place EXCEPT ![f] = "bounced"] /\ UNCHANGED <<retries, frames>>
     ELSE /\ place' = [place EXCEPT ![f] = "queue"]
          /\ retries' = [retries EXCEPT ![f] = @ + 1]
          /\ frames' = Noting(frames, f)
  /\ UNCHANGED <<opt, faulty, level, sending, alive, copies>>

NotifySent(f) ==
  /\ place[f] = "sent"
  /\ place' = [place EXCEPT ![f] = "gone"]
  /\ UNCHANGED <<opt, faulty, level, retries, frames, sending, alive, copies>>

Crash ==
  /\ faulty /\ alive
  /\ alive' = FALSE /\ frames' = << >> /\ sending' = "no"
  /\ UNCHANGED <<opt, faulty, place, level, retries, copies>>

Restart ==
  /\ ~alive /\ alive' = TRUE
  /\ UNCHANGED <<opt, faulty, place, level, retries, frames, sending, copies>>

-----------------------------------------------------------------------------
Init ==
  /\ opt \in [sent : SentModes, failed : FailedModes, syslog : SyslogModes]
  /\ faulty \in FaultModes
  /\ place = [f \in File |-> "none"]
  /\ level = [f \in File |-> CHOOSE p \in Level : TRUE]
  /\ retries = [f \in File |-> 0]
  /\ frames = << >> /\ sending = "no"
  /\ alive = TRUE
  /\ copies = [f \in File |-> 0]

Daemon == Scan \/ OpenDir \/ (\E f \in File : TakeFile(f)) \/ CloseDir
          \/ Send \/ Finish \/ GiveUp
Cron   == \E f \in File : Requeue(f) \/ NotifySent(f)
Next   == Daemon \/ Cron \/ (\E f \in File, p \in Level : Spool(f, p))
          \/ Crash \/ Restart

\* The daemon polls the directories, and cron runs gsmsmsrequeue.
Spec == Init /\ [][Next]_vars /\ WF_vars(Daemon) /\ WF_vars(Cron) /\ WF_vars(Restart)

-----------------------------------------------------------------------------
(***************************************************************************)
(* A file is sent once, though several calls of sendSMS, which know        *)
(* nothing of each other, read the same directories, and gsmsmsrequeue     *)
(* moves files between them, unless a fault separates the send from the    *)
(* rename.                                                                 *)
(***************************************************************************)
SentOnce == ~faulty => \A f \in File : copies[f] <= 1

(***************************************************************************)
(* "Before sending one SMS from queue2, all pending SMS from queue1 will   *)
(* be sent": a file that is about to be sent was preceded by an attempt at *)
(* every more urgent file, but for those that came in the meantime.        *)
(***************************************************************************)
Urgent(p) == {g \in File : place[g] = "queue" /\ level[g] \in 1..(p - 1)}
PriorityRespected ==
  frames # << >> /\ Top.file # NoFile => Urgent(Top.level) \subseteq Top.since

(***************************************************************************)
(* Whatever fails, and however often the daemon is killed, no file that    *)
(* was not sent is taken for sent, whose sender would be notified of it,   *)
(* and none disappears.  Not said: that a file that failed stays when      *)
(* there is no option --failed; the manual page says that it is removed.   *)
(***************************************************************************)
NeverLost ==
  \A f \in File : \/ place[f] = "sent"
                  \/ place[f] = "gone" /\ opt.failed
                  => copies[f] >= 1

(***************************************************************************)
(* With --failed and --syslog, and gsmsmsrequeue run by cron, every spooled *)
(* file is sent, or its sender is notified after the last retry.           *)
(***************************************************************************)
Resolved ==
  \A f \in File : place[f] = "queue" /\ opt.failed /\ opt.syslog /\ ~faulty
                  ~> place[f] \in {"gone", "bounced"}

=============================================================================
