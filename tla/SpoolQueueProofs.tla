-------------------------- MODULE SpoolQueueProofs --------------------------
(***************************************************************************)
(* Theorems about SpoolQueue, for any files and number of priorities, and  *)
(* every combination of options and faults.                                *)
(***************************************************************************)
EXTENDS SpoolQueue, SequenceTheorems, TLAPS

Directory == {"none", "queue", "sent", "failed", "gone", "bounced"}
Call      == [level : Level, must : SUBSET (File \X Nat), seen : SUBSET (File \X Nat),
              file : File \cup {NoFile}, open : BOOLEAN, since : SUBSET File]

TypeOK ==
  /\ opt \in [sent : BOOLEAN, failed : BOOLEAN, syslog : BOOLEAN]
  /\ faulty \in BOOLEAN
  /\ place \in [File -> Directory]
  /\ level \in [File -> Level]
  /\ retries \in [File -> Nat]
  /\ frames \in Seq(Call)
  /\ sending \in {"no", "sent", "failed"}
  /\ alive \in BOOLEAN
  /\ copies \in [File -> 0..MaxCopies]

\* The calls in progress have consecutive levels, the most urgent last.
Levels ==
  /\ Len(frames) <= IF Priorities = 0 THEN 1 ELSE Priorities
  /\ \A j \in 1..Len(frames) :
       frames[j].level = IF Priorities = 0 THEN 0 ELSE Priorities + 1 - j

\* A file a call is at is in the directory that the call reads.
HeldQueued ==
  \A j \in 1..Len(frames) :
    frames[j].file # NoFile =>
      /\ frames[j].open
      /\ place[frames[j].file] = "queue"
      /\ level[frames[j].file] = frames[j].level

NothingSeen == \A j \in 1..Len(frames) : ~frames[j].open => frames[j].seen = {}

\* Only the innermost call sends, and what it sent is counted.
Sending ==
  sending # "no" => /\ frames # << >> /\ Top.file # NoFile
                    /\ sending = "sent" => copies[Top.file] >= 1

\* Without faults, a file that was sent is being moved, or was.
SentIsGone ==
  ~faulty => \A f \in File :
    /\ copies[f] <= 1
    /\ copies[f] = 1 => \/ place[f] \in {"sent", "gone"}
                        \/ sending = "sent" /\ Top.file = f

\* The call at place j still has to try the file g, or tries it now.
Tries(j, g) ==
  /\ j <= Len(frames)
  /\ frames[j].open => /\ Name(g) \in frames[j].must
                       /\ Name(g) \in frames[j].seen => frames[j].file = g

\* A file that is more urgent than the one a call is at was tried since, or
\* came since, or an inner call still has to try it.
UrgentTried ==
  \A i \in 1..Len(frames), g \in File :
    /\ frames[i].file # NoFile
    /\ place[g] = "queue" /\ level[g] \in 1..(frames[i].level - 1)
    /\ g \notin frames[i].since
    => Tries(Priorities + 1 - level[g], g)

\* A file that left its queue for good, and not as one that failed, was sent.
\* It holds for a file that failed without --failed as well, which stays.
SentBefore == \A f \in File : place[f] \in {"sent", "gone"} => copies[f] >= 1

Inv == TypeOK /\ Levels /\ HeldQueued /\ NothingSeen /\ Sending /\ SentIsGone
       /\ SentBefore /\ UrgentTried

-----------------------------------------------------------------------------
\* The calls of sendSMS, after a file was noted, after the innermost changed,
\* and when new ones begin.
LEMMA NotedCalls ==
  ASSUME NEW frs \in Seq(Call), NEW f \in File
  PROVE  /\ Noting(frs, f) \in Seq(Call)
         /\ Len(Noting(frs, f)) = Len(frs)
         /\ \A j \in 1..Len(frs) : Noting(frs, f)[j] = [frs[j] EXCEPT !.since = @ \cup {f}]
<1>1. DOMAIN frs = 1..Len(frs) /\ Len(frs) \in Nat
  BY LenProperties
<1>2. Noting(frs, f) = [i \in 1..Len(frs) |-> [frs[i] EXCEPT !.since = @ \cup {f}]]
  BY <1>1 DEF Noting
<1>3. \A i \in 1..Len(frs) : [frs[i] EXCEPT !.since = @ \cup {f}] \in Call
  <2> SUFFICES ASSUME NEW i \in 1..Len(frs)
               PROVE  [frs[i] EXCEPT !.since = @ \cup {f}] \in Call
    OBVIOUS
  <2>1. frs[i] \in Call
    BY ElementOfSeq
  <2> QED
    BY <2>1 DEF Call
<1>4. [i \in 1..Len(frs) |-> [frs[i] EXCEPT !.since = @ \cup {f}]] \in Seq(Call)
  BY <1>1, <1>3, IsASeq
<1> QED
  BY <1>1, <1>2, <1>4

LEMMA TopChanged ==
  ASSUME frames \in Seq(Call), frames # << >>, NEW fr \in Call
  PROVE  /\ Len(frames) \in Nat \ {0}
         /\ Top = frames[Len(frames)] /\ Top \in Call
         /\ SetTop(fr) \in Seq(Call)
         /\ Len(SetTop(fr)) = Len(frames)
         /\ \A j \in 1..Len(frames) :
              SetTop(fr)[j] = IF j = Len(frames) THEN fr ELSE frames[j]
<1>1. Len(frames) \in Nat \ {0} /\ Len(frames) \in 1..Len(frames)
  BY EmptySeq
<1>2. Top \in Call
  BY <1>1, ElementOfSeq DEF Top
<1> QED
  BY <1>1, <1>2, ExceptSeq DEF SetTop, Top

LEMMA NewCalls ==
  ASSUME NEW p \in Nat, p <= Priorities, p = 0 => Priorities = 0
  PROVE  /\ Calls(p) \in Seq(Call)
         /\ Len(Calls(p)) = IF p = 0 THEN 1 ELSE p
         /\ \A j \in 1..Len(Calls(p)) :
              Calls(p)[j] = NewFrame(IF p = 0 THEN 0 ELSE p + 1 - j)
<1>1. \A l \in Level : NewFrame(l) \in Call
  BY DEF NewFrame, Call
<1>2. CASE p = 0
  BY <1>1, <1>2 DEF Calls, Level
<1>3. CASE p # 0
  <2>1. \A j \in 1..p : NewFrame(p + 1 - j) \in Call
    BY <1>1, <1>3, SpoolQueueAssumption DEF Level
  <2>2. [i \in 1..p |-> NewFrame(p + 1 - i)] \in Seq(Call)
    BY <2>1, IsASeq
  <2> QED
    BY <1>3, <2>2 DEF Calls
<1> QED
  BY <1>2, <1>3

\* What a step leaves of the call at place j.
SameRest(j) ==
  /\ frames'[j].level = frames[j].level /\ frames'[j].open = frames[j].open
  /\ frames'[j].must = frames[j].must /\ frames'[j].seen = frames[j].seen

\* One call moves on to the next file after it noted the one it was at.
LEMMA FileDone ==
  ASSUME TypeOK, frames # << >>, Top.file # NoFile, Next1File
  PROVE  /\ frames' \in Seq(Call) /\ Len(frames') = Len(frames)
         /\ \A j \in 1..Len(frames) :
              /\ SameRest(j)
              /\ frames'[j].since = frames[j].since \cup {Top.file}
              /\ frames'[j].file = IF j = Len(frames) THEN NoFile ELSE frames[j].file
<1> DEFINE done == [Top EXCEPT !.file = NoFile]
<1>1. frames \in Seq(Call)
  BY DEF TypeOK
<1>2. Top \in Call /\ Len(frames) \in Nat \ {0} /\ Top = frames[Len(frames)]
  <2>1. NewFrame(CHOOSE l \in Level : TRUE) \in Call
    BY SpoolQueueAssumption DEF NewFrame, Call, Level
  <2> QED
    BY <1>1, <2>1, TopChanged
<1>3. Top.file \in File /\ done \in Call
  BY <1>2 DEF Call
<1> HIDE DEF done
<1>4. /\ SetTop(done) \in Seq(Call) /\ Len(SetTop(done)) = Len(frames)
      /\ \A j \in 1..Len(frames) :
           SetTop(done)[j] = IF j = Len(frames) THEN done ELSE frames[j]
  BY <1>1, <1>3, TopChanged
<1>5. frames' = Noting(SetTop(done), Top.file)
  BY DEF Next1File, done
<1>6. /\ frames' \in Seq(Call) /\ Len(frames') = Len(frames)
      /\ \A j \in 1..Len(frames) :
           frames'[j] = [SetTop(done)[j] EXCEPT !.since = @ \cup {Top.file}]
  BY <1>3, <1>4, <1>5, NotedCalls
<1>7. ASSUME NEW j \in 1..Len(frames)
      PROVE  /\ SameRest(j)
             /\ frames'[j].since = frames[j].since \cup {Top.file}
             /\ frames'[j].file = IF j = Len(frames) THEN NoFile ELSE frames[j].file
  <2>1. frames[j] \in Call
    BY <1>1, ElementOfSeq
  <2>2. CASE j = Len(frames)
    <3>1. frames'[j] = [done EXCEPT !.since = @ \cup {Top.file}]
      BY <1>4, <1>6, <2>2
    <3>2. /\ done.level = frames[j].level /\ done.open = frames[j].open
          /\ done.must = frames[j].must /\ done.seen = frames[j].seen
          /\ done.since = frames[j].since /\ done.file = NoFile
      BY <1>2, <2>1, <2>2 DEF done, Call
    <3> QED
      BY <1>3, <2>2, <3>1, <3>2 DEF Call, SameRest
  <2>3. CASE j # Len(frames)
    <3>1. frames'[j] = [frames[j] EXCEPT !.since = @ \cup {Top.file}]
      BY <1>4, <1>6, <2>3
    <3> QED
      BY <1>3, <2>1, <2>3, <3>1 DEF Call, SameRest
  <2> QED
    BY <2>2, <2>3
<1> QED
  BY <1>6, <1>7

-----------------------------------------------------------------------------
LEMMA InvInit == Init => Inv
<1> SUFFICES ASSUME Init PROVE Inv
  OBVIOUS
<1>1. TypeOK
  <2>1. (CHOOSE p \in Level : TRUE) \in Level
    BY SpoolQueueAssumption DEF Level
  <2>2. frames \in Seq(Call)
    BY DEF Init
  <2> QED
    BY <2>1, <2>2, SpoolQueueAssumption DEF Init, TypeOK, Directory, MaxCopies
<1>2. Levels /\ HeldQueued /\ NothingSeen /\ UrgentTried
  BY SpoolQueueAssumption DEF Init, Levels, HeldQueued, NothingSeen, UrgentTried
<1>3. Sending /\ SentIsGone /\ SentBefore
  BY DEF Init, Sending, SentIsGone, SentBefore
<1> QED
  BY <1>1, <1>2, <1>3 DEF Inv

\* sendSMS is called, and calls itself for the more urgent levels.
LEMMA ScanStep == Inv /\ Scan => Inv'
<1> SUFFICES ASSUME Inv, Scan PROVE Inv'
  OBVIOUS
<1> DEFINE l(j) == IF Priorities = 0 THEN 0 ELSE Priorities + 1 - j
<1>1. /\ frames' \in Seq(Call)
      /\ Len(frames') = IF Priorities = 0 THEN 1 ELSE Priorities
      /\ \A j \in 1..Len(frames') : frames'[j] = NewFrame(l(j))
  BY NewCalls, SpoolQueueAssumption DEF Scan
<1>2. sending' = "no"
  BY DEF Inv, TypeOK, Sending, Scan
<1>3. TypeOK'
  BY <1>1, <1>2 DEF Inv, TypeOK, Scan
<1>4. Levels' /\ HeldQueued' /\ NothingSeen' /\ UrgentTried'
  <2>1. \A j \in 1..Len(frames') : /\ frames'[j].level = l(j) /\ frames'[j].file = NoFile
                                   /\ frames'[j].seen = {}
    <3>1. \A p : NewFrame(p).level = p /\ NewFrame(p).file = NoFile /\ NewFrame(p).seen = {}
      BY DEF NewFrame
    <3> QED
      BY <1>1, <3>1
  <2>2. Levels'
    <3>1. Len(frames') <= IF Priorities = 0 THEN 1 ELSE Priorities
      BY <1>1, SpoolQueueAssumption
    <3> QED
      BY <2>1, <3>1 DEF Levels
  <2> QED
    BY <2>1, <2>2 DEF HeldQueued, NothingSeen, UrgentTried
<1>5. Sending' /\ SentIsGone' /\ SentBefore'
  BY <1>2 DEF Inv, Sending, SentIsGone, SentBefore, Scan, TypeOK
<1> QED
  BY <1>3, <1>4, <1>5 DEF Inv

\* opendir
LEMMA OpenDirStep == Inv /\ OpenDir => Inv'
<1> SUFFICES ASSUME Inv, OpenDir PROVE Inv'
  OBVIOUS
<1> DEFINE n  == Len(frames)
           fr == [Top EXCEPT !.open = TRUE, !.must = {Name(f) : f \in Queue(Top.level)}]
<1>0. frames \in Seq(Call) /\ frames # << >>
  BY DEF Inv, TypeOK, OpenDir
<1>u. /\ opt' = opt /\ faulty' = faulty /\ place' = place /\ level' = level
      /\ retries' = retries /\ sending' = sending /\ alive' = alive /\ copies' = copies
      /\ ~Top.open
  BY DEF OpenDir
<1>1. n \in Nat \ {0} /\ Top = frames[n] /\ Top \in Call
  BY <1>0, EmptySeq, ElementOfSeq DEF Top
<1>2. {Name(f) : f \in Queue(Top.level)} \in SUBSET (File \X Nat)
  BY DEF Name, Queue, Inv, TypeOK
<1>3. /\ fr \in Call /\ fr.level = Top.level /\ fr.file = Top.file /\ fr.open
      /\ fr.seen = Top.seen /\ fr.since = Top.since
      /\ fr.must = {Name(f) : f \in Queue(Top.level)}
  BY <1>1, <1>2 DEF Call
<1>4. Top.file = NoFile /\ Top.seen = {} /\ Top.level = IF Priorities = 0 THEN 0 ELSE Priorities + 1 - n
  BY <1>1, <1>u DEF Inv, HeldQueued, NothingSeen, Levels
<1> HIDE DEF fr
<1>5. /\ frames' \in Seq(Call) /\ Len(frames') = n
      /\ \A j \in 1..n : frames'[j] = IF j = n THEN fr ELSE frames[j]
  BY <1>0, <1>3, TopChanged DEF OpenDir, fr
<1>6. sending' = "no" /\ sending = "no"
  BY <1>4, <1>u DEF Inv, TypeOK, Sending
<1>7. TypeOK'
  BY <1>5, <1>u DEF Inv, TypeOK
<1>8. Levels' /\ HeldQueued' /\ NothingSeen'
  BY <1>1, <1>3, <1>4, <1>5, <1>u DEF Inv, Levels, HeldQueued, NothingSeen
<1>9. Sending' /\ SentIsGone' /\ SentBefore'
  BY <1>6, <1>u DEF Inv, Sending, SentIsGone, SentBefore
<1>10. ASSUME NEW i \in 1..n, NEW g \in File, frames'[i].file # NoFile,
              place[g] = "queue", level[g] \in 1..(frames'[i].level - 1),
              g \notin frames'[i].since,
              NEW j, j = Priorities + 1 - level[g]
       PROVE  Tries(j, g)'
  <2>0. i # n /\ frames'[i] = frames[i]
    BY <1>3, <1>4, <1>5, <1>10
  <2>1. Tries(j, g)
    BY <2>0, <1>10 DEF Inv, UrgentTried
  <2>2. level[g] \in Nat /\ level[g] # 0 /\ level[g] <= Priorities /\ j \in Nat \ {0}
        /\ Priorities # 0
    BY <1>10, SpoolQueueAssumption DEF Inv, TypeOK, Level
  <2>3. CASE j = n
    <3>1. level[g] = Top.level
      BY <1>1, <1>4, <1>10, <2>2, <2>3, SpoolQueueAssumption
    <3>2. Name(g) \in fr.must /\ Name(g) \notin fr.seen
      BY <1>3, <1>4, <1>10, <3>1 DEF Queue
    <3> QED
      BY <1>1, <1>5, <1>u, <2>3, <3>2 DEF Tries, Name
  <2>4. CASE j # n
    <3>1. j \in 1..n /\ frames'[j] = frames[j]
      BY <1>1, <1>5, <2>1, <2>2, <2>4 DEF Tries
    <3> QED
      BY <1>5, <1>u, <2>1, <3>1 DEF Tries, Name
  <2> QED
    BY <2>3, <2>4
<1>11. UrgentTried'
  BY <1>5, <1>10, <1>u DEF UrgentTried
<1> QED
  BY <1>7, <1>8, <1>9, <1>11 DEF Inv

\* readdir returned a file.  The more urgent levels are then read again.
LEMMA TakeFileStep ==
  ASSUME Inv, NEW f \in File, TakeFile(f)
  PROVE  Inv'
<1> DEFINE n    == Len(frames)
           fr   == [Top EXCEPT !.file = f, !.seen = @ \cup {Name(f)}, !.since = {}]
           deep == IF Top.level > 1 THEN Calls(Top.level - 1) ELSE << >>
<1>0. frames \in Seq(Call) /\ frames # << >>
  BY DEF Inv, TypeOK, TakeFile
<1>u. /\ opt' = opt /\ faulty' = faulty /\ place' = place /\ level' = level
      /\ retries' = retries /\ sending' = sending /\ alive' = alive /\ copies' = copies
      /\ Top.open /\ Top.file = NoFile
      /\ place[f] = "queue" /\ level[f] = Top.level
      /\ frames' = SetTop(fr) \o deep
  BY DEF TakeFile, Queue
<1>1. n \in Nat \ {0} /\ Top = frames[n] /\ Top \in Call
  BY <1>0, EmptySeq, ElementOfSeq DEF Top
<1>2. Name(f) \in File \X Nat
  BY DEF Name, Inv, TypeOK
<1>3. /\ fr \in Call /\ fr.level = Top.level /\ fr.file = f /\ fr.open
      /\ fr.seen = Top.seen \cup {Name(f)} /\ fr.must = Top.must
  BY <1>1, <1>2, <1>u DEF Call
<1>4. Top.level = IF Priorities = 0 THEN 0 ELSE Priorities + 1 - n
  BY <1>1 DEF Inv, Levels
<1>5. n <= IF Priorities = 0 THEN 1 ELSE Priorities
  BY DEF Inv, Levels
<1> HIDE DEF fr
<1>6. /\ SetTop(fr) \in Seq(Call) /\ Len(SetTop(fr)) = n
      /\ \A j \in 1..n : SetTop(fr)[j] = IF j = n THEN fr ELSE frames[j]
  BY <1>0, <1>3, TopChanged
<1>7. /\ deep \in Seq(Call)
      /\ Len(deep) = IF Top.level > 1 THEN Top.level - 1 ELSE 0
      /\ \A j \in 1..Len(deep) : deep[j] = NewFrame(Top.level - j)
  <2>1. CASE Top.level > 1
    <3>1. Top.level - 1 \in Nat \ {0} /\ Top.level - 1 <= Priorities
      BY <1>1, <1>4, <1>5, <2>1, SpoolQueueAssumption
    <3>2. /\ Calls(Top.level - 1) \in Seq(Call)
          /\ Len(Calls(Top.level - 1)) = Top.level - 1
          /\ \A j \in 1..Len(Calls(Top.level - 1)) :
               Calls(Top.level - 1)[j] = NewFrame(Top.level - 1 + 1 - j)
      BY <3>1, NewCalls
    <3>3. \A j \in 1..Len(Calls(Top.level - 1)) : Top.level - 1 + 1 - j = Top.level - j
      BY <1>1, <1>4, <3>2, SpoolQueueAssumption
    <3> QED
      BY <2>1, <3>2, <3>3
  <2>2. CASE ~(Top.level > 1)
    BY <2>2
  <2> QED
    BY <2>1, <2>2
<1> HIDE DEF deep
<1>8. /\ frames' \in Seq(Call) /\ Len(frames') = n + Len(deep) /\ Len(deep) \in Nat
      /\ \A j \in 1..Len(frames') :
           frames'[j] = IF j < n THEN frames[j] ELSE IF j = n THEN fr ELSE NewFrame(Top.level - (j - n))
  <2>1. /\ frames' \in Seq(Call) /\ Len(frames') = n + Len(deep) /\ Len(deep) \in Nat
        /\ \A j \in 1..(n + Len(deep)) :
             frames'[j] = IF j <= n THEN SetTop(fr)[j] ELSE deep[j - n]
    <3>1. /\ SetTop(fr) \o deep \in Seq(Call)
          /\ Len(SetTop(fr) \o deep) = Len(SetTop(fr)) + Len(deep)
          /\ \A j \in 1..(Len(SetTop(fr)) + Len(deep)) : (SetTop(fr) \o deep)[j] =
               IF j <= Len(SetTop(fr)) THEN SetTop(fr)[j] ELSE deep[j - Len(SetTop(fr))]
      BY <1>6, <1>7, ConcatProperties
    <3>2. Len(deep) \in Nat
      BY <1>7, LenProperties
    <3> QED
      BY <1>6, <1>u, <3>1, <3>2
  <2>2. ASSUME NEW j \in 1..(n + Len(deep))
        PROVE  frames'[j] = IF j < n THEN frames[j]
                            ELSE IF j = n THEN fr ELSE NewFrame(Top.level - (j - n))
    <3>1. CASE j <= n
      BY <1>1, <1>6, <2>1, <3>1
    <3>2. CASE j > n
      <4>1. j - n \in 1..Len(deep) /\ frames'[j] = deep[j - n]
        BY <1>1, <2>1, <3>2
      <4> QED
        BY <1>1, <1>7, <3>2, <4>1
    <3> QED
      BY <1>1, <2>1, <3>1, <3>2
  <2> QED
    BY <2>1, <2>2
<1>9. \A p : NewFrame(p).level = p /\ NewFrame(p).file = NoFile /\ NewFrame(p).seen = {}
             /\ ~NewFrame(p).open
  BY DEF NewFrame
<1>10. sending' = "no" /\ sending = "no"
  BY <1>u DEF Inv, TypeOK, Sending
<1>11. TypeOK'
  BY <1>8, <1>u DEF Inv, TypeOK
<1>12. Levels'
  <2>1. \A j \in 1..Len(frames') : frames'[j].level = IF Priorities = 0 THEN 0 ELSE Priorities + 1 - j
    <3> SUFFICES ASSUME NEW j \in 1..Len(frames')
                 PROVE  frames'[j].level = IF Priorities = 0 THEN 0 ELSE Priorities + 1 - j
      OBVIOUS
    <3>1. CASE j < n
      BY <1>1, <1>8, <3>1 DEF Inv, Levels
    <3>2. CASE j = n
      BY <1>3, <1>4, <1>8, <3>2
    <3>3. CASE j > n
      <4>1. frames'[j].level = Top.level - (j - n)
        BY <1>1, <1>8, <1>9, <3>3
      <4>2. Priorities # 0
        BY <1>1, <1>4, <1>7, <1>8, <3>3
      <4> QED
        BY <1>1, <1>4, <1>8, <4>1, <4>2, SpoolQueueAssumption
    <3> QED
      BY <1>1, <3>1, <3>2, <3>3
  <2>2. Len(frames') <= IF Priorities = 0 THEN 1 ELSE Priorities
    BY <1>1, <1>4, <1>5, <1>7, <1>8, SpoolQueueAssumption
  <2> QED
    BY <2>1, <2>2 DEF Levels
<1>13. HeldQueued' /\ NothingSeen'
  BY <1>1, <1>3, <1>8, <1>9, <1>u DEF Inv, HeldQueued, NothingSeen
<1>14. Sending' /\ SentIsGone' /\ SentBefore'
  BY <1>10, <1>u DEF Inv, Sending, SentIsGone, SentBefore
<1>15. ASSUME NEW i \in 1..Len(frames'), NEW g \in File, frames'[i].file # NoFile,
              place[g] = "queue", level[g] \in 1..(frames'[i].level - 1),
              g \notin frames'[i].since,
              NEW j, j = Priorities + 1 - level[g]
       PROVE  Tries(j, g)'
  <2>1. i <= n
    BY <1>1, <1>8, <1>9, <1>15
  <2>2. level[g] \in Nat /\ level[g] # 0 /\ level[g] <= Priorities /\ j \in Nat \ {0}
        /\ Priorities # 0
    BY <1>15, SpoolQueueAssumption DEF Inv, TypeOK, Level
  <2>3. CASE i = n
    <3>0. frames'[i] = fr
      BY <1>1, <1>8, <1>15, <2>3
    <3>1. level[g] < Top.level
      <4>1. level[g] \in 1..(Top.level - 1)
        BY <1>3, <1>15, <3>0
      <4>2. Top.level \in Int
        BY <1>1, <1>4, SpoolQueueAssumption
      <4> QED
        BY <4>1, <4>2
    <3>2. j > n /\ j <= Len(frames')
      <4>1. Top.level = Priorities + 1 - n /\ Top.level > 1
        BY <1>1, <1>4, <2>2, <3>1, SpoolQueueAssumption
      <4>2. Len(frames') = Priorities
        BY <1>1, <1>7, <1>8, <4>1, SpoolQueueAssumption
      <4> QED
        BY <1>1, <1>15, <2>2, <3>1, <4>1, <4>2, SpoolQueueAssumption
    <3>3. ~frames'[j].open
      BY <1>1, <1>8, <1>9, <3>2, <2>2
    <3> QED
      BY <3>2, <3>3 DEF Tries
  <2>4. CASE i < n
    <3>1. frames'[i] = frames[i] /\ i \in 1..n
      BY <1>1, <1>8, <2>4, <1>15
    <3>2. Tries(j, g)
      BY <1>15, <3>1 DEF Inv, UrgentTried
    <3>3. j <= n
      BY <3>2 DEF Tries
    <3>4. CASE j < n
      <4>1. frames'[j] = frames[j] /\ j <= Len(frames')
        BY <1>1, <1>8, <2>2, <3>4
      <4> QED
        BY <1>u, <3>2, <4>1 DEF Tries, Name
    <3>5. CASE j = n
      <4>0. g # NoFile
        BY SpoolQueueAssumption
      <4>1. Name(g) \in Top.must /\ Name(g) \notin Top.seen
        BY <1>1, <1>u, <3>2, <3>5, <4>0 DEF Tries
      <4>2. Name(g) = Name(f) => g = f
        BY DEF Name
      <4>3. frames'[j] = fr /\ j <= Len(frames')
        BY <1>1, <1>8, <3>5
      <4>4. Name(g) \in fr.must /\ (Name(g) \in fr.seen => fr.file = g)
        BY <1>3, <4>1, <4>2
      <4> QED
        BY <1>u, <4>3, <4>4 DEF Tries, Name
    <3> QED
      BY <1>1, <2>2, <3>3, <3>4, <3>5
  <2> QED
    BY <1>1, <2>1, <2>3, <2>4, <1>15, <1>8
<1>16. UrgentTried'
  BY <1>15, <1>u DEF UrgentTried
<1> QED
  BY <1>11, <1>12, <1>13, <1>14, <1>16 DEF Inv

\* closedir.  What the call still had to try, it tried.
LEMMA CloseDirStep == Inv /\ CloseDir => Inv'
<1> SUFFICES ASSUME Inv, CloseDir PROVE Inv'
  OBVIOUS
<1> DEFINE n == Len(frames)
<1>0. frames \in Seq(Call) /\ frames # << >>
  BY DEF Inv, TypeOK, CloseDir
<1>u. /\ opt' = opt /\ faulty' = faulty /\ place' = place /\ level' = level
      /\ retries' = retries /\ sending' = sending /\ alive' = alive /\ copies' = copies
      /\ Top.open /\ Top.file = NoFile /\ Top.must \subseteq Top.seen
      /\ frames' = SubSeq(frames, 1, n - 1)
  BY DEF CloseDir
<1>1. n \in Nat \ {0} /\ Top = frames[n] /\ Top \in Call
  BY <1>0, EmptySeq, ElementOfSeq DEF Top
<1>2. /\ frames' \in Seq(Call) /\ Len(frames') = n - 1
      /\ \A j \in 1..(n - 1) : frames'[j] = frames[j]
  <2>1. \A j \in 1..(n - 1) : frames[j] \in Call
    BY <1>0, <1>1, ElementOfSeq
  <2>2. /\ SubSeq(frames, 1, n - 1) \in Seq(Call)
        /\ Len(SubSeq(frames, 1, n - 1)) = IF 1 <= n - 1 THEN n - 1 - 1 + 1 ELSE 0
        /\ \A j \in 1..(n - 1 - 1 + 1) : SubSeq(frames, 1, n - 1)[j] = frames[1 + j - 1]
    BY <1>1, <2>1, SubSeqProperties
  <2>3. n - 1 - 1 + 1 = n - 1 /\ \A j \in 1..(n - 1) : 1 + j - 1 = j
    BY <1>1
  <2> QED
    BY <1>1, <1>u, <2>2, <2>3
<1>3. sending' = "no" /\ sending = "no"
  BY <1>u DEF Inv, TypeOK, Sending
<1>4. TypeOK'
  BY <1>2, <1>u DEF Inv, TypeOK
<1>5. Levels' /\ HeldQueued' /\ NothingSeen'
  <2>1. Len(frames') <= IF Priorities = 0 THEN 1 ELSE Priorities
    BY <1>1, <1>2, SpoolQueueAssumption DEF Inv, Levels
  <2>2. \A j \in 1..Len(frames') : j \in 1..n /\ frames'[j] = frames[j]
    BY <1>1, <1>2
  <2>3. Levels'
    BY <2>1, <2>2 DEF Inv, Levels
  <2> QED
    BY <1>u, <2>2, <2>3 DEF Inv, HeldQueued, NothingSeen
<1>6. Sending' /\ SentIsGone' /\ SentBefore'
  BY <1>3, <1>u DEF Inv, Sending, SentIsGone, SentBefore
<1>7. ASSUME NEW i \in 1..(n - 1), NEW g \in File, frames'[i].file # NoFile,
             place[g] = "queue", level[g] \in 1..(frames'[i].level - 1),
             g \notin frames'[i].since,
             NEW j, j = Priorities + 1 - level[g]
      PROVE  Tries(j, g)'
  <2>1. frames'[i] = frames[i] /\ i \in 1..n
    BY <1>1, <1>2
  <2>2. Tries(j, g)
    BY <1>7, <2>1 DEF Inv, UrgentTried
  <2>3. j \in Nat \ {0}
    BY <1>7, SpoolQueueAssumption DEF Inv, TypeOK, Level
  <2>4. j # n
    BY <1>1, <1>u, <1>7, <2>2, SpoolQueueAssumption DEF Tries
  <2>5. j \in 1..(n - 1)
    BY <1>1, <2>2, <2>3, <2>4 DEF Tries
  <2> QED
    BY <1>2, <1>u, <2>2, <2>5 DEF Tries, Name
<1>8. UrgentTried'
  BY <1>2, <1>7, <1>u DEF UrgentTried
<1> QED
  BY <1>4, <1>5, <1>6, <1>8 DEF Inv

\* The innermost call sends the file it is at.
LEMMA SendStep == Inv /\ Send => Inv'
<1> SUFFICES ASSUME Inv, Send PROVE Inv'
  OBVIOUS
<1>0. frames \in Seq(Call) /\ frames # << >>
  BY DEF Inv, TypeOK, Send
<1>1. Len(frames) \in Nat \ {0} /\ Top = frames[Len(frames)] /\ Top \in Call
  BY <1>0, EmptySeq, ElementOfSeq DEF Top
<1>u. /\ opt' = opt /\ faulty' = faulty /\ place' = place /\ level' = level
      /\ retries' = retries /\ frames' = frames /\ alive' = alive
      /\ Top.file # NoFile /\ sending = "no" /\ frames # << >> /\ Top' = Top
      /\ \/ sending' = "sent" /\ Sent(Top.file)
         \/ sending' = "failed" /\ copies' = copies
         \/ sending' = "failed" /\ faulty /\ Sent(Top.file)
  BY DEF Send, Top
<1>2. Top.file \in File
  BY <1>1, <1>u DEF Call
<1>3. place[Top.file] = "queue"
  BY <1>1, <1>u DEF Inv, HeldQueued
<1>4. /\ copies' \in [File -> 0..MaxCopies]
      /\ \A f \in File : copies'[f] >= copies[f]
      /\ sending' = "sent" => copies'[Top.file] >= 1
      /\ \A f \in File : f # Top.file => copies'[f] = copies[f]
      /\ ~faulty => copies'[Top.file] <= copies[Top.file] + 1
      /\ ~faulty /\ sending' # "sent" => copies' = copies
  <2>1. copies \in [File -> 0..2] /\ MaxCopies = 2
    BY DEF Inv, TypeOK, MaxCopies
  <2>2. CASE sending' = "failed" /\ copies' = copies
    BY <1>2, <2>1, <2>2
  <2>3. CASE Sent(Top.file) /\ (sending' # "sent" => faulty)
    <3>1. copies' = [copies EXCEPT ![Top.file] = IF @ < 2 THEN @ + 1 ELSE @]
      BY <2>1, <2>3 DEF Sent
    <3> HIDE <1>u
    <3> QED
      BY <1>2, <2>1, <2>3, <3>1
  <2> QED
    BY <1>u, <2>2, <2>3
<1>5. TypeOK'
  BY <1>4, <1>u DEF Inv, TypeOK
<1>6. Levels' /\ HeldQueued' /\ NothingSeen' /\ UrgentTried'
  BY <1>u DEF Inv, Levels, HeldQueued, NothingSeen, UrgentTried, Tries, Name
<1>7. Sending' /\ SentBefore'
  BY <1>3, <1>4, <1>u DEF Inv, TypeOK, MaxCopies, Sending, SentBefore
<1>8. SentIsGone'
  <2> SUFFICES ASSUME ~faulty, NEW f \in File
               PROVE  /\ copies'[f] <= 1
                      /\ copies'[f] = 1 => \/ place[f] \in {"sent", "gone"}
                                           \/ sending' = "sent" /\ Top.file = f
    BY <1>u DEF SentIsGone
  <2>1. /\ copies[f] \in 0..1
        /\ copies[f] = 1 => place[f] \in {"sent", "gone"}
    BY <1>u DEF Inv, TypeOK, SentIsGone, MaxCopies
  <2>2. CASE f = Top.file
    <3>1. copies[f] = 0
      BY <1>3, <2>1, <2>2
    <3>2. copies'[f] \in 0..1
      BY <1>4, <2>2, <3>1 DEF MaxCopies
    <3> QED
      BY <1>4, <2>2, <3>1, <3>2
  <2>3. CASE f # Top.file
    BY <1>4, <2>1, <2>3
  <2> QED
    BY <2>2, <2>3
<1> QED
  BY <1>5, <1>6, <1>7, <1>8 DEF Inv

\* After the attempt the file is moved or stays, and is noted as tried.
LEMMA DoneStep ==
  ASSUME Inv, sending # "no", sending' = "no", Next1File,
         NEW dir \in {"sent", "gone", "failed"}, dir # "failed" <=> sending = "sent",
         place' = [place EXCEPT ![Top.file] = dir] \/ (place' = place /\ (sending = "sent" => faulty)),
         UNCHANGED <<opt, faulty, level, retries, alive, copies>>
  PROVE  Inv'
<1> DEFINE n == Len(frames)
           f == Top.file
<1>0. frames \in Seq(Call) /\ frames # << >> /\ Top.file # NoFile
  BY DEF Inv, TypeOK, Sending
<1>1. n \in Nat \ {0} /\ Top = frames[n] /\ Top \in Call /\ n \in 1..n
  BY <1>0, EmptySeq, ElementOfSeq DEF Top
<1>2. f \in File
  BY <1>0, <1>1 DEF Call
<1>3. /\ frames' \in Seq(Call) /\ Len(frames') = n
      /\ \A j \in 1..n : /\ SameRest(j)
                         /\ frames'[j].since = frames[j].since \cup {f}
                         /\ frames'[j].file = IF j = n THEN NoFile ELSE frames[j].file
  BY <1>0, FileDone DEF Inv
<1>4. place' \in [File -> Directory] /\ \A g \in File : g # f => place'[g] = place[g]
  BY <1>2 DEF Inv, TypeOK, Directory
<1>5. TypeOK'
  BY <1>3, <1>4 DEF Inv, TypeOK
<1>6. Levels' /\ NothingSeen'
  BY <1>3 DEF Inv, Levels, NothingSeen, SameRest
<1>7. HeldQueued'
  <2> SUFFICES ASSUME NEW j \in 1..n, frames'[j].file # NoFile
               PROVE  /\ frames'[j].open
                      /\ place'[frames'[j].file] = "queue"
                      /\ level[frames'[j].file] = frames'[j].level
    BY <1>3 DEF HeldQueued
  <2>1. j # n /\ frames'[j].file = frames[j].file /\ SameRest(j)
    BY <1>3
  <2>2. /\ frames[j].open /\ place[frames[j].file] = "queue"
        /\ level[frames[j].file] = frames[j].level
    BY <2>1 DEF Inv, HeldQueued
  <2>3. frames[j].file \in File
    <3>1. frames[j] \in Call
      BY <1>0, ElementOfSeq
    <3> QED
      BY <1>3, <2>1, <3>1 DEF Call
  <2>4. frames[j].file # f
    <3>1. level[f] = frames[n].level
      BY <1>0, <1>1 DEF Inv, HeldQueued
    <3>2. frames[j].level # frames[n].level
      BY <1>1, <2>1, SpoolQueueAssumption DEF Inv, Levels
    <3> QED
      BY <2>2, <3>1, <3>2
  <2> QED
    BY <1>4, <2>1, <2>2, <2>3, <2>4 DEF SameRest
<1>8. Sending'
  BY DEF Sending
<1>9. sending = "sent" => copies[f] >= 1
  BY DEF Inv, Sending
<1>10. place'[f] \in {"sent", "gone"} => sending = "sent"
  <2>1. place[f] = "queue"
    BY <1>0, <1>1 DEF Inv, HeldQueued
  <2> QED
    BY <1>2, <2>1 DEF Inv, TypeOK
<1>11. SentBefore'
  BY <1>4, <1>9, <1>10 DEF Inv, SentBefore
<1>12. SentIsGone'
  <2> SUFFICES ASSUME ~faulty, NEW g \in File
               PROVE  copies[g] <= 1 /\ (copies[g] = 1 => place'[g] \in {"sent", "gone"})
    BY DEF SentIsGone
  <2>1. /\ copies[g] <= 1
        /\ copies[g] = 1 => place[g] \in {"sent", "gone"} \/ (sending = "sent" /\ g = f)
    BY DEF Inv, SentIsGone
  <2>2. CASE g = f
    <3>1. place[g] = "queue"
      BY <1>0, <1>1, <2>2 DEF Inv, HeldQueued
    <3>2. copies[g] = 1 => sending = "sent" /\ dir # "failed"
      BY <2>1, <3>1
    <3> QED
      BY <1>2, <2>1, <2>2, <3>2 DEF Inv, TypeOK
  <2>3. CASE g # f
    BY <1>4, <2>1, <2>3
  <2> QED
    BY <2>2, <2>3
<1>13. ASSUME NEW i \in 1..n, NEW g \in File, frames'[i].file # NoFile,
              place'[g] = "queue", level[g] \in 1..(frames'[i].level - 1),
              g \notin frames'[i].since,
              NEW j, j = Priorities + 1 - level[g]
       PROVE  Tries(j, g)'
  <2>1. /\ i # n /\ frames'[i].file = frames[i].file /\ frames'[i].level = frames[i].level
        /\ g \notin frames[i].since /\ g # f
    BY <1>3, <1>13 DEF SameRest
  <2>2. Tries(j, g)
    BY <1>4, <1>13, <2>1 DEF Inv, UrgentTried
  <2>3. j \in Nat \ {0}
    BY <1>13, SpoolQueueAssumption DEF Inv, TypeOK, Level
  <2>4. j \in 1..n /\ SameRest(j) /\ frames'[j].file = IF j = n THEN NoFile ELSE frames[j].file
    BY <1>1, <1>3, <2>2, <2>3 DEF Tries
  <2>5. j = n => frames[j].file = f
    BY <1>1
  <2>6. Name(g)' = Name(g)
    BY DEF Name
  <2> QED
    BY <1>3, <2>1, <2>2, <2>4, <2>5, <2>6 DEF Tries, SameRest
<1>14. UrgentTried'
  BY <1>3, <1>13 DEF UrgentTried
<1> QED
  BY <1>5, <1>6, <1>7, <1>8, <1>11, <1>12, <1>14 DEF Inv

\* sendSMS leaves all its calls: the program has ended.
LEMMA EndStep ==
  ASSUME Inv, frames' = << >>, sending' = "no", alive' = FALSE, faulty' \/ sending # "sent",
         UNCHANGED <<opt, faulty, place, level, retries, copies>>
  PROVE  Inv'
<1>1. frames' \in Seq(Call) /\ Len(frames') = 0
  BY EmptySeq
<1>2. TypeOK'
  BY <1>1 DEF Inv, TypeOK
<1>4. 1..Len(frames') = {}
  BY <1>1
<1>5. HeldQueued' /\ NothingSeen' /\ UrgentTried' /\ Sending'
  BY <1>4 DEF HeldQueued, NothingSeen, UrgentTried, Sending
<1>6. Levels'
  BY <1>1, <1>4, SpoolQueueAssumption DEF Levels
<1>3. SentIsGone' /\ SentBefore'
  BY DEF Inv, SentIsGone, SentBefore
<1> QED
  BY <1>2, <1>3, <1>5, <1>6 DEF Inv

\* A file comes to a queue, and every call notes that it did.
LEMMA QueuedStep ==
  ASSUME Inv, NEW f \in File, place[f] \in {"none", "failed"},
         place' = [place EXCEPT ![f] = "queue"],
         frames' = Noting(frames, f),
         level' \in [File -> Level], \A g \in File : g # f => level'[g] = level[g],
         retries' \in [File -> Nat], \A g \in File : g # f => retries'[g] = retries[g],
         UNCHANGED <<opt, faulty, sending, alive, copies>>
  PROVE  Inv'
<1>1. /\ frames' \in Seq(Call) /\ Len(frames') = Len(frames)
      /\ \A j \in 1..Len(frames) : frames'[j] = [frames[j] EXCEPT !.since = @ \cup {f}]
  <2>1. frames \in Seq(Call)
    BY DEF Inv, TypeOK
  <2>2. frames' = Noting(frames, f)
    OBVIOUS
  <2> QED
    <3>1. /\ Noting(frames, f) \in Seq(Call) /\ Len(Noting(frames, f)) = Len(frames)
          /\ \A j \in 1..Len(frames) : Noting(frames, f)[j] = [frames[j] EXCEPT !.since = @ \cup {f}]
      BY <2>1, NotedCalls
    <3> QED
      BY <2>2, <3>1, Zenon
<1>2. ASSUME NEW j \in 1..Len(frames)
      PROVE  /\ frames[j] \in Call /\ SameRest(j) /\ frames'[j].file = frames[j].file
             /\ frames'[j].since = frames[j].since \cup {f}
             /\ frames[j].file # f
  <2>1. frames[j] \in Call
    BY ElementOfSeq DEF Inv, TypeOK
  <2>2. frames[j].file # f
    BY SpoolQueueAssumption DEF Inv, HeldQueued
  <2> QED
    BY <1>1, <2>1, <2>2 DEF Call, SameRest
<1>3. place' \in [File -> Directory] /\ place'[f] = "queue" /\ \A g \in File : g # f => place'[g] = place[g]
  BY DEF Inv, TypeOK, Directory
<1>4. TypeOK'
  BY <1>1, <1>3 DEF Inv, TypeOK
<1>5. Levels' /\ NothingSeen'
  BY <1>1, <1>2 DEF Inv, Levels, NothingSeen, SameRest
<1>6. HeldQueued'
  <2> SUFFICES ASSUME NEW j \in 1..Len(frames), frames'[j].file # NoFile
               PROVE  /\ frames'[j].open
                      /\ place'[frames'[j].file] = "queue"
                      /\ level'[frames'[j].file] = frames'[j].level
    BY <1>1 DEF HeldQueued
  <2>1. frames[j].file \in File /\ frames[j].file # f
    BY <1>2 DEF Call
  <2> QED
    BY <1>2, <1>3, <2>1 DEF Inv, HeldQueued, SameRest
<1>7. frames # << >> => /\ frames' # << >> /\ Top'.file = Top.file /\ Top.file # f
  <2> SUFFICES ASSUME frames # << >>
               PROVE  frames' # << >> /\ Top'.file = Top.file /\ Top.file # f
    OBVIOUS
  <2>1. Len(frames) \in 1..Len(frames) /\ Len(frames) # 0
    BY EmptySeq DEF Inv, TypeOK
  <2>2. frames' # << >>
    BY <1>1, <2>1, EmptySeq
  <2> QED
    BY <1>1, <1>2, <2>1, <2>2 DEF Top
<1>8. Sending'
  BY <1>7 DEF Inv, Sending
<1>9. SentBefore'
  BY <1>3 DEF Inv, SentBefore
<1>10. SentIsGone'
  <2> SUFFICES ASSUME ~faulty, NEW g \in File
               PROVE  /\ copies[g] <= 1
                      /\ copies[g] = 1 => \/ place'[g] \in {"sent", "gone"}
                                          \/ sending = "sent" /\ Top'.file = g
    BY DEF SentIsGone
  <2>1. /\ copies[g] <= 1
        /\ copies[g] = 1 => \/ place[g] \in {"sent", "gone"}
                            \/ sending = "sent" /\ Top.file = g
    BY DEF Inv, SentIsGone
  <2>2. sending = "sent" => Top'.file = Top.file /\ Top.file # f
    BY <1>7 DEF Inv, Sending
  <2> QED
    BY <1>3, <2>1, <2>2
<1>11. ASSUME NEW i \in 1..Len(frames), NEW g \in File, frames'[i].file # NoFile,
              place'[g] = "queue", level'[g] \in 1..(frames'[i].level - 1),
              g \notin frames'[i].since,
              NEW j, j = Priorities + 1 - level'[g]
       PROVE  Tries(j, g)'
  <2>1. g # f /\ g \notin frames[i].since /\ frames[i].file # NoFile
        /\ frames'[i].level = frames[i].level
    BY <1>2, <1>11 DEF SameRest
  <2>2. place[g] = "queue" /\ level'[g] = level[g] /\ retries'[g] = retries[g]
    BY <1>3, <1>11, <2>1
  <2>3. Tries(j, g)
    BY <1>11, <2>1, <2>2 DEF Inv, UrgentTried
  <2>4. j \in 1..Len(frames)
    <3>1. j \in Nat \ {0}
      BY <1>11, <2>2, SpoolQueueAssumption DEF Inv, TypeOK, Level
    <3>2. Len(frames) \in Nat
      BY LenProperties DEF Inv, TypeOK
    <3> QED
      BY <2>3, <3>1, <3>2 DEF Tries
  <2>5. Name(g)' = Name(g)
    BY <2>2 DEF Name
  <2> QED
    BY <1>1, <1>2, <2>3, <2>4, <2>5 DEF Tries, SameRest
<1>12. UrgentTried'
  BY <1>1, <1>11 DEF UrgentTried
<1> QED
  BY <1>4, <1>5, <1>6, <1>8, <1>9, <1>10, <1>12 DEF Inv

\* A file that is in no queue is moved by a script.
LEMMA MovedStep ==
  ASSUME Inv, NEW f \in File, NEW dir \in {"bounced", "gone"},
         place[f] = IF dir = "bounced" THEN "failed" ELSE "sent",
         place' = [place EXCEPT ![f] = dir],
         UNCHANGED <<opt, faulty, level, retries, frames, sending, alive, copies>>
  PROVE  Inv'
<1>1. /\ place' \in [File -> Directory] /\ place'[f] = dir
      /\ \A g \in File : g # f => place'[g] = place[g]
  BY DEF Inv, TypeOK, Directory
<1>2. \A j \in 1..Len(frames) : frames[j].file # f
  BY SpoolQueueAssumption DEF Inv, HeldQueued
<1>3. \A j \in 1..Len(frames) : frames[j] \in Call
  BY ElementOfSeq DEF Inv, TypeOK
<1>4. TypeOK' /\ Levels' /\ NothingSeen'
  BY <1>1 DEF Inv, TypeOK, Levels, NothingSeen
<1>5. HeldQueued'
  BY <1>1, <1>2, <1>3 DEF Inv, HeldQueued, Call
<1>6. Sending' /\ SentBefore' /\ SentIsGone'
  <2>1. sending = "sent" => Top.file # f
    <3>1. sending = "sent" => Len(frames) \in 1..Len(frames)
      BY EmptySeq DEF Inv, Sending, TypeOK
    <3> QED
      BY <1>2, <3>1 DEF Top
  <2>2. Top' = Top
    BY DEF Top
  <2>3. Sending' /\ SentBefore'
    BY <1>1, <2>2 DEF Inv, Sending, SentBefore
  <2>4. SentIsGone'
    BY <1>1, <2>1, <2>2 DEF Inv, SentIsGone
  <2> QED
    BY <2>3, <2>4
<1>7. UrgentTried'
  BY <1>1 DEF Inv, UrgentTried, Tries, Name
<1> QED
  BY <1>4, <1>5, <1>6, <1>7 DEF Inv

LEMMA InvNext == Inv /\ [Next]_vars => Inv'
<1> SUFFICES ASSUME Inv, [Next]_vars PROVE Inv'
  OBVIOUS
<1>1. CASE Scan
  BY <1>1, ScanStep
<1>2. CASE OpenDir
  BY <1>2, OpenDirStep
<1>3. ASSUME NEW f \in File, TakeFile(f) PROVE Inv'
  BY <1>3, TakeFileStep
<1>4. CASE CloseDir
  BY <1>4, CloseDirStep
<1>5. CASE Send
  BY <1>5, SendStep
<1>6. CASE Finish
  <2>1. /\ sending # "no" /\ sending' = "no" /\ Next1File
        /\ UNCHANGED <<opt, faulty, level, retries, alive, copies>>
        /\ sending = "sent"
    BY <1>6 DEF Finish
  <2>2. PICK dir \in {"sent", "gone"} : \/ place' = [place EXCEPT ![Top.file] = dir]
                                        \/ faulty /\ place' = place
    BY <1>6 DEF Finish, Moves
  <2> QED
    BY <2>1, <2>2, DoneStep
<1>7. CASE GiveUp
  <2>1. /\ sending = "failed" /\ sending' = "no"
        /\ UNCHANGED <<opt, faulty, level, retries, copies>>
    BY <1>7 DEF GiveUp
  <2>2. CASE opt.syslog
    <3>1. /\ Next1File /\ UNCHANGED alive
          /\ place' = [place EXCEPT ![Top.file] = "failed"] \/ place' = place
      BY <1>7, <2>2 DEF GiveUp, Moves
    <3>2. sending # "no" /\ sending # "sent"
      BY <2>1
    <3> QED
      BY <2>1, <3>1, <3>2, DoneStep
  <2>3. CASE ~opt.syslog
    BY <1>7, <2>1, <2>3, EndStep DEF GiveUp
  <2> QED
    BY <2>2, <2>3
<1>8. ASSUME NEW f \in File, NEW p \in Level, Spool(f, p) PROVE Inv'
  <2>1. /\ level' \in [File -> Level] /\ \A g \in File : g # f => level'[g] = level[g]
        /\ retries' \in [File -> Nat] /\ \A g \in File : g # f => retries'[g] = retries[g]
    BY <1>8 DEF Spool, Inv, TypeOK
  <2> QED
    BY <1>8, <2>1, QueuedStep DEF Spool
<1>9. ASSUME NEW f \in File, Requeue(f) PROVE Inv'
  <2>1. CASE retries[f] >= Retries
    BY <1>9, <2>1, MovedStep DEF Requeue
  <2>2. CASE ~(retries[f] >= Retries)
    <3>1. /\ retries' = [retries EXCEPT ![f] = @ + 1] /\ level' = level
          /\ place' = [place EXCEPT ![f] = "queue"] /\ frames' = Noting(frames, f)
          /\ place[f] = "failed"
          /\ UNCHANGED <<opt, faulty, sending, alive, copies>>
      BY <1>9, <2>2 DEF Requeue
    <3>2. retries' \in [File -> Nat] /\ \A g \in File : g # f => retries'[g] = retries[g]
      BY <3>1 DEF Inv, TypeOK
    <3>3. level' \in [File -> Level] /\ \A g \in File : g # f => level'[g] = level[g]
      BY <3>1 DEF Inv, TypeOK
    <3> QED
      BY <3>1, <3>2, <3>3, QueuedStep
  <2> QED
    BY <2>1, <2>2
<1>10. ASSUME NEW f \in File, NotifySent(f) PROVE Inv'
  BY <1>10, MovedStep DEF NotifySent
<1>11. CASE Crash
  BY <1>11, EndStep DEF Crash
<1>12. CASE Restart
  BY <1>12 DEF Restart, Inv, TypeOK, Levels, HeldQueued, NothingSeen, Sending, SentIsGone,
               SentBefore, UrgentTried, Tries, Name, Top
<1>13. CASE UNCHANGED vars
  BY <1>13 DEF vars, Inv, TypeOK, Levels, HeldQueued, NothingSeen, Sending, SentIsGone,
               SentBefore, UrgentTried, Tries, Name, Top
<1> QED
  BY <1>1, <1>2, <1>3, <1>4, <1>5, <1>6, <1>7, <1>8, <1>9, <1>10, <1>11, <1>12, <1>13
     DEF Next, Daemon, Cron

LEMMA Invariance == Spec => []Inv
  BY InvInit, InvNext, PTL DEF Spec

-----------------------------------------------------------------------------
\* The calls, the directories and the counters keep their types, however
\* many files, levels and retries there are.
THEOREM TypeCorrect == Spec => []TypeOK
<1>1. Inv => TypeOK
  BY DEF Inv
<1> QED
  BY <1>1, Invariance, PTL

\* Without faults no file is sent twice: between the send and the move of a
\* file, no other call and no script takes or requeues it.
THEOREM NoFileSentTwice == Spec => []SentOnce
<1>1. Inv => SentOnce
  BY DEF Inv, SentIsGone, SentOnce
<1> QED
  BY <1>1, Invariance, PTL

\* No failure, crash or script makes a file that was not sent one that was,
\* and, with --failed, removes it.
THEOREM NoFileLost == Spec => []NeverLost
<1>1. Inv => NeverLost
  BY DEF Inv, SentBefore, NeverLost
<1> QED
  BY <1>1, Invariance, PTL

\* Before a file of a less urgent queue is sent, every more urgent one was
\* tried, but for those that came since: the inner calls that had to try
\* them have returned.
THEOREM UrgentFirst == Spec => []PriorityRespected
<1>1. Inv => PriorityRespected
  <2> SUFFICES ASSUME Inv, frames # << >>, Top.file # NoFile, NEW g \in Urgent(Top.level),
                      g \notin Top.since
               PROVE  FALSE
    BY DEF PriorityRespected
  <2> DEFINE n == Len(frames)
  <2>1. n \in 1..n /\ n \in Nat
    BY EmptySeq DEF Inv, TypeOK
  <2>2. /\ g \in File /\ place[g] = "queue" /\ level[g] \in 1..(frames[n].level - 1)
        /\ frames[n].file # NoFile /\ g \notin frames[n].since
    BY DEF Urgent, Top
  <2>3. ASSUME NEW j, j = Priorities + 1 - level[g] PROVE FALSE
    <3>1. Tries(j, g)
      BY <2>1, <2>2, <2>3 DEF Inv, UrgentTried
    <3>2. j <= n
      BY <3>1 DEF Tries
    <3>3. frames[n].level = IF Priorities = 0 THEN 0 ELSE Priorities + 1 - n
      BY <2>1 DEF Inv, Levels
    <3>4. frames[n].level \in Int /\ level[g] \in Int
      BY <2>1, <2>2, <3>3, SpoolQueueAssumption
    <3>5. level[g] < frames[n].level /\ level[g] >= 1
      BY <2>2, <3>4
    <3> QED
      BY <2>1, <2>3, <3>2, <3>3, <3>4, <3>5, SpoolQueueAssumption
  <2> QED
    BY <2>3
<1> QED
  BY <1>1, Invariance, PTL
=============================================================================
