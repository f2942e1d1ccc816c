---------------------------- MODULE GsmAtClient -----------------------------
(***************************************************************************)
(* A program that calls chat, chatv or sendPdu with any command whenever   *)
(* the last one returned, and a TA that answers when it likes and reports  *)
(* every event once: what the programs of the project and their TAs may do *)
(* at most.                                                                *)
(***************************************************************************)
EXTENDS GsmAt

CONSTANT
  MaxPending,  \* bound on the commands and lines a slow TA is behind
  MaxLines     \* bound on the lines of an answer

ASSUME GsmAtClientAssumption == MaxPending \in Nat \ {0} /\ MaxLines \in Nat \ {0}

VARIABLES
  reported,  \* the events the TA reported
  heard,     \* those it reported since the program set its event handler
  said,      \* the information responses of the last command it executed
  late,      \* a call timed out before the TA answered all it was sent
  broken     \* a call failed or timed out

vars == <<atVars, reported, heard, said, late, broken>>

Call(c) ==
  /\ Len(todo) + Len(line) + Len(answering) < MaxPending
  /\ Chat(c)
  /\ UNCHANGED <<reported, heard, said, late, broken>>

Read ==
  /\ GetLine
  /\ broken' = (broken \/ result'.how = "failed")
  /\ UNCHANGED <<reported, heard, said, late>>

GivesUp ==
  /\ TimeOut
  /\ broken' = TRUE
  /\ late' = (late \/ todo # << >> \/ answering # << >>)
  /\ UNCHANGED <<reported, heard, said>>

\* MeTa::setEventHandler, GsmAt::setEventHandler
SetEventHandler ==
  /\ Idle /\ ~listening
  /\ listening' = TRUE
  /\ UNCHANGED <<line, answering, todo, entering, stack, result, sendAck, received, reported,
                 heard, said, late, broken>>

Executes ==
  /\ \E ok \in BOOLEAN, vs \in BoundedSeq(Value, MaxLines) :
       /\ TAExecutes(ok, vs)
       /\ said' = IF answering' = << >> \/ Last(answering').of = Cnma
                  THEN said ELSE Front(answering')
  /\ UNCHANGED <<reported, heard, late, broken>>

Transmits == TATransmits /\ UNCHANGED <<reported, heard, said, late, broken>>

\* A TA that wants acknowledgements reports no message before the last one
\* is acknowledged.
Unacknowledged ==
  \/ \E i \in DOMAIN line : line[i].kind = "event" /\ line[i].of \in Direct
  \/ \E i \in DOMAIN stack : stack[i].cmd = Cnma
  \/ \E i \in DOMAIN todo : todo[i] = Cnma

Reports(e) ==
  /\ e \notin reported
  /\ sendAck /\ e \in Direct => ~Unacknowledged
  /\ TAReports(e)
  /\ reported' = reported \cup {e}
  /\ heard' = IF listening THEN Append(heard, e) ELSE heard
  /\ UNCHANGED <<said, late, broken>>

Init ==
  /\ AtInit
  /\ reported = {} /\ heard = << >> /\ said = << >>
  /\ late = FALSE /\ broken = FALSE

Next ==
  \/ \E c \in Command : Call(c)
  \/ Read \/ GivesUp \/ SetEventHandler
  \/ Executes \/ Transmits
  \/ \E e \in Event : Reports(e)

\* The program goes on reading until the port's time-out, and the TA
\* executes every command and sends the whole answer.
Fairness == WF_vars(Read \/ GivesUp) /\ WF_vars(Executes \/ Transmits)
Spec == Init /\ [][Next]_vars /\ Fairness

-----------------------------------------------------------------------------
(***************************************************************************)
(* What a call returns is what the TA answered to that command, line by    *)
(* line, whatever events and +CNMA commands came between the lines; and    *)
(* when it has returned, every command is executed and neither the line    *)
(* nor the TA has a part of an answer left that the next call would take   *)
(* for its own.                                                            *)
(***************************************************************************)
OwnAnswer ==
  Idle /\ ~broken => /\ result.how = "ok" => result.infos = said
                     /\ todo = << >> /\ entering.cmd = Nothing /\ answering = << >>
                     /\ \A i \in DOMAIN line : line[i].kind = "event"

(***************************************************************************)
(* Events never disturb a call, wherever they fall, not even between the   *)
(* command and the prompt of sendPdu: without acknowledgements, and unless *)
(* the TA was late, a TA that waits for a PDU is sent nothing else, and a  *)
(* call ends with the answer or with the error of the TA.                  *)
(***************************************************************************)
Undisturbed == ~sendAck /\ ~late => ~entering.garbled /\ result.how # "failed"

(***************************************************************************)
(* No event is lost or given to the handler twice, however it falls into   *)
(* the answers and prompts; when messages are acknowledged, unless a call  *)
(* failed.  Without acknowledgements the handler is given the events in    *)
(* the order the TA reported them, those it reported before it was set     *)
(* first.                                                                  *)
(***************************************************************************)
Places(e) ==
  Cardinality({i \in DOMAIN line : line[i].kind = "event" /\ line[i].of = e})
  + Cardinality({i \in DOMAIN stack : stack[i].event = e})
  + Cardinality({i \in DOMAIN received : received[i] = e})
EventsInOrder ==
  /\ ~broken \/ ~sendAck => \A i \in DOMAIN heard : Places(heard[i]) = 1
  /\ ~sendAck => \E n \in 0..Len(received) :
                   /\ \A i \in 1..n : received[i] \notin ToSet(heard)
                   /\ IsPrefix(SubSeq(received, n + 1, Len(received)), heard)

(***************************************************************************)
(* A call returns or throws, although events keep interrupting it, the     *)
(* prompt may never come and the TA may take a command for text.           *)
(***************************************************************************)
CallReturns == ~Idle ~> Idle
=============================================================================
