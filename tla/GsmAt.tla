------------------------------- MODULE GsmAt --------------------------------
(***************************************************************************)
(* The AT command line.  GsmAt::chat sends a command to the TA and reads   *)
(* lines until the final result code, chatv collects all lines before it,  *)
(* and sendPdu waits for the prompt "> " first, sends a PDU and tries      *)
(* again when the prompt does not come.  GsmAt::getLine takes the          *)
(* unsolicited result codes (events) out of the lines and dispatches them  *)
(* while the command waits; GsmEvent::dispatch may have to acknowledge one *)
(* with a +CNMA command of its own, inside the command that is waiting.    *)
(*                                                                         *)
(* A line is an item: an event (with its PDU), an information response, a  *)
(* final result code, or the prompt, which no line end follows.  Empty     *)
(* lines, echoes and the wording of responses are left out.                *)
(***************************************************************************)
EXTENDS Integers, Sequences, FiniteSets, SequencesExt

CONSTANTS
  Command,      \* the AT commands a program sends
  InfoCommands, \* those sent by chat that are answered with a line before the "OK"
  EmptyOKs,     \* those whose caller accepts an "OK" alone (acceptEmptyResponse)
  Lists,        \* those sent by chatv
  PduCommands,  \* those sent by sendPdu
  Tries,        \* how many error conditions sendPdu accepts
  Pdu,          \* a PDU and CTRL-Z
  Cnma,         \* AT+CNMA
  Event,        \* the events the TA may report
  Direct,       \* those that are messages routed to the TE (+CMT, +CDS)
  Value,        \* what an information response may say
  Nothing,      \* no value
  Slow          \* whether the TA may answer after the time-out of the port

\* What a line says: an event, a part of an answer or the prompt.
Commands == Command \cup {Cnma}
LineType == [kind : {"info", "OK", "ERROR", "prompt"}, of : Commands, value : Value \cup {Nothing}]
            \cup [kind : {"event"}, of : Event, value : {Nothing}]

ASSUME GsmAtAssumption ==
  /\ InfoCommands \subseteq Command /\ EmptyOKs \subseteq InfoCommands
  /\ Lists \subseteq Command \ InfoCommands
  /\ PduCommands \subseteq Command \ (InfoCommands \cup Lists)
  /\ Direct \subseteq Event
  /\ Cnma \notin Command /\ Pdu \notin Command \cup {Cnma}
  /\ Nothing \notin Event \cup Value \cup Command \cup LineType
  /\ Slow \in BOOLEAN /\ Tries \in Nat

VARIABLES
  line,      \* what the TA sent and the program did not read yet
  answering, \* the rest of the answer that the TA is sending
  todo,      \* what the TA was sent and did not execute yet
  entering,  \* the command whose PDU the TA waits for
  stack,     \* the calls that are waiting for an answer, the innermost last
  result,    \* how the last outermost call ended
  listening, \* the GsmEvent object is the program's own, not the default
  sendAck,   \* Capabilities::_sendAck
  received   \* the events that object was given and did not process yet

atVars == <<line, answering, todo, entering, stack, result, listening, sendAck, received>>

Item(k, c, v) == [kind |-> k, of |-> c, value |-> v]

-----------------------------------------------------------------------------
(***************************************************************************)
(* The TA (external).  It executes the commands in turn and sends the      *)
(* answer line by line before it goes on to the next; an event may come at *)
(* any time, also between two lines of an answer.  Once it has sent the    *)
(* prompt, all it gets is text, up to the CTRL-Z of a PDU; it refuses a    *)
(* PDU with other text before it.                                          *)
(***************************************************************************)
NotEntering == [cmd |-> Nothing, garbled |-> FALSE]

Infos(c, vs) == [i \in DOMAIN vs |-> Item("info", c, vs[i])]
Answer(c, ok, vs) == IF ok THEN Append(Infos(c, vs), Item("OK", c, Nothing))
                     ELSE <<Item("ERROR", c, Nothing)>>

\* The numbers of lines that may come before the "OK".
Answerable(c, vs) ==
  /\ c \in EmptyOKs => Len(vs) <= 1
  /\ c \in (InfoCommands \ EmptyOKs) \cup PduCommands => Len(vs) = 1
  /\ c \notin Lists \cup InfoCommands \cup PduCommands => vs = << >>

Prompts(c) == /\ line' = Append(line, Item("prompt", c, Nothing))
              /\ entering' = [cmd |-> c, garbled |-> FALSE]
              /\ UNCHANGED answering
Responds(c, ok, vs) == answering' = Answer(c, ok, vs) /\ UNCHANGED line

TAExecutes(ok, vs) ==
  /\ todo # << >> /\ answering = << >>
  /\ LET c == Head(todo)
     IN \/ /\ entering.cmd = Nothing /\ c = Pdu
           /\ UNCHANGED <<line, answering, entering>>
        \/ /\ entering.cmd = Nothing /\ c # Pdu
           /\ IF c \in PduCommands /\ ok
              THEN Prompts(c)
              ELSE /\ ok => Answerable(c, vs)
                   /\ Responds(c, ok, vs)
                   /\ UNCHANGED entering
        \/ /\ entering.cmd # Nothing /\ c # Pdu
           /\ entering' = [entering EXCEPT !.garbled = TRUE]
           /\ UNCHANGED <<line, answering>>
        \/ /\ entering.cmd # Nothing /\ c = Pdu
           /\ ok => ~entering.garbled /\ Answerable(entering.cmd, vs)
           /\ Responds(entering.cmd, ok, vs)
           /\ entering' = NotEntering
  /\ todo' = Tail(todo)
  /\ UNCHANGED <<stack, result, listening, sendAck, received>>

TATransmits ==
  /\ answering # << >>
  /\ line' = Append(line, Head(answering))
  /\ answering' = Tail(answering)
  /\ UNCHANGED <<todo, entering, stack, result, listening, sendAck, received>>

TAReports(e) ==
  /\ line' = Append(line, Item("event", e, Nothing))
  /\ UNCHANGED <<answering, todo, entering, stack, result, listening, sendAck, received>>

-----------------------------------------------------------------------------
(***************************************************************************)
(* The program.  A call ends with the answer, with the error the TA        *)
(* reported, or with an unexpected response or a time-out.                 *)
(***************************************************************************)
NoResult == [how |-> "none", of |-> Nothing, infos |-> << >>]
Frame(c, e) == [cmd |-> c, event |-> e, infos |-> << >>,
                prompted |-> c \notin PduCommands, tries |-> Tries, seen |-> Nothing]

\* GsmAt::chat, chatv and sendPdu put out the line and wait.
Chat(c) ==
  /\ stack = << >>
  /\ stack' = <<Frame(c, Nothing)>>
  /\ todo' = Append(todo, c)
  /\ result' = NoResult
  /\ UNCHANGED <<line, answering, entering, listening, sendAck, received>>

Idle == stack = << >>
Top  == Last(stack)

\* Faulty variant: the newest event first.
HandedFirst(e) == IF listening THEN <<e>> \o received ELSE received

\* GsmEvent::SMSReception, CBReception and SMSReceptionIndication: those of
\* the default event handler ignore the event.
Handed(e) == IF listening THEN Append(received, e) ELSE received

\* GsmEvent::dispatch
Dispatch(e) ==
  IF e \in Direct /\ sendAck
  THEN /\ stack' = Append(stack, Frame(Cnma, e))
       /\ todo' = Append(todo, Cnma)
       /\ UNCHANGED received
  ELSE /\ received' = Handed(e)
       /\ UNCHANGED <<stack, todo>>

\* An exception leaves every call that is waiting; the event whose
\* acknowledgement failed is not handed over.
Throw(how) ==
  /\ stack' = << >>
  /\ result' = [how |-> IF Len(stack) = 1 THEN how ELSE "failed",
                of |-> stack[1].cmd, infos |-> << >>]
  /\ UNCHANGED <<todo, received>>

Return(infos) ==
  /\ stack' = Front(stack)
  /\ result' = IF Len(stack) = 1
               THEN [how |-> "ok", of |-> Top.cmd, infos |-> infos] ELSE result
  /\ received' = IF Top.cmd = Cnma THEN Handed(Top.event) ELSE received
  /\ UNCHANGED todo

WaitsOn(frame) ==
  /\ stack' = Append(Front(stack), frame)
  /\ UNCHANGED <<result, received>>
KeepInfo(x) == /\ WaitsOn([Top EXCEPT !.infos = Append(@, x), !.prompted = TRUE])
               /\ UNCHANGED todo

\* Faulty variant: the final "OK" after an information response is not read.
ReadAnswerOnly(x) ==
  CASE x.kind = "ERROR" -> Throw("error")
    [] x.kind = "OK" -> Return(Top.infos)
    [] OTHER -> Return(<<x>>)

(***************************************************************************)
(* A line that is not an event.  chat takes any line, even an "OK" that    *)
(* is not expected yet, for the response, whose prefix some TAs leave out; *)
(* the final "OK" is then still to come.  chatv takes every line before    *)
(* the "OK", even an error, unless that is the first; sendPdu insists on   *)
(* its own response.                                                       *)
(***************************************************************************)
ReadAnswer(x) ==
  LET c == Top.cmd
      first == Top.infos = << >>
  IN IF first /\ x.kind = "ERROR" THEN Throw("error")
     ELSE IF x.kind = "OK" /\ (c \in Lists \cup EmptyOKs \/ ~first \/
                               c \notin InfoCommands \cup PduCommands)
          THEN Return(Top.infos)
     ELSE IF c \in Lists \/ (first /\ c \in InfoCommands)
             \/ (first /\ c \in PduCommands /\ x.kind = "info" /\ x.of = c)
          THEN KeepInfo(x)
     ELSE Throw("failed")

\* An error condition in the handshake, a line or (Nothing) a time-out: send
\* the command again, or let the last line that was seen be the answer.
Retry(x) ==
  LET s == IF x = Nothing THEN Top.seen ELSE x
  IN IF Top.tries > 0
     THEN /\ WaitsOn([Top EXCEPT !.tries = @ - 1, !.seen = s])
          /\ todo' = Append(todo, Top.cmd)
     ELSE IF s = Nothing THEN Throw("failed") ELSE ReadAnswer(s)

\* sendPdu looks at the first byte: "+" or "E" begin a response or an error,
\* ">" the prompt; it expects no "OK".
Handshake(x) ==
  CASE x.kind = "prompt" -> /\ WaitsOn([Top EXCEPT !.prompted = TRUE])
                            /\ todo' = Append(todo, Pdu)
    [] x.kind = "OK"     -> Throw("failed")
    [] OTHER             -> Retry(x)

\* A prompt is no line before something else comes after it.
Readable == line # << >> /\ (Head(line).kind = "prompt" /\ Top.prompted => Len(line) > 1)

\* Faulty variant: in the handshake an event is an error condition.
GetLineResending ==
  /\ ~Idle /\ Readable
  /\ LET x == Head(line)
     IN CASE x.kind = "event" /\ Top.prompted -> Dispatch(x.of) /\ UNCHANGED result
          [] x.kind # "event" /\ Top.prompted -> ReadAnswer(x)
          [] ~Top.prompted -> Handshake(x)
  /\ line' = Tail(line)
  /\ UNCHANGED <<answering, entering, listening, sendAck>>

GetLine ==
  /\ ~Idle /\ Readable
  /\ LET x == Head(line)
     IN CASE x.kind = "event" -> Dispatch(x.of) /\ UNCHANGED result
          [] x.kind # "event" /\ Top.prompted -> ReadAnswer(x)
          [] x.kind # "event" /\ ~Top.prompted -> Handshake(x)
  /\ line' = Tail(line)
  /\ UNCHANGED <<answering, entering, listening, sendAck>>

\* Nothing to read comes in time: the TA was slow or has nothing to say.
Silence == ~Readable /\ (Slow \/ (todo = << >> /\ answering = << >>))

\* Faulty variant: the prompt is waited for without a time-out.
TimeOutOfLines ==
  /\ ~Idle /\ Silence /\ Top.prompted
  /\ Throw("failed")
  /\ line' = << >>
  /\ UNCHANGED <<answering, entering, listening, sendAck>>

(***************************************************************************)
(* The port throws when no line comes in time; what was read of a line is  *)
(* gone.  sendPdu tries again when it is the first byte of the handshake   *)
(* that does not come, but not when it is the echo of its command or the   *)
(* line after an event.                                                    *)
(***************************************************************************)
TimeOut ==
  /\ ~Idle /\ Silence
  /\ \/ Throw("failed")
     \/ ~Top.prompted /\ Retry(Nothing)
  /\ line' = << >>
  /\ UNCHANGED <<answering, entering, listening, sendAck>>

AtInit ==
  /\ line = << >> /\ answering = << >> /\ todo = << >> /\ entering = NotEntering /\ stack = << >>
  /\ result = NoResult
  /\ listening = FALSE
  /\ sendAck \in BOOLEAN
  /\ received = << >>
=============================================================================
