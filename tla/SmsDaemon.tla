----------------------------- MODULE SmsDaemon ------------------------------
(***************************************************************************)
(* gsmsmsd: the daemon that dispatches incoming messages to an action and  *)
(* sends the files of a spool directory, with the TA it talks to and the   *)
(* network behind it.                                                      *)
(*                                                                         *)
(* The daemon has one thread.  Messages reach it as events in the lines it *)
(* reads while it waits for the answer to some command (module GsmAt); the *)
(* event handler queues them in newMessages and the main loop processes    *)
(* the queue.  A signal only sets a flag.  The daemon's steps end where it *)
(* waits for an answer, so that the TA, the network, the signal and the    *)
(* user of the spool directory act between any two commands.               *)
(***************************************************************************)
EXTENDS Integers, Sequences, FiniteSets, SequencesExt

CONSTANTS
  Messages,      \* the messages of the network are 1..Messages, in order
  Slots,         \* the slots of the store messages are received into
  File,          \* the names of spool files
  Nothing,       \* no message, no value
  DirectModes,   \* values of option --direct
  FlushModes,    \* values of option --flush
  SyslogModes,   \* values of option --syslog
  Services,      \* the message service (+CSMS) the TA may start with
  RoutedBefore,  \* whether an earlier run may have left routing on
  Rejects,       \* the names of commands the TA may refuse
  Tries,         \* how many error conditions sendPdu accepts
  ActionFails    \* whether the action may fail to be executed

VARIABLES
  \* the network, the TA and the user
  arrived,   \* how many messages the network delivered
  store,     \* the slots, numbered from 0, of the receive store
  routing,   \* +CNMI: the TA reports received messages to the TE
  service,   \* +CSMS
  awaiting,  \* the TA wants a +CNMA before it delivers another message
  spool,     \* the files of the spool directory
  \* the AT command line: module GsmAt; received is newMessages
  line, answering, todo, entering, stack, result, listening, sendAck, received,
  \* the daemon
  opt,           \* the options it was started with
  pc,            \* what it does, or which answer it waits for
  slot,          \* the position in the store that is flushed or read
  created,       \* the SMSStore object of the receive store exists
  text,          \* the message that was read last
  exitScheduled,
  terminateSent,
  scan,          \* the files the directory scan did not reach yet
  \* what an observer sees
  flushed,       \* the messages given to the action by the flush
  dispatched,    \* the messages given to the action by the main loop
  ignored        \* the messages routed to the default event handler

lineVars   == <<line, answering, todo, entering, stack, result, listening, sendAck, received>>
taVars     == <<arrived, store, routing, service, awaiting, spool>>
loopVars   == <<slot, created, text, exitScheduled, scan>>
ghostVars  == <<flushed, dispatched, ignored>>
vars == <<taVars, lineVars, opt, pc, loopVars, terminateSent, ghostVars>>

Slot    == 0..(Slots - 1)
Message == 1..Messages

\* An event carries a message (index 0), or the index of the slot that holds
\* it; the TA numbers slots from 1.
Event  == [msg : Message, index : 0..Slots]
Direct == {e \in Event : e.index = 0}

InfoCommands == {<<"CPMS", 0>>, <<"CSMS", 0>>, <<"CNMI?", 0>>}
                \cup ({"CMGR"} \X (1..Slots + 1))
PduCommands  == {<<"CMGS", 0>>}
Command == InfoCommands \cup PduCommands \cup ({"CMGD"} \X (1..Slots + 1))
           \cup {<<"AT", 0>>, <<"CNMI", 0>>, <<"CNMI", 1>>}
Cnma == <<"CNMA", 0>>
Pdu  == <<"PDU", 0>>

At == INSTANCE GsmAt WITH EmptyOKs <- {"CMGR"} \X (1..Slots + 1), Lists <- {},
                          Value <- Message, Slow <- FALSE

\* Nothing is none of what it stands in for.
ASSUME SmsDaemonAssumption ==
  /\ Messages \in Nat /\ Slots \in Nat \ {0} /\ Tries \in Nat
  /\ Nothing \notin Message \cup Event \cup Command \cup At!LineType
  /\ DirectModes \subseteq BOOLEAN /\ FlushModes \subseteq BOOLEAN
  /\ SyslogModes \subseteq BOOLEAN /\ RoutedBefore \subseteq BOOLEAN
  /\ Services \subseteq {0, 1} /\ ActionFails \in BOOLEAN

-----------------------------------------------------------------------------
(***************************************************************************)
(* The TA and the network (external): how a command is executed, and how a *)
(* message arrives.  A message goes to the TE, or to a free slot with or   *)
(* without an indication; without a free slot it stays in the network.     *)
(***************************************************************************)
Refused(c) ==
  \/ c[1] \in Rejects \/ (c = Pdu /\ entering.garbled)
  \/ c = Cnma /\ ~awaiting
Content(c) ==
  LET slots == {i \in Slot : c = <<"CMGR", i + 1>> /\ store[i] # Nothing}
  IN IF slots # {} THEN <<store[CHOOSE i \in slots : TRUE]>>
     ELSE IF c \in InfoCommands \ ({"CMGR"} \X (1..Slots + 1)) \/ c = Pdu THEN <<Nothing>>
     ELSE << >>

Executes ==
  /\ todo # << >>
  /\ LET c == Head(todo)
     IN \/ /\ ~(c = Cnma /\ ~awaiting)
           /\ At!TAExecutes(TRUE, Content(c))
           /\ entering = At!NotEntering
           /\ store' = [i \in Slot |-> IF c = <<"CMGD", i + 1>> THEN Nothing ELSE store[i]]
           /\ routing' = IF c[1] = "CNMI" THEN c[2] = 1 ELSE routing
           /\ service' = IF c[1] = "CSMS" THEN 1 ELSE service
           /\ awaiting' = (awaiting /\ c # Cnma)
        \/ /\ \/ Refused(c) /\ At!TAExecutes(FALSE, << >>)
              \/ entering # At!NotEntering /\ At!TAExecutes(TRUE, Content(c))
           /\ UNCHANGED <<store, routing, service, awaiting>>
  /\ UNCHANGED <<arrived, spool, opt, pc, loopVars, terminateSent, ghostVars>>

Transmits ==
  /\ At!TATransmits
  /\ UNCHANGED <<taVars, opt, pc, loopVars, terminateSent, ghostVars>>

ArrivesDirectly ==
  /\ routing /\ opt.direct /\ ~awaiting
  /\ At!TAReports([msg |-> arrived + 1, index |-> 0])
  /\ awaiting' = (service = 1)
  /\ UNCHANGED store

ArrivesInSlot(i) ==
  /\ store[i] = Nothing
  /\ store' = [store EXCEPT ![i] = arrived + 1]
  /\ IF routing THEN At!TAReports([msg |-> arrived + 1, index |-> i + 1])
     ELSE UNCHANGED lineVars
  /\ UNCHANGED awaiting

Arrives ==
  /\ arrived < Messages
  /\ arrived' = arrived + 1
  /\ ArrivesDirectly \/ \E i \in Slot : ArrivesInSlot(i)
  /\ UNCHANGED <<routing, service, spool, opt, pc, loopVars, terminateSent, ghostVars>>

\* A user puts a file into the spool directory.
Spools(f) ==
  /\ f \notin spool /\ spool' = spool \cup {f}
  /\ UNCHANGED <<arrived, store, routing, service, awaiting, lineVars, opt, pc,
                 loopVars, terminateSent, ghostVars>>

-----------------------------------------------------------------------------
(***************************************************************************)
(* The daemon reads a line.  With the default event handler, which ignores *)
(* events, a message that is routed to the TE is gone.                     *)
(***************************************************************************)
GetsLine ==
  /\ At!GetLine \/ At!TimeOut
  /\ ignored' = IF line # << >> /\ ~listening /\ Head(line).kind = "event" /\ Head(line).of \in Direct
                THEN ignored \cup {Head(line).of.msg} ELSE ignored
  /\ UNCHANGED <<taVars, opt, pc, loopVars, terminateSent, flushed, dispatched>>

-----------------------------------------------------------------------------
(***************************************************************************)
(* The steps of main: each takes the answer it waited for and goes on to   *)
(* the next command, or to a point where it waits for none.                *)
(***************************************************************************)
Reached(p)  == pc = p /\ At!Idle
Sends(c, p) == At!Chat(c) /\ pc' = p
Goes(p)     == pc' = p /\ UNCHANGED lineVars
Ok          == result.how = "ok" /\ \A i \in DOMAIN result.infos : result.infos[i].of = result.of
Answered    == IF result.infos = << >> THEN Nothing ELSE result.infos[1].value

\* The catch block of main: switch routing off, then return 1.
Fails == Sends(<<"CNMI?", 0>>, "failProbe")
FailStep ==
  /\ \/ Reached("failProbe") /\ Ok /\ Sends(<<"CNMI", 0>>, "failOff")
     \/ Reached("failProbe") /\ ~Ok /\ Goes("exit1")
     \/ Reached("failOff") /\ Goes("exit1")
  /\ UNCHANGED <<taVars, opt, loopVars, terminateSent, ghostVars>>

\* Options --flush and --store: open the store that is flushed, or only
\* select or ask for the one to receive into.
Start ==
  /\ Reached("open")
  /\ Sends(<<"CPMS", 0>>, IF opt.flush THEN "flushOpened" ELSE "storeSet")
  /\ UNCHANGED <<taVars, opt, loopVars, terminateSent, ghostVars>>

FlushOpened ==
  /\ Reached("flushOpened")
  /\ \/ Ok /\ Goes("flush") /\ slot' = 0 /\ created' = TRUE
     \/ ~Ok /\ Fails /\ UNCHANGED <<slot, created>>
  /\ UNCHANGED <<taVars, opt, text, exitScheduled, scan, terminateSent, ghostVars>>

SetService == Sends(<<"CSMS", 0>>, "serviceSet")

FlushNext ==
  /\ Reached("flush")
  /\ \/ slot < Slots /\ Sends(<<"CMGR", slot + 1>>, "flushRead")
     \/ slot = Slots /\ SetService
  /\ UNCHANGED <<taVars, opt, loopVars, terminateSent, ghostVars>>

FlushRead ==
  /\ Reached("flushRead")
  /\ \/ Ok /\ Answered = Nothing /\ Goes("flush") /\ slot' = slot + 1 /\ UNCHANGED flushed
     \/ Ok /\ Answered # Nothing /\ flushed' = Append(flushed, Answered)
        /\ Sends(<<"CMGD", slot + 1>>, "flushErased") /\ UNCHANGED slot
     \/ (~Ok \/ (Answered # Nothing /\ ActionFails))
        /\ Fails /\ UNCHANGED <<slot, flushed>>
  /\ UNCHANGED <<taVars, opt, created, text, exitScheduled, scan, terminateSent,
                 dispatched, ignored>>

FlushErased ==
  /\ Reached("flushErased")
  /\ \/ Ok /\ Goes("flush") /\ slot' = slot + 1
     \/ ~Ok /\ Fails /\ UNCHANGED slot
  /\ UNCHANGED <<taVars, opt, created, text, exitScheduled, scan, terminateSent, ghostVars>>

\* setMessageService ignores errors; setSMSRoutingToTA asks for the modes,
\* then switches routing on; then the event handler is registered.
RouteStep ==
  /\ \/ Reached("storeSet") /\ Ok /\ SetService
     \/ /\ Reached("serviceSet") /\ (Ok \/ result.how = "error")
        /\ Sends(<<"CNMI?", 0>>, "routeProbe")
     \/ Reached("routeProbe") /\ Ok /\ Sends(<<"CNMI", 1>>, "route")
     \/ /\ pc \in {"storeSet", "serviceSet", "routeProbe", "route"} /\ Reached(pc) /\ ~Ok
        /\ pc = "serviceSet" => result.how # "error"
        /\ Fails
  /\ UNCHANGED <<taVars, opt, loopVars, terminateSent, ghostVars>>

SetEventHandler ==
  /\ Reached("route") /\ Ok
  /\ listening' = TRUE
  /\ pc' = "wait"
  /\ UNCHANGED <<taVars, line, answering, todo, entering, stack, result, sendAck, received, opt,
                 loopVars, terminateSent, ghostVars>>

\* MeTa::waitEvent: a line, or a signal, within the time sends an AT.
WaitEvent ==
  /\ \/ Reached("wait") /\ (line # << >> \/ terminateSent) /\ Sends(<<"AT", 0>>, "polled")
     \/ Reached("wait") /\ line = << >> /\ Goes("drain")
     \/ Reached("polled") /\ Ok /\ Goes("drain")
     \/ Reached("polled") /\ ~Ok /\ Fails
  /\ UNCHANGED <<taVars, opt, loopVars, terminateSent, ghostVars>>

\* EventHandler::SMSReceptionIndication: _index counts from 0.
Index(e) == e.index - 1

\* A new message that is taken out of the vector is acted on, or read from
\* its slot first.
PopAs(e, rest) ==
  /\ Reached("drain") /\ received # << >>
  /\ received' = rest
  /\ IF e \in Direct
     THEN pc' = "act" /\ text' = e.msg /\ UNCHANGED slot
     ELSE pc' = "open store" /\ slot' = Index(e) /\ UNCHANGED text
  /\ UNCHANGED <<taVars, line, answering, todo, entering, stack, result, listening, sendAck, opt,
                 created, exitScheduled, scan, terminateSent, ghostVars>>

\* Faulty variants: the message stays in the vector; the last one is taken;
\* the vector is emptied.
PopKeeping  == PopAs(Head(received), received)
PopLast     == PopAs(Last(received), Front(received))
PopEmptying == PopAs(Head(received), << >>)

\* Take the first new message out of the vector.
Pop == PopAs(Head(received), Tail(received))

\* getSMSStore, then read and erase the message; nothing is cached.
OpenStore ==
  /\ \/ /\ Reached("open store")
        /\ IF created THEN Sends(<<"CMGR", slot + 1>>, "read")
                      ELSE Sends(<<"CPMS", 0>>, "store opened")
        /\ UNCHANGED created
     \/ /\ Reached("store opened")
        /\ IF Ok THEN created' = TRUE /\ Sends(<<"CMGR", slot + 1>>, "read")
                 ELSE Fails /\ UNCHANGED created
  /\ UNCHANGED <<taVars, opt, slot, text, exitScheduled, scan, terminateSent, ghostVars>>

\* An empty slot has a null message, whose use fails an assertion.
Read ==
  /\ Reached("read")
  /\ \/ Ok /\ Answered # Nothing /\ text' = Answered /\ Sends(<<"CMGD", slot + 1>>, "erased")
     \/ Ok /\ Answered = Nothing /\ Goes("abort") /\ UNCHANGED text
     \/ ~Ok /\ Fails /\ UNCHANGED text
  /\ UNCHANGED <<taVars, opt, slot, created, exitScheduled, scan, terminateSent, ghostVars>>

Erased ==
  /\ Reached("erased")
  /\ IF Ok THEN Goes("act") ELSE Fails
  /\ UNCHANGED <<taVars, opt, loopVars, terminateSent, ghostVars>>

DoAction ==
  /\ Reached("act")
  /\ \/ Goes("drain") /\ dispatched' = Append(dispatched, text)
     \/ ActionFails /\ Fails /\ UNCHANGED dispatched
  /\ UNCHANGED <<taVars, opt, loopVars, terminateSent, flushed, ignored>>

\* Faulty variant: the daemon never exits.
DrainedForever ==
  /\ Reached("drain") /\ received = << >>
  /\ Goes("check")
  /\ UNCHANGED <<taVars, opt, loopVars, terminateSent, ghostVars>>

\* No new message is left: exit if that was scheduled.
Drained ==
  /\ Reached("drain") /\ received = << >>
  /\ Goes(IF exitScheduled THEN "exit0" ELSE "check")
  /\ UNCHANGED <<taVars, opt, loopVars, terminateSent, ghostVars>>

\* Faulty variant: exit without another round.
HandleSignalHastily ==
  /\ \/ /\ Reached("check")
        /\ IF terminateSent THEN exitScheduled' = TRUE /\ Sends(<<"CNMI?", 0>>, "offProbe")
                            ELSE Goes("spool") /\ UNCHANGED exitScheduled
     \/ /\ Reached("offProbe")
        /\ IF Ok THEN Sends(<<"CNMI", 0>>, "off") ELSE Goes("spool")
        /\ UNCHANGED exitScheduled
     \/ Reached("off") /\ Goes("exit0") /\ UNCHANGED exitScheduled
  /\ UNCHANGED <<taVars, opt, slot, created, text, scan, terminateSent, ghostVars>>

\* On the terminate signal, schedule the exit and switch routing off,
\* ignoring errors.
HandleSignal ==
  /\ \/ /\ Reached("check")
        /\ IF terminateSent THEN exitScheduled' = TRUE /\ Sends(<<"CNMI?", 0>>, "offProbe")
                            ELSE Goes("spool") /\ UNCHANGED exitScheduled
     \/ /\ Reached("offProbe")
        /\ IF Ok THEN Sends(<<"CNMI", 0>>, "off") ELSE Goes("spool")
        /\ UNCHANGED exitScheduled
     \/ Reached("off") /\ Goes("spool") /\ UNCHANGED exitScheduled
  /\ UNCHANGED <<taVars, opt, slot, created, text, scan, terminateSent, ghostVars>>

\* sendSMS: send the files of the spool directory, in any order.
ReadDir ==
  /\ Reached("spool")
  /\ IF terminateSent THEN Goes("wait") /\ UNCHANGED scan
                      ELSE Goes("scan") /\ scan' \in SetToSeqs(spool)
  /\ UNCHANGED <<taVars, opt, slot, created, text, exitScheduled, terminateSent, ghostVars>>

SendFile ==
  /\ Reached("scan")
  /\ IF scan = << >> THEN Goes("wait") ELSE Sends(<<"CMGS", 0>>, "sent")
  /\ UNCHANGED <<taVars, opt, loopVars, terminateSent, ghostVars>>

FileSent ==
  /\ Reached("sent")
  /\ \/ Ok /\ Goes("scan") /\ scan' = Tail(scan) /\ spool' = spool \ {Head(scan)}
     \/ ~Ok /\ opt.syslog /\ Goes("scan") /\ scan' = Tail(scan) /\ UNCHANGED spool
     \/ ~Ok /\ ~opt.syslog /\ Fails /\ UNCHANGED <<scan, spool>>
  /\ UNCHANGED <<arrived, store, routing, service, awaiting, opt, slot, created, text,
                 exitScheduled, terminateSent, ghostVars>>

Daemon ==
  \/ GetsLine \/ Start \/ FlushOpened \/ FlushNext \/ FlushRead \/ FlushErased
  \/ RouteStep \/ SetEventHandler \/ WaitEvent
  \/ Pop \/ OpenStore \/ Read \/ Erased \/ DoAction \/ Drained
  \/ HandleSignal \/ ReadDir \/ SendFile \/ FileSent \/ FailStep

\* terminateHandler
Signal ==
  /\ terminateSent' = TRUE
  /\ UNCHANGED <<taVars, lineVars, opt, pc, loopVars, ghostVars>>

-----------------------------------------------------------------------------
\* MeTa::init asks for the message service to decide on acknowledgements.
Init ==
  /\ At!AtInit
  /\ arrived = 0 /\ store = [i \in Slot |-> Nothing]
  /\ service \in Services /\ sendAck = (service = 1)
  /\ routing \in RoutedBefore
  /\ awaiting = FALSE
  /\ spool = {}
  /\ opt \in [direct : DirectModes, flush : FlushModes, syslog : SyslogModes]
  /\ pc = "open"
  /\ slot = 0 /\ created = FALSE /\ text = Nothing
  /\ exitScheduled = FALSE /\ terminateSent = FALSE
  /\ scan = << >>
  /\ flushed = << >> /\ dispatched = << >> /\ ignored = {}

Next ==
  \/ Daemon
  \/ Executes \/ Transmits \/ Arrives
  \/ Signal
  \/ \E f \in File : Spools(f)

\* The daemon does not stop between two statements, and the TA answers.
Spec == Init /\ [][Next]_vars /\ WF_vars(Daemon) /\ WF_vars(Executes \/ Transmits)

-----------------------------------------------------------------------------
Ended == {"exit0", "exit1", "abort"}

Lines   == {line[i].of : i \in {j \in DOMAIN line : line[j].kind = "event"}}
Queued  == ToSet(received)
Nested  == {stack[i].event : i \in DOMAIN stack} \ {Nothing}
Acted   == ToSet(flushed) \cup ToSet(dispatched)

(***************************************************************************)
(* "To terminate gsmsmsd cleanly (without losing SMS messages)": unless an *)
(* exception ended the main loop, every message that arrived is in its     *)
(* slot, on its way to the action, or was given to it; and when the daemon *)
(* has ended with routing switched off, none is on its way any more.  The  *)
(* same holds of an exception during the start.  Messages routed while the *)
(* default event handler was set are ignored.                              *)
(***************************************************************************)
OnItsWay == {e.msg : e \in (Lines \cup Queued \cup Nested) \cap Direct}
            \cup (IF pc \in {"erased", "act"} THEN {text} ELSE {})
Failing == pc \in {"failProbe", "failOff", "exit1", "abort"}
AllKept ==
  /\ ~(Failing /\ listening)
  /\ pc \in Ended => ~routing
  => Message \cap (1..arrived) \subseteq
       {store[i] : i \in Slot} \cup Acted \cup ignored
       \cup (IF pc \in Ended THEN {} ELSE OnItsWay)
NothingLost == ~sendAck => AllKept

(***************************************************************************)
(* An indication that waits in the line or in newMessages still describes  *)
(* its slot: no earlier step of the daemon erased or replaced the message. *)
(***************************************************************************)
IndicationExact ==
  \A e \in (Lines \cup Queued) \ Direct : store[e.index - 1] = e.msg

(***************************************************************************)
(* No message is given to the action twice, not by the flush and again by  *)
(* the main loop, nor for two indications; and the main loop gives them to *)
(* the action in the order in which they arrived.  (A message that is      *)
(* acknowledged in between may be overtaken.)                              *)
(***************************************************************************)
DispatchedOnce ==
  \A m \in Message :
    Cardinality({i \in DOMAIN flushed : flushed[i] = m})
    + Cardinality({i \in DOMAIN dispatched : dispatched[i] = m}) <= 1
DispatchedInOrder ==
  /\ DispatchedOnce
  /\ ~sendAck => \A i, j \in DOMAIN dispatched : i < j => dispatched[i] < dispatched[j]

(***************************************************************************)
(* After SIGINT or SIGTERM the daemon ends, whatever it is doing.          *)
(***************************************************************************)
Terminates == terminateSent ~> pc \in Ended

(***************************************************************************)
(* A message in newMessages is given to the action, unless an exception    *)
(* ends the daemon.                                                        *)
(***************************************************************************)
Dispatches ==
  \A m \in Message : (\E e \in Queued : e.msg = m)
                       ~> (m \in ToSet(dispatched) \/ Failing)

-----------------------------------------------------------------------------
(***************************************************************************)
(* What the documentation and the comments say, and what the code does not *)
(* do when messages are acknowledged.                                      *)
(***************************************************************************)
\* "To terminate gsmsmsd cleanly (without losing SMS messages)": no message
\* is lost, whether messages are acknowledged or not.
TerminatesCleanly == AllKept

\* "send acknowledgement if necessary": each message that the TA waits to
\* see acknowledged is still to be read, or its +CNMA is on its way.
Acknowledges ==
  sendAck /\ awaiting =>
    Lines \cap Direct # {} \/ \E i \in DOMAIN todo : todo[i] = Cnma
=============================================================================
