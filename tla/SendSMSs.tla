------------------------------ MODULE SendSMSs ------------------------------
(***************************************************************************)
(* MeTa::sendSMSs: how a text is split into several short messages, and    *)
(* how gsmsmsd numbers them (option --concatenate).  A text is its length; *)
(* a part is its length and the user data header it carries.  What the     *)
(* receiver makes of the parts is in module Conversions.                   *)
(***************************************************************************)
EXTENDS Integers, Sequences, FiniteSetsExt

CONSTANTS
  Texts,         \* the lengths of the texts that are sent
  MaxTextLength, \* the largest text of one message (160 for 7 bit characters)
  ConcMaxTextLength, \* the same with a user data header (152)
  Octet,         \* the number of values of an unsigned char (256)
  FirstIds       \* the values of --concatenate, if it is given

ASSUME SendSMSsAssumption ==
  /\ Texts \subseteq Nat
  /\ ConcMaxTextLength \in Nat \ {0} /\ MaxTextLength \in Nat
  /\ ConcMaxTextLength <= MaxTextLength
  /\ Octet \in Nat /\ Octet > 1
  /\ FirstIds \subseteq 0..(Octet - 1)

VARIABLES
  concatenatedMessageId, \* the global of gsmsmsd
  pc,          \* "idle", "split" while parts are sent, or "failed"
  text,        \* the length of the text that is sent
  rest,        \* the length of what is still to be split
  maxLength,   \* the length of a part
  header,      \* the ID of the parts, -1 if they carry no header
  numMessages, \* the number of parts that is announced
  parts        \* the parts sent so far

vars == <<concatenatedMessageId, pc, text, rest, maxLength, header, numMessages, parts>>

NoRef == -1
CeilDiv(n, d) == (n + d - 1) \div d

-----------------------------------------------------------------------------
(***************************************************************************)
(* sendSMS of gsmsmsd passes the ID and increments it; beyond the largest  *)
(* ID it starts from 0 again.  Without an ID only one message is sent.     *)
(***************************************************************************)
Id == IF concatenatedMessageId > Octet THEN 0 ELSE concatenatedMessageId
NextId == IF concatenatedMessageId = -1 THEN -1 ELSE Id + 1

\* numMessage is an unsigned char.
Number(i) == i % Octet

Part(n, ref, number) == [length |-> n, ref |-> ref, number |-> number]

\* The text fits into one message, or must not be split.
SendOne(n, oneSMS) ==
  /\ oneSMS \/ n <= MaxTextLength
  /\ IF n > MaxTextLength
     THEN pc' = "failed" /\ parts' = << >>
     ELSE \/ pc' = "idle" /\ parts' = <<Part(n, NoRef, 0)>>
          \/ pc' = "failed" /\ parts' = << >>
  /\ rest' = 0 /\ header' = NoRef /\ numMessages' = 0 /\ maxLength' = MaxTextLength

SendMany(n, ref) ==
  LET length == IF ref = NoRef THEN MaxTextLength ELSE ConcMaxTextLength
  IN /\ n > MaxTextLength
     /\ maxLength' = length
     /\ rest' = n
     /\ numMessages' = CeilDiv(n, length)
     /\ parts' = << >>
     /\ IF numMessages' > Octet - 1
        THEN pc' = "failed" /\ header' = NoRef
        ELSE pc' = "split" /\ header' = IF ref = NoRef THEN NoRef ELSE ref % Octet

\* A program other than gsmsmsd may split a text without an ID.
SendSMSs(n) ==
  /\ pc # "split"
  /\ text' = n
  /\ concatenatedMessageId' = NextId
  /\ IF concatenatedMessageId = -1
     THEN SendOne(n, TRUE) \/ SendOne(n, FALSE) \/ SendMany(n, NoRef)
     ELSE SendOne(n, FALSE) \/ SendMany(n, Id)

\* Faulty variant: a last part that is not full is not sent.
SendPartFull ==
  /\ pc = "split"
  /\ IF rest < maxLength
     THEN pc' = "idle" /\ UNCHANGED <<parts, rest>>
     ELSE /\ parts' = Append(parts, Part(maxLength, header, Number(Len(parts) + 1)))
          /\ rest' = rest - maxLength /\ UNCHANGED pc
  /\ UNCHANGED <<concatenatedMessageId, text, maxLength, header, numMessages>>

\* One round of the loop: the part is sent, or the TA fails; the loop ends
\* after a part that is not full.
SendPart ==
  /\ pc = "split"
  /\ \/ /\ parts' = Append(parts, Part(Min({rest, maxLength}), header,
                                       Number(Len(parts) + 1)))
        /\ IF rest < maxLength
           THEN pc' = "idle" /\ UNCHANGED rest
           ELSE rest' = rest - maxLength /\ UNCHANGED pc
     \/ pc' = "failed" /\ UNCHANGED <<parts, rest>>
  /\ UNCHANGED <<concatenatedMessageId, text, maxLength, header, numMessages>>

Init ==
  /\ concatenatedMessageId \in FirstIds \cup {-1}
  /\ pc = "idle" /\ text = 0 /\ rest = 0 /\ maxLength = MaxTextLength
  /\ header = NoRef /\ numMessages = 0
  /\ parts = <<Part(0, NoRef, 0)>>
=============================================================================
