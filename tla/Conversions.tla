---------------------------- MODULE Conversions ----------------------------
(***************************************************************************)
(* What is put into words on one side of the line and taken apart on the   *)
(* other: messages that become PDUs and messages again, PDUs cut off on    *)
(* the way, the parts of a long text that the receiver puts together, and  *)
(* the answers of the TA.                                                  *)
(***************************************************************************)
EXTENDS SendSMSs, SMSMessage, Parser

CONSTANTS
  Messages,  \* messages the program may have in memory
  CBs,       \* PDUs of cell broadcasts
  Names,     \* telephone numbers as they are written
  Lines,     \* strings given to parseIntList
  Answers,   \* records of a string, how it is parsed and what it says
  CutBound   \* bound: the length in bits of PDUs that are cut off

ASSUME ConversionsAssumption ==
  /\ \A m \in Messages : DOMAIN m = DOMAIN Empty("SMS_SUBMIT") /\ m.class \in Class
  /\ CutBound \in Nat

VARIABLES
  stage,     \* "sending" texts, or how far the conversion is
  input,     \* what is converted
  pdu,       \* the PDU that is on the line
  output,    \* the message or value on the other side, once it is there
  received   \* the parts of a text that arrived

conversionVars == <<stage, input, pdu, output, received>>
allVars == <<vars, conversionVars>>

-----------------------------------------------------------------------------
(***************************************************************************)
(* sendSMSs puts a part into a template; its header is one element.        *)
(***************************************************************************)
ConcatenationIE == 0
Letters(n) == [i \in 1..n |-> 97]
MessageOf(part, total) ==
  [Fresh("SMS_SUBMIT") EXCEPT
     !.userData = Letters(part.length),
     !.userDataHeader = IF part.ref = NoRef THEN <<>>
                        ELSE <<ConcatenationIE, 3, part.ref, total, part.number>>]

Submit(n) ==
  /\ stage = "sending" /\ Len(received) = Len(parts) /\ SendSMSs(n)
  /\ received' = <<>>
  /\ UNCHANGED <<stage, input, pdu, output>>
Part_ ==
  /\ stage = "sending" /\ SendPart
  /\ received' = IF parts' = <<>> THEN <<>> ELSE received
  /\ UNCHANGED <<stage, input, pdu, output>>
\* A part arrives at the receiver.
Receive ==
  /\ stage = "sending" /\ Len(received) < Len(parts)
  /\ LET r == Decode(Encode(MessageOf(parts[Len(received) + 1], numMessages), 0), FALSE, FALSE)
     IN received' = Append(received, [how |-> r.how, text |-> r.message.userData,
                                      ie |-> GetIE(r.message.userDataHeader, ConcatenationIE)])
  /\ UNCHANGED <<vars, stage, input, pdu, output>>

-----------------------------------------------------------------------------
EncodeMessage ==
  /\ stage = "message"
  /\ \E junk \in 0..6 : pdu' = Encode(input, junk)
  /\ stage' = "pdu"
  /\ UNCHANGED <<vars, input, output, received>>

\* The line loses the end of a PDU.
Cut ==
  /\ stage \in {"pdu", "cb"} /\ Len(pdu) <= CutBound
  /\ \E n \in 0..(Len(pdu) \div 4 - 1) : pdu' = SubSeq(pdu, 1, 4 * n)
  /\ stage' = IF stage = "pdu" THEN "cut" ELSE "cut cb"
  /\ UNCHANGED <<vars, input, output, received>>

\* A store knows the direction from the status of the message; a Motorola
\* reports a wrong one for submitted messages.
DecodeMessage ==
  /\ stage \in {"pdu", "cut"}
  /\ \E wrong \in IF input.class = "SMS_SUBMIT" THEN BOOLEAN ELSE {FALSE} :
       output' = <<Decode(pdu, input.class \in SCtoME \/ wrong, wrong)>>
  /\ stage' = IF stage = "pdu" THEN "decoded" ELSE "decoded cut"
  /\ UNCHANGED <<vars, input, pdu, received>>

DecodeCB ==
  /\ stage \in {"cb", "cut cb"}
  /\ \E r \in CBMessage(pdu) : output' = <<r>>
  /\ stage' = IF stage = "cb" THEN "decoded cb" ELSE "decoded cut cb"
  /\ UNCHANGED <<vars, input, pdu, received>>

MakeAddress ==
  /\ stage = "address"
  /\ output' = <<AddressOf(input)>>
  /\ stage' = "addressed"
  /\ UNCHANGED <<vars, input, pdu, received>>

ParseLine ==
  /\ stage = "line"
  /\ output' = <<ParseIntList(NewParser(input), FALSE, FALSE)>>
  /\ stage' = "parsed line"
  /\ UNCHANGED <<vars, input, pdu, received>>

Parsed(p, grammar) ==
  CASE grammar = "stringList"     -> ParseStringList(p, FALSE, FALSE)
    [] grammar = "range"          -> ParseRange(p, FALSE, FALSE, FALSE)
    [] grammar = "parameterRanges" -> ParseParameterRangeList(p, FALSE)
    [] grammar = "string"         -> ParseString(p, FALSE, FALSE)
    [] grammar = "text"           -> ParseString(p, FALSE, TRUE)
    [] grammar = "intOrNone"      -> ParseInt(p, TRUE)
    [] grammar = "eol"            -> ParseEol(p)
ParseAnswer ==
  /\ stage = "answer"
  /\ output' = <<Parsed(NewParser(input.line), input.grammar)>>
  /\ stage' = "parsed answer"
  /\ UNCHANGED <<vars, input, pdu, received>>

-----------------------------------------------------------------------------
ConversionsInit ==
  /\ Init
  /\ received = parts
  /\ output = <<>>
  /\ \/ stage = "sending" /\ input = 0 /\ pdu = <<>>
     \/ /\ concatenatedMessageId = -1
        /\ \/ stage = "message" /\ input \in Messages /\ pdu = <<>>
           \/ stage = "cb" /\ input = 0 /\ pdu \in CBs
           \/ stage = "address" /\ input \in Names /\ pdu = <<>>
           \/ stage = "line" /\ input \in Lines /\ pdu = <<>>
           \/ stage = "answer" /\ input \in Answers /\ pdu = <<>>

ConversionsNext ==
  \/ \E n \in Texts : Submit(n)
  \/ Part_ \/ Receive
  \/ EncodeMessage \/ Cut \/ DecodeMessage \/ DecodeCB
  \/ MakeAddress \/ ParseLine \/ ParseAnswer

ConversionsSpec == ConversionsInit /\ [][ConversionsNext]_allVars

-----------------------------------------------------------------------------
(***************************************************************************)
(* When sendSMSs returns and its parts have arrived, the receiver has the  *)
(* text: the parts that hold text are numbered from 1 to the total they    *)
(* announce, in one series, and make up the text.                          *)
(***************************************************************************)
Reassembled ==
  stage = "sending" /\ pc = "idle" /\ text > 0 /\ Len(received) = Len(parts) =>
    LET full == {i \in DOMAIN received : received[i].text # <<>>}
    IN /\ \A i \in DOMAIN received : received[i].how = "ok"
       /\ MapThenSumSet(LAMBDA i : Len(received[i].text), full) = text
       /\ header # NoRef =>
            /\ \A i \in full : received[i].ie[1] = header /\ received[i].ie[2] = Cardinality(full)
            /\ {received[i].ie[3] : i \in full} = 1..Cardinality(full)

(***************************************************************************)
(* A message that is encoded and decoded again is the same: what a store   *)
(* of messages in a file, or a copy from one mobile to another, rests on.  *)
(* Not among them are alphanumeric addresses whose length is rounded the   *)
(* wrong way, the data of commands, which are not kept, and the texts of   *)
(* reports, which start in the wrong place.                                *)
(***************************************************************************)
TooShort(a) == a.type = Alphanumeric /\ (7 * Len(a.number)) % 8 = 1
Kept(m) ==
  /\ ~TooShort(m.address)
  /\ m.class = "SMS_COMMAND" => m.commandData = <<>>
  /\ m.class \in Report => ~(m.userDataLengthPresent /\ DefaultAlphabet(m.dataCodingScheme))
RoundTrip ==
  stage = "decoded" /\ Kept(input) => output[1].how = "ok" /\ output[1].message = input

\* A message that lost its end is not taken for a shorter one.
TruncationNoticed ==
  stage = "decoded cut cb" \/ (stage = "decoded cut" /\ Kept(input)) => output[1].how # "ok"

(***************************************************************************)
(* getIE() finds the first element of an identifier in a header that is a  *)
(* series of elements, and nothing that is not there.                      *)
(***************************************************************************)
RECURSIVE Series(_)
Series(udh) == IF udh = <<>> THEN <<>>
               ELSE <<[id |-> udh[1], data |-> SubSeq(udh, 3, udh[2] + 2)]>>
                      \o Series(SubSeq(udh, udh[2] + 3, Len(udh)))
IEFound ==
  stage = "decoded" /\ Kept(input) =>
    LET s == Series(input.userDataHeader)
    IN \A id \in 0..9 :
         LET found == {k \in DOMAIN s : s[k].id = id}
         IN GetIE(output[1].message.userDataHeader, id) =
              IF found = {} THEN <<>> ELSE s[Min(found)].data

(***************************************************************************)
(* The order of addresses is one a multimap can work with: a strict order  *)
(* in which being neither before nor after is an equivalence.              *)
(***************************************************************************)
Neither(x, y) == ~AddressLess(x, y) /\ ~AddressLess(y, x)
AddressesOrdered ==
  stage = "addressed" =>
    \A y \in {AddressOf(n) : n \in Names} :
      /\ ~(AddressLess(output[1], y) /\ AddressLess(y, output[1]))
      /\ AddressEqual(output[1], y) /\ output[1].type = y.type => Neither(output[1], y)
      /\ \A z \in {AddressOf(n) : n \in Names} :
           /\ AddressLess(output[1], y) /\ AddressLess(y, z) => AddressLess(output[1], z)
           /\ Neither(output[1], y) /\ Neither(y, z) => Neither(output[1], z)

(***************************************************************************)
(* parseIntList() accepts the lists of numbers and ranges there are, and   *)
(* gives the numbers they denote.  Between two numbers that a dash joins,  *)
(* in either order, all are meant.  Of ranges of the form a-b-c, which the *)
(* text of an exception calls not allowed and the code accepts, nothing is *)
(* said.                                                                   *)
(***************************************************************************)
Denoted(list) ==
  UNION {{list[i]} : i \in {j \in DOMAIN list : j % 2 = 1}}
    \cup UNION {{n \in Digit : \/ list[i - 1] <= n /\ n <= list[i + 1]
                               \/ list[i + 1] <= n /\ n <= list[i - 1]}
                 : i \in {j \in DOMAIN list : list[j] = Dash}}
IsList(list) ==
  list = <<>> \/ (Len(list) % 2 = 1 /\ \A i \in DOMAIN list :
                    IF i % 2 = 1 THEN list[i] \in Digit ELSE list[i] \in {Comma, Dash})
Chained(list) == \E i \in DOMAIN list : list[i] = Dash /\ i - 2 \in DOMAIN list /\ list[i - 2] = Dash
IntListMeaning ==
  stage = "parsed line" =>
    LET line == SelectSeq(input, LAMBDA c : c # Space)
        ends == {i \in DOMAIN line : line[i] = Close}
        list == SubSeq(line, 2, Min(ends) - 1)
    IN IF line # <<>> /\ line[1] \in Digit THEN output[1].how = "ok" /\ output[1].val = {line[1]}
       ELSE IF line # <<>> /\ line[1] = Open /\ ends # {} /\ IsList(list)
       THEN Chained(list) \/ (output[1].how = "ok" /\ output[1].val = Denoted(list))
       ELSE output[1].how = "throw"

\* An answer is understood as the TA means it, whatever separators its texts hold.
AnswerUnderstood ==
  stage = "parsed answer" => output[1].how = "ok" /\ output[1].val = input.means
=============================================================================
