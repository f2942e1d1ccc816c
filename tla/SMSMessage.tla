----------------------------- MODULE SMSMessage -----------------------------
(***************************************************************************)
(* The messages of gsm_sms.cc and gsm_cb.cc.  Constructors and encode()    *)
(* go through the fields of a PDU in order: Layout lists them for every    *)
(* class of messages, PutField and GetField write and read one.            *)
(***************************************************************************)
EXTENDS Codec

SCtoME == {"SMS_DELIVER", "SMS_STATUS_REPORT", "SMS_SUBMIT_REPORT"}
MEtoSC == {"SMS_SUBMIT", "SMS_COMMAND", "SMS_DELIVER_REPORT"}
Class  == SCtoME \cup MEtoSC
Report == {"SMS_DELIVER_REPORT", "SMS_SUBMIT_REPORT"}

MessageTypeIndicator(class) ==
  CASE class \in {"SMS_DELIVER", "SMS_DELIVER_REPORT"}  -> 0
    [] class \in {"SMS_SUBMIT", "SMS_SUBMIT_REPORT"}    -> 1
    [] class \in {"SMS_STATUS_REPORT", "SMS_COMMAND"}   -> 2

\* The members of all classes; udhi and length are variables of the constructors.
Empty(class) ==
  [class |-> class, serviceCentreAddress |-> NoAddress, address |-> NoAddress,
   moreMessagesToSend |-> FALSE, statusReport |-> FALSE, replyPath |-> FALSE,
   rejectDuplicates |-> FALSE, validityPeriodFormat |-> NotPresent, validityPeriod |-> NoPeriod,
   messageReference |-> 0, protocolIdentifier |-> 0, dataCodingScheme |-> 0,
   serviceCentreTimestamp |-> NoTimestamp, dischargeTime |-> NoTimestamp, status |-> 0,
   commandType |-> 0, messageNumber |-> 0, commandData |-> <<>>,
   protocolIdentifierPresent |-> FALSE, dataCodingSchemePresent |-> FALSE,
   userDataLengthPresent |-> FALSE, userDataHeader |-> <<>>, userData |-> <<>>,
   udhi |-> FALSE, length |-> 0]

\* init() of the classes, where it is not all zeros.
Fresh(class) ==
  CASE class = "SMS_SUBMIT" ->
         [Empty(class) EXCEPT !.validityPeriodFormat = Relative, !.rejectDuplicates = TRUE,
                              !.validityPeriod = TimePeriod(Relative, 168, NoTimestamp)]
    [] class = "SMS_COMMAND" -> [Empty(class) EXCEPT !.statusReport = TRUE]
    [] OTHER -> Empty(class)

DefaultAlphabet(dcs) == (dcs \div 4) % 4 = 0

\* The size of the user data header, in septets or octets.
HeaderLength(m) ==
  IF DefaultAlphabet(m.dataCodingScheme) THEN ((1 + Len(m.userDataHeader)) * 8 + 6) \div 7
  ELSE 1 + Len(m.userDataHeader)
UserDataLength(m) ==
  (Len(m.userData) + (IF m.userDataHeader = <<>> THEN 0 ELSE HeaderLength(m))) % 256

-----------------------------------------------------------------------------
Field(kind, name)    == [kind |-> kind, name |-> name, width |-> 0, flag |-> ""]
Flag(name)           == Field("flag", name)
Spare(n)             == [Field("spare", "") EXCEPT !.width = n]
When(flag, kind, name) == [Field(kind, name) EXCEPT !.flag = flag]

AddressField(name)   == Field("address", name)
OctetField(name)     == Field("octet", name)
Start == <<Field("scAddress", "serviceCentreAddress"), Field("type", "")>>
Text  == <<Field("length", ""), Field("mark", ""), Field("header", ""), Field("data", "")>>
Present == <<Flag("protocolIdentifierPresent"), Flag("dataCodingSchemePresent"),
             Flag("userDataLengthPresent"),
             When("protocolIdentifierPresent", "octet", "protocolIdentifier"),
             When("dataCodingSchemePresent", "octet", "dataCodingScheme")>>

SMSDeliverMessage ==
  Start \o <<Flag("moreMessagesToSend"), Spare(2), Flag("statusReport"), Field("udhi", ""),
    Flag("replyPath"), AddressField("address"), OctetField("protocolIdentifier"),
    OctetField("dataCodingScheme"), Field("timestamp", "serviceCentreTimestamp")>> \o Text
SMSSubmitMessage ==
  Start \o <<Flag("rejectDuplicates"), Field("periodFormat", "validityPeriodFormat"),
    Flag("statusReport"), Field("udhi", ""), Flag("replyPath"), OctetField("messageReference"),
    AddressField("address"), OctetField("protocolIdentifier"), OctetField("dataCodingScheme"),
    Field("period", "validityPeriod")>> \o Text
SMSStatusReportMessage ==
  Start \o <<Field("notFlag", "moreMessagesToSend"), Spare(2), Flag("statusReport"),
    OctetField("messageReference"), AddressField("address"),
    Field("timestamp", "serviceCentreTimestamp"), Field("timestamp", "dischargeTime"),
    OctetField("status")>>
SMSCommandMessage ==
  Start \o <<Spare(3), Flag("statusReport"), OctetField("messageReference"),
    OctetField("protocolIdentifier"), OctetField("commandType"), OctetField("messageNumber"),
    AddressField("address"), Field("commandData", "commandData")>>
SMSDeliverReportMessage ==
  Start \o <<Field("align", "")>> \o Present
    \o <<When("userDataLengthPresent", "dataLength", ""),
         When("userDataLengthPresent", "readMark", ""),
         When("userDataLengthPresent", "data", "")>>
SMSSubmitReportMessage ==
  Start \o <<Field("timestamp", "serviceCentreTimestamp")>> \o Present
    \o <<When("userDataLengthPresent", "length", ""),
         When("userDataLengthPresent", "readMark", ""),
         When("userDataLengthPresent", "data", "")>>
Layout(class) ==
  CASE class = "SMS_DELIVER" -> SMSDeliverMessage
    [] class = "SMS_SUBMIT" -> SMSSubmitMessage
    [] class = "SMS_STATUS_REPORT" -> SMSStatusReportMessage
    [] class = "SMS_COMMAND" -> SMSCommandMessage
    [] class = "SMS_DELIVER_REPORT" -> SMSDeliverReportMessage
    [] class = "SMS_SUBMIT_REPORT" -> SMSSubmitReportMessage

Included(f, m) == f.flag = "" \/ m[f.flag]

-----------------------------------------------------------------------------
(***************************************************************************)
(* encode().  The reports write their text without marking its start.      *)
(***************************************************************************)
PutFlag(e, b) == SetInteger(e, IF b THEN 1 ELSE 0, 1)
PutField(e, m, f) ==
  CASE f.kind = "scAddress"    -> SetAddress(e, m.serviceCentreAddress, TRUE)
    [] f.kind = "type"         -> SetInteger(e, MessageTypeIndicator(m.class), 2)
    [] f.kind = "flag"         -> PutFlag(e, m[f.name])
    [] f.kind = "notFlag"      -> PutFlag(e, ~m[f.name])
    [] f.kind = "spare"        -> SetInteger(e, 0, f.width)
    [] f.kind = "align"        -> AlignOctet(e)
    [] f.kind = "udhi"         -> PutFlag(e, m.userDataHeader # <<>>)
    [] f.kind = "octet"        -> SetOctet(e, m[f.name])
    [] f.kind = "address"      -> SetAddress(e, m[f.name], FALSE)
    [] f.kind = "timestamp"    -> SetTimestamp(e, m[f.name])
    [] f.kind = "periodFormat" -> SetInteger(e, m.validityPeriodFormat, 2)
    [] f.kind = "period"       -> SetTimePeriod(e, m.validityPeriod)
    [] f.kind = "length"       -> SetOctet(e, UserDataLength(m))
    [] f.kind = "dataLength"   -> SetOctet(e, Len(m.userData))
    [] f.kind = "mark"         -> MarkSeptet(e)
    [] f.kind = "readMark"     -> e
    [] f.kind = "header"       -> IF m.userDataHeader = <<>> THEN e ELSE EncodeHeader(e, m.userDataHeader)
    [] f.kind = "data"         -> IF DefaultAlphabet(m.dataCodingScheme) THEN SetString(e, m.userData)
                                  ELSE SetOctets(e, m.userData)
    [] f.kind = "commandData"  -> SetOctets(SetOctet(e, Len(m.commandData)), m.commandData)

Encode(m, junk) ==
  HexString(FoldLeft(LAMBDA e, f : IF Included(f, m) THEN PutField(e, m, f) ELSE e,
                     Encoder(junk), Layout(m.class)))

\* getSCAddressLen(): the octets that +CMGS does not count.
GetSCAddressLen(m) == Len(SetAddress(Encoder(0), m.serviceCentreAddress, TRUE).bits) \div 8

-----------------------------------------------------------------------------
(***************************************************************************)
(* The constructors from a PDU.                                            *)
(***************************************************************************)
Decoded(d, m)    == [d |-> d, m |-> m]
Into(d, m, name) == Decoded(d, IF d.how = "ok" THEN [m EXCEPT ![name] = d.val] ELSE m)

GetFlag(d)       == Then(GetInteger(d, 1), LAMBDA g : Value(g, g.val = 1))
GetNotFlag(d)    == Then(GetInteger(d, 1), LAMBDA g : Value(g, g.val = 0))
\* The length is an unsigned char when the header's size is subtracted.
GetHeader(d, m) ==
  LET g == DecodeHeader(d)
      h == [m EXCEPT !.userDataHeader = g.val]
  IN IF ~m.udhi THEN Decoded(d, m)
     ELSE IF g.how # "ok" THEN Decoded(g, m)
     ELSE Decoded(g, [h EXCEPT !.length = (@ + 256 - HeaderLength(h)) % 256])
GetData(d, m) ==
  IF DefaultAlphabet(m.dataCodingScheme) THEN Into(GetString(d, m.length), m, "userData")
  ELSE Into(GetOctets(d, m.length), m, "userData")
\* The octets of a command are read, but not kept.
GetCommandData(d, m) ==
  Decoded(Then(GetOctet(d), LAMBDA length : GetOctets(length, length.val)), m)

GetField(d, m, f) ==
  CASE f.kind = "scAddress"    -> Into(GetAddress(d, TRUE), m, "serviceCentreAddress")
    [] f.kind = "type"         -> Decoded(GetInteger(d, 2), m)
    [] f.kind = "flag"         -> Into(GetFlag(d), m, f.name)
    [] f.kind = "notFlag"      -> Into(GetNotFlag(d), m, f.name)
    [] f.kind = "spare"        -> Decoded(GetInteger(d, f.width), m)
    [] f.kind = "align"        -> Decoded(Skip(d), m)
    [] f.kind = "udhi"         -> Into(GetFlag(d), m, "udhi")
    [] f.kind = "octet"        -> Into(GetOctet(d), m, f.name)
    [] f.kind = "address"      -> Into(GetAddress(d, FALSE), m, f.name)
    [] f.kind = "timestamp"    -> Into(GetTimestamp(d), m, f.name)
    [] f.kind = "periodFormat" -> Into(GetInteger(d, 2), m, f.name)
    [] f.kind = "period"       -> IF m.validityPeriodFormat = NotPresent THEN Decoded(d, m)
                                  ELSE Into(GetTimePeriod(d, m.validityPeriodFormat), m, f.name)
    [] f.kind \in {"length", "dataLength"} -> Into(GetOctet(d), m, "length")
    [] f.kind \in {"mark", "readMark"}     -> Decoded(Mark(d), m)
    [] f.kind = "header"       -> GetHeader(d, m)
    [] f.kind = "data"         -> GetData(d, m)
    [] f.kind = "commandData"  -> GetCommandData(d, m)

FromPDU(class, pdu) ==
  FoldLeft(LAMBDA r, f : IF r.d.how = "ok" /\ Included(f, r.m) THEN GetField(r.d, r.m, f) ELSE r,
           Decoded(Decoder(pdu), Empty(class)), Layout(class))

(***************************************************************************)
(* decode(): the class follows from the type and the direction, which some *)
(* mobiles report wrongly.                                                 *)
(***************************************************************************)
ClassOf(type, sctome, wrongSMSStatusCode) ==
  IF sctome /\ type = 1 /\ wrongSMSStatusCode THEN {"SMS_SUBMIT"}
  ELSE {c \in IF sctome THEN SCtoME ELSE MEtoSC : MessageTypeIndicator(c) = type}

Decode(pdu, sctome, wrongSMSStatusCode) ==
  LET type   == GetInteger(GetAddress(Decoder(pdu), TRUE), 2)
      class  == ClassOf(type.val, sctome, wrongSMSStatusCode)
      r      == FromPDU(CHOOSE c \in class : TRUE, pdu)
  IN IF type.how # "ok" THEN [how |-> type.how, message |-> Empty("SMS_DELIVER")]
     ELSE IF class = {} THEN [how |-> "throw", message |-> Empty("SMS_DELIVER")]
     ELSE [how |-> r.d.how, message |-> [r.m EXCEPT !.udhi = FALSE, !.length = 0]]

-----------------------------------------------------------------------------
(***************************************************************************)
(* Cell broadcast messages.  The language of some data coding schemes is   *)
(* not initialised: any alphabet may result.                               *)
(***************************************************************************)
CBLanguages(dcs) ==
  IF dcs < 16 THEN {"known"} ELSE IF dcs < 64 THEN {"known", "Unknown"} ELSE {"Unknown"}
CBDefaultAlphabet(dcs, language) == language = "known" \/ DefaultAlphabet(dcs)

CBMessage(pdu) ==
  LET code    == GetInteger(Decoder(pdu), 6)
      scope   == GetInteger(code, 2)
      update  == GetInteger(scope, 4)
      code2   == GetInteger(update, 4)
      id      == GetInteger(code2, 8)
      id2     == GetInteger(id, 8)
      dcs     == GetOctet(id2)
      total   == GetInteger(dcs, 4)
      current == GetInteger(total, 4)
      data(l) == IF CBDefaultAlphabet(dcs.val, l) THEN GetString(Mark(current), 93)
                 ELSE GetOctets(Mark(current), 82)
  IN IF current.how # "ok" THEN {[how |-> current.how]}
     ELSE {[how |-> data(l).how, messageCode |-> 16 * code.val + code2.val, scope |-> scope.val,
            update |-> update.val, messageIdentifier |-> 256 * id.val + id2.val,
            total |-> total.val, current |-> current.val, data |-> data(l).val]
           : l \in CBLanguages(dcs.val)}
=============================================================================
