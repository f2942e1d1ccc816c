--------------------------- MODULE MCConversions ---------------------------
(* An instance of Conversions for TLC: all messages that differ from a     *)
(* plain one in one field or in the sizes of header and text, and all      *)
(* strings of up to four characters, longer ones in parentheses.           *)
EXTENDS Conversions

Digits_(n) == [i \in 1..n |-> i % 10]
Named(n)   == [i \in 1..n |-> 64 + i]
Numbered(n) == Address(International, ISDN_Telephone, Digits_(n))
Stamp    == Timestamp(<<2, 12, 31, 9, 59, 7>>, 120, TRUE)
Concat   == <<0, 3, 1, 2, 1>>
TwoIEs   == <<5, 2, 0, 7, 7, 1, 3>>

Sized(class) ==
  {[Fresh(class) EXCEPT !.userData = Letters(n), !.dataCodingScheme = dcs,
      !.userDataHeader = IF h = 0 THEN <<>> ELSE <<9, h - 2>> \o Digits_(h - 2)]
   : n \in 0..8, dcs \in {0, 4}, h \in {0} \cup 2..9}
Limits(class) ==
  {[Fresh(class) EXCEPT !.userData = Letters(160)],
   [Fresh(class) EXCEPT !.userData = Letters(152), !.userDataHeader = Concat],
   [Fresh(class) EXCEPT !.userData = Letters(140), !.dataCodingScheme = 4]}
Varied(m) ==
  {[m EXCEPT !.serviceCentreAddress = Numbered(n)] : n \in 1..3}
    \cup {[m EXCEPT !.address = Numbered(n)] : n \in 0..3}
    \cup {[m EXCEPT !.moreMessagesToSend = TRUE], [m EXCEPT !.statusReport = ~@], [m EXCEPT !.replyPath = TRUE]}
    \cup {[m EXCEPT !.serviceCentreTimestamp = Stamp], [m EXCEPT !.protocolIdentifier = 255]}
\* Only the members that the class has.
Members(class) ==
  CASE class = "SMS_DELIVER" -> {"serviceCentreAddress", "address", "moreMessagesToSend", "statusReport",
         "replyPath", "serviceCentreTimestamp", "protocolIdentifier", "dataCodingScheme", "userDataHeader", "userData"}
    [] class = "SMS_SUBMIT" -> {"serviceCentreAddress", "address", "statusReport", "replyPath",
         "protocolIdentifier", "dataCodingScheme", "userDataHeader", "userData", "rejectDuplicates",
         "validityPeriod", "validityPeriodFormat", "messageReference"}
    [] class = "SMS_STATUS_REPORT" -> {"serviceCentreAddress", "address", "moreMessagesToSend", "statusReport",
         "serviceCentreTimestamp", "dischargeTime", "messageReference", "status"}
    [] class = "SMS_COMMAND" -> {"serviceCentreAddress", "address", "statusReport", "messageReference",
         "protocolIdentifier", "commandType", "messageNumber", "commandData"}
    [] class = "SMS_DELIVER_REPORT" -> {"serviceCentreAddress", "protocolIdentifierPresent",
         "dataCodingSchemePresent", "userDataLengthPresent"}
    [] class = "SMS_SUBMIT_REPORT" -> {"serviceCentreAddress", "serviceCentreTimestamp",
         "protocolIdentifierPresent", "dataCodingSchemePresent", "userDataLengthPresent"}
Own(m) == [f \in DOMAIN m |-> IF f \in Members(m.class) \cup {"class"} THEN m[f] ELSE Fresh(m.class)[f]]

Alphanumerics(class) ==
  {[Fresh(class) EXCEPT !.address = Address(Alphanumeric, ISDN_Telephone, Named(n))] : n \in 1..8}
Submits ==
  {[Fresh("SMS_SUBMIT") EXCEPT !.validityPeriodFormat = p.format, !.validityPeriod = p, !.messageReference = 200]
   : p \in {NoPeriod, TimePeriod(Relative, 255, NoTimestamp), TimePeriod(Absolute, 0, Stamp)}}
Others ==
  {[Fresh("SMS_STATUS_REPORT") EXCEPT !.dischargeTime = Stamp, !.status = 48],
   [Fresh("SMS_COMMAND") EXCEPT !.commandType = 2, !.messageNumber = 3],
   [Fresh("SMS_COMMAND") EXCEPT !.commandData = <<1, 2>>],
   [Fresh("SMS_DELIVER") EXCEPT !.userDataHeader = TwoIEs, !.userData = <<64, 36, 95, 228>>]}
Reports ==
  {[Fresh(class) EXCEPT !.protocolIdentifierPresent = p, !.protocolIdentifier = IF p THEN 7 ELSE 0,
      !.dataCodingSchemePresent = d # 0, !.dataCodingScheme = d,
      !.userDataLengthPresent = n # 0, !.userData = Letters(n)]
   : class \in Report, p \in BOOLEAN, d \in {0, 4}, n \in {0, 3}}

AllMessages ==
  UNION {Sized(c) \cup Limits(c) \cup Alphanumerics(c) : c \in {"SMS_DELIVER", "SMS_SUBMIT"}}
    \cup {Own(m) : m \in UNION {Varied(Fresh(c)) : c \in Class}}
    \cup Submits \cup Others \cup Reports

CBPDUs == {BitsOf(<<65, 18, 0, 50, dcs, 17>> \o Letters(82), 8) : dcs \in {0, 17, 64, 68}}

Numbers2 == UNION {[1..n -> {0, 1}] : n \in 0..2}
PhoneNumbers == Numbers2 \cup {<<Plus>> \o n : n \in Numbers2} \cup {<<1, WhiteSpace, 0, 0>>}

Short == UNION {[1..n -> {Open, Close, Comma, Dash, Space, Letter, 1, 3}] : n \in 0..4}
Listed == {<<Open>> \o s : s \in [1..6 -> {Close, Comma, Dash, 1, 3}]}
Strings2 == Short \cup {s \in Listed : \A i \in 1..6 : s[i] \in Digit => s[i + 1] \notin Digit}
AllLines == {s \in Strings2 :
               LET t == SelectSeq(s, LAMBDA c : c # Space)
               IN \A i \in 1..(Len(t) - 1) : ~(t[i] \in Digit /\ t[i + 1] \in Digit)}

Q(s) == <<Quote>> \o s \o <<Quote>>
Says(line, grammar, means) == [line |-> line, grammar |-> grammar, means |-> means]
Words == {<<>>, <<Letter>>, <<Letter, Comma, Close>>, <<Open, Space, 1>>, <<Space>>}
AllAnswers ==
  {Says(<<Open>> \o Q(v) \o <<Comma, Space>> \o Q(w) \o <<Close, Comma, 1>>, "stringList", <<v, w>>) : v, w \in Words}
    \cup {Says(<<Open, 1, Space, Dash, n, Close>>, "range", IntRange(IF n = 0 THEN 0 ELSE 1, IF n = 0 THEN 1 ELSE n)) : n \in {0, 1, 2}}
    \cup {Says(<<Open>> \o Q(w) \o <<Comma, Open, 1, Dash, 2, Close, Close, Comma, Open, Letter, Comma, Open, 2, Dash, 4, Close, Close>>,
               "parameterRanges", <<[parameter |-> w, range |-> IntRange(1, 2)],
                                    [parameter |-> <<Letter>>, range |-> IntRange(2, 4)]>>) : w \in Words}
    \cup {Says(Q(w) \o <<Comma, 1>>, "string", w) : w \in Words}
    \cup {Says(Q(w \o <<Quote>> \o w), "text", w \o <<Quote>> \o w) : w \in Words}
    \cup {Says(<<Space, Comma, 1>>, "intOrNone", NOT_SET), Says(<<1, Space, 2, Comma>>, "intOrNone", 12),
          Says(<<1, Space, Letter>>, "eol", <<1, Letter>>)}
=============================================================================
