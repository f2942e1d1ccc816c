------------------------------- MODULE Codec -------------------------------
(***************************************************************************)
(* SMSEncoder and SMSDecoder of gsm_sms_codec.cc, which write and read the *)
(* fields of a PDU, and the addresses, time stamps, time periods and user  *)
(* data headers these are.  A PDU is the sequence of its bits, those of an *)
(* octet from the lowest to the highest: a pointer and a bit index are a   *)
(* place in it.  Digits, characters and octets are numbers.                *)
(***************************************************************************)
EXTENDS Integers, Sequences, SequencesExt, Exceptions

Unmarked == -1     \* an uninitialised _septetStart

(***************************************************************************)
(* The GSM alphabet: gsmToLatin1 and latin1ToGsm.  Where a character has   *)
(* no counterpart there are NOP and GSM_NOP.                               *)
(***************************************************************************)
NOP == 172
GSM_NOP == 16
ToLatin1 ==
  LET first == <<64, 163, 36, 165, 232, 233, 249, 236, 242, 199, 10, 216, 248, 13, 197, 229, NOP, 95>>
  IN [c \in 0..127 |->
        CASE c < 18        -> first[c + 1]
          [] c \in 18..27  -> NOP
          [] c \in 28..31  -> <<198, 230, 223, 201>>[c - 27]
          [] c = 36        -> 164
          [] c = 64        -> 161
          [] c \in 91..96  -> <<196, 214, 209, 220, 167, 191>>[c - 90]
          [] c \in 123..127 -> <<228, 246, 241, 252, 224>>[c - 122]
          [] OTHER         -> c]
ToGsm == [l \in 0..255 |-> IF \E c \in 0..127 : ToLatin1[c] = l /\ l # NOP
                          THEN CHOOSE c \in 0..127 : ToLatin1[c] = l ELSE GSM_NOP]

\* The bits of numbers, each of a width.
BitsOf(numbers, width) ==
  [i \in 1..(width * Len(numbers)) |->
     (numbers[(i - 1) \div width + 1] \div 2^((i - 1) % width)) % 2]
Zeros(n)          == [i \in 1..n |-> 0]
Missing(n, width) == (width - (n % width)) % width
NumberOf(bits)    == FoldRight(LAMBDA b, n : 2 * n + b, bits, 0)
NumbersOf(bits, width) ==
  [i \in 1..(Len(bits) \div width) |-> NumberOf(SubSeq(bits, (i - 1) * width + 1, i * width))]

-----------------------------------------------------------------------------
(***************************************************************************)
(* Addresses, time stamps, time periods.                                   *)
(***************************************************************************)
Unknown == 0
International == 1
Alphanumeric == 5
UnknownPlan == 0
ISDN_Telephone == 1
NotPresent == 0
Relative == 2
Absolute == 3

Address(type, plan, number) == [type |-> type, plan |-> plan, number |-> number]
NoAddress == Address(Unknown, UnknownPlan, <<>>)

\* Address(string): the text without white space; "+" makes it international.
WhiteSpace == -2
Plus == -1
AddressOf(text) ==
  LET number == SelectSeq(text, LAMBDA c : c # WhiteSpace)
  IN IF number # <<>> /\ number[1] = Plus
     THEN Address(International, ISDN_Telephone, Tail(number))
     ELSE Address(Unknown, ISDN_Telephone, number)

\* operator<: "+" sorts before digits; the shorter number is filled up with zeros.
Spelled(x) == IF x.type = International THEN <<Plus>> \o x.number ELSE x.number
Normalized(x, n) == Spelled(x) \o Zeros(n - Len(Spelled(x)))
\* Faulty variant: an address is before an equal one.
AddressNotAfter(x, y) ==
  LET n == Max({Len(Spelled(x)), Len(Spelled(y))})
      s == Normalized(x, n)   t == Normalized(y, n)
  IN s = t \/ \E i \in 1..n : s[i] < t[i] /\ \A j \in 1..(i - 1) : s[j] = t[j]
AddressLess(x, y) ==
  LET n == Max({Len(Spelled(x)), Len(Spelled(y))})
      s == Normalized(x, n)   t == Normalized(y, n)
  IN \E i \in 1..n : s[i] < t[i] /\ \A j \in 1..(i - 1) : s[j] = t[j]
\* operator==.
AddressEqual(x, y) == x.number = y.number /\ x.plan = y.plan

\* The six numbers of a date, and a time zone in minutes.
Timestamp(date, zone, negative) == [date |-> date, zone |-> zone, negative |-> negative]
NoTimestamp == Timestamp(<<0, 0, 0, 0, 0, 0>>, 0, FALSE)
TimePeriod(format, relative, absolute) ==
  [format |-> format, relative |-> relative, absolute |-> absolute]
NoPeriod == TimePeriod(NotPresent, 0, NoTimestamp)

-----------------------------------------------------------------------------
(***************************************************************************)
(* SMSEncoder.  When no septet was marked, alignSeptet() works from an     *)
(* uninitialised pointer: it writes junk bits, any number below 7.         *)
(***************************************************************************)
Encoder(junk) == [bits |-> <<>>, start |-> Unmarked, junk |-> junk]

SetBits(e, numbers, width) == [e EXCEPT !.bits = @ \o BitsOf(numbers, width)]
SetInteger(e, n, width)    == SetBits(e, <<n>>, width)
AlignOctet(e)  == [e EXCEPT !.bits = @ \o Zeros(Missing(Len(@), 8))]
MarkSeptet(e)  == LET a == AlignOctet(e) IN [a EXCEPT !.start = Len(a.bits)]
\* Faulty variant: the characters follow the user data header immediately.
AlignSeptetNot(e) == e
AlignSeptet(e) ==
  [e EXCEPT !.bits = @ \o Zeros(IF e.start = Unmarked THEN e.junk ELSE Missing(Len(@) - e.start, 7))]
SetOctets(e, octets) == SetBits(AlignOctet(e), octets, 8)
SetOctet(e, n)       == SetOctets(e, <<n % 256>>)
SetString(e, s)      == SetBits(AlignSeptet(e), [i \in DOMAIN s |-> ToGsm[s[i]]], 7)

\* An odd number of digits is filled up with 0xf.
SetSemiOctets(e, digits) ==
  SetBits(AlignOctet(e), IF Len(digits) % 2 = 0 THEN digits ELSE Append(digits, 15), 4)
SetTimestamp(e, t) ==
  LET zone == t.zone \div 15
      sign(n) == IF t.negative THEN (n % 8) + 8 ELSE n
      digits == FoldLeft(LAMBDA s, n : s \o <<n \div 10, n % 10>>, <<>>, t.date)
  IN SetSemiOctets(e, digits \o <<sign(zone \div 10), zone % 10>>)
SetTimePeriod(e, p) ==
  CASE p.format = NotPresent -> e
    [] p.format = Relative   -> SetOctet(e, p.relative)
    [] p.format = Absolute   -> SetTimestamp(e, p.absolute)

\* The length of an alphanumeric address is meant in semi-octets.
AddressLength(a, sc) ==
  CASE sc -> (Len(a.number) + 1) \div 2 + 1
    [] ~sc /\ a.type = Alphanumeric -> ((Len(a.number) * 7 + 6) \div 8) * 2
    [] ~sc /\ a.type # Alphanumeric -> Len(a.number)
SetAddress(e, a, sc) ==
  LET head == SetBits(SetInteger(SetInteger(SetOctet(e, AddressLength(a, sc)), a.plan, 4), a.type, 3), <<1>>, 1)
  IN IF sc /\ a.number = <<>> THEN SetOctet(e, 0)
     ELSE IF a.type = Alphanumeric /\ a.number # <<>>
     THEN AlignOctet(SetString(MarkSeptet(head), a.number))
     ELSE SetSemiOctets(head, a.number)

\* getHexString(): the bits of whole octets.
HexString(e) == AlignOctet(e).bits

-----------------------------------------------------------------------------
(***************************************************************************)
(* SMSDecoder.  At the end of the PDU functions on octets and semi-octets  *)
(* throw an exception, and those on bits fail an assertion.                *)
(***************************************************************************)
Decoder(pdu) ==
  [bits |-> pdu, at |-> 0, start |-> Unmarked, how |-> IF Len(pdu) % 8 = 0 THEN "ok" ELSE "throw",
   val |-> <<>>]

\* Faulty variant: bits behind the end are zeros.
GetUnchecked(d, n, failure) ==
  [d EXCEPT !.at = @ + n,
            !.val = [i \in 1..n |-> IF d.at + i > Len(d.bits) THEN 0 ELSE d.bits[d.at + i]]]
Get(d, n, failure) ==
  Then(d, LAMBDA g :
    IF g.at + n > Len(g.bits) THEN [g EXCEPT !.how = failure]
    ELSE [g EXCEPT !.at = @ + n, !.val = SubSeq(g.bits, g.at + 1, g.at + n)])
Value(d, v) == [d EXCEPT !.val = v]
Skip(d)     == [d EXCEPT !.at = @ + Missing(@, 8)]
Mark(d)     == [Skip(d) EXCEPT !.start = Skip(d).at]

GetInteger(d, width) ==
  Then(Get(d, width, "abort"), LAMBDA g : Value(g, NumberOf(g.val)))
GetOctet(d) ==
  Then(Get(Skip(d), 8, "throw"), LAMBDA g : Value(g, NumberOf(g.val)))
GetOctets(d, n) ==
  Then(Get(Skip(d), 8 * n, "throw"), LAMBDA g : Value(g, NumbersOf(g.val, 8)))
GetString(d, n) ==
  Then(Get(Get(d, Missing(d.at - d.start, 7), "abort"), 7 * n, "abort"), LAMBDA g :
    Value(g, [i \in 1..n |-> ToLatin1[NumbersOf(g.val, 7)[i]]]))

\* A digit 0xf in the second half of an octet is skipped.
Digits0xF(digits) ==
  FoldLeft(LAMBDA s, i : IF i % 2 = 0 /\ digits[i] = 15 THEN s ELSE Append(s, digits[i]),
           <<>>, [i \in DOMAIN digits |-> i])
GetSemiOctets(d, n) ==
  Then(Get(Skip(d), 4 * n, "throw"), LAMBDA g : Skip(Value(g, Digits0xF(NumbersOf(g.val, 4)))))
Decimal(digits) == FoldLeft(LAMBDA r, n : 10 * r + n, 0, digits)

GetAddress(d, sc) ==
  Then(GetOctet(d), LAMBDA length :
    IF sc /\ length.val = 0 THEN Value(length, NoAddress)
    ELSE Then(GetInteger(length, 4), LAMBDA plan :
         Then(GetInteger(plan, 3), LAMBDA type :
         Then(IF type.val = Alphanumeric
              THEN Skip(GetString(Mark(type), (length.val * 4) \div 7))
              ELSE GetSemiOctets(type, IF sc THEN (length.val - 1) * 2 ELSE length.val),
           LAMBDA number : Value(number, Address(type.val, plan.val, number.val))))))

GetDate(d) ==
  FoldLeft(LAMBDA r, i : Then(GetSemiOctets(r, 2), LAMBDA g : Value(g, Append(r.val, Decimal(g.val)))),
           Value(d, <<>>), <<1, 2, 3, 4, 5, 6>>)
GetTimestamp(d) ==
  Then(GetDate(d), LAMBDA date :
  Then(GetOctet(date), LAMBDA zone :
    LET tens == zone.val % 16
    IN Value(zone, Timestamp(date.val, (10 * (tens % 8) + zone.val \div 16) * 15, tens >= 8))))

GetTimePeriod(d, format) ==
  CASE format = NotPresent -> Value(d, NoPeriod)
    [] format = Relative   -> Then(GetOctet(d), LAMBDA octet :
                                Value(octet, TimePeriod(Relative, octet.val, NoTimestamp)))
    [] format = Absolute   -> Then(GetTimestamp(d), LAMBDA time :
                                Value(time, TimePeriod(Absolute, 0, time.val)))
    [] OTHER -> [d EXCEPT !.how = "throw"]

-----------------------------------------------------------------------------
(***************************************************************************)
(* User data headers: octets; an information element is its identifier,    *)
(* the length of its data and the data.                                    *)
(***************************************************************************)
EncodeHeader(e, udh) == SetOctets(SetOctet(e, Len(udh)), udh)
DecodeHeader(d) == Then(GetOctet(d), LAMBDA length : GetOctets(length, length.val))

\* Faulty variant: the data of an element are taken for the next element.
NextIEWrong(udh, pos) == pos + 2
NextIE(udh, pos)      == pos + 2 + (IF pos + 1 > Len(udh) THEN 0 ELSE udh[pos + 1])
\* The places of the elements getIE() comes by.  Behind the end a string has a 0;
\* a header that ends with an identifier, where substr() throws, is not asked.
Elements(udh) ==
  LET next[pos \in 1..(Len(udh) + 258)] ==
        IF pos > Len(udh) THEN {} ELSE {pos} \cup next[NextIE(udh, pos)]
  IN next[1]
GetIE(udh, id) ==
  LET found == {pos \in Elements(udh) : udh[pos] = id}
      first == CHOOSE pos \in found : \A q \in found : pos <= q
  IN IF found = {} THEN <<>>
     ELSE SubSeq(udh, first + 2, IF NextIE(udh, first) - 1 > Len(udh) THEN Len(udh) ELSE NextIE(udh, first) - 1)
=============================================================================
