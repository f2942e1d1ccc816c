------------------------------- MODULE Parser -------------------------------
(***************************************************************************)
(* The Parser of gsm_parser.cc, which takes the answers of the TA apart.   *)
(* A parser is a string, the place of the next character, whether the end  *)
(* was read, how the calls ended and the value of the last one.  Digits    *)
(* are the characters 0 to 9, the others are negative.                     *)
(***************************************************************************)
EXTENDS Integers, Sequences, SequencesExt, Exceptions

Eol == -1
Quote == -2
Open == -3
Close == -4
Comma == -5
Dash == -6
Space == -7
Letter == -8
Digit == 0..9
NOT_SET == -1

NewParser(s) == [s |-> s, i |-> 1, eos |-> FALSE, how |-> "ok", val |-> Eol]
Returns(p, v) == Then(p, LAMBDA q : [q EXCEPT !.val = v])
ThrowParseException(p) == [p EXCEPT !.how = "throw"]

(***************************************************************************)
(* nextChar() and putBackChar(): at the end there is nothing to put back,  *)
(* and what was noted about the end is never forgotten.                    *)
(***************************************************************************)
Moved(p, ahead) ==
  LET i == CHOOSE i \in ahead : \A j \in ahead : i <= j
  IN IF ahead = {} THEN [p EXCEPT !.i = Len(p.s) + 1, !.eos = TRUE, !.val = Eol]
     ELSE [p EXCEPT !.i = i + 1, !.val = p.s[i]]
\* Faulty variant: white space is always skipped.
NextCharSkipping(p, skipWhiteSpace) ==
  Then(p, LAMBDA q : Moved(q, {i \in q.i..Len(q.s) : q.s[i] # Space}))
NextChar(p, skipWhiteSpace) ==
  Then(p, LAMBDA q : Moved(q, {i \in q.i..Len(q.s) : ~skipWhiteSpace \/ q.s[i] # Space}))
PutBackChar(p) == Then(p, LAMBDA q : IF q.eos THEN q ELSE [q EXCEPT !.i = @ - 1])

CheckEmptyParameter(p, allowNoParameter) ==
  Then(NextChar(p, TRUE), LAMBDA c :
    IF c.val \notin {Comma, Eol} THEN Returns(PutBackChar(c), FALSE)
    ELSE IF allowNoParameter THEN Returns(PutBackChar(c), TRUE)
    ELSE ThrowParseException(c))
\* A parameter that may be missing: what Parse makes of it, or else the value none.
Optional(p, allowNone, none, Parse(_)) ==
  Then(CheckEmptyParameter(p, allowNone), LAMBDA e : IF e.val THEN Returns(e, none) ELSE Parse(e))

ParseChar(p, char, allowNoChar) ==
  Then(NextChar(p, TRUE), LAMBDA c :
    IF c.val = char THEN Returns(c, TRUE)
    ELSE IF allowNoChar THEN Returns(PutBackChar(c), FALSE)
    ELSE ThrowParseException(c))
ParseComma(p, allowNoComma) == ParseChar(p, Comma, allowNoComma)

-----------------------------------------------------------------------------
\* parseInt2(): white space between digits is skipped.
RECURSIVE Digits(_, _)
Digits(p, n) ==
  Then(NextChar(p, TRUE), LAMBDA c :
    IF c.val \in Digit THEN Digits(c, 10 * n + c.val) ELSE Returns(PutBackChar(c), n))
ParseInt(p, allowNoInt) ==
  Optional(p, allowNoInt, NOT_SET, LAMBDA e :
  Then(NextChar(e, TRUE), LAMBDA c :
    IF c.val \in Digit THEN Digits(e, 0) ELSE ThrowParseException(c)))

\* parseString2(): between quotation marks, to the end of the line, or to a
\* comma or parenthesis.
RECURSIVE Until(_, _, _)
Until(p, ends, string) ==
  LET c == NextChar(p, FALSE)
  IN IF c.val \in ends \cup {Eol} THEN [c |-> c, string |-> string]
     ELSE Until(c, ends, Append(string, c.val))
ParseString(p, allowNoString, stringWithQuotationMarks) ==
  Optional(p, allowNoString, <<>>, LAMBDA e :
  Then(ParseChar(e, Quote, TRUE), LAMBDA quote :
    LET line   == Until(quote, {}, <<>>)
        quoted == Until(quote, {Quote}, <<>>)
        plain  == Until(quote, {Comma, Close}, <<>>)
    IN IF ~quote.val
       THEN Returns(IF plain.c.val = Eol THEN plain.c ELSE PutBackChar(plain.c), plain.string)
       ELSE IF stringWithQuotationMarks
       THEN IF line.string = <<>> \/ Last(line.string) # Quote THEN ThrowParseException(line.c)
            ELSE Returns(line.c, Front(line.string))
       ELSE IF quoted.c.val = Eol THEN ThrowParseException(quoted.c)
       ELSE Returns(quoted.c, quoted.string)))

RECURSIVE Strings(_, _, _)
Strings(p, expectClosingParenthesis, list) ==
  Then(ParseString(p, FALSE, FALSE), LAMBDA s :
  Then(NextChar(s, TRUE), LAMBDA c :
    IF c.val = Close \/ (c.val = Eol /\ ~expectClosingParenthesis) THEN Returns(c, Append(list, s.val))
    ELSE IF c.val = Comma THEN Strings(c, expectClosingParenthesis, Append(list, s.val))
    ELSE ThrowParseException(c)))
ParseStringList(p, allowNoList, allowNoParentheses) ==
  Optional(p, allowNoList, <<>>, LAMBDA e :
  Then(ParseChar(e, Open, allowNoParentheses), LAMBDA open :
  Then(NextChar(open, TRUE), LAMBDA c :
    IF c.val = Close THEN Returns(c, <<>>) ELSE Strings(PutBackChar(c), open.val, <<>>))))

-----------------------------------------------------------------------------
(***************************************************************************)
(* parseIntList() reads the list twice, to find the capacity and to fill   *)
(* the vector.  A list is the set of its numbers.  isRange is FALSE again  *)
(* after every number, so that "range of the form a-b-c" is never refused. *)
(***************************************************************************)
\* Faulty variant: the larger end of a range may not come first.
RangeUp(last, this) == last..(this - 1)
Range_(last, this)  == IF last <= this THEN last..(this - 1) ELSE this..(last - 1)

RECURSIVE Ints(_, _, _, _, _)
Ints(p, expectClosingParen, isRange, last, set) ==
  Then(ParseInt(p, FALSE), LAMBDA n :
  Then(NextChar(n, TRUE), LAMBDA c :
    LET all == set \cup {n.val} \cup (IF isRange THEN Range_(last, n.val) ELSE {})
    IN IF c.val = (IF expectClosingParen THEN Close ELSE Eol) THEN Returns(c, all)
       ELSE IF c.val \notin {Comma, Dash} THEN ThrowParseException(c)
       ELSE Ints(c, expectClosingParen, c.val = Dash, n.val, all)))

Pass(p, allowNoParentheses) ==
  Then(ParseChar(p, Open, allowNoParentheses), LAMBDA open :
  Then(NextChar(open, TRUE), LAMBDA c :
    IF c.val = (IF open.val THEN Close ELSE Eol) THEN Returns(c, {})
    ELSE Ints(PutBackChar(c), open.val, FALSE, NOT_SET, {})))

ParseIntList(p, allowNoList, allowNoParentheses) ==
  Optional(p, allowNoList, {}, LAMBDA e :
  Then(NextChar(e, TRUE), LAMBDA c :
    IF c.val \in Digit
    THEN Then(ParseInt(PutBackChar(c), FALSE), LAMBDA one : Returns(one, {one.val}))
    ELSE Then(Pass(PutBackChar(c), allowNoParentheses), LAMBDA first :
           Pass([first EXCEPT !.i = p.i], allowNoParentheses))))

-----------------------------------------------------------------------------
(***************************************************************************)
(* Ranges.  When the second number may be missing, its place is taken by   *)
(* NOT_SET, and the numbers are then put into order.                       *)
(***************************************************************************)
IntRange(low, high) == [low |-> low, high |-> high]
Ordered(low, high) == IF low <= high THEN IntRange(low, high) ELSE IntRange(high, low)
ParseRange(p, allowNoRange, allowNonRange, allowNoParentheses) ==
  Optional(p, allowNoRange, IntRange(NOT_SET, NOT_SET), LAMBDA e :
  Then(ParseChar(e, Open, allowNoParentheses), LAMBDA open :
  Then(ParseInt(open, FALSE), LAMBDA low :
  Then(ParseChar(low, Dash, allowNonRange), LAMBDA dash :
  Then(IF dash.val THEN ParseInt(dash, FALSE) ELSE Returns(dash, NOT_SET), LAMBDA high :
    Returns(IF open.val THEN ParseChar(high, Close, FALSE) ELSE high, Ordered(low.val, high.val)))))))

ParseParameterRange(p, allowNoParameterRange) ==
  Optional(p, allowNoParameterRange, [parameter |-> <<>>, range |-> IntRange(NOT_SET, NOT_SET)], LAMBDA e :
  Then(ParseString(ParseChar(e, Open, FALSE), FALSE, FALSE), LAMBDA name :
  Then(ParseRange(ParseComma(name, FALSE), FALSE, TRUE, FALSE), LAMBDA range :
    Returns(ParseChar(range, Close, FALSE), [parameter |-> name.val, range |-> range.val]))))

RECURSIVE ParameterRanges(_, _)
ParameterRanges(p, list) ==
  Then(ParseParameterRange(p, FALSE), LAMBDA r :
  Then(ParseComma(r, TRUE), LAMBDA comma :
    IF comma.val THEN ParameterRanges(comma, Append(list, r.val))
    ELSE Returns(comma, Append(list, r.val))))
ParseParameterRangeList(p, allowNoList) ==
  Optional(p, allowNoList, <<>>, LAMBDA e : ParameterRanges(e, <<>>))

\* parseEol() and getEol(): the rest of the line without its white space.
GetEol(p)   == SelectSeq(SubSeq(p.s, p.i, Len(p.s)), LAMBDA c : c # Space)
ParseEol(p) == [p EXCEPT !.i = Len(p.s) + 1, !.eos = TRUE, !.val = GetEol(p)]
CheckEol(p) ==
  Then(NextChar(p, TRUE), LAMBDA c : IF c.val = Eol THEN c ELSE ThrowParseException(PutBackChar(c)))
=============================================================================
