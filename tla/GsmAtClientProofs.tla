------------------------- MODULE GsmAtClientProofs --------------------------
(***************************************************************************)
(* Theorems about the AT command line, for any commands, events, values,   *)
(* bounds and numbers of tries, any order of the lines and any delay of    *)
(* the TA.  The answers: the line without its events (Holds) and the rest  *)
(* of the answer that the TA is sending (Pending), the commands that are   *)
(* not executed, the PDU the TA waits for and the calls are always in one  *)
(* of a few phases (PhaseInv), from which OwnAnswer and Undisturbed        *)
(* follow.  The events: how often an event is in the lines,                *)
(* the calls and what the program received is kept by every step           *)
(* (Delivery), and so is their order (Order).                              *)
(***************************************************************************)
EXTENDS GsmAtClient, SequenceTheorems, FiniteSetTheorems, FunctionTheorems, TLAPS

-----------------------------------------------------------------------------
(* What a line holds: some of its items, in their order. *)

\* s is the lines of l that are in K; g has their places in l.
Picks(l, K, s, g) ==
  /\ g \in [1..Len(s) -> 1..Len(l)]
  /\ \A i, j \in 1..Len(s) : i < j => g[i] < g[j]
  /\ \A j \in 1..Len(s) : s[j] = l[g[j]] /\ l[g[j]] \in K
  /\ \A k \in 1..Len(l) : l[k] \in K => \E j \in 1..Len(s) : g[j] = k
Takes(l, K, s) == s \in Seq(LineType) /\ \E g : Picks(l, K, s, g)

\* Nothing is taken from an empty line.
LEMMA TakesEmpty ==
  ASSUME NEW K
  PROVE  Takes(<< >>, K, << >>)
<1> DEFINE g == [j \in 1..0 |-> 0]
<1>1. Len(<< >>) = 0 /\ 1..0 = {} /\ << >> \in Seq(LineType)
  OBVIOUS
<1>2. g \in [1..0 -> 1..0]
  BY <1>1
<1>3. Picks(<< >>, K, << >>, g)
  BY <1>1, <1>2 DEF Picks
<1> QED
  BY <1>1, <1>3 DEF Takes

\* What nothing is taken from has nothing of K.
LEMMA TakesNothing ==
  ASSUME NEW K, NEW l, Takes(l, K, << >>), NEW k \in 1..Len(l)
  PROVE  l[k] \notin K
<1>1. PICK g : Picks(l, K, << >>, g)
  BY DEF Takes
<1>2. Len(<< >>) = 0 /\ 1..0 = {}
  OBVIOUS
<1> QED
  BY <1>1, <1>2 DEF Picks

\* Nothing is taken from a line that has nothing of K.
LEMMA TakesNone ==
  ASSUME NEW K, NEW l, \A k \in 1..Len(l) : l[k] \notin K
  PROVE  Takes(l, K, << >>)
<1> DEFINE g == [j \in 1..0 |-> 0]
<1>1. Len(<< >>) = 0 /\ 1..0 = {} /\ << >> \in Seq(LineType)
  OBVIOUS
<1>2. g \in [1..0 -> 1..Len(l)]
  BY <1>1
<1>3. Picks(l, K, << >>, g)
  BY <1>1, <1>2 DEF Picks
<1> QED
  BY <1>1, <1>3 DEF Takes

\* Something else at the end of the line.
LEMMA TakesOther ==
  ASSUME NEW K, NEW l \in Seq(LineType), NEW s, Takes(l, K, s), NEW x \in LineType, x \notin K
  PROVE  Takes(Append(l, x), K, s)
<1>1. PICK g : Picks(l, K, s, g)
  BY DEF Takes
<1> DEFINE m == Append(l, x)
<1>2. Len(m) = Len(l) + 1 /\ Len(l) \in Nat
      /\ m[Len(l) + 1] = x /\ \A k \in 1..Len(l) : m[k] = l[k]
  BY AppendProperties
<1> HIDE DEF m
<1>3. g \in [1..Len(s) -> 1..Len(m)]
  BY <1>1, <1>2 DEF Picks
<1>4. \A j \in 1..Len(s) : g[j] \in 1..Len(l) /\ s[j] = m[g[j]] /\ m[g[j]] \in K
  BY <1>1, <1>2 DEF Picks
<1>5. ASSUME NEW k \in 1..Len(m), m[k] \in K PROVE \E j \in 1..Len(s) : g[j] = k
  <2>1. k \in 1..Len(l) /\ l[k] \in K
    BY <1>2, <1>5
  <2> QED
    BY <1>1, <2>1 DEF Picks
<1>6. Picks(m, K, s, g)
  BY <1>1, <1>3, <1>4, <1>5 DEF Picks
<1> QED
  BY <1>6 DEF Takes, m

\* More of K at the end of the line.
LEMMA TakesMore ==
  ASSUME NEW K, NEW l \in Seq(LineType), NEW s, Takes(l, K, s), NEW t \in Seq(LineType),
         \A j \in 1..Len(t) : t[j] \in K
  PROVE  Takes(l \o t, K, s \o t)
<1>1. PICK g : Picks(l, K, s, g)
  BY DEF Takes
<1>2. s \in Seq(LineType)
  BY DEF Takes
<1> DEFINE m == l \o t
           u == s \o t
           h == [j \in 1..(Len(s) + Len(t)) |->
                   IF j <= Len(s) THEN g[j] ELSE Len(l) + j - Len(s)]
<1>3. /\ Len(m) = Len(l) + Len(t) /\ Len(l) \in Nat /\ Len(t) \in Nat
      /\ \A k \in 1..(Len(l) + Len(t)) : m[k] = IF k <= Len(l) THEN l[k] ELSE t[k - Len(l)]
  BY ConcatProperties, LenProperties
<1>4. /\ u \in Seq(LineType) /\ Len(u) = Len(s) + Len(t) /\ Len(s) \in Nat
      /\ \A j \in 1..(Len(s) + Len(t)) : u[j] = IF j <= Len(s) THEN s[j] ELSE t[j - Len(s)]
  BY <1>2, ConcatProperties, LenProperties
<1> HIDE DEF m, u
<1>5. \A j \in 1..Len(s) : g[j] \in 1..Len(l)
  BY <1>1 DEF Picks
<1>6. h \in [1..Len(u) -> 1..Len(m)]
  BY <1>3, <1>4, <1>5
<1>7. \A j \in 1..Len(u) : h[j] = IF j <= Len(s) THEN g[j] ELSE Len(l) + j - Len(s)
  BY <1>4
<1> HIDE DEF h
<1>8. \A i, j \in 1..Len(u) : i < j => h[i] < h[j]
  BY <1>1, <1>3, <1>4, <1>5, <1>7 DEF Picks
<1>9. \A j \in 1..Len(u) : u[j] = m[h[j]] /\ m[h[j]] \in K
  <2> TAKE j \in 1..Len(u)
  <2>1. CASE j <= Len(s)
    <3>1. j \in 1..Len(s) /\ h[j] = g[j] /\ u[j] = s[j]
      BY <1>4, <1>7, <2>1
    <3>2. g[j] \in 1..Len(l) /\ m[g[j]] = l[g[j]]
      BY <1>3, <1>5, <3>1
    <3> QED
      BY <1>1, <3>1, <3>2 DEF Picks
  <2>2. CASE ~(j <= Len(s))
    <3>1. j - Len(s) \in 1..Len(t) /\ h[j] = Len(l) + j - Len(s) /\ u[j] = t[j - Len(s)]
      BY <1>3, <1>4, <1>7, <2>2, SMTT(30)
    <3>2. m[h[j]] = t[j - Len(s)]
      <4> DEFINE i == j - Len(s)
                 k == Len(l) + i
      <4>1. h[j] = k
        BY <1>3, <1>4, <3>1
      <4>2. k \in 1..(Len(l) + Len(t)) /\ ~(k <= Len(l)) /\ k - Len(l) = i
        BY <1>3, <3>1
      <4> HIDE DEF k
      <4> QED
        BY <1>3, <4>1, <4>2
    <3> QED
      BY <3>1, <3>2
  <2> QED
    BY <2>1, <2>2
<1>10. ASSUME NEW k \in 1..Len(m), m[k] \in K
       PROVE  \E j \in 1..Len(u) : h[j] = k
  <2>1. CASE k <= Len(l)
    <3>1. k \in 1..Len(l) /\ m[k] = l[k]
      BY <1>3, <2>1
    <3>2. PICK j \in 1..Len(s) : g[j] = k
      BY <1>1, <1>10, <3>1 DEF Picks
    <3>3. j \in 1..Len(u) /\ h[j] = k
      BY <1>3, <1>4, <1>7, <3>2
    <3> QED
      BY <3>3
  <2>2. CASE ~(k <= Len(l))
    <3> DEFINE j == k - Len(l) + Len(s)
    <3>1. j \in 1..Len(u) /\ ~(j <= Len(s))
      BY <1>3, <1>4, <2>2
    <3>2. h[j] = k
      BY <1>3, <1>4, <1>7, <3>1
    <3> QED
      BY <3>1, <3>2
  <2> QED
    BY <2>1, <2>2
<1>11. Picks(m, K, u, h)
  BY <1>6, <1>8, <1>9, <1>10 DEF Picks
<1> QED
  BY <1>4, <1>11 DEF Takes, m, u

\* The first thing of the line is read and is not in K.
LEMMA OtherRead ==
  ASSUME NEW K, NEW l \in Seq(LineType), l # << >>, NEW s, Takes(l, K, s), Head(l) \notin K
  PROVE  Takes(Tail(l), K, s)
<1>1. PICK g : Picks(l, K, s, g)
  BY DEF Takes
<1> DEFINE m == Tail(l)
           h == [j \in 1..Len(s) |-> g[j] - 1]
<1>2. /\ Len(m) = Len(l) - 1 /\ Len(l) \in Nat \ {0} /\ l[1] \notin K
      /\ \A k \in 1..Len(m) : m[k] = l[k + 1]
  BY HeadTailProperties, LenProperties, EmptySeq
<1> HIDE DEF m
<1>3. \A j \in 1..Len(s) : g[j] \in 2..Len(l)
  BY <1>1, <1>2 DEF Picks
<1>4. h \in [1..Len(s) -> 1..Len(m)] /\ \A j \in 1..Len(s) : h[j] = g[j] - 1
  BY <1>2, <1>3
<1> HIDE DEF h
<1>5. Len(s) \in Nat
  BY LenProperties DEF Takes
<1>6. \A i, j \in 1..Len(s) : i < j => h[i] < h[j]
  BY <1>1, <1>3, <1>4, <1>5 DEF Picks
<1>7. ASSUME NEW j \in 1..Len(s) PROVE s[j] = m[h[j]] /\ m[h[j]] \in K
  <2>1. h[j] \in 1..Len(m) /\ h[j] + 1 = g[j]
    BY <1>2, <1>3, <1>4
  <2>2. m[h[j]] = l[g[j]]
    BY <1>2, <2>1
  <2> QED
    BY <1>1, <2>2 DEF Picks
<1>8. ASSUME NEW k \in 1..Len(m), m[k] \in K PROVE \E j \in 1..Len(s) : h[j] = k
  <2>1. k + 1 \in 1..Len(l) /\ l[k + 1] = m[k]
    BY <1>2
  <2>2. PICK j \in 1..Len(s) : g[j] = k + 1
    BY <1>1, <1>8, <2>1 DEF Picks
  <2>3. h[j] = k
    BY <1>4, <2>2
  <2> QED
    BY <2>3
<1>9. Picks(m, K, s, h)
  BY <1>4, <1>6, <1>7, <1>8 DEF Picks
<1> QED
  BY <1>9 DEF Takes, m

\* The first thing of the line is read and is in K.
LEMMA TakenRead ==
  ASSUME NEW K, NEW l \in Seq(LineType), l # << >>, NEW s, Takes(l, K, s), Head(l) \in K
  PROVE  s # << >> /\ s[1] = Head(l) /\ Takes(Tail(l), K, Tail(s))
<1>1. PICK g : Picks(l, K, s, g)
  BY DEF Takes
<1>2. s \in Seq(LineType) /\ Len(s) \in Nat
  BY LenProperties DEF Takes
<1> DEFINE m == Tail(l)
           u == Tail(s)
           h == [j \in 1..(Len(s) - 1) |-> g[j + 1] - 1]
<1>3. /\ Len(m) = Len(l) - 1 /\ Len(l) \in Nat \ {0} /\ l[1] = Head(l)
      /\ \A k \in 1..Len(m) : m[k] = l[k + 1]
  BY HeadTailProperties, LenProperties, EmptySeq
<1>4. \A j \in 1..Len(s) : g[j] \in 1..Len(l)
  BY <1>1 DEF Picks
<1>5. 1 \in 1..Len(s) /\ g[1] = 1
  <2>1. PICK j \in 1..Len(s) : g[j] = 1
    BY <1>1, <1>3 DEF Picks
  <2>2. j = 1
    <3>1. ASSUME 1 < j PROVE FALSE
      <4>1. 1 \in 1..Len(s) /\ g[1] < g[j] /\ g[1] \in 1..Len(l)
        BY <1>1, <1>2, <1>4, <2>1, <3>1 DEF Picks
      <4> QED
        BY <1>3, <2>1, <4>1
    <3> QED
      BY <1>2, <3>1
  <2> QED
    BY <2>1, <2>2
<1>6. s # << >> /\ s[1] = Head(l)
  BY <1>1, <1>3, <1>5 DEF Picks
<1>7. /\ u \in Seq(LineType) /\ Len(u) = Len(s) - 1
      /\ \A k \in 1..Len(u) : u[k] = s[k + 1]
  BY <1>2, <1>6, HeadTailProperties
<1> HIDE DEF m, u
<1>8. \A j \in 1..(Len(s) - 1) : g[j + 1] \in 2..Len(l)
  <2> TAKE j \in 1..(Len(s) - 1)
  <2>1. j + 1 \in 1..Len(s) /\ 1 < j + 1
    BY <1>2
  <2>2. g[1] < g[j + 1] /\ g[j + 1] \in 1..Len(l)
    BY <1>1, <1>4, <1>5, <2>1 DEF Picks
  <2> QED
    BY <1>3, <1>5, <2>2
<1>9. h \in [1..Len(u) -> 1..Len(m)] /\ \A j \in 1..Len(u) : h[j] = g[j + 1] - 1
  BY <1>3, <1>7, <1>8
<1> HIDE DEF h
<1>10. ASSUME NEW i \in 1..Len(u), NEW j \in 1..Len(u), i < j PROVE h[i] < h[j]
  <2>1. i + 1 \in 1..Len(s) /\ j + 1 \in 1..Len(s) /\ i + 1 < j + 1
    BY <1>2, <1>7, <1>10
  <2>2. g[i + 1] < g[j + 1] /\ g[i + 1] \in 1..Len(l) /\ g[j + 1] \in 1..Len(l)
    BY <1>1, <1>4, <2>1 DEF Picks
  <2> QED
    BY <1>3, <1>9, <2>2
<1>11. ASSUME NEW j \in 1..Len(u) PROVE u[j] = m[h[j]] /\ m[h[j]] \in K
  <2>1. j + 1 \in 1..Len(s) /\ u[j] = s[j + 1]
    BY <1>2, <1>7
  <2>2. h[j] \in 1..Len(m) /\ h[j] + 1 = g[j + 1]
    BY <1>3, <1>4, <1>9, <2>1
  <2>3. m[h[j]] = l[g[j + 1]]
    BY <1>3, <2>2
  <2> QED
    BY <1>1, <2>1, <2>3 DEF Picks
<1>12. ASSUME NEW k \in 1..Len(m), m[k] \in K PROVE \E j \in 1..Len(u) : h[j] = k
  <2>1. k + 1 \in 1..Len(l) /\ l[k + 1] = m[k] /\ k + 1 # 1
    BY <1>3
  <2>2. PICK j \in 1..Len(s) : g[j] = k + 1
    BY <1>1, <1>12, <2>1 DEF Picks
  <2>3. j # 1
    BY <1>5, <2>1, <2>2
  <2>4. j - 1 \in 1..Len(u) /\ (j - 1) + 1 = j
    BY <1>2, <1>7, <2>3
  <2>5. h[j - 1] = k
    BY <1>9, <2>2, <2>4
  <2> QED
    BY <2>4, <2>5
<1>13. Picks(m, K, u, h)
  BY <1>9, <1>10, <1>11, <1>12 DEF Picks
<1> QED
  BY <1>6, <1>7, <1>13 DEF Takes, m, u

\* All that is taken from a line that has nothing of K.
LEMMA TakesOnly ==
  ASSUME NEW K, NEW l, \A k \in 1..Len(l) : l[k] \notin K, NEW s, Takes(l, K, s)
  PROVE  s = << >>
<1>1. PICK g : Picks(l, K, s, g)
  BY DEF Takes
<1>2. s \in Seq(LineType) /\ Len(s) \in Nat
  BY LenProperties DEF Takes
<1>3. ASSUME Len(s) # 0 PROVE FALSE
  <2>1. 1 \in 1..Len(s)
    BY <1>2, <1>3
  <2>2. g[1] \in 1..Len(l) /\ l[g[1]] \in K
    BY <1>1, <2>1 DEF Picks
  <2> QED
    BY <2>2
<1> QED
  BY <1>2, <1>3, EmptySeq

\* s is the answers in l, what is no event.
AnswerLines == {x \in LineType : x.kind # "event"}
Holds(l, s) == Takes(l, AnswerLines, s)

\* The answers are a sequence of lines.
LEMMA HoldsSeq ==
  ASSUME NEW l, NEW s, Holds(l, s)
  PROVE  s \in Seq(LineType)
  BY DEF Holds, Takes

\* An empty line holds no answers.
LEMMA HoldsEmpty == Holds(<< >>, << >>)
  BY TakesEmpty DEF Holds

\* What holds no answers holds events only.
LEMMA HoldsNothing ==
  ASSUME NEW l \in Seq(LineType), Holds(l, << >>), NEW k \in 1..Len(l)
  PROVE  l[k].kind = "event"
<1>1. l[k] \notin AnswerLines
  BY TakesNothing DEF Holds
<1>2. l[k] \in LineType
  BY ElementOfSeq
<1> QED
  BY <1>1, <1>2 DEF AnswerLines

\* An event at the end of the line.
LEMMA HoldsEvent ==
  ASSUME NEW l \in Seq(LineType), NEW s, Holds(l, s), NEW x \in LineType, x.kind = "event"
  PROVE  Holds(Append(l, x), s)
<1>1. x \notin AnswerLines
  BY DEF AnswerLines
<1> QED
  BY <1>1, TakesOther DEF Holds

\* Answers at the end of the line.
LEMMA HoldsAnswer ==
  ASSUME NEW l \in Seq(LineType), NEW s, Holds(l, s), NEW t \in Seq(LineType),
         \A j \in 1..Len(t) : t[j].kind # "event"
  PROVE  Holds(l \o t, s \o t)
<1>1. \A j \in 1..Len(t) : t[j] \in AnswerLines
  BY ElementOfSeq DEF AnswerLines
<1> QED
  BY <1>1, TakesMore DEF Holds

\* An event is read.
LEMMA EventRead ==
  ASSUME NEW l \in Seq(LineType), l # << >>, NEW s, Holds(l, s), Head(l).kind = "event"
  PROVE  Holds(Tail(l), s)
<1>1. Head(l) \notin AnswerLines
  BY DEF AnswerLines
<1> QED
  BY <1>1, OtherRead DEF Holds

\* A part of an answer is read: it is the first of those the line holds.
LEMMA AnswerRead ==
  ASSUME NEW l \in Seq(LineType), l # << >>, NEW s, Holds(l, s), Head(l).kind # "event"
  PROVE  s # << >> /\ s[1] = Head(l) /\ Holds(Tail(l), Tail(s))
<1>1. Head(l) \in LineType
  BY HeadTailProperties
<1>2. Head(l) \in AnswerLines
  BY <1>1 DEF AnswerLines
<1> QED
  BY <1>2, TakenRead DEF Holds

-----------------------------------------------------------------------------
(* Types, and how the innermost call can end. *)

FrameType == [cmd : Commands, event : Event \cup {Nothing}, infos : Seq(LineType),
              prompted : BOOLEAN, tries : Int, seen : LineType \cup {Nothing}]
TypeOK ==
  /\ line \in Seq(LineType) /\ answering \in Seq(AnswerLines)
  /\ todo \in Seq(Commands \cup {Pdu})
  /\ entering \in [cmd : PduCommands \cup {Nothing}, garbled : BOOLEAN]
  /\ stack \in Seq(FrameType) /\ received \in Seq(Event)
  /\ listening \in BOOLEAN /\ sendAck \in BOOLEAN
  /\ reported \in SUBSET Event /\ heard \in Seq(Event) /\ said \in Seq(LineType)
  /\ late \in BOOLEAN /\ broken \in BOOLEAN

\* The call of the program and, inside it, the acknowledgement of an event.
StackOK ==
  /\ Len(stack) \in 0..2
  /\ stack # << >> => stack[1].cmd \in Command /\ stack[1].event = Nothing
  /\ Len(stack) = 2 => /\ sendAck
                       /\ stack[2].cmd = Cnma /\ stack[2].event \in Direct
                       /\ stack[2].infos = << >> /\ stack[2].prompted

\* What the proofs use of the assumption on the constants.
LEMMA Assumptions ==
  /\ InfoCommands \subseteq Command /\ EmptyOKs \subseteq InfoCommands
  /\ Lists \subseteq Command /\ PduCommands \subseteq Command
  /\ PduCommands \cap (InfoCommands \cup Lists) = {} /\ Lists \cap InfoCommands = {}
  /\ Direct \subseteq Event /\ Cnma \notin Command /\ Pdu \notin Command /\ Pdu # Cnma
  /\ Nothing \notin Event /\ Nothing \notin Command /\ Nothing \notin LineType
  /\ Tries \in Int
  BY GsmAtAssumption DEF GsmAtAssumption

\* A call that was just made.
LEMMA FrameFacts ==
  ASSUME NEW c \in Commands, NEW e \in Event \cup {Nothing}
  PROVE  /\ Frame(c, e) \in FrameType /\ Frame(c, e).cmd = c /\ Frame(c, e).event = e
         /\ Frame(c, e).infos = << >> /\ Frame(c, e).prompted = (c \notin PduCommands)
<1>1. << >> \in Seq(LineType) /\ Tries \in Int /\ (c \notin PduCommands) \in BOOLEAN
  BY Assumptions
<1> QED
  BY <1>1 DEF Frame, FrameType

\* The innermost call, and what is left when it ends or waits on.
LEMMA FrontFacts ==
  ASSUME NEW S, NEW s \in Seq(S), Len(s) # 0
  PROVE  /\ Front(s) \in Seq(S) /\ Len(Front(s)) = Len(s) - 1
         /\ \A k \in 1..(Len(s) - 1) : Front(s)[k] = s[k]
<1>1. Len(s) - 1 \in Nat /\ Len(s) - 1 \in Int /\ 1 \in Int
  BY LenProperties
<1> DEFINE n == Len(s) - 1
<1>2. \A k \in 1..n : s[k] \in S
  BY <1>1, ElementOfSeq
<1>3. Front(s) = SubSeq(s, 1, n)
  BY DEF Front
<1>4. n \in Nat /\ n \in Int
  BY <1>1
<1> HIDE DEF n
<1>5. /\ SubSeq(s, 1, n) \in Seq(S)
      /\ Len(SubSeq(s, 1, n)) = IF 1 <= n THEN n - 1 + 1 ELSE 0
      /\ \A i \in 1..(n - 1 + 1) : SubSeq(s, 1, n)[i] = s[1 + i - 1]
  BY <1>1, <1>2, <1>4, SubSeqProperties
<1>6. Len(Front(s)) = n /\ \A k \in 1..n : Front(s)[k] = s[k]
  BY <1>3, <1>4, <1>5
<1> QED
  BY <1>3, <1>5, <1>6 DEF n

\* A sequence with a length is not empty.
LEMMA NotEmpty ==
  ASSUME NEW s, Len(s) # 0
  PROVE  s # << >>
  OBVIOUS

\* The innermost of one or two calls.
LEMMA StackFacts ==
  ASSUME TypeOK, StackOK, stack # << >>
  PROVE  /\ Top \in FrameType /\ Top = stack[Len(stack)] /\ Len(stack) \in 1..2
         /\ stack[1] \in FrameType
         /\ Len(stack) = 1 => /\ stack = <<stack[1]>> /\ Top = stack[1] /\ Front(stack) = << >>
                              /\ \A f \in FrameType : Append(Front(stack), f) = <<f>>
         /\ Len(stack) = 2 => /\ Top = stack[2] /\ Front(stack) = <<stack[1]>>
                              /\ stack[2] \in FrameType
<1>1. stack \in Seq(FrameType) /\ Len(stack) \in 1..2
  <2>1. stack \in Seq(FrameType) /\ Len(stack) \in 0..2
    BY DEF TypeOK, StackOK
  <2>2. Len(stack) # 0
    BY <2>1, EmptySeq
  <2> QED
    BY <2>1, <2>2
<1>2. Top = stack[Len(stack)] /\ Top \in FrameType /\ stack[1] \in FrameType
  BY <1>1, ElementOfSeq DEF Top, Last
<1>3. Front(stack) \in Seq(FrameType) /\ Len(Front(stack)) = Len(stack) - 1
      /\ \A k \in 1..(Len(stack) - 1) : Front(stack)[k] = stack[k]
  BY <1>1, FrontFacts
<1> HIDE DEF FrameType
<1>4. CASE Len(stack) = 1
  <2>1. Front(stack) = << >>
    BY <1>3, <1>4, EmptySeq
  <2>2. stack = <<stack[1]>>
    <3>1. <<stack[1]>> \in Seq(FrameType) /\ Len(<<stack[1]>>) = 1 /\ <<stack[1]>>[1] = stack[1]
      BY <1>2
    <3> QED
      BY <1>1, <1>4, <3>1, SeqEqual
  <2>3. \A f \in FrameType : Append(<< >>, f) = <<f>>
    OBVIOUS
  <2> QED
    BY <1>2, <1>4, <2>1, <2>2, <2>3
<1>5. CASE Len(stack) = 2
  <2>1. Front(stack) = <<stack[1]>>
    <3>1. <<stack[1]>> \in Seq(FrameType) /\ Len(<<stack[1]>>) = 1 /\ <<stack[1]>>[1] = stack[1]
      BY <1>2
    <3> QED
      BY <1>3, <1>5, <3>1, SeqEqual
  <2>2. stack[2] \in FrameType
    BY <1>1, <1>5, ElementOfSeq
  <2> QED
    BY <1>2, <1>5, <2>1, <2>2
<1> QED
  BY <1>1, <1>2, <1>4, <1>5

\* How a call goes on: an exception, a result, or more to wait for.
Throws ==
  /\ stack' = << >> /\ todo' = todo /\ received' = received
  /\ Len(stack) = 2 => result'.how = "failed"
Returns ==
  /\ stack' = Front(stack) /\ todo' = todo
  /\ received' = IF Top.cmd = Cnma THEN Handed(Top.event) ELSE received
Waits ==
  /\ Len(stack) = 1 /\ received' = received
  /\ \E f \in FrameType :
       /\ stack' = <<f>> /\ f.cmd = stack[1].cmd /\ f.event = stack[1].event
       /\ \/ todo' = todo
          \/ todo' = Append(todo, stack[1].cmd)
          \/ todo' = Append(todo, Pdu)
Outcome == Throws \/ Returns \/ Waits

\* An exception leaves all calls.
LEMMA ThrowThrows ==
  ASSUME NEW how, Throw(how)
  PROVE  Throws
<1>1. stack' = << >> /\ todo' = todo /\ received' = received
      /\ result' = [how |-> IF Len(stack) = 1 THEN how ELSE "failed",
                    of |-> stack[1].cmd, infos |-> << >>]
  BY DEF Throw
<1>2. result'.how = IF Len(stack) = 1 THEN how ELSE "failed"
  BY <1>1
<1> QED
  BY <1>1, <1>2 DEF Throws

\* The innermost call returns.
LEMMA ReturnReturns ==
  ASSUME NEW infos, Return(infos)
  PROVE  Returns
  BY DEF Return, Returns

\* The innermost call waits on, in another state.
LEMMA WaitsOnWaits ==
  ASSUME TypeOK, StackOK, Len(stack) = 1, NEW f \in FrameType, WaitsOn(f),
         f.cmd = Top.cmd, f.event = Top.event,
         todo' = todo \/ todo' = Append(todo, Top.cmd) \/ todo' = Append(todo, Pdu)
  PROVE  Waits
<1>1. stack # << >>
  <2>1. Len(stack) # 0
    OBVIOUS
  <2> QED
    BY <2>1, NotEmpty, Zenon
<1>2. Append(Front(stack), f) = <<f>> /\ Top = stack[1]
  BY <1>1, StackFacts
<1>3. stack' = <<f>> /\ received' = received
  BY <1>2 DEF WaitsOn
<1> QED
  BY <1>2, <1>3 DEF Waits

\* A response is kept and the call waits on.
LEMMA KeepInfoWaits ==
  ASSUME TypeOK, StackOK, Len(stack) = 1, NEW x \in LineType, KeepInfo(x)
  PROVE  Waits
<1> DEFINE f == [Top EXCEPT !.infos = Append(@, x), !.prompted = TRUE]
<1>1. stack # << >>
  <2>1. Len(stack) # 0
    OBVIOUS
  <2> QED
    BY <2>1, NotEmpty, Zenon
<1>2. Top \in FrameType
  BY <1>1, StackFacts
<1>3. Append(Top.infos, x) \in Seq(LineType)
  BY <1>2, AppendProperties DEF FrameType
<1>4. f \in FrameType /\ f.cmd = Top.cmd /\ f.event = Top.event
  BY <1>2, <1>3 DEF FrameType
<1>5. WaitsOn(f) /\ todo' = todo
  BY DEF KeepInfo
<1> HIDE DEF f
<1> QED
  BY <1>4, <1>5, WaitsOnWaits

\* Every way a line can be taken for a part of an answer.
LEMMA ReadAnswerOutcome ==
  ASSUME TypeOK, StackOK, stack # << >>, NEW x \in LineType, ReadAnswer(x)
  PROVE  Outcome
<1>1. \/ \E how : Throw(how)
      \/ Return(Top.infos)
      \/ KeepInfo(x) /\ Top.cmd # Cnma
  BY Assumptions DEF ReadAnswer
<1>2. Top.cmd # Cnma => Len(stack) = 1
  BY StackFacts DEF StackOK
<1> QED
  BY <1>1, <1>2, ThrowThrows, ReturnReturns, KeepInfoWaits DEF Outcome

\* Every way the handshake of sendPdu can go on after an error condition.
LEMMA RetryOutcome ==
  ASSUME TypeOK, StackOK, stack # << >>, ~Top.prompted, NEW x \in LineType \cup {Nothing}, Retry(x)
  PROVE  Outcome
<1> DEFINE s == IF x = Nothing THEN Top.seen ELSE x
           f == [Top EXCEPT !.tries = @ - 1, !.seen = s]
<1>1. Top \in FrameType /\ Len(stack) = 1
  BY StackFacts DEF StackOK
<1>2. s \in LineType \cup {Nothing}
  BY <1>1 DEF FrameType
<1>3. \/ Top.tries > 0 /\ WaitsOn(f) /\ todo' = Append(todo, Top.cmd)
      \/ Throw("failed")
      \/ s # Nothing /\ ReadAnswer(s)
  BY DEF Retry
<1> HIDE DEF s
<1>4. Top.tries \in Int
  BY <1>1 DEF FrameType
<1>5. f \in FrameType /\ f.cmd = Top.cmd /\ f.event = Top.event
  <2>1. Top.tries - 1 \in Int
    BY <1>4
  <2> DEFINE n == Top.tries - 1
  <2> HIDE DEF n
  <2> QED
    BY <1>1, <1>2, <2>1 DEF FrameType, f
<1> HIDE DEF f
<1>6. CASE WaitsOn(f) /\ todo' = Append(todo, Top.cmd)
  BY <1>1, <1>5, <1>6, WaitsOnWaits DEF Outcome
<1>7. CASE Throw("failed")
  BY <1>7, ThrowThrows DEF Outcome
<1>8. CASE s # Nothing /\ ReadAnswer(s)
  BY <1>2, <1>8, ReadAnswerOutcome
<1> QED
  BY <1>3, <1>6, <1>7, <1>8

\* Every way the handshake of sendPdu can go on after a line.
LEMMA HandshakeOutcome ==
  ASSUME TypeOK, StackOK, stack # << >>, ~Top.prompted, NEW x \in LineType, Handshake(x)
  PROVE  Outcome
<1> DEFINE f == [Top EXCEPT !.prompted = TRUE]
<1>1. Top \in FrameType /\ Len(stack) = 1
  BY StackFacts DEF StackOK
<1>2. \/ WaitsOn(f) /\ todo' = Append(todo, Pdu)
      \/ Throw("failed")
      \/ Retry(x)
  BY DEF Handshake
<1>3. f \in FrameType /\ f.cmd = Top.cmd /\ f.event = Top.event
  BY <1>1 DEF FrameType
<1> HIDE DEF f
<1>4. CASE WaitsOn(f) /\ todo' = Append(todo, Pdu)
  BY <1>1, <1>3, <1>4, WaitsOnWaits DEF Outcome
<1> QED
  BY <1>2, <1>4, ThrowThrows, RetryOutcome DEF Outcome

-----------------------------------------------------------------------------
(* Reading a line and running out of time. *)

\* An event line is about an event.
LEMMA LineFacts ==
  ASSUME NEW x \in LineType
  PROVE  x.kind = "event" => x.of \in Event
  BY DEF LineType

\* A line of an answer.
LEMMA ItemFacts ==
  ASSUME NEW k \in {"info", "OK", "ERROR", "prompt"}, NEW c \in Commands, NEW v \in Value \cup {Nothing}
  PROVE  /\ Item(k, c, v) \in LineType
         /\ Item(k, c, v).kind = k /\ Item(k, c, v).of = c /\ Item(k, c, v).value = v
  BY DEF Item, LineType

\* A line that reports an event.
LEMMA EventItem ==
  ASSUME NEW e \in Event
  PROVE  LET x == Item("event", e, Nothing)
         IN x \in LineType /\ x.kind = "event" /\ x.of = e
  BY DEF Item, LineType

\* What reading a line does.
HandsOver ==
  /\ Head(line).kind = "event" /\ ~(Head(line).of \in Direct /\ sendAck)
  /\ received' = Handed(Head(line).of) /\ stack' = stack /\ todo' = todo /\ result' = result
Pushes ==
  /\ Head(line).kind = "event" /\ Head(line).of \in Direct /\ sendAck
  /\ stack' = Append(stack, Frame(Cnma, Head(line).of)) /\ todo' = Append(todo, Cnma)
  /\ received' = received /\ result' = result
Same == /\ answering' = answering /\ entering' = entering
        /\ listening' = listening /\ sendAck' = sendAck

\* GsmAt::getLine(): what becomes of the line that is read.
LEMMA GetLineFacts ==
  ASSUME TypeOK, StackOK, GetLine
  PROVE  /\ stack # << >> /\ line # << >> /\ line' = Tail(line) /\ Head(line) \in LineType /\ Same
         /\ HandsOver \/ Pushes \/ (Head(line).kind # "event" /\ Outcome)
<1>1. /\ stack # << >> /\ line # << >> /\ line' = Tail(line) /\ Same
      /\ \/ Head(line).kind = "event" /\ Dispatch(Head(line).of) /\ result' = result
         \/ Head(line).kind # "event" /\ Top.prompted /\ ReadAnswer(Head(line))
         \/ Head(line).kind # "event" /\ ~Top.prompted /\ Handshake(Head(line))
  BY DEF GetLine, Idle, Readable, Same
<1>2. Head(line) \in LineType
  BY <1>1, HeadTailProperties DEF TypeOK
<1>3. CASE Head(line).kind = "event" /\ Dispatch(Head(line).of) /\ result' = result
  <2>1. HandsOver \/ Pushes
    BY <1>3 DEF Dispatch, HandsOver, Pushes
  <2> QED
    BY <1>1, <1>2, <2>1
<1>4. CASE Head(line).kind # "event" /\ Top.prompted /\ ReadAnswer(Head(line))
  BY <1>1, <1>2, <1>4, ReadAnswerOutcome
<1>5. CASE Head(line).kind # "event" /\ ~Top.prompted /\ Handshake(Head(line))
  BY <1>1, <1>2, <1>5, HandshakeOutcome
<1> QED
  BY <1>1, <1>3, <1>4, <1>5

\* A time-out finds no event in the line.
LEMMA TimeOutFacts ==
  ASSUME TypeOK, StackOK, TimeOut
  PROVE  /\ stack # << >> /\ line' = << >> /\ Same
         /\ line = << >> \/ (Len(line) = 1 /\ line[1].kind = "prompt")
         /\ Outcome
<1>1. /\ stack # << >> /\ line' = << >> /\ Same
      /\ line # << >> => Head(line).kind = "prompt" /\ ~(Len(line) > 1)
      /\ \/ Throw("failed")
         \/ ~Top.prompted /\ Retry(Nothing)
  BY DEF TimeOut, Silence, Idle, Readable, Same
<1>2. line # << >> => Len(line) = 1 /\ line[1].kind = "prompt"
  <2>1. line \in Seq(LineType)
    BY DEF TypeOK
  <2>2. line # << >> => Len(line) \in Nat \ {0} /\ Head(line) = line[1]
    BY <2>1, EmptySeq, HeadTailProperties
  <2> QED
    BY <1>1, <2>2
<1>3. CASE Throw("failed")
  BY <1>1, <1>2, <1>3, ThrowThrows DEF Outcome
<1>4. CASE ~Top.prompted /\ Retry(Nothing)
  BY <1>1, <1>2, <1>4, RetryOutcome
<1> QED
  BY <1>1, <1>3, <1>4

\* The answer t to the command c has the values vs and the "OK".
Carries(c, vs, t) ==
  /\ Len(t) = Len(vs) + 1
  /\ t[Len(vs) + 1].kind = "OK"
  /\ \A j \in 1..Len(vs) : t[j].kind = "info" /\ t[j].of = c

\* What the TA answers.
LEMMA AnswerFacts ==
  ASSUME NEW c \in Commands, NEW ok \in BOOLEAN, NEW vs \in Seq(Value),
         NEW t, t = Answer(c, ok, vs)
  PROVE  /\ t \in Seq(LineType)
         /\ \A j \in 1..Len(t) : t[j].kind # "event"
         /\ ~ok => t = <<Item("ERROR", c, Nothing)>>
         /\ ok => Carries(c, vs, t)
<1>1. CASE ~ok
  <2> DEFINE x == Item("ERROR", c, Nothing)
  <2>1. x \in LineType /\ x.kind = "ERROR"
    BY ItemFacts
  <2>2. t = <<x>>
    BY <1>1 DEF Answer
  <2> HIDE DEF x
  <2>3. <<x>> \in Seq(LineType) /\ Len(<<x>>) = 1 /\ <<x>>[1] = x
    BY <2>1
  <2> QED
    BY <1>1, <2>1, <2>2, <2>3 DEF x
<1>2. CASE ok
  <2> DEFINE x == Item("OK", c, Nothing)
             i == Infos(c, vs)
  <2>1. x \in LineType /\ x.kind = "OK"
    BY ItemFacts
  <2>2. t = Append(i, x)
    BY <1>2 DEF Answer
  <2>3. Len(vs) \in Nat /\ DOMAIN vs = 1..Len(vs) /\ \A j \in 1..Len(vs) : vs[j] \in Value
    BY LenProperties, ElementOfSeq
  <2>4. i = [j \in 1..Len(vs) |-> Item("info", c, vs[j])]
    BY <2>3 DEF Infos
  <2>5. \A j \in 1..Len(vs) : /\ i[j] \in LineType
                              /\ i[j].kind = "info" /\ i[j].of = c
    BY <2>3, <2>4, ItemFacts
  <2>6. i \in Seq(LineType) /\ Len(i) = Len(vs)
    <3>1. i \in [1..Len(vs) -> LineType]
      BY <2>4, <2>5
    <3> HIDE DEF i
    <3> QED
      BY <2>3, <3>1, SeqDef, LenProperties
  <2> HIDE DEF x, i
  <2>7. /\ Append(i, x) \in Seq(LineType) /\ Len(Append(i, x)) = Len(vs) + 1
        /\ Append(i, x)[Len(vs) + 1] = x
        /\ \A j \in 1..Len(vs) : Append(i, x)[j] = i[j]
    BY <2>1, <2>6, AppendProperties
  <2>8. \A j \in 1..(Len(vs) + 1) : Append(i, x)[j].kind # "event"
    <3> TAKE j \in 1..(Len(vs) + 1)
    <3>1. j \in 1..Len(vs) \/ j = Len(vs) + 1
      BY <2>3
    <3> QED
      BY <2>1, <2>5, <2>7, <3>1
  <2> QED
    BY <1>2, <2>1, <2>2, <2>5, <2>7, <2>8 DEF Carries
<1> QED
  BY <1>1, <1>2

-----------------------------------------------------------------------------
(* What the TA does. *)

\* What the execution of c does: nothing, the prompt, the answer t to d, or
\* the command is taken for text.
Ignores(c) ==
  /\ entering.cmd = Nothing /\ c = Pdu
  /\ line' = line /\ answering' = answering /\ entering' = entering /\ said' = said
PromptsFor(c) ==
  /\ entering.cmd = Nothing /\ c \in PduCommands
  /\ line' = line \o <<Item("prompt", c, Nothing)>> /\ answering' = answering
  /\ entering' = [cmd |-> c, garbled |-> FALSE] /\ said' = said
Garbles(c) ==
  /\ entering.cmd # Nothing /\ c # Pdu
  /\ line' = line /\ answering' = answering
  /\ entering' = [entering EXCEPT !.garbled = TRUE] /\ said' = said
Refuses(d, t) == Len(t) = 1 /\ t[1].kind = "ERROR"
Accepts(d, t) ==
  /\ Len(t) \in Nat \ {0} /\ t[Len(t)].kind = "OK"
  /\ \A j \in 1..(Len(t) - 1) : t[j].kind = "info" /\ t[j].of = d
Replies(c, d, t) ==
  /\ d \in Commands /\ t \in Seq(LineType) /\ \A j \in 1..Len(t) : t[j].kind # "event"
  /\ \/ entering.cmd = Nothing /\ c # Pdu /\ d = c /\ entering' = entering
        /\ (d \in PduCommands => Refuses(d, t))
     \/ entering.cmd # Nothing /\ c = Pdu /\ d = entering.cmd /\ entering' = NotEntering
  /\ line' = line /\ answering' = t
  /\ said' = IF d = Cnma THEN said ELSE Front(t)
  /\ Refuses(d, t) \/ (Accepts(d, t) /\ \E vs : Len(vs) = Len(t) - 1 /\ Answerable(d, vs))
Execution(c) ==
  /\ answering = << >>
  /\ Ignores(c) \/ PromptsFor(c) \/ Garbles(c) \/ \E d, t : Replies(c, d, t)
ExecutedBy(c) ==
  /\ todo # << >> /\ c = Head(todo) /\ todo' = Tail(todo)
  /\ stack' = stack /\ result' = result /\ received' = received
  /\ listening' = listening /\ sendAck' = sendAck
  /\ reported' = reported /\ heard' = heard /\ late' = late /\ broken' = broken

\* An answer refuses or accepts.
LEMMA ReplyFacts ==
  ASSUME NEW c \in Commands, NEW ok \in BOOLEAN, NEW vs \in Seq(Value), ok => Answerable(c, vs),
         NEW t, t = Answer(c, ok, vs)
  PROVE  /\ t \in Seq(LineType) /\ \A j \in 1..Len(t) : t[j].kind # "event"
         /\ Refuses(c, t) \/ (Accepts(c, t) /\ \E us : Len(us) = Len(t) - 1 /\ Answerable(c, us))
         /\ ~ok => Refuses(c, t)
         /\ t # << >> /\ Last(t).of = c
<1>0. ok => Carries(c, vs, t)
  BY AnswerFacts, Zenon
<1>1. t \in Seq(LineType) /\ Len(vs) \in Nat /\ \A j \in 1..Len(t) : t[j].kind # "event"
  BY AnswerFacts, LenProperties
<1>2. CASE ~ok
  <2> DEFINE x == Item("ERROR", c, Nothing)
  <2>1. t = <<x>> /\ x.kind = "ERROR" /\ x.of = c
    BY <1>2, AnswerFacts, ItemFacts
  <2> HIDE DEF x
  <2>2. Len(t) = 1 /\ t[1] = x /\ t # << >>
    BY <2>1
  <2>3. Last(t) = x
    BY <2>2 DEF Last
  <2> QED
    BY <1>1, <1>2, <2>1, <2>2, <2>3 DEF Refuses
<1>3. CASE ok
  <2>1. /\ Len(t) = Len(vs) + 1 /\ t[Len(vs) + 1].kind = "OK"
        /\ \A j \in 1..Len(vs) : t[j].kind = "info" /\ t[j].of = c
    BY <1>0, <1>3 DEF Carries
  <2>2. Accepts(c, t) /\ Len(vs) = Len(t) - 1
    BY <1>1, <2>1 DEF Accepts
  <2>3. t # << >> /\ Last(t).kind = "OK"
    BY <1>1, <2>1 DEF Last
  <2>4. Last(t).of = c
    <3> DEFINE x == Item("OK", c, Nothing)
    <3>1. t = Append(Infos(c, vs), x) /\ x.of = c
      BY <1>3, ItemFacts DEF Answer
    <3>2. Infos(c, vs) \in Seq(LineType) /\ x \in LineType
      <4>1. DOMAIN vs = 1..Len(vs) /\ \A j \in 1..Len(vs) : vs[j] \in Value
        BY LenProperties, ElementOfSeq
      <4>2. Infos(c, vs) \in [1..Len(vs) -> LineType]
        BY <4>1, ItemFacts DEF Infos
      <4> QED
        BY <1>1, <4>2, SeqDef, ItemFacts
    <3> HIDE DEF x
    <3>3. t[Len(t)] = x
      BY <3>1, <3>2, AppendProperties
    <3> QED
      BY <3>1, <3>3 DEF Last
  <2> QED
    BY <1>1, <1>3, <2>2, <2>3, <2>4
<1> QED
  BY <1>2, <1>3

\* What the TA does with the next command, in the cases of the proofs.
LEMMA ExecutesFacts ==
  ASSUME TypeOK, Executes
  PROVE  \E c \in Commands \cup {Pdu} : ExecutedBy(c) /\ Execution(c)
<1> USE DEF Execution
<1>1. PICK ok \in BOOLEAN, vs \in BoundedSeq(Value, MaxLines) :
        /\ TAExecutes(ok, vs)
        /\ said' = IF answering' = << >> \/ Last(answering').of = Cnma
                   THEN said ELSE Front(answering')
  BY DEF Executes
<1>2. vs \in Seq(Value)
  <2>1. PICK m \in 0..MaxLines : vs \in [1..m -> Value]
    BY DEF BoundedSeq, SeqOf
  <2>2. m \in Nat
    BY GsmAtClientAssumption DEF GsmAtClientAssumption
  <2> QED
    BY <2>1, <2>2, SeqDef
<1> DEFINE c == Head(todo)
<1>3. said' = IF answering' = << >> \/ Last(answering').of = Cnma THEN said ELSE Front(answering')
  BY <1>1
<1>4. /\ todo # << >> /\ answering = << >>
      /\ \/ /\ entering.cmd = Nothing /\ c = Pdu
            /\ line' = line /\ answering' = answering /\ entering' = entering
         \/ /\ entering.cmd = Nothing /\ c # Pdu
            /\ IF c \in PduCommands /\ ok
               THEN /\ line' = Append(line, Item("prompt", c, Nothing)) /\ answering' = answering
                    /\ entering' = [cmd |-> c, garbled |-> FALSE]
               ELSE /\ ok => Answerable(c, vs)
                    /\ line' = line /\ answering' = Answer(c, ok, vs)
                    /\ entering' = entering
         \/ /\ entering.cmd # Nothing /\ c # Pdu
            /\ entering' = [entering EXCEPT !.garbled = TRUE]
            /\ line' = line /\ answering' = answering
         \/ /\ entering.cmd # Nothing /\ c = Pdu
            /\ ok => Answerable(entering.cmd, vs)
            /\ line' = line /\ answering' = Answer(entering.cmd, ok, vs)
            /\ entering' = NotEntering
  BY <1>1 DEF TAExecutes, Prompts, Responds
<1>5. ExecutedBy(c)
  BY <1>1 DEF TAExecutes, Executes, ExecutedBy
<1>6. line \in Seq(LineType) /\ todo \in Seq(Commands \cup {Pdu})
      /\ entering.cmd \in PduCommands \cup {Nothing}
  BY DEF TypeOK
<1>7. c \in Commands \cup {Pdu}
  BY <1>4, <1>6, HeadTailProperties
<1>8. PduCommands \subseteq Commands /\ Pdu \notin Commands
  BY Assumptions DEF Commands
<1> HIDE DEF c
<1>9. ASSUME answering' = answering PROVE said' = said
  BY <1>3, <1>4, <1>9
<1>10. ASSUME NEW d \in Commands, ok => Answerable(d, vs), answering' = Answer(d, ok, vs)
       PROVE  LET t == Answer(d, ok, vs)
              IN  /\ t \in Seq(LineType) /\ \A j \in 1..Len(t) : t[j].kind # "event"
                  /\ Refuses(d, t) \/ (Accepts(d, t) /\ \E us : Len(us) = Len(t) - 1 /\ Answerable(d, us))
                  /\ ~ok => Refuses(d, t)
                  /\ said' = IF d = Cnma THEN said ELSE Front(t)
  <2> DEFINE t == Answer(d, ok, vs)
  <2>1. /\ t \in Seq(LineType) /\ \A j \in 1..Len(t) : t[j].kind # "event"
        /\ Refuses(d, t) \/ (Accepts(d, t) /\ \E us : Len(us) = Len(t) - 1 /\ Answerable(d, us))
        /\ ~ok => Refuses(d, t)
        /\ t # << >> /\ Last(t).of = d
    BY <1>2, <1>10, ReplyFacts
  <2>2. answering' = t
    BY <1>10
  <2> HIDE DEF t
  <2>3. said' = IF d = Cnma THEN said ELSE Front(t)
    BY <1>3, <2>1, <2>2
  <2> QED
    BY <2>1, <2>3 DEF t
<1>11. CASE /\ entering.cmd = Nothing /\ c = Pdu
            /\ line' = line /\ answering' = answering /\ entering' = entering
  <2>1. Ignores(c)
    BY <1>9, <1>11 DEF Ignores
  <2> QED
    BY <1>4, <1>5, <1>7, <2>1
<1>12. CASE /\ entering.cmd = Nothing /\ c # Pdu /\ c \in PduCommands /\ ok
            /\ line' = Append(line, Item("prompt", c, Nothing)) /\ answering' = answering
            /\ entering' = [cmd |-> c, garbled |-> FALSE]
  <2> DEFINE x == Item("prompt", c, Nothing)
  <2>1. x \in LineType /\ x.kind = "prompt"
    BY <1>8, <1>12, ItemFacts
  <2>2. line' = Append(line, x)
    BY <1>12
  <2> HIDE DEF x
  <2>3. line' = line \o <<x>>
    BY <1>6, <2>1, <2>2, AppendIsConcat
  <2>4. PromptsFor(c)
    BY <1>9, <1>12, <2>3 DEF PromptsFor, x
  <2> QED
    BY <1>4, <1>5, <1>7, <2>4
<1>13. CASE /\ entering.cmd = Nothing /\ c # Pdu /\ ~(c \in PduCommands /\ ok)
            /\ ok => Answerable(c, vs)
            /\ line' = line /\ answering' = Answer(c, ok, vs) /\ entering' = entering
  <2>1. c \in Commands
    BY <1>7, <1>13
  <2>2. Replies(c, c, Answer(c, ok, vs))
    BY <1>10, <1>13, <2>1 DEF Replies
  <2> QED
    BY <1>4, <1>5, <1>7, <2>2
<1>14. CASE /\ entering.cmd # Nothing /\ c # Pdu
            /\ entering' = [entering EXCEPT !.garbled = TRUE]
            /\ line' = line /\ answering' = answering
  <2>1. Garbles(c)
    BY <1>9, <1>14 DEF Garbles
  <2> QED
    BY <1>4, <1>5, <1>7, <2>1
<1>15. CASE /\ entering.cmd # Nothing /\ c = Pdu
            /\ ok => Answerable(entering.cmd, vs)
            /\ line' = line /\ answering' = Answer(entering.cmd, ok, vs)
            /\ entering' = NotEntering
  <2> DEFINE d == entering.cmd
  <2>1. d \in Commands
    BY <1>6, <1>8, <1>15
  <2>2. Replies(c, d, Answer(d, ok, vs))
    BY <1>10, <1>15, <2>1 DEF Replies
  <2> QED
    BY <1>4, <1>5, <1>7, <2>2
<1> QED
  BY <1>4, <1>11, <1>12, <1>13, <1>14, <1>15

\* A sequence of answers is a sequence of lines.
LEMMA AnswerSeq ==
  ASSUME NEW t
  PROVE  t \in Seq(AnswerLines)
           <=> t \in Seq(LineType) /\ \A j \in 1..Len(t) : t[j].kind # "event"
<1>1. ASSUME t \in Seq(AnswerLines)
      PROVE  t \in Seq(LineType) /\ \A j \in 1..Len(t) : t[j].kind # "event"
  <2>1. Len(t) \in Nat /\ t \in [1..Len(t) -> AnswerLines]
    BY <1>1, LenProperties, SeqDef
  <2>2. \A j \in 1..Len(t) : t[j] \in LineType /\ t[j].kind # "event"
    BY <2>1 DEF AnswerLines
  <2>3. t \in [1..Len(t) -> LineType]
    BY <2>1, <2>2
  <2> QED
    BY <2>1, <2>2, <2>3, SeqDef
<1>2. ASSUME t \in Seq(LineType), \A j \in 1..Len(t) : t[j].kind # "event"
      PROVE  t \in Seq(AnswerLines)
  <2>1. Len(t) \in Nat /\ t \in [1..Len(t) -> LineType]
    BY <1>2, LenProperties, SeqDef
  <2>2. \A j \in 1..Len(t) : t[j] \in AnswerLines
    BY <1>2, <2>1 DEF AnswerLines
  <2>3. t \in [1..Len(t) -> AnswerLines]
    BY <2>1, <2>2
  <2> QED
    BY <2>1, <2>3, SeqDef
<1> QED
  BY <1>1, <1>2

\* What the TA does when it sends a line of the answer.
LEMMA TransmitsFacts ==
  ASSUME TypeOK, Transmits
  PROVE  /\ answering # << >> /\ Head(answering) \in AnswerLines /\ answering' = Tail(answering)
         /\ answering' \in Seq(AnswerLines)
         /\ line' = line \o <<Head(answering)>> /\ <<Head(answering)>> \in Seq(LineType)
         /\ \A j \in 1..Len(<<Head(answering)>>) : <<Head(answering)>>[j].kind # "event"
         /\ todo' = todo /\ entering' = entering /\ stack' = stack /\ result' = result
         /\ listening' = listening /\ sendAck' = sendAck /\ received' = received
         /\ reported' = reported /\ heard' = heard /\ said' = said /\ late' = late
         /\ broken' = broken
<1> DEFINE x == Head(answering)
<1>1. answering # << >> /\ line' = Append(line, x) /\ answering' = Tail(answering)
  BY DEF Transmits, TATransmits
<1>2. line \in Seq(LineType) /\ answering \in Seq(AnswerLines)
  BY DEF TypeOK
<1>3. x \in AnswerLines /\ answering' \in Seq(AnswerLines)
  BY <1>1, <1>2, HeadTailProperties
<1>4. x \in LineType /\ x.kind # "event"
  BY <1>3 DEF AnswerLines
<1> HIDE DEF x
<1>5. line' = line \o <<x>>
  BY <1>1, <1>2, <1>4, AppendIsConcat
<1>6. <<x>> \in Seq(LineType) /\ Len(<<x>>) = 1 /\ <<x>>[1] = x
  BY <1>4
<1>7. \A j \in 1..Len(<<x>>) : <<x>>[j].kind # "event"
  <2> TAKE j \in 1..Len(<<x>>)
  <2>1. j = 1
    BY <1>6
  <2> QED
    BY <1>4, <1>6, <2>1
<1> QED
  BY <1>1, <1>3, <1>5, <1>6, <1>7 DEF x, Transmits, TATransmits

-----------------------------------------------------------------------------
(* Types and the acknowledgement, step by step. *)

IsDirect(x) == x.kind = "event" /\ x.of \in Direct
\* While the TA waits for an acknowledgement it reports no other message.
OneUnacknowledged ==
  sendAck => /\ \A i, j \in 1..Len(line) : IsDirect(line[i]) /\ IsDirect(line[j]) => i = j
             /\ (\E i \in 1..Len(line) : IsDirect(line[i]))
                  => Len(stack) < 2 /\ \A i \in 1..Len(todo) : todo[i] # Cnma
\* No acknowledgement is sent but those that were, or a message is read.
NoNewCnma ==
  \A i \in 1..Len(todo') : todo'[i] = Cnma => \E j \in 1..Len(todo) : todo[j] = Cnma
Calm == \/ Len(stack') < 2 /\ NoNewCnma
        \/ IsDirect(Head(line))
Basics == TypeOK /\ StackOK /\ OneUnacknowledged

\* What the program was given is a sequence of events.
LEMMA HandedFacts ==
  ASSUME received \in Seq(Event), NEW e \in Event
  PROVE  Handed(e) \in Seq(Event)
  BY AppendProperties DEF Handed

\* The state after the innermost call ended or went on.
LEMMA OutcomeFacts ==
  ASSUME TypeOK, StackOK, stack # << >>, Outcome
  PROVE  /\ stack' \in Seq(FrameType) /\ Len(stack') \in 0..1
         /\ stack' # << >> => stack'[1].cmd \in Command /\ stack'[1].event = Nothing
         /\ todo' \in Seq(Commands \cup {Pdu}) /\ received' \in Seq(Event)
         /\ NoNewCnma
<1> USE DEF NoNewCnma
<1>1. /\ stack[1].cmd \in Command /\ stack[1].event = Nothing /\ Len(stack) \in 1..2
      /\ stack[1] \in FrameType
  BY StackFacts DEF StackOK
<1>2. todo \in Seq(Commands \cup {Pdu}) /\ received \in Seq(Event)
  BY DEF TypeOK
<1>3. CASE Throws
  <2>1. stack' = << >> /\ todo' = todo /\ received' = received
    BY <1>3 DEF Throws
  <2>2. << >> \in Seq(FrameType) /\ Len(<< >>) = 0
    OBVIOUS
  <2> QED
    BY <1>2, <2>1, <2>2
<1>4. CASE Returns
  <2>1. stack' = Front(stack) /\ todo' = todo
        /\ received' = IF Top.cmd = Cnma THEN Handed(Top.event) ELSE received
    BY <1>4 DEF Returns
  <2>2. received' \in Seq(Event)
    <3>1. CASE Top.cmd = Cnma
      <4>1. Len(stack) = 2 /\ Top = stack[2]
        BY <1>1, <3>1, StackFacts, Assumptions
      <4>2. Top.event \in Event
        BY <4>1, Assumptions DEF StackOK
      <4> QED
        BY <1>2, <2>1, <3>1, <4>2, HandedFacts
    <3> QED
      BY <1>2, <2>1, <3>1
  <2>3. CASE Len(stack) = 1
    <3>1. stack' = << >>
      BY <2>1, <2>3, StackFacts
    <3>2. << >> \in Seq(FrameType) /\ Len(<< >>) = 0
      OBVIOUS
    <3> QED
      BY <1>2, <2>1, <2>2, <3>1, <3>2
  <2>4. CASE Len(stack) = 2
    <3>1. stack' = <<stack[1]>>
      BY <2>1, <2>4, StackFacts
    <3> HIDE DEF FrameType
    <3>2. <<stack[1]>> \in Seq(FrameType) /\ Len(<<stack[1]>>) = 1 /\ <<stack[1]>>[1] = stack[1]
      BY <1>1
    <3> QED
      BY <1>1, <1>2, <2>1, <2>2, <3>1, <3>2
  <2> QED
    BY <1>1, <2>3, <2>4
<1>5. CASE Waits
  <2>1. PICK f \in FrameType :
          /\ stack' = <<f>> /\ f.cmd = stack[1].cmd /\ f.event = stack[1].event
          /\ \/ todo' = todo
             \/ todo' = Append(todo, stack[1].cmd)
             \/ todo' = Append(todo, Pdu)
    BY <1>5 DEF Waits
  <2>2. received' = received
    BY <1>5 DEF Waits
  <2> HIDE DEF FrameType
  <2>3. <<f>> \in Seq(FrameType) /\ Len(<<f>>) = 1 /\ <<f>>[1] = f
    OBVIOUS
  <2>4. /\ todo' \in Seq(Commands \cup {Pdu})
        /\ \A i \in 1..Len(todo') : todo'[i] = Cnma => \E j \in 1..Len(todo) : todo[j] = Cnma
    <3>1. CASE todo' = todo
      BY <1>2, <3>1
    <3>2. ASSUME NEW c \in Command \cup {Pdu}, todo' = Append(todo, c)
          PROVE  /\ todo' \in Seq(Commands \cup {Pdu})
                 /\ \A i \in 1..Len(todo') : todo'[i] = Cnma => \E j \in 1..Len(todo) : todo[j] = Cnma
      <4>1. c \in Commands \cup {Pdu} /\ c # Cnma
        BY Assumptions DEF Commands
      <4>2. /\ todo' \in Seq(Commands \cup {Pdu}) /\ Len(todo') = Len(todo) + 1
            /\ todo'[Len(todo) + 1] = c /\ \A i \in 1..Len(todo) : todo'[i] = todo[i]
        BY <1>2, <3>2, <4>1, AppendProperties
      <4>3. Len(todo) \in Nat
        BY <1>2, LenProperties
      <4> QED
        BY <4>1, <4>2, <4>3
    <3> QED
      BY <1>1, <2>1, <3>1, <3>2
  <2> QED
    BY <1>1, <1>2, <2>1, <2>2, <2>3, <2>4
<1> QED
  BY <1>3, <1>4, <1>5 DEF Outcome

\* A line is read, or all is lost: no message more than one waits for its acknowledgement.
LEMMA TailDirect ==
  ASSUME OneUnacknowledged, line \in Seq(LineType), line # << >>, line' = Tail(line), sendAck' = sendAck,
         Calm
  PROVE  OneUnacknowledged'
<1> DEFINE m == Tail(line)
<1>1. /\ Len(m) = Len(line) - 1 /\ Len(line) \in Nat \ {0} /\ Head(line) = line[1]
      /\ \A k \in 1..Len(m) : m[k] = line[k + 1]
  BY HeadTailProperties, LenProperties, EmptySeq
<1>2. line' = m
  OBVIOUS
<1> HIDE DEF m
<1>3. SUFFICES ASSUME sendAck
               PROVE  /\ \A i, j \in 1..Len(m) : IsDirect(m[i]) /\ IsDirect(m[j]) => i = j
                      /\ (\E i \in 1..Len(m) : IsDirect(m[i]))
                           => Len(stack') < 2 /\ \A i \in 1..Len(todo') : todo'[i] # Cnma
  BY <1>2 DEF OneUnacknowledged
<1>4. /\ \A i, j \in 1..Len(line) : IsDirect(line[i]) /\ IsDirect(line[j]) => i = j
      /\ (\E i \in 1..Len(line) : IsDirect(line[i])) => \A i \in 1..Len(todo) : todo[i] # Cnma
  BY <1>3 DEF OneUnacknowledged
<1> HIDE DEF IsDirect
<1>5. ASSUME NEW i \in 1..Len(m), NEW j \in 1..Len(m), IsDirect(m[i]), IsDirect(m[j])
      PROVE  i = j
  <2>1. i + 1 \in 1..Len(line) /\ j + 1 \in 1..Len(line) /\ m[i] = line[i + 1] /\ m[j] = line[j + 1]
    BY <1>1
  <2>2. i + 1 = j + 1
    BY <1>4, <1>5, <2>1
  <2> QED
    BY <2>2
<1>6. ASSUME NEW i \in 1..Len(m), IsDirect(m[i])
      PROVE  Len(stack') < 2 /\ \A j \in 1..Len(todo') : todo'[j] # Cnma
  <2>1. i + 1 \in 1..Len(line) /\ m[i] = line[i + 1] /\ i + 1 # 1 /\ 1 \in 1..Len(line)
    BY <1>1
  <2>2. ~IsDirect(Head(line))
    BY <1>1, <1>4, <1>6, <2>1
  <2> QED
    BY <1>4, <1>6, <2>1, <2>2 DEF Calm, NoNewCnma
<1> QED
  BY <1>5, <1>6

\* The program reads a line.
LEMMA GetLineBasics ==
  ASSUME Basics, GetLine,
         UNCHANGED <<reported, heard, said>>, late' \in BOOLEAN, broken' \in BOOLEAN
  PROVE  Basics'
<1>1. /\ TypeOK /\ StackOK /\ OneUnacknowledged
  BY DEF Basics
<1>2. /\ stack # << >> /\ line # << >> /\ line' = Tail(line) /\ Head(line) \in LineType /\ Same
      /\ HandsOver \/ Pushes \/ (Head(line).kind # "event" /\ Outcome)
  BY <1>1, GetLineFacts
<1>3. /\ answering' = answering /\ entering' = entering
      /\ listening' = listening /\ sendAck' = sendAck
  BY <1>2 DEF Same
<1>4. line \in Seq(LineType) /\ line' \in Seq(LineType)
  BY <1>1, <1>2, HeadTailProperties DEF TypeOK
<1>5. /\ stack \in Seq(FrameType) /\ todo \in Seq(Commands \cup {Pdu}) /\ received \in Seq(Event)
  BY <1>1 DEF TypeOK
<1>6. CASE HandsOver
  <2>1. stack' = stack /\ todo' = todo /\ received' = Handed(Head(line).of)
    BY <1>6 DEF HandsOver
  <2>2. received' \in Seq(Event)
    BY <1>2, <1>5, <1>6, <2>1, LineFacts, HandedFacts DEF HandsOver
  <2>3. TypeOK'
    BY <1>1, <1>3, <1>4, <2>1, <2>2 DEF TypeOK
  <2>4. StackOK'
    BY <1>1, <1>3, <2>1 DEF StackOK
  <2>5. OneUnacknowledged'
    <3>1. CASE \E i \in 1..Len(line) : sendAck /\ IsDirect(line[i])
      <4>1. Calm
        BY <1>1, <2>1, <3>1 DEF OneUnacknowledged, Calm, NoNewCnma
      <4> QED
        BY <1>1, <1>2, <1>3, <1>4, <4>1, TailDirect
    <3>2. CASE ~\E i \in 1..Len(line) : sendAck /\ IsDirect(line[i])
      <4> DEFINE m == Tail(line)
      <4>1. /\ \A k \in 1..Len(m) : k + 1 \in 1..Len(line) /\ m[k] = line[k + 1]
        <5>1. /\ Len(m) = Len(line) - 1 /\ Len(line) \in Nat
              /\ \A k \in 1..Len(m) : m[k] = line[k + 1]
          BY <1>2, <1>4, HeadTailProperties, LenProperties
        <5> HIDE DEF m
        <5> QED
          BY <5>1
      <4>2. line' = m
        BY <1>2
      <4> HIDE DEF m
      <4>3. \A k \in 1..Len(m) : ~(sendAck /\ IsDirect(m[k]))
        BY <3>2, <4>1
      <4> QED
        BY <1>3, <4>2, <4>3 DEF OneUnacknowledged, IsDirect
    <3> QED
      BY <3>1, <3>2
  <2> QED
    BY <2>3, <2>4, <2>5 DEF Basics
<1>7. CASE Pushes
  <2> DEFINE e == Head(line).of
             f == Frame(Cnma, e)
  <2>1. /\ e \in Direct /\ sendAck /\ stack' = Append(stack, f) /\ todo' = Append(todo, Cnma)
        /\ received' = received /\ IsDirect(Head(line))
    BY <1>7 DEF Pushes, IsDirect
  <2>0. Cnma \in Commands /\ e \in Event \cup {Nothing} /\ Cnma \notin PduCommands
    BY <2>1, Assumptions DEF Commands
  <2> HIDE DEF e
  <2>2. /\ f \in FrameType /\ f.cmd = Cnma /\ f.event = e /\ f.infos = << >> /\ f.prompted
    BY <2>0, FrameFacts
  <2> HIDE DEF f
  <2>3. Len(stack) = 1
    <3>1. Len(stack) \in 1..2
      BY <1>1, <1>2, StackFacts
    <3>2. 1 \in 1..Len(line) /\ Head(line) = line[1]
      <4>1. Len(line) \in Nat \ {0} /\ Head(line) = line[1]
        BY <1>2, <1>4, EmptySeq, HeadTailProperties
      <4> QED
        BY <4>1
    <3>3. Len(stack) < 2
      BY <1>1, <2>1, <3>2 DEF OneUnacknowledged
    <3> QED
      BY <3>1, <3>3
  <2>4. /\ stack' \in Seq(FrameType) /\ Len(stack') = 2 /\ stack'[2] = f /\ stack'[1] = stack[1]
    <3> HIDE DEF FrameType
    <3>1. /\ stack' \in Seq(FrameType) /\ Len(stack') = Len(stack) + 1 /\ stack'[Len(stack) + 1] = f
          /\ \A i \in 1..Len(stack) : stack'[i] = stack[i]
      BY <1>5, <2>1, <2>2, AppendProperties
    <3> QED
      BY <2>3, <3>1
  <2>5. todo' \in Seq(Commands \cup {Pdu})
    BY <1>5, <2>1, AppendProperties DEF Commands
  <2>6. TypeOK'
    BY <1>1, <1>3, <1>4, <1>5, <2>1, <2>4, <2>5 DEF TypeOK
  <2>7. StackOK'
    BY <1>1, <1>2, <1>3, <2>1, <2>2, <2>4 DEF StackOK
  <2>8. OneUnacknowledged'
    <3>1. Calm
      BY <2>1 DEF Calm
    <3> QED
      BY <1>1, <1>2, <1>3, <1>4, <3>1, TailDirect
  <2> QED
    BY <2>6, <2>7, <2>8 DEF Basics
<1>8. CASE Head(line).kind # "event" /\ Outcome
  <2>1. /\ stack' \in Seq(FrameType) /\ Len(stack') \in 0..1
        /\ stack' # << >> => stack'[1].cmd \in Command /\ stack'[1].event = Nothing
        /\ todo' \in Seq(Commands \cup {Pdu}) /\ received' \in Seq(Event)
        /\ NoNewCnma
    BY <1>1, <1>2, <1>8, OutcomeFacts
  <2>2. TypeOK'
    BY <1>1, <1>3, <1>4, <2>1 DEF TypeOK
  <2>3. StackOK'
    BY <2>1 DEF StackOK
  <2>4. OneUnacknowledged'
    <3>0. NoNewCnma /\ Len(stack') \in 0..1
      BY <2>1, Zenon
    <3>1. Len(stack') < 2
      BY <3>0
    <3>2. Calm
      BY <3>0, <3>1, Zenon DEF Calm
    <3> QED
      BY <1>1, <1>2, <1>3, <1>4, <3>2, TailDirect
  <2> QED
    BY <2>2, <2>3, <2>4 DEF Basics
<1> QED
  BY <1>2, <1>6, <1>7, <1>8

\* No line came in time.
LEMMA TimeOutBasics ==
  ASSUME Basics, TimeOut,
         UNCHANGED <<reported, heard, said>>, late' \in BOOLEAN, broken' \in BOOLEAN
  PROVE  Basics'
<1>1. /\ TypeOK /\ StackOK /\ OneUnacknowledged
  BY DEF Basics
<1>2. /\ stack # << >> /\ line' = << >> /\ Same /\ Outcome
  BY <1>1, TimeOutFacts
<1>3. /\ answering' = answering /\ entering' = entering
      /\ listening' = listening /\ sendAck' = sendAck
  BY <1>2 DEF Same
<1>4. /\ stack' \in Seq(FrameType) /\ Len(stack') \in 0..1
      /\ stack' # << >> => stack'[1].cmd \in Command /\ stack'[1].event = Nothing
      /\ todo' \in Seq(Commands \cup {Pdu}) /\ received' \in Seq(Event)
  BY <1>1, <1>2, OutcomeFacts
<1>5. << >> \in Seq(LineType) /\ Len(<< >>) = 0 /\ 1..0 = {}
  OBVIOUS
<1>6. TypeOK'
  BY <1>1, <1>2, <1>3, <1>4, <1>5 DEF TypeOK
<1>7. StackOK'
  BY <1>4 DEF StackOK
<1>8. OneUnacknowledged'
  BY <1>2, <1>5 DEF OneUnacknowledged
<1> QED
  BY <1>6, <1>7, <1>8 DEF Basics

\* A command is sent that is no acknowledgement.
LEMMA SentFacts ==
  ASSUME todo \in Seq(Commands \cup {Pdu}), NEW c \in Command, todo' = Append(todo, c)
  PROVE  todo' \in Seq(Commands \cup {Pdu}) /\ NoNewCnma
<1>1. c \in Commands \cup {Pdu} /\ c # Cnma
  BY Assumptions DEF Commands
<1>2. /\ todo' \in Seq(Commands \cup {Pdu}) /\ Len(todo') = Len(todo) + 1
      /\ todo'[Len(todo) + 1] = c /\ \A i \in 1..Len(todo) : todo'[i] = todo[i]
  BY <1>1, AppendProperties
<1>3. Len(todo) \in Nat
  BY LenProperties
<1> QED
  BY <1>1, <1>2, <1>3 DEF NoNewCnma

\* A command is executed.
LEMMA ExecutedTodo ==
  ASSUME todo \in Seq(Commands \cup {Pdu}), todo # << >>, todo' = Tail(todo)
  PROVE  todo' \in Seq(Commands \cup {Pdu}) /\ NoNewCnma
<1>1. /\ Tail(todo) \in Seq(Commands \cup {Pdu}) /\ Len(Tail(todo)) = Len(todo) - 1
      /\ \A i \in 1..Len(Tail(todo)) : Tail(todo)[i] = todo[i + 1]
      /\ Len(todo) \in Nat
  BY HeadTailProperties, LenProperties
<1> DEFINE m == Tail(todo)
<1> HIDE DEF m
<1>2. ASSUME NEW i \in 1..Len(m), m[i] = Cnma
      PROVE  \E j \in 1..Len(todo) : todo[j] = Cnma
  <2>1. i + 1 \in 1..Len(todo) /\ todo[i + 1] = m[i]
    BY <1>1 DEF m
  <2> QED
    BY <1>2, <2>1
<1> QED
  BY <1>1, <1>2 DEF m, NoNewCnma

\* Answers are added to the line.
LEMMA AddedDirect ==
  ASSUME OneUnacknowledged, line \in Seq(LineType), NEW t \in Seq(LineType),
         \A j \in 1..Len(t) : t[j].kind # "event", line' = line \o t, sendAck' = sendAck,
         Len(stack) < 2 => Len(stack') < 2, NoNewCnma
  PROVE  OneUnacknowledged'
<1> DEFINE m == line \o t
<1>1. /\ Len(m) = Len(line) + Len(t) /\ Len(line) \in Nat /\ Len(t) \in Nat
      /\ \A k \in 1..(Len(line) + Len(t)) : m[k] = IF k <= Len(line) THEN line[k] ELSE t[k - Len(line)]
  BY ConcatProperties, LenProperties
<1>2. line' = m
  OBVIOUS
<1> HIDE DEF m
<1>3. ASSUME NEW i \in 1..Len(m), IsDirect(m[i])
      PROVE  i \in 1..Len(line) /\ IsDirect(line[i])
  <2>1. CASE i <= Len(line)
    BY <1>1, <1>3, <2>1
  <2>2. CASE ~(i <= Len(line))
    <3>1. i - Len(line) \in 1..Len(t) /\ m[i] = t[i - Len(line)]
      BY <1>1, <2>2
    <3> QED
      BY <1>3, <3>1 DEF IsDirect
  <2> QED
    BY <2>1, <2>2
<1>4. SUFFICES ASSUME sendAck
               PROVE  /\ \A i, j \in 1..Len(m) : IsDirect(m[i]) /\ IsDirect(m[j]) => i = j
                      /\ (\E i \in 1..Len(m) : IsDirect(m[i]))
                           => Len(stack') < 2 /\ \A i \in 1..Len(todo') : todo'[i] # Cnma
  BY <1>2 DEF OneUnacknowledged
<1>5. /\ \A i, j \in 1..Len(line) : IsDirect(line[i]) /\ IsDirect(line[j]) => i = j
      /\ (\E i \in 1..Len(line) : IsDirect(line[i]))
           => Len(stack) < 2 /\ \A i \in 1..Len(todo) : todo[i] # Cnma
  BY <1>4 DEF OneUnacknowledged
<1> HIDE DEF IsDirect
<1> QED
  BY <1>3, <1>5 DEF NoNewCnma

\* The invariant Basics holds at the start.
LEMMA InitBasics ==
  ASSUME Init
  PROVE  Basics
<1>1. << >> \in Seq(LineType) /\ << >> \in Seq(Commands \cup {Pdu}) /\ << >> \in Seq(FrameType)
      /\ << >> \in Seq(Event) /\ Len(<< >>) = 0 /\ 1..0 = {}
  OBVIOUS
<1>2. NotEntering \in [cmd : PduCommands \cup {Nothing}, garbled : BOOLEAN]
  BY DEF NotEntering
<1>3. TypeOK
  <2>1. << >> \in Seq(AnswerLines)
    OBVIOUS
  <2> QED
    BY <1>1, <1>2, <2>1 DEF Init, AtInit, TypeOK
<1>4. StackOK /\ OneUnacknowledged
  BY <1>1 DEF Init, AtInit, StackOK, OneUnacknowledged
<1> QED
  BY <1>3, <1>4 DEF Basics

\* The program sends a command.
LEMMA CallBasics ==
  ASSUME Basics, NEW c \in Command, Call(c)
  PROVE  Basics'
<1> DEFINE f == Frame(c, Nothing)
<1>1. /\ stack = << >> /\ stack' = <<f>> /\ todo' = Append(todo, c)
      /\ line' = line /\ answering' = answering /\ entering' = entering
      /\ listening' = listening /\ sendAck' = sendAck
      /\ received' = received /\ reported' = reported /\ heard' = heard /\ said' = said
      /\ late' = late /\ broken' = broken
  BY DEF Call, Chat
<1>2. /\ TypeOK /\ StackOK /\ OneUnacknowledged
  BY DEF Basics
<1>3. f \in FrameType /\ f.cmd = c /\ f.event = Nothing
  BY FrameFacts DEF Commands
<1> HIDE DEF f
<1>4. todo' \in Seq(Commands \cup {Pdu}) /\ NoNewCnma
  BY <1>1, <1>2, SentFacts DEF TypeOK
<1>5. stack' \in Seq(FrameType) /\ Len(stack') = 1 /\ stack'[1] = f
  <2> HIDE DEF FrameType
  <2> QED
    BY <1>1, <1>3
<1>6. TypeOK'
  BY <1>1, <1>2, <1>4, <1>5 DEF TypeOK
<1>7. StackOK'
  BY <1>3, <1>5 DEF StackOK
<1>8. OneUnacknowledged'
  <2>1. Len(stack') < 2
    BY <1>5
  <2> QED
    BY <1>1, <1>2, <1>4, <2>1 DEF OneUnacknowledged, NoNewCnma
<1> QED
  BY <1>6, <1>7, <1>8 DEF Basics

\* The program sets its event handler.
LEMMA SetEventHandlerBasics ==
  ASSUME Basics, SetEventHandler
  PROVE  Basics'
<1>1. TypeOK'
  BY DEF Basics, TypeOK, SetEventHandler
<1>2. StackOK' /\ OneUnacknowledged'
  BY DEF Basics, SetEventHandler, StackOK, OneUnacknowledged
<1> QED
  BY <1>1, <1>2 DEF Basics

\* Whatever it executes, the TA adds no event to the line.
LEMMA ExecutionAdds ==
  ASSUME TypeOK, NEW c, Execution(c)
  PROVE  \E t \in Seq(LineType) :
           /\ \A j \in 1..Len(t) : t[j].kind # "event"
           /\ line' = line \o t /\ answering' \in Seq(AnswerLines)
           /\ entering' \in [cmd : PduCommands \cup {Nothing}, garbled : BOOLEAN]
           /\ said' \in Seq(LineType)
<1>0. line \in Seq(LineType) /\ answering \in Seq(AnswerLines) /\ said \in Seq(LineType)
      /\ entering \in [cmd : PduCommands \cup {Nothing}, garbled : BOOLEAN]
  BY DEF TypeOK
<1>1. CASE line' = line /\ answering' \in Seq(AnswerLines) /\ said' \in Seq(LineType)
           /\ (\/ entering' = entering \/ entering' = NotEntering
               \/ entering' = [entering EXCEPT !.garbled = TRUE])
  <2> DEFINE z == << >>
  <2>1. z \in Seq(LineType) /\ 1..Len(z) = {}
    OBVIOUS
  <2>2. line \o z = line
    BY <1>0, ConcatEmptySeq
  <2> HIDE DEF z
  <2>3. entering' \in [cmd : PduCommands \cup {Nothing}, garbled : BOOLEAN]
    <3>1. NotEntering \in [cmd : PduCommands \cup {Nothing}, garbled : BOOLEAN]
      BY DEF NotEntering
    <3> QED
      BY <1>0, <1>1, <3>1
  <2>4. /\ line' = line \o z /\ answering' \in Seq(AnswerLines)
        /\ said' \in Seq(LineType)
    BY <1>0, <1>1, <2>2
  <2>5. \A j \in 1..Len(z) : z[j].kind # "event"
    BY <2>1
  <2> QED
    BY <2>1, <2>3, <2>4, <2>5, Zenon
<1>2. CASE PromptsFor(c)
  <2> DEFINE x == Item("prompt", c, Nothing)
  <2>1. x \in LineType /\ x.kind = "prompt"
    BY <1>2, Assumptions, ItemFacts DEF PromptsFor, Commands
  <2>2. line' = line \o <<x>> /\ entering' = [cmd |-> c, garbled |-> FALSE] /\ said' = said
        /\ c \in PduCommands
    BY <1>2 DEF PromptsFor
  <2> HIDE DEF x
  <2>3. <<x>> \in Seq(LineType) /\ Len(<<x>>) = 1 /\ <<x>>[1] = x
    BY <2>1
  <2>4. entering' \in [cmd : PduCommands \cup {Nothing}, garbled : BOOLEAN]
    BY <2>2
  <2>5. \A j \in 1..Len(<<x>>) : <<x>>[j].kind # "event"
    <3> TAKE j \in 1..Len(<<x>>)
    <3>1. j = 1
      BY <2>3
    <3> QED
      BY <2>1, <2>3, <3>1
  <2>6. said' \in Seq(LineType) /\ answering' \in Seq(AnswerLines)
    BY <1>0, <1>2, <2>2 DEF PromptsFor
  <2> QED
    BY <2>2, <2>3, <2>4, <2>5, <2>6, Zenon
<1>3. CASE \E d, t : Replies(c, d, t)
  <2>1. PICK d, t : Replies(c, d, t)
    BY <1>3
  <2>2. /\ t \in Seq(LineType) /\ \A j \in 1..Len(t) : t[j].kind # "event"
        /\ line' = line /\ answering' = t
        /\ entering' = entering \/ entering' = NotEntering
        /\ said' = said \/ said' = Front(t)
        /\ Refuses(d, t) \/ Accepts(d, t)
    BY <2>1 DEF Replies
  <2>3. Len(t) # 0
    BY <2>2 DEF Refuses, Accepts
  <2>4. Front(t) \in Seq(LineType) /\ answering' \in Seq(AnswerLines)
    BY <2>2, <2>3, FrontFacts, AnswerSeq
  <2>5. said' \in Seq(LineType)
    BY <1>0, <2>2, <2>4
  <2> QED
    BY <1>1, <2>2, <2>4, <2>5
<1>4. CASE Ignores(c) \/ Garbles(c)
  BY <1>0, <1>1, <1>4 DEF Ignores, Garbles
<1> QED
  BY <1>2, <1>3, <1>4 DEF Execution

\* The TA executes a command.
LEMMA ExecutesBasics ==
  ASSUME Basics, Executes
  PROVE  Basics'
<1>1. /\ TypeOK /\ StackOK /\ OneUnacknowledged
  BY DEF Basics
<1>2. PICK c \in Commands \cup {Pdu} :
        ExecutedBy(c) /\ Execution(c)
  BY <1>1, ExecutesFacts
<1>3. /\ todo # << >> /\ todo' = Tail(todo)
      /\ stack' = stack /\ received' = received
      /\ listening' = listening /\ sendAck' = sendAck
      /\ reported' = reported /\ heard' = heard /\ late' = late /\ broken' = broken
  BY <1>2 DEF ExecutedBy
<1>4. todo' \in Seq(Commands \cup {Pdu}) /\ NoNewCnma
  BY <1>1, <1>3, ExecutedTodo DEF TypeOK
<1>5. line \in Seq(LineType) /\ said \in Seq(LineType)
      /\ entering \in [cmd : PduCommands \cup {Nothing}, garbled : BOOLEAN]
  BY <1>1 DEF TypeOK
<1>6. PICK t \in Seq(LineType) :
        /\ \A j \in 1..Len(t) : t[j].kind # "event"
        /\ line' = line \o t /\ answering' \in Seq(AnswerLines)
        /\ entering' \in [cmd : PduCommands \cup {Nothing}, garbled : BOOLEAN]
        /\ said' \in Seq(LineType)
  BY <1>1, <1>2, ExecutionAdds
<1>7. line' \in Seq(LineType)
  BY <1>5, <1>6, ConcatProperties
<1>8. TypeOK'
  BY <1>1, <1>3, <1>4, <1>6, <1>7 DEF TypeOK
<1>9. StackOK'
  BY <1>1, <1>3 DEF StackOK
<1>10. OneUnacknowledged'
  BY <1>1, <1>3, <1>4, <1>5, <1>6, AddedDirect
<1> QED
  BY <1>8, <1>9, <1>10 DEF Basics

\* The TA sends a line of the answer.
LEMMA TransmitsBasics ==
  ASSUME Basics, Transmits
  PROVE  Basics'
<1>1. TypeOK /\ StackOK /\ OneUnacknowledged
  BY DEF Basics
<1>2. PICK t \in Seq(LineType) : line' = line \o t /\ \A j \in 1..Len(t) : t[j].kind # "event"
  BY <1>1, TransmitsFacts
<1>3. /\ answering' \in Seq(AnswerLines)
      /\ todo' = todo /\ entering' = entering /\ stack' = stack
      /\ listening' = listening /\ sendAck' = sendAck /\ received' = received
      /\ reported' = reported /\ heard' = heard /\ said' = said /\ late' = late
      /\ broken' = broken
  BY <1>1, TransmitsFacts
<1>4. line \in Seq(LineType) /\ line' \in Seq(LineType)
  BY <1>1, <1>2, ConcatProperties DEF TypeOK
<1>5. TypeOK'
  BY <1>1, <1>3, <1>4 DEF TypeOK
<1>6. StackOK'
  BY <1>1, <1>3 DEF StackOK
<1>7. NoNewCnma
  BY <1>3 DEF NoNewCnma
<1>8. OneUnacknowledged'
  BY <1>1, <1>2, <1>3, <1>4, <1>7, AddedDirect
<1> QED
  BY <1>5, <1>6, <1>8 DEF Basics

\* What a report does.
LEMMA ReportsFacts ==
  ASSUME NEW e \in Event, Reports(e), NEW x, x = Item("event", e, Nothing)
  PROVE  /\ x \in LineType /\ x.kind = "event" /\ x.of = e
         /\ line' = Append(line, x) /\ answering' = answering
         /\ e \notin reported /\ reported' = reported \cup {e}
         /\ heard' = IF listening THEN Append(heard, e) ELSE heard
         /\ todo' = todo /\ entering' = entering /\ stack' = stack /\ result' = result
         /\ listening' = listening /\ sendAck' = sendAck /\ received' = received
         /\ said' = said /\ late' = late /\ broken' = broken
         /\ sendAck /\ e \in Direct =>
              /\ \A i \in 1..Len(stack) : stack[i].cmd # Cnma
              /\ \A i \in DOMAIN line : ~IsDirect(line[i])
              /\ \A i \in DOMAIN todo : todo[i] # Cnma
<1>1. x \in LineType /\ x.kind = "event" /\ x.of = e
  BY EventItem
<1>2. line' = Append(line, x)
  BY DEF Reports, TAReports
<1>3. sendAck /\ e \in Direct => ~Unacknowledged
  BY DEF Reports
<1>4. ~Unacknowledged => /\ \A i \in DOMAIN stack : stack[i].cmd # Cnma
                         /\ \A i \in DOMAIN line : ~IsDirect(line[i])
                         /\ \A i \in DOMAIN todo : todo[i] # Cnma
  BY DEF Unacknowledged, IsDirect
<1>5. ~Unacknowledged => \A i \in 1..Len(stack) : stack[i].cmd # Cnma
  BY DEF Unacknowledged
<1> QED
  BY <1>1, <1>2, <1>3, <1>4, <1>5 DEF Reports, TAReports

\* The TA reports an event.
LEMMA ReportsBasics ==
  ASSUME Basics, NEW e \in Event, Reports(e)
  PROVE  Basics'
<1>1. /\ TypeOK /\ StackOK /\ OneUnacknowledged
  BY DEF Basics
<1> DEFINE x == Item("event", e, Nothing)
<1>2. /\ x \in LineType /\ x.kind = "event" /\ x.of = e
      /\ line' = Append(line, x) /\ answering' = answering
      /\ e \notin reported /\ reported' = reported \cup {e}
      /\ heard' = IF listening THEN Append(heard, e) ELSE heard
      /\ todo' = todo /\ entering' = entering /\ stack' = stack
      /\ listening' = listening /\ sendAck' = sendAck /\ received' = received
      /\ said' = said /\ late' = late /\ broken' = broken
      /\ sendAck /\ e \in Direct =>
           /\ \A i \in 1..Len(stack) : stack[i].cmd # Cnma
           /\ \A i \in DOMAIN line : ~IsDirect(line[i])
           /\ \A i \in DOMAIN todo : todo[i] # Cnma
  BY ReportsFacts
<1> HIDE DEF x
<1>3. line \in Seq(LineType) /\ heard \in Seq(Event) /\ todo \in Seq(Commands \cup {Pdu})
  BY <1>1 DEF TypeOK
<1> DEFINE m == Append(line, x)
<1>4. /\ m \in Seq(LineType) /\ Len(m) = Len(line) + 1 /\ Len(line) \in Nat
      /\ m[Len(line) + 1] = x /\ \A k \in 1..Len(line) : m[k] = line[k]
      /\ DOMAIN line = 1..Len(line) /\ DOMAIN todo = 1..Len(todo)
  BY <1>2, <1>3, AppendProperties, LenProperties
<1>5. line' = m
  BY <1>2
<1> HIDE DEF m
<1>6. heard' \in Seq(Event)
  BY <1>2, <1>3, AppendProperties
<1>7. TypeOK'
  BY <1>1, <1>2, <1>4, <1>5, <1>6 DEF TypeOK
<1>8. StackOK'
  BY <1>1, <1>2 DEF StackOK
<1>9. OneUnacknowledged'
  <2>1. SUFFICES ASSUME sendAck
                 PROVE  /\ \A i, j \in 1..Len(m) : IsDirect(m[i]) /\ IsDirect(m[j]) => i = j
                        /\ (\E i \in 1..Len(m) : IsDirect(m[i]))
                             => Len(stack) < 2 /\ \A i \in 1..Len(todo) : todo[i] # Cnma
    BY <1>2, <1>5 DEF OneUnacknowledged
  <2>2. /\ \A i, j \in 1..Len(line) : IsDirect(line[i]) /\ IsDirect(line[j]) => i = j
        /\ (\E i \in 1..Len(line) : IsDirect(line[i]))
             => Len(stack) < 2 /\ \A i \in 1..Len(todo) : todo[i] # Cnma
    BY <1>1, <2>1 DEF OneUnacknowledged
  <2>3. CASE e \in Direct
    <3>1. Len(stack) < 2
      <4>1. Len(stack) = 2 => stack[2].cmd = Cnma
        BY <1>1 DEF StackOK
      <4>2. Len(stack) \in 0..2
        BY <1>1 DEF StackOK
      <4>3. Len(stack) # 2
        <5>1. Len(stack) = 2 => 2 \in 1..Len(stack)
          OBVIOUS
        <5> QED
          BY <1>2, <2>1, <2>3, <4>1, <5>1
      <4> QED
        BY <4>2, <4>3
    <3>2. /\ \A i \in 1..Len(line) : ~IsDirect(line[i])
          /\ \A i \in 1..Len(todo) : todo[i] # Cnma
      BY <1>2, <1>4, <2>1, <2>3
    <3> HIDE DEF IsDirect
    <3>3. \A i \in 1..Len(m) : IsDirect(m[i]) => i = Len(line) + 1
      BY <1>4, <3>2
    <3> QED
      BY <3>1, <3>2, <3>3
  <2>4. CASE e \notin Direct
    <3>1. ~IsDirect(x)
      BY <1>2, <2>4 DEF IsDirect
    <3> HIDE DEF IsDirect
    <3>2. \A i \in 1..Len(m) : IsDirect(m[i]) => i \in 1..Len(line) /\ IsDirect(line[i])
      BY <1>4, <3>1
    <3> QED
      BY <2>2, <3>2
  <2> QED
    BY <2>3, <2>4
<1> QED
  BY <1>7, <1>8, <1>9 DEF Basics

\* Every step keeps Basics.
LEMMA NextBasics ==
  ASSUME Basics, [Next]_vars
  PROVE  Basics'
<1>1. ASSUME NEW c \in Command, Call(c) PROVE Basics'
  BY <1>1, CallBasics
<1>2. CASE Read
  <2>1. GetLine /\ UNCHANGED <<reported, heard, said>> /\ late' \in BOOLEAN /\ broken' \in BOOLEAN
    BY <1>2 DEF Read, Basics, TypeOK
  <2> QED
    BY <2>1, GetLineBasics
<1>3. CASE GivesUp
  <2>1. TimeOut /\ UNCHANGED <<reported, heard, said>> /\ late' \in BOOLEAN /\ broken' \in BOOLEAN
    BY <1>3 DEF GivesUp, Basics, TypeOK
  <2> QED
    BY <2>1, TimeOutBasics
<1>4. CASE SetEventHandler
  BY <1>4, SetEventHandlerBasics
<1>5. CASE Executes
  BY <1>5, ExecutesBasics
<1>6. ASSUME NEW e \in Event, Reports(e) PROVE Basics'
  BY <1>6, ReportsBasics
<1>8. CASE Transmits
  BY <1>8, TransmitsBasics
<1>7. CASE UNCHANGED vars
  <2>1. /\ line' = line /\ answering' = answering /\ todo' = todo /\ entering' = entering /\ stack' = stack
        /\ listening' = listening /\ sendAck' = sendAck /\ received' = received
        /\ reported' = reported /\ heard' = heard /\ said' = said /\ late' = late /\ broken' = broken
    BY <1>7 DEF vars, atVars
  <2>2. TypeOK'
    BY <2>1 DEF Basics, TypeOK
  <2>3. StackOK' /\ OneUnacknowledged'
    BY <2>1 DEF Basics, StackOK, OneUnacknowledged
  <2> QED
    BY <2>2, <2>3 DEF Basics
<1> QED
  BY <1>1, <1>2, <1>3, <1>4, <1>5, <1>6, <1>7, <1>8 DEF Next

-----------------------------------------------------------------------------
(* The answers that are on their way. *)

\* s is the answers in the line and those that the TA is sending.
Pending(s) == \E h : Holds(line, h) /\ s = h \o answering

\* What is on its way is a sequence of lines.
LEMMA PendingSeq ==
  ASSUME TypeOK, NEW s, Pending(s)
  PROVE  s \in Seq(LineType)
<1>1. answering \in Seq(LineType)
  BY AnswerSeq DEF TypeOK
<1> QED
  BY <1>1, HoldsSeq, ConcatProperties DEF Pending

\* Nothing is on its way at the start.
LEMMA PendingEmpty ==
  ASSUME line = << >>, answering = << >>
  PROVE  Pending(<< >>)
<1>1. << >> \o << >> = << >>
  OBVIOUS
<1> QED
  BY <1>1, HoldsEmpty DEF Pending

\* While the TA is sending nothing, all is in the line.
LEMMA PendingHolds ==
  ASSUME answering = << >>, NEW s
  PROVE  Pending(s) <=> Holds(line, s)
<1>1. ASSUME NEW h, Holds(line, h) PROVE h \o answering = h
  BY <1>1, HoldsSeq, ConcatEmptySeq
<1> QED
  BY <1>1 DEF Pending

\* When nothing is on its way, the line holds events only.
LEMMA PendingNothing ==
  ASSUME TypeOK, Pending(<< >>)
  PROVE  answering = << >> /\ \A k \in 1..Len(line) : line[k].kind = "event"
<1>1. PICK h : Holds(line, h) /\ << >> = h \o answering
  BY DEF Pending
<1>2. answering \in Seq(LineType) /\ h \in Seq(LineType) /\ line \in Seq(LineType)
  BY <1>1, AnswerSeq, HoldsSeq DEF TypeOK
<1>3. Len(h \o answering) = Len(h) + Len(answering) /\ Len(h) \in Nat /\ Len(answering) \in Nat
  BY <1>2, ConcatProperties, LenProperties
<1>4. Len(h) = 0 /\ Len(answering) = 0
  <2>1. Len(h) + Len(answering) = 0
    BY <1>1, <1>3
  <2> QED
    BY <1>3, <2>1
<1>5. h = << >> /\ answering = << >>
  BY <1>2, <1>4, EmptySeq
<1> QED
  BY <1>1, <1>2, <1>5, HoldsNothing

\* A step that leaves the line alone.
LEMMA PendingKept ==
  ASSUME NEW s, Pending(s), line' = line, answering' = answering
  PROVE  Pending(s)'
  BY DEF Pending

\* An event at the end of the line.
LEMMA PendingEvent ==
  ASSUME TypeOK, NEW s, Pending(s), NEW x \in LineType, x.kind = "event",
         line' = Append(line, x), answering' = answering
  PROVE  Pending(s)'
<1>1. PICK h : Holds(line, h) /\ s = h \o answering
  BY DEF Pending
<1>2. Holds(line', h)
  BY <1>1, HoldsEvent DEF TypeOK
<1> QED
  BY <1>1, <1>2 DEF Pending

\* The TA begins to send an answer.
LEMMA PendingAnswer ==
  ASSUME NEW s, Pending(s), answering = << >>, line' = line, NEW t, answering' = t
  PROVE  Pending(s \o t)'
<1>1. Holds(line, s)
  BY PendingHolds
<1> QED
  BY <1>1 DEF Pending

\* The TA sends what is no event at once.
LEMMA PendingMore ==
  ASSUME TypeOK, NEW s, Pending(s), answering = << >>, answering' = answering,
         NEW t \in Seq(LineType), \A j \in 1..Len(t) : t[j].kind # "event", line' = line \o t
  PROVE  Pending(s \o t)'
<1>1. Holds(line, s)
  BY PendingHolds
<1>2. Holds(line', s \o t)
  BY <1>1, HoldsAnswer DEF TypeOK
<1>3. s \in Seq(LineType)
  BY <1>1, HoldsSeq
<1>4. s \o t \in Seq(LineType)
  BY <1>3, ConcatProperties
<1>5. (s \o t) \o << >> = s \o t
  BY <1>4, ConcatEmptySeq
<1> QED
  BY <1>2, <1>5 DEF Pending

\* The TA goes on with an answer.
LEMMA PendingSent ==
  ASSUME TypeOK, NEW s, Pending(s), Transmits
  PROVE  Pending(s)'
<1> DEFINE x == Head(answering)
           r == Tail(answering)
<1>1. PICK h : Holds(line, h) /\ s = h \o answering
  BY DEF Pending
<1>2. /\ line' = line \o <<x>> /\ answering' = r /\ answering # << >>
      /\ <<x>> \in Seq(LineType) /\ \A j \in 1..Len(<<x>>) : <<x>>[j].kind # "event"
  BY TransmitsFacts
<1>3. h \in Seq(LineType) /\ answering \in Seq(LineType) /\ r \in Seq(LineType)
  BY <1>1, <1>2, HoldsSeq, AnswerSeq, HeadTailProperties DEF TypeOK
<1>4. answering = <<x>> \o r
  <2>1. /\ Len(r) = Len(answering) - 1 /\ Len(answering) \in Nat \ {0} /\ x = answering[1]
        /\ \A k \in 1..Len(r) : r[k] = answering[k + 1]
    BY <1>2, <1>3, HeadTailProperties, LenProperties, EmptySeq
  <2> DEFINE a == <<x>>
  <2>2. a \in Seq(LineType) /\ Len(a) = 1 /\ a[1] = x
    BY <1>2
  <2> HIDE DEF a, r, x
  <2>3. /\ a \o r \in Seq(LineType) /\ Len(a \o r) = Len(a) + Len(r)
        /\ \A k \in 1..(Len(a) + Len(r)) : (a \o r)[k] = IF k <= Len(a) THEN a[k] ELSE r[k - Len(a)]
    BY <1>3, <2>2, ConcatProperties
  <2>4. Len(a \o r) = Len(answering) /\ Len(r) \in Nat
    BY <2>1, <2>2, <2>3
  <2>5. \A k \in 1..Len(answering) : answering[k] = (a \o r)[k]
    <3> TAKE k \in 1..Len(answering)
    <3>1. k \in 1..(Len(a) + Len(r))
      BY <2>3, <2>4
    <3>2. CASE k = 1
      BY <2>1, <2>2, <2>3, <3>1, <3>2
    <3>3. CASE k # 1
      <4>1. k - 1 \in 1..Len(r) /\ ~(k <= Len(a)) /\ k - Len(a) = k - 1
        BY <2>1, <2>2, <3>3
      <4>2. r[k - 1] = answering[(k - 1) + 1] /\ (k - 1) + 1 = k
        BY <2>1, <4>1
      <4> QED
        BY <2>3, <3>1, <4>1, <4>2
    <3> QED
      BY <3>2, <3>3
  <2> QED
    BY <1>3, <2>3, <2>4, <2>5, SeqEqual DEF a
<1>5. Holds(line', h \o <<x>>)
  BY <1>1, <1>2, HoldsAnswer DEF TypeOK
<1> HIDE DEF x, r
<1>6. h \o (<<x>> \o r) = (h \o <<x>>) \o r
  BY <1>2, <1>3, ConcatAssociative
<1>7. s = (h \o <<x>>) \o answering'
  BY <1>1, <1>2, <1>4, <1>6
<1> QED
  BY <1>5, <1>7 DEF Pending

\* An event is read.
LEMMA PendingEventRead ==
  ASSUME TypeOK, NEW s, Pending(s), line # << >>, Head(line).kind = "event",
         line' = Tail(line), answering' = answering
  PROVE  Pending(s)'
<1>1. PICK h : Holds(line, h) /\ s = h \o answering
  BY DEF Pending
<1>2. Holds(line', h)
  BY <1>1, EventRead DEF TypeOK
<1> QED
  BY <1>1, <1>2 DEF Pending

\* A part of an answer is read: it is the first of those on their way.
LEMMA PendingAnswerRead ==
  ASSUME TypeOK, NEW s, Pending(s), line # << >>, Head(line).kind # "event",
         line' = Tail(line), answering' = answering
  PROVE  s # << >> /\ s[1] = Head(line) /\ Pending(Tail(s))'
<1>1. PICK h : Holds(line, h) /\ s = h \o answering
  BY DEF Pending
<1>2. h # << >> /\ h[1] = Head(line) /\ Holds(line', Tail(h))
  BY <1>1, AnswerRead DEF TypeOK
<1>3. h \in Seq(LineType) /\ answering \in Seq(LineType)
  BY <1>1, HoldsSeq, AnswerSeq DEF TypeOK
<1> DEFINE r == Tail(h)
           a == answering
<1>4. /\ r \in Seq(LineType) /\ Len(r) = Len(h) - 1 /\ Len(h) \in Nat \ {0}
      /\ \A k \in 1..Len(r) : r[k] = h[k + 1]
  BY <1>2, <1>3, HeadTailProperties, LenProperties, EmptySeq
<1>5. /\ s \in Seq(LineType) /\ Len(s) = Len(h) + Len(a) /\ Len(a) \in Nat
      /\ \A k \in 1..(Len(h) + Len(a)) : s[k] = IF k <= Len(h) THEN h[k] ELSE a[k - Len(h)]
  BY <1>1, <1>3, ConcatProperties, LenProperties
<1> HIDE DEF r, a
<1>6. s # << >> /\ s[1] = h[1]
  <2>1. 1 \in 1..(Len(h) + Len(a)) /\ 1 <= Len(h) /\ Len(s) # 0
    BY <1>4, <1>5
  <2> QED
    BY <1>5, <2>1, NotEmpty
<1>7. /\ Tail(s) \in Seq(LineType) /\ Len(Tail(s)) = Len(s) - 1
      /\ \A k \in 1..Len(Tail(s)) : Tail(s)[k] = s[k + 1]
  BY <1>5, <1>6, HeadTailProperties
<1>8. /\ r \o a \in Seq(LineType) /\ Len(r \o a) = Len(r) + Len(a)
      /\ \A k \in 1..(Len(r) + Len(a)) : (r \o a)[k] = IF k <= Len(r) THEN r[k] ELSE a[k - Len(r)]
  BY <1>3, <1>4, ConcatProperties DEF a
<1>9. Tail(s) = r \o a
  <2> DEFINE u == Tail(s)
             v == r \o a
  <2>1. Len(u) = Len(v) /\ Len(u) = Len(r) + Len(a) /\ Len(r) \in Nat
    BY <1>4, <1>5, <1>7, <1>8
  <2>2. \A k \in 1..Len(u) : u[k] = v[k]
    <3> TAKE k \in 1..Len(u)
    <3>1. u[k] = s[k + 1] /\ k + 1 \in 1..(Len(h) + Len(a)) /\ k \in 1..(Len(r) + Len(a))
      BY <1>4, <1>5, <1>7, <2>1
    <3>2. CASE k <= Len(r)
      <4>1. k \in 1..Len(r) /\ k + 1 <= Len(h)
        BY <1>4, <3>1, <3>2
      <4> QED
        BY <1>4, <1>5, <1>8, <3>1, <3>2, <4>1
    <3>3. CASE ~(k <= Len(r))
      <4>1. ~(k + 1 <= Len(h)) /\ k + 1 - Len(h) = k - Len(r)
        BY <1>4, <3>1, <3>3
      <4> QED
        BY <1>5, <1>8, <3>1, <3>3, <4>1
    <3> QED
      BY <3>2, <3>3
  <2> HIDE DEF u, v
  <2>3. u \in Seq(LineType) /\ v \in Seq(LineType)
    BY <1>7, <1>8 DEF u, v
  <2> QED
    BY <2>1, <2>2, <2>3, SeqEqual DEF u, v
<1>10. Tail(s) = r \o answering'
  BY <1>9 DEF a
<1> QED
  BY <1>2, <1>6, <1>10 DEF Pending, r

-----------------------------------------------------------------------------
(* The phases of a call. *)

\* Where a call is while none failed.  s is the answers on their way.
Emptyable(c) == c \in Lists \cup EmptyOKs \/ c \notin InfoCommands \cup PduCommands
\* c may be answered with n lines before the "OK".
Allowed(c, n) ==
  /\ c \notin Lists => n <= 1
  /\ c \notin InfoCommands \cup PduCommands \cup Lists => n = 0
  /\ ~Emptyable(c) => n = 1

NoPdu       == entering = NotEntering
WantsPdu(c) == c \in PduCommands /\ entering = [cmd |-> c, garbled |-> FALSE]
Asked(f)    == f.infos = << >> /\ (f.prompted <=> f.cmd \notin PduCommands)
\* The responses of f are complete.
Done(f)     == f.prompted /\ f.infos = said /\ (f.infos = << >> => Emptyable(f.cmd))
\* s is the rest of the responses of f, and the "OK".
Answering(f, s) ==
  /\ f.prompted /\ Len(s) \in Nat \ {0} /\ s[Len(s)].kind = "OK"
  /\ \A j \in 1..(Len(s) - 1) : s[j].kind = "info" /\ s[j].of = f.cmd
  /\ Allowed(f.cmd, Len(said))
  /\ Len(said) = Len(f.infos) + Len(s) - 1
  /\ \A j \in 1..Len(f.infos) : said[j] = f.infos[j]
  /\ \A j \in 1..(Len(s) - 1) : said[Len(f.infos) + j] = s[j]
FinalCode(x) == x.kind \in {"OK", "ERROR"}

\* No acknowledgement is waited for: the TA has the command, refused it or
\* answered it; or it sent the prompt, or has the PDU.
Sent(f, s)     == NoPdu /\ todo = <<f.cmd>> /\ s = << >> /\ Asked(f)
Refused(f, s)  == /\ NoPdu /\ todo = << >> /\ Len(s) = 1 /\ s[1].kind = "ERROR"
                  /\ f.infos = << >> /\ (f.prompted \/ f.cmd \in PduCommands)
Answered(f, s) == NoPdu /\ todo = << >> /\ Answering(f, s)
Prompting(f, s) == WantsPdu(f.cmd) /\ f.infos = << >> /\ todo = << >>
                   /\ Len(s) = 1 /\ s[1].kind = "prompt" /\ ~f.prompted
HasPdu(f, s)   == WantsPdu(f.cmd) /\ f.infos = << >> /\ todo = <<Pdu>> /\ s = << >> /\ f.prompted
\* The "OK" of the call was taken for that of an acknowledgement, which is
\* still to come, came, or was taken for a response.
Swapped(f, s)  == sendAck /\ NoPdu /\ todo = <<Cnma>> /\ s = << >> /\ Done(f)
Owed(f, s)     == sendAck /\ NoPdu /\ todo = << >> /\ Len(s) = 1 /\ FinalCode(s[1]) /\ Done(f)
Exhausted(s)   == sendAck /\ NoPdu /\ todo = << >> /\ s = << >>
Alone(f, s) ==
  \/ Sent(f, s) \/ Refused(f, s) \/ Answered(f, s) \/ Prompting(f, s) \/ HasPdu(f, s)
  \/ Swapped(f, s) \/ Owed(f, s) \/ Exhausted(s)

\* f waits, and inside it an acknowledgement: the first line will fail it,
\* or is the "OK" of f, or its own.
Failing(s)      == Len(s) \in Nat \ {0} /\ s[1].kind # "OK"
PduFirst(f, s)  == WantsPdu(f.cmd) /\ todo = <<Pdu, Cnma>> /\ s = << >>
SentFirst(f, s) == NoPdu /\ todo = <<f.cmd, Cnma>> /\ s = << >> /\ Asked(f)
OKFirst(f, s)   == NoPdu /\ todo = <<Cnma>> /\ Len(s) = 1 /\ s[1].kind = "OK" /\ Done(f)
OKAndCode(f, s) == /\ NoPdu /\ todo = << >> /\ Len(s) = 2 /\ s[1].kind = "OK"
                   /\ FinalCode(s[2]) /\ Done(f)
OnlySent(s)     == NoPdu /\ todo = <<Cnma>> /\ s = << >>
OnlyOK(s)       == NoPdu /\ todo = << >> /\ Len(s) = 1 /\ s[1].kind = "OK"
Acknowledging(f, s) ==
  \/ Failing(s) \/ PduFirst(f, s) \/ SentFirst(f, s) \/ OKFirst(f, s) \/ OKAndCode(f, s)
  \/ OnlySent(s) \/ OnlyOK(s)

AtRest(s) ==
  /\ s = << >> /\ todo = << >> /\ NoPdu
  /\ result.how = "ok" => result.infos = said
Phase(s) ==
  /\ stack = << >> => AtRest(s)
  /\ Len(stack) = 1 => Alone(stack[1], s)
  /\ Len(stack) = 2 => Acknowledging(stack[1], s)
PhaseInv == ~broken => \E s : Pending(s) /\ Phase(s)

\* Sequences of one and two.
LEMMA Pairs ==
  ASSUME NEW c, NEW d
  PROVE  /\ Head(<<c>>) = c /\ Tail(<<c>>) = << >>
         /\ Head(<<c, d>>) = c /\ Tail(<<c, d>>) = <<d>>
         /\ Append(<< >>, c) = <<c>> /\ Append(<<c>>, d) = <<c, d>>
         /\ Len(<< >>) = 0 /\ Len(<<c>>) = 1 /\ Len(<<c, d>>) = 2
<1>1. Head(<<c>>) = c /\ Head(<<c, d>>) = c
  OBVIOUS
<1>2. Tail(<<c>>) = << >>
  OBVIOUS
<1>3. Tail(<<c, d>>) = <<d>>
  OBVIOUS
<1>4. Append(<< >>, c) = <<c>>
  OBVIOUS
<1>5. Append(<<c>>, d) = <<c, d>>
  <2> DEFINE S == {c, d}
             s == <<c>>
             p == <<c, d>>
  <2>1. s \in Seq(S) /\ Len(s) = 1 /\ s[1] = c /\ d \in S
    OBVIOUS
  <2>2. p \in Seq(S) /\ Len(p) = 2 /\ p[1] = c /\ p[2] = d
    BY SMTT(30)
  <2> HIDE DEF s, S, p
  <2>3. /\ Append(s, d) \in Seq(S) /\ Len(Append(s, d)) = Len(s) + 1
        /\ Append(s, d)[Len(s) + 1] = d /\ \A i \in 1..Len(s) : Append(s, d)[i] = s[i]
    <3>1. s \in Seq(S) /\ d \in S
      BY <2>1
    <3> QED
      BY <3>1, AppendProperties
  <2>4. Len(Append(s, d)) = 2 /\ Append(s, d)[2] = d /\ Append(s, d)[1] = c
    BY <2>1, <2>3
  <2>5. Append(s, d) = p
    <3>1. \A i \in 1..2 : Append(s, d)[i] = p[i]
      <4> TAKE i \in 1..2
      <4>1. i = 1 \/ i = 2
        OBVIOUS
      <4> QED
        BY <2>2, <2>4, <4>1
    <3> QED
      BY <2>2, <2>3, <2>4, <3>1, SeqEqual
  <2> QED
    BY <2>5 DEF s, p
<1>6. Len(<< >>) = 0 /\ Len(<<c>>) = 1 /\ Len(<<c, d>>) = 2
  OBVIOUS
<1> QED
  BY <1>1, <1>2, <1>3, <1>4, <1>5, <1>6

\* The rest of a sequence of one.
LEMMA OneItem ==
  ASSUME NEW S, NEW s \in Seq(S), Len(s) = 1
  PROVE  Tail(s) = << >> /\ s # << >>
<1>1. s # << >>
  <2>1. Len(s) # 0
    OBVIOUS
  <2> QED
    BY <2>1, NotEmpty, Zenon
<1>2. Tail(s) \in Seq(S) /\ Len(Tail(s)) = 0
  BY <1>1, HeadTailProperties
<1> QED
  BY <1>1, <1>2, EmptySeq

\* The rest of a sequence of two.
LEMMA TwoItems ==
  ASSUME NEW S, NEW s \in Seq(S), Len(s) = 2
  PROVE  Len(Tail(s)) = 1 /\ Tail(s)[1] = s[2] /\ s # << >>
<1>1. s # << >>
  <2>1. Len(s) # 0
    OBVIOUS
  <2> QED
    BY <2>1, NotEmpty, Zenon
<1>2. Len(Tail(s)) = 1 /\ \A i \in 1..Len(Tail(s)) : Tail(s)[i] = s[i + 1]
  BY <1>1, HeadTailProperties
<1> QED
  BY <1>1, <1>2

\* A length that is 1, or more than that.
LEMMA OneOrMore ==
  ASSUME NEW n \in Nat \ {0}
  PROVE  n = 1 \/ 1 \in 1..(n - 1)
  OBVIOUS

\* A length that is less by one.
LEMMA LessByOne ==
  ASSUME NEW n \in Int, NEW m, m = n - 1
  PROVE  m = 0 => n = 1
  OBVIOUS

\* A length of 0 or 1.
LEMMA AtMostOne ==
  ASSUME NEW n, n = 0 \/ n = 1
  PROVE  n <= 1
  OBVIOUS

\* What the TA may answer is what the program allows.
LEMMA AnswerableFacts ==
  ASSUME NEW c, NEW vs, Len(vs) \in Nat, Answerable(c, vs)
  PROVE  Allowed(c, Len(vs)) /\ (c = Cnma => Len(vs) = 0)
<1>1. vs = << >> => Len(vs) = 0
  OBVIOUS
<1>2. EmptyOKs \subseteq InfoCommands /\ Cnma \notin Lists \cup EmptyOKs \cup InfoCommands \cup PduCommands
  BY Assumptions
<1>3. /\ c \in EmptyOKs => Len(vs) <= 1
      /\ c \in (InfoCommands \ EmptyOKs) \cup PduCommands => Len(vs) = 1
      /\ c \notin Lists \cup InfoCommands \cup PduCommands => Len(vs) = 0
  BY <1>1 DEF Answerable
<1>4. c = Cnma => Len(vs) = 0
  BY <1>2, <1>3
<1>5. c \notin Lists => Len(vs) <= 1
  <2>1. c \in EmptyOKs => Len(vs) <= 1
    BY <1>3
  <2>2. c \in (InfoCommands \ EmptyOKs) \cup PduCommands => Len(vs) <= 1
    BY <1>3, AtMostOne, Zenon
  <2>3. c \notin Lists \cup InfoCommands \cup PduCommands => Len(vs) <= 1
    BY <1>3, AtMostOne, Zenon
  <2> QED
    BY <2>1, <2>2, <2>3
<1>6. c \notin InfoCommands \cup PduCommands \cup Lists => Len(vs) = 0
  BY <1>3
<1>7. ~Emptyable(c) => Len(vs) = 1
  BY <1>3 DEF Emptyable
<1> QED
  BY <1>4, <1>5, <1>6, <1>7 DEF Allowed

\* A reply ends with a final code, and its first line is that or a response.
LEMMA RepliesFacts ==
  ASSUME TypeOK, NEW c, NEW d, NEW t, Replies(c, d, t), answering = << >>, NEW s, Pending(s)
  PROVE  /\ Pending(s \o t)' /\ t \in Seq(LineType) /\ Len(t) \in Nat \ {0}
         /\ t[1].kind # "OK" \/ (Len(t) = 1 /\ Accepts(d, t))
         /\ Accepts(d, t) => Allowed(d, Len(t) - 1)
         /\ d = Cnma => Len(t) = 1 /\ FinalCode(t[1])
         /\ s = << >> => s \o t = t
<1>1. /\ t \in Seq(LineType) /\ \A j \in 1..Len(t) : t[j].kind # "event"
      /\ line' = line /\ answering' = t
      /\ Refuses(d, t) \/ (Accepts(d, t) /\ \E vs : Len(vs) = Len(t) - 1 /\ Answerable(d, vs))
  BY DEF Replies
<1>2. Pending(s \o t)'
  BY <1>1, PendingAnswer
<1>5. s = << >> => s \o t = t
  <2>1. << >> \o t = t
    BY <1>1, ConcatEmptySeq
  <2> QED
    BY <2>1
<1>3. CASE Refuses(d, t)
  <2>1. Len(t) = 1 /\ t[1].kind = "ERROR"
    BY <1>3 DEF Refuses
  <2>2. ~Accepts(d, t)
    BY <2>1 DEF Accepts
  <2> QED
    BY <1>1, <1>2, <1>5, <2>1, <2>2 DEF FinalCode
<1>4. CASE Accepts(d, t) /\ \E vs : Len(vs) = Len(t) - 1 /\ Answerable(d, vs)
  <2>1. /\ Len(t) \in Nat \ {0} /\ t[Len(t)].kind = "OK"
        /\ \A j \in 1..(Len(t) - 1) : t[j].kind = "info"
    BY <1>4 DEF Accepts
  <2>2. PICK vs : Len(vs) = Len(t) - 1 /\ Answerable(d, vs)
    BY <1>4
  <2>3. Len(vs) \in Nat
    BY <2>1, <2>2
  <2>4. Allowed(d, Len(vs)) /\ (d = Cnma => Len(vs) = 0)
    BY <2>2, <2>3, AnswerableFacts
  <2>5. Len(t) = 1 \/ 1 \in 1..(Len(t) - 1)
    <3>1. Len(t) \in Nat \ {0}
      BY <2>1
    <3> QED
      BY <3>1, OneOrMore, Zenon
  <2>6. t[1].kind # "OK" \/ Len(t) = 1
    BY <2>1, <2>5
  <2>7. d = Cnma => Len(t) = 1 /\ FinalCode(t[1])
    <3>1. d = Cnma => Len(t) = 1
      <4>1. Len(t) \in Int /\ Len(vs) = Len(t) - 1
        BY <2>1, <2>2
      <4> QED
        BY <2>4, <4>1, LessByOne, Zenon
    <3> QED
      BY <2>1, <3>1 DEF FinalCode
  <2> QED
    BY <1>1, <1>2, <1>4, <1>5, <2>1, <2>2, <2>4, <2>6, <2>7
<1> QED
  BY <1>1, <1>3, <1>4

\* The whole answer to a command that just was asked.
LEMMA AcceptsAnswers ==
  ASSUME NEW f, f.prompted, f.infos = << >>, NEW t \in Seq(LineType), Accepts(f.cmd, t),
         Allowed(f.cmd, Len(t) - 1), said' = Front(t)
  PROVE  Answering(f, t)'
<1>1. /\ Len(t) \in Nat \ {0} /\ t[Len(t)].kind = "OK"
      /\ \A j \in 1..(Len(t) - 1) : t[j].kind = "info" /\ t[j].of = f.cmd
  BY DEF Accepts
<1>2. /\ Len(said') = Len(t) - 1
      /\ \A k \in 1..(Len(t) - 1) : said'[k] = t[k]
  BY <1>1, FrontFacts
<1>3. Len(f.infos) = 0 /\ 1..0 = {}
  OBVIOUS
<1>4. Len(said') = Len(f.infos) + Len(t) - 1
  BY <1>1, <1>2, <1>3
<1>5. \A j \in 1..(Len(t) - 1) : said'[Len(f.infos) + j] = t[j]
  BY <1>2, <1>3
<1>6. \A j \in 1..Len(f.infos) : said'[j] = f.infos[j]
  BY <1>3
<1>7. Allowed(f.cmd, Len(said'))
  BY <1>2
<1> QED
  BY <1>1, <1>4, <1>5, <1>6, <1>7 DEF Answering

-----------------------------------------------------------------------------
(* The TA in the phases of a call. *)

\* The TA executes a command while it waits for no PDU.
LEMMA WithoutPdu ==
  ASSUME NEW c \in Commands, NoPdu, Execution(c)
  PROVE  \/ PromptsFor(c)
         \/ \E t : /\ Replies(c, c, t) /\ NoPdu' /\ (c \in PduCommands => Refuses(c, t))
                   /\ said' = IF c = Cnma THEN said ELSE Front(t)
<1>1. entering.cmd = Nothing /\ entering = NotEntering
  BY DEF NoPdu, NotEntering
<1>2. c # Pdu
  BY Assumptions DEF Commands
<1>3. ~Ignores(c) /\ ~Garbles(c)
  BY <1>1, <1>2 DEF Ignores, Garbles
<1>4. ASSUME NEW d, NEW t, Replies(c, d, t)
      PROVE  /\ Replies(c, c, t) /\ NoPdu' /\ (c \in PduCommands => Refuses(c, t))
             /\ said' = IF c = Cnma THEN said ELSE Front(t)
  <2>1. d = c /\ entering' = entering /\ (d \in PduCommands => Refuses(d, t))
    BY <1>1, <1>2, <1>4 DEF Replies
  <2>2. said' = IF d = Cnma THEN said ELSE Front(t)
    BY <1>4 DEF Replies
  <2> QED
    BY <1>1, <1>4, <2>1, <2>2 DEF NoPdu
<1> QED
  BY <1>3, <1>4 DEF Execution

\* The TA is sent the PDU it waits for.
LEMMA WithPdu ==
  ASSUME NEW d \in Command, WantsPdu(d), Execution(Pdu)
  PROVE  \E t : Replies(Pdu, d, t) /\ NoPdu' /\ said' = Front(t)
<1>1. entering.cmd = d /\ d # Nothing /\ d # Cnma
  BY Assumptions DEF WantsPdu
<1>2. ~Ignores(Pdu) /\ ~Garbles(Pdu) /\ ~PromptsFor(Pdu)
  BY <1>1 DEF Ignores, Garbles, PromptsFor
<1>3. ASSUME NEW e, NEW t, Replies(Pdu, e, t)
      PROVE  Replies(Pdu, d, t) /\ NoPdu' /\ said' = Front(t)
  <2>1. e = d /\ entering' = NotEntering
    BY <1>1, <1>3 DEF Replies
  <2>2. said' = IF e = Cnma THEN said ELSE Front(t)
    BY <1>3 DEF Replies
  <2> QED
    BY <1>1, <1>3, <2>1, <2>2 DEF NoPdu
<1> QED
  BY <1>2, <1>3 DEF Execution

\* The TA sends the prompt.
LEMMA PromptsForFacts ==
  ASSUME TypeOK, NEW c, PromptsFor(c), answering = << >>, Pending(<< >>)
  PROVE  /\ WantsPdu(c)' /\ said' = said
         /\ \E s : Pending(s)' /\ Len(s) = 1 /\ s[1].kind = "prompt"
<1> DEFINE x == Item("prompt", c, Nothing)
<1>1. /\ c \in PduCommands /\ line' = line \o <<x>> /\ said' = said
      /\ entering' = [cmd |-> c, garbled |-> FALSE]
  BY DEF PromptsFor
<1>2. x \in LineType /\ x.kind = "prompt"
  BY <1>1, Assumptions, ItemFacts DEF Commands
<1> HIDE DEF x
<1> DEFINE s == <<x>>
<1>3. s \in Seq(LineType) /\ Len(s) = 1 /\ s[1] = x
  BY <1>2
<1>4. line' = line \o s
  BY <1>1
<1> HIDE DEF s
<1>5. \A j \in 1..Len(s) : s[j].kind # "event"
  <2> TAKE j \in 1..Len(s)
  <2>1. j = 1
    BY <1>3
  <2> QED
    BY <1>2, <1>3, <2>1
<1>6. Pending(<< >> \o s)'
  <2>1. answering' = answering
    BY DEF PromptsFor
  <2> QED
    BY <1>3, <1>4, <1>5, <2>1, PendingMore
<1>7. << >> \o s = s
  BY <1>3, ConcatEmptySeq
<1>8. WantsPdu(c)'
  BY <1>1 DEF WantsPdu
<1> QED
  BY <1>1, <1>2, <1>3, <1>6, <1>7, <1>8

\* The TA executes what the call sent, the call alone.
LEMMA SentExecuted ==
  ASSUME TypeOK, NEW f, f.cmd \in Command, NEW s, Pending(s), Sent(f, s), NEW c,
         c = Head(todo), todo' = Tail(todo), Execution(c)
  PROVE  \E u : Pending(u)' /\ Alone(f, u)'
<1>1. NoPdu /\ todo = <<f.cmd>> /\ s = << >> /\ f.infos = << >>
  BY DEF Sent, Asked
<1>2. f.prompted <=> f.cmd \notin PduCommands
  BY DEF Sent, Asked
<1>3. c = f.cmd /\ todo' = << >>
  BY <1>1, Pairs
<1>4. c \in Commands /\ c # Cnma
  BY <1>3, Assumptions DEF Commands
<1>5. CASE PromptsFor(c)
  <2>1. Pending(<< >>)
    BY <1>1
  <2>2. WantsPdu(c)'
    BY <1>5, <2>1, PromptsForFacts DEF Execution
  <2>3. PICK u : Pending(u)' /\ Len(u) = 1 /\ u[1].kind = "prompt"
    BY <1>5, <2>1, PromptsForFacts, Zenon DEF Execution
  <2>4. ~f.prompted
    BY <1>2, <1>3, <1>5 DEF PromptsFor
  <2>5. Prompting(f, u)'
    BY <1>1, <1>3, <2>2, <2>3, <2>4 DEF Prompting
  <2> QED
    BY <2>3, <2>5, Zenon DEF Alone
<1>6. ASSUME NEW t, Replies(c, c, t), NoPdu', c \in PduCommands => Refuses(c, t),
             said' = IF c = Cnma THEN said ELSE Front(t)
      PROVE  \E u : Pending(u)' /\ Alone(f, u)'
  <2>1. /\ Pending(t)' /\ t \in Seq(LineType)
        /\ Accepts(c, t) => Allowed(c, Len(t) - 1)
    <3>1. /\ Pending(s \o t)' /\ t \in Seq(LineType)
          /\ Accepts(c, t) => Allowed(c, Len(t) - 1)
          /\ s = << >> => s \o t = t
      BY <1>6, RepliesFacts, Zenon DEF Execution
    <3> QED
      BY <1>1, <3>1
  <2>2. CASE Refuses(c, t)
    <3>1. Len(t) = 1 /\ t[1].kind = "ERROR"
      BY <2>2 DEF Refuses
    <3>2. Refused(f, t)'
      BY <1>1, <1>2, <1>3, <1>6, <3>1 DEF Refused
    <3> QED
      BY <2>1, <3>2, Zenon DEF Alone
  <2>3. CASE ~Refuses(c, t)
    <3>1. Accepts(c, t) /\ c \notin PduCommands
      BY <1>6, <2>3 DEF Replies
    <3>2. said' = Front(t) /\ f.prompted
      BY <1>2, <1>3, <1>4, <1>6, <3>1
    <3>3. Answering(f, t)'
      BY <1>1, <1>3, <2>1, <3>1, <3>2, AcceptsAnswers
    <3>4. Answered(f, t)'
      BY <1>3, <1>6, <3>3 DEF Answered
    <3> QED
      BY <2>1, <3>4, Zenon DEF Alone
  <2> QED
    BY <2>2, <2>3
<1> QED
  BY <1>1, <1>4, <1>5, <1>6, WithoutPdu

\* The TA gets the PDU it waits for.
LEMMA HasPduExecuted ==
  ASSUME TypeOK, NEW f, f.cmd \in Command, NEW s, Pending(s), HasPdu(f, s), NEW c,
         c = Head(todo), todo' = Tail(todo), Execution(c)
  PROVE  \E u : Pending(u)' /\ Alone(f, u)'
<1>1. WantsPdu(f.cmd) /\ f.infos = << >> /\ todo = <<Pdu>> /\ s = << >>
  BY DEF HasPdu
<1>2. f.prompted
  BY DEF HasPdu
<1>3. c = Pdu /\ todo' = << >>
  BY <1>1, Pairs
<1>4. PICK t : Replies(Pdu, f.cmd, t) /\ NoPdu' /\ said' = Front(t)
  BY <1>1, <1>3, WithPdu
<1>5. /\ Pending(t)' /\ t \in Seq(LineType)
      /\ Accepts(f.cmd, t) => Allowed(f.cmd, Len(t) - 1)
  <2>1. /\ Pending(s \o t)' /\ t \in Seq(LineType)
        /\ Accepts(f.cmd, t) => Allowed(f.cmd, Len(t) - 1)
        /\ s = << >> => s \o t = t
    BY <1>4, RepliesFacts, Zenon DEF Execution
  <2> QED
    BY <1>1, <2>1
<1>6. CASE Refuses(f.cmd, t)
  <2>1. Len(t) = 1 /\ t[1].kind = "ERROR"
    BY <1>6 DEF Refuses
  <2>2. Refused(f, t)'
    BY <1>1, <1>2, <1>3, <1>4, <2>1 DEF Refused
  <2> QED
    BY <1>5, <2>2, Zenon DEF Alone
<1>7. CASE ~Refuses(f.cmd, t)
  <2>1. Accepts(f.cmd, t)
    BY <1>4, <1>7 DEF Replies
  <2>2. Answering(f, t)'
    BY <1>1, <1>2, <1>4, <1>5, <2>1, AcceptsAnswers
  <2>3. Answered(f, t)'
    BY <1>3, <1>4, <2>2 DEF Answered
  <2> QED
    BY <1>5, <2>3, Zenon DEF Alone
<1> QED
  BY <1>6, <1>7

\* The TA executes an acknowledgement.
LEMMA CnmaExecuted ==
  ASSUME TypeOK, NEW s, Pending(s), NoPdu, Execution(Cnma)
  PROVE  \E t : /\ Pending(s \o t)' /\ t \in Seq(LineType) /\ Len(t) = 1 /\ FinalCode(t[1])
                /\ NoPdu' /\ said' = said /\ (s = << >> => s \o t = t)
<1>1. Cnma \in Commands /\ Cnma \notin PduCommands
  BY Assumptions DEF Commands
<1>2. ~PromptsFor(Cnma)
  BY <1>1 DEF PromptsFor
<1>3. PICK t : Replies(Cnma, Cnma, t) /\ NoPdu' /\ said' = said
  BY <1>1, <1>2, WithoutPdu
<1>4. /\ Pending(s \o t)' /\ t \in Seq(LineType) /\ Len(t) = 1 /\ FinalCode(t[1])
      /\ s = << >> => s \o t = t
  BY <1>3, RepliesFacts, Zenon DEF Execution
<1> QED
  BY <1>3, <1>4

\* The TA executes an acknowledgement whose "OK" nobody waits for any more.
LEMMA SwappedExecuted ==
  ASSUME TypeOK, NEW f, NEW s, Pending(s), Swapped(f, s), NEW c, sendAck' = sendAck,
         c = Head(todo), todo' = Tail(todo), Execution(c)
  PROVE  \E u : Pending(u)' /\ Alone(f, u)'
<1>1. sendAck /\ NoPdu /\ todo = <<Cnma>> /\ s = << >> /\ Done(f)
  BY DEF Swapped
<1>2. c = Cnma /\ todo' = << >>
  BY <1>1, Pairs
<1>3. PICK t : /\ Pending(s \o t)' /\ t \in Seq(LineType) /\ Len(t) = 1 /\ FinalCode(t[1])
               /\ NoPdu' /\ said' = said /\ (s = << >> => s \o t = t)
  BY <1>1, <1>2, CnmaExecuted
<1>4. Done(f)'
  BY <1>1, <1>3 DEF Done
<1>5. Owed(f, t)'
  BY <1>1, <1>2, <1>3, <1>4 DEF Owed
<1>6. Pending(t)'
  BY <1>1, <1>3
<1> QED
  BY <1>5, <1>6, Zenon DEF Alone

\* The TA executes a command while no acknowledgement is waited for.
LEMMA AloneExecuted ==
  ASSUME TypeOK, NEW f, f.cmd \in Command, NEW s, Pending(s), Alone(f, s), NEW c,
         ExecutedBy(c), Execution(c)
  PROVE  \E u : Pending(u)' /\ Alone(f, u)'
<1>1. todo # << >> /\ c = Head(todo) /\ todo' = Tail(todo) /\ sendAck' = sendAck
  BY DEF ExecutedBy
<1>2. Sent(f, s) \/ HasPdu(f, s) \/ Swapped(f, s)
  BY <1>1 DEF Alone, Refused, Answered, Prompting, Owed, Exhausted
<1> QED
  BY <1>1, <1>2, SentExecuted, HasPduExecuted, SwappedExecuted, Zenon

-----------------------------------------------------------------------------
(* The TA while an acknowledgement is waited for. *)

\* What fails the acknowledgement stays the first thing of the line.
LEMMA FailingExecuted ==
  ASSUME TypeOK, NEW s, Pending(s), Failing(s), NEW c, Execution(c)
  PROVE  \E u : Pending(u)' /\ Failing(u)
<1>1. s \in Seq(LineType) /\ Len(s) \in Nat \ {0} /\ s[1].kind # "OK" /\ answering = << >>
  BY PendingSeq DEF Failing, Execution
<1>2. \E t \in Seq(LineType) : Pending(s \o t)'
  <2>1. CASE Ignores(c) \/ Garbles(c)
    <3>1. line' = line /\ answering' = answering
      BY <2>1 DEF Ignores, Garbles
    <3>2. Pending(s)' /\ s \o << >> = s /\ << >> \in Seq(LineType)
      BY <1>1, <3>1, PendingKept, ConcatEmptySeq
    <3>3. Pending(s \o << >>)'
      BY <3>2
    <3> QED
      BY <3>2, <3>3
  <2>2. CASE PromptsFor(c)
    <3>1. line' = line \o <<Item("prompt", c, Nothing)>> /\ answering' = answering
      BY <2>2 DEF PromptsFor
    <3> DEFINE x == Item("prompt", c, Nothing)
               t == <<x>>
    <3>2. x \in LineType /\ x.kind = "prompt"
      BY <2>2, Assumptions, ItemFacts DEF PromptsFor, Commands
    <3> HIDE DEF x
    <3>3. t \in Seq(LineType) /\ \A j \in 1..Len(t) : t[j].kind # "event"
      BY <3>2
    <3>4. line' = line \o t
      BY <3>1 DEF x
    <3> HIDE DEF t
    <3> QED
      BY <1>1, <3>1, <3>3, <3>4, PendingMore
  <2>3. ASSUME NEW d, NEW t, Replies(c, d, t)
        PROVE  t \in Seq(LineType) /\ Pending(s \o t)'
    BY <1>1, <2>3, RepliesFacts, Zenon
  <2> QED
    BY <2>1, <2>2, <2>3 DEF Execution
<1>3. PICK t \in Seq(LineType) : Pending(s \o t)'
  BY <1>2
<1>4. /\ Len(s \o t) = Len(s) + Len(t) /\ Len(t) \in Nat
      /\ \A k \in 1..(Len(s) + Len(t)) : (s \o t)[k] = IF k <= Len(s) THEN s[k] ELSE t[k - Len(s)]
  BY <1>1, ConcatProperties, LenProperties
<1> DEFINE u == s \o t
<1> HIDE DEF u
<1>5. Len(u) \in Nat \ {0} /\ u[1] = s[1]
  BY <1>1, <1>4 DEF u
<1>6. Failing(u)
  BY <1>1, <1>5 DEF Failing
<1> QED
  BY <1>3, <1>6 DEF u

\* The TA gets the PDU and an acknowledgement is behind it.
LEMMA PduFirstExecuted ==
  ASSUME TypeOK, NEW f, f.cmd \in Command, NEW s, Pending(s), PduFirst(f, s), NEW c,
         c = Head(todo), Execution(c)
  PROVE  \E u : Pending(u)' /\ Failing(u)
<1>1. WantsPdu(f.cmd) /\ s = << >> /\ c = Pdu
  BY Pairs DEF PduFirst
<1>2. PICK t : Replies(Pdu, f.cmd, t)
  BY <1>1, WithPdu
<1>3. /\ Pending(t)' /\ Len(t) \in Nat \ {0}
      /\ t[1].kind # "OK" \/ (Len(t) = 1 /\ Accepts(f.cmd, t))
      /\ Accepts(f.cmd, t) => Allowed(f.cmd, Len(t) - 1)
  <2>1. /\ Pending(s \o t)' /\ Len(t) \in Nat \ {0}
        /\ t[1].kind # "OK" \/ (Len(t) = 1 /\ Accepts(f.cmd, t))
        /\ Accepts(f.cmd, t) => Allowed(f.cmd, Len(t) - 1)
        /\ s = << >> => s \o t = t
    BY <1>2, RepliesFacts, Zenon DEF Execution
  <2> QED
    BY <1>1, <2>1
<1>4. ~Emptyable(f.cmd)
  BY <1>1, Assumptions DEF Emptyable, WantsPdu
<1>5. ~(Len(t) = 1 /\ Allowed(f.cmd, Len(t) - 1))
  <2>1. SUFFICES ASSUME Len(t) = 1, Allowed(f.cmd, Len(t) - 1) PROVE FALSE
    OBVIOUS
  <2>2. Len(t) - 1 = 1
    BY <1>4, <2>1 DEF Allowed
  <2> QED
    BY <1>3, <2>1, <2>2
<1>6. t[1].kind # "OK"
  BY <1>3, <1>5
<1>7. Failing(t)
  BY <1>3, <1>6 DEF Failing
<1> QED
  BY <1>3, <1>7

\* The TA executes the command and an acknowledgement is behind it.
LEMMA SentFirstExecuted ==
  ASSUME TypeOK, NEW f, f.cmd \in Command, NEW s, Pending(s), SentFirst(f, s), NEW c,
         c = Head(todo), todo' = Tail(todo), Execution(c)
  PROVE  \E u : Pending(u)' /\ (Failing(u) \/ OKFirst(f, u)')
<1>1. NoPdu /\ todo = <<f.cmd, Cnma>> /\ s = << >> /\ f.infos = << >>
  BY DEF SentFirst, Asked
<1>2. f.prompted <=> f.cmd \notin PduCommands
  BY DEF SentFirst, Asked
<1>3. c = f.cmd /\ todo' = <<Cnma>>
  BY <1>1, Pairs
<1>4. c \in Commands /\ c # Cnma
  BY <1>3, Assumptions DEF Commands
<1>5. CASE PromptsFor(c)
  <2>1. Pending(<< >>)
    BY <1>1
  <2>2. PICK u : Pending(u)' /\ Len(u) = 1 /\ u[1].kind = "prompt"
    BY <1>5, <2>1, PromptsForFacts, Zenon DEF Execution
  <2>3. Failing(u)
    BY <2>2 DEF Failing
  <2> QED
    BY <2>2, <2>3
<1>6. ASSUME NEW t, Replies(c, c, t), NoPdu', c \in PduCommands => Refuses(c, t),
             said' = IF c = Cnma THEN said ELSE Front(t)
      PROVE  \E u : Pending(u)' /\ (Failing(u) \/ OKFirst(f, u)')
  <2>1. /\ Pending(t)' /\ t \in Seq(LineType) /\ Len(t) \in Nat \ {0}
        /\ t[1].kind # "OK" \/ (Len(t) = 1 /\ Accepts(c, t))
        /\ Accepts(c, t) => Allowed(c, Len(t) - 1)
    <3>1. /\ Pending(s \o t)' /\ t \in Seq(LineType) /\ Len(t) \in Nat \ {0}
          /\ t[1].kind # "OK" \/ (Len(t) = 1 /\ Accepts(c, t))
          /\ Accepts(c, t) => Allowed(c, Len(t) - 1)
          /\ s = << >> => s \o t = t
      BY <1>6, RepliesFacts, Zenon DEF Execution
    <3> QED
      BY <1>1, <3>1
  <2>2. CASE t[1].kind # "OK"
    <3>1. Failing(t)
      BY <2>1, <2>2 DEF Failing
    <3> QED
      BY <2>1, <3>1
  <2>3. CASE t[1].kind = "OK"
    <3>1. Len(t) = 1 /\ Accepts(c, t)
      BY <2>1, <2>3
    <3>2. c \notin PduCommands
      BY <1>6, <2>3 DEF Refuses
    <3>3. said' = << >>
      <4>1. said' = Front(t)
        BY <1>4, <1>6
      <4>2. Front(t) \in Seq(LineType) /\ Len(Front(t)) = 0
        BY <2>1, <3>1, FrontFacts
      <4> QED
        BY <4>1, <4>2, EmptySeq
    <3>4. Emptyable(c)
      BY <2>1, <3>1 DEF Allowed
    <3>5. f.prompted
      BY <1>2, <1>3, <3>2
    <3>6. Done(f)'
      BY <1>1, <1>3, <3>3, <3>4, <3>5 DEF Done
    <3>7. OKFirst(f, t)'
      BY <1>3, <1>6, <2>3, <3>1, <3>6 DEF OKFirst
    <3> QED
      BY <2>1, <3>7, Zenon
  <2> QED
    BY <2>2, <2>3
<1> QED
  BY <1>1, <1>4, <1>5, <1>6, WithoutPdu

\* The TA executes the acknowledgement after it answered the command.
LEMMA OKFirstExecuted ==
  ASSUME TypeOK, NEW f, NEW s, Pending(s), OKFirst(f, s), NEW c,
         c = Head(todo), todo' = Tail(todo), Execution(c)
  PROVE  \E u : Pending(u)' /\ OKAndCode(f, u)'
<1>1. NoPdu /\ todo = <<Cnma>> /\ Len(s) = 1 /\ s[1].kind = "OK" /\ Done(f)
  BY DEF OKFirst
<1>2. c = Cnma /\ todo' = << >>
  BY <1>1, Pairs
<1>3. PICK t : /\ Pending(s \o t)' /\ t \in Seq(LineType) /\ Len(t) = 1 /\ FinalCode(t[1])
               /\ NoPdu' /\ said' = said
  BY <1>1, <1>2, CnmaExecuted
<1>4. s \in Seq(LineType)
  BY PendingSeq
<1>5. /\ Len(s \o t) = 2 /\ (s \o t)[1] = s[1] /\ (s \o t)[2] = t[1]
  <2>1. /\ Len(s \o t) = Len(s) + Len(t)
        /\ \A k \in 1..(Len(s) + Len(t)) : (s \o t)[k] = IF k <= Len(s) THEN s[k] ELSE t[k - Len(s)]
    BY <1>3, <1>4, ConcatProperties
  <2>2. 1 \in 1..(Len(s) + Len(t)) /\ 2 \in 1..(Len(s) + Len(t)) /\ 2 - Len(s) = 1
    BY <1>1, <1>3
  <2>3. 1 <= Len(s) /\ ~(2 <= Len(s)) /\ Len(s) + Len(t) = 2
    BY <1>1, <1>3
  <2> QED
    BY <2>1, <2>2, <2>3
<1>6. Done(f)'
  BY <1>1, <1>3 DEF Done
<1> DEFINE u == s \o t
<1> HIDE DEF u
<1>7. Len(u) = 2 /\ u[1].kind = "OK" /\ FinalCode(u[2]) /\ Pending(u)'
  BY <1>1, <1>3, <1>5 DEF u
<1>8. OKAndCode(f, u)'
  BY <1>2, <1>3, <1>6, <1>7 DEF OKAndCode
<1> QED
  BY <1>7, <1>8, Zenon

\* The TA executes the acknowledgement, which is all it was sent.
LEMMA OnlySentExecuted ==
  ASSUME TypeOK, NEW s, Pending(s), OnlySent(s), NEW c,
         c = Head(todo), todo' = Tail(todo), Execution(c)
  PROVE  \E u : Pending(u)' /\ (Failing(u) \/ OnlyOK(u)')
<1>1. NoPdu /\ todo = <<Cnma>> /\ s = << >>
  BY DEF OnlySent
<1>2. c = Cnma /\ todo' = << >>
  BY <1>1, Pairs
<1>3. PICK t : /\ Pending(s \o t)' /\ Len(t) = 1 /\ FinalCode(t[1]) /\ NoPdu'
               /\ s \o t = t
  BY <1>1, <1>2, CnmaExecuted
<1>4. Pending(t)'
  BY <1>3
<1>5. CASE t[1].kind = "OK"
  <2>1. OnlyOK(t)'
    BY <1>2, <1>3, <1>5 DEF OnlyOK
  <2> QED
    BY <1>4, <2>1, Zenon
<1>6. CASE t[1].kind # "OK"
  <2>1. Failing(t)
    BY <1>3, <1>6 DEF Failing
  <2> QED
    BY <1>4, <2>1
<1> QED
  BY <1>5, <1>6

\* The TA executes a command while an acknowledgement is waited for.
LEMMA AcknowledgingExecuted ==
  ASSUME TypeOK, NEW f, f.cmd \in Command, NEW s, Pending(s), Acknowledging(f, s), NEW c,
         ExecutedBy(c), Execution(c)
  PROVE  \E u : Pending(u)' /\ Acknowledging(f, u)'
<1>1. todo # << >> /\ c = Head(todo) /\ todo' = Tail(todo)
  BY DEF ExecutedBy
<1>2. \/ Failing(s) \/ PduFirst(f, s) \/ SentFirst(f, s) \/ OKFirst(f, s) \/ OnlySent(s)
  BY <1>1 DEF Acknowledging, OKAndCode, OnlyOK
<1>3. \A u : Failing(u) => Acknowledging(f, u)'
  BY DEF Acknowledging, Failing
<1>4. \A u : OKFirst(f, u)' \/ OKAndCode(f, u)' \/ OnlyOK(u)' => Acknowledging(f, u)'
  BY Zenon DEF Acknowledging
<1>5. CASE Failing(s) \/ PduFirst(f, s)
  <2>1. \E u : Pending(u)' /\ Failing(u)
    BY <1>1, <1>5, FailingExecuted, PduFirstExecuted, Zenon
  <2> QED
    BY <1>3, <2>1, Zenon
<1>6. CASE SentFirst(f, s)
  <2>1. \E u : Pending(u)' /\ (Failing(u) \/ OKFirst(f, u)')
    BY <1>1, <1>6, SentFirstExecuted, Zenon
  <2> QED
    BY <1>3, <1>4, <2>1, Zenon
<1>7. CASE OKFirst(f, s)
  <2>1. \E u : Pending(u)' /\ OKAndCode(f, u)'
    BY <1>1, <1>7, OKFirstExecuted, Zenon
  <2> QED
    BY <1>4, <2>1, Zenon
<1>8. CASE OnlySent(s)
  <2>1. \E u : Pending(u)' /\ (Failing(u) \/ OnlyOK(u)')
    BY <1>1, <1>8, OnlySentExecuted, Zenon
  <2> QED
    BY <1>3, <1>4, <2>1, Zenon
<1> QED
  BY <1>2, <1>5, <1>6, <1>7, <1>8

\* Of the program's step the phase and whether a call failed.
PhaseAfter == \E s : Pending(s)' /\ Phase(s)'

\* A phase is one of the three.
LEMMA PhaseIntro ==
  ASSUME PhaseAfter
  PROVE  PhaseInv'
  BY DEF PhaseAfter, PhaseInv

\* The stack says which phase it is.
LEMMA DepthFacts ==
  ASSUME StackOK
  PROVE  /\ Len(stack) \in {0, 1, 2}
         /\ stack = << >> <=> Len(stack) = 0
         /\ Len(stack) > 0 => stack[1].cmd \in Command
<1>1. Len(<< >>) = 0
  OBVIOUS
<1>2. Len(stack) = 0 => stack = << >>
  BY DEF StackOK
<1> QED
  BY <1>1, <1>2 DEF StackOK

-----------------------------------------------------------------------------
(* The phases, step by step. *)

\* The first phase.
LEMMA InitPhase ==
  ASSUME Init
  PROVE  PhaseInv
<1>1. /\ line = << >> /\ answering = << >> /\ todo = << >> /\ entering = NotEntering
      /\ stack = << >> /\ result = NoResult
  BY DEF Init, AtInit
<1>2. result.how # "ok"
  BY <1>1 DEF NoResult
<1>3. AtRest(<< >>)
  BY <1>1, <1>2 DEF AtRest, NoPdu
<1>4. Len(stack) = 0
  BY <1>1
<1>5. Phase(<< >>)
  BY <1>3, <1>4 DEF Phase
<1>6. Pending(<< >>)
  BY <1>1, PendingEmpty
<1> QED
  BY <1>5, <1>6, Zenon DEF PhaseInv

\* A command is sent.
LEMMA CallPhase ==
  ASSUME Basics, ~broken, PhaseInv, NEW c \in Command, Call(c)
  PROVE  PhaseAfter
<1> DEFINE f == Frame(c, Nothing)
<1>1. /\ stack = << >> /\ stack' = <<f>> /\ todo' = Append(todo, c)
      /\ line' = line /\ answering' = answering /\ entering' = entering
  BY DEF Call, Chat
<1>2. PICK s : Pending(s) /\ Phase(s)
  BY DEF PhaseInv
<1>3. s = << >> /\ todo = << >> /\ NoPdu
  BY <1>1, <1>2 DEF Phase, AtRest
<1>4. f.cmd = c /\ f.infos = << >> /\ f.prompted = (c \notin PduCommands)
  BY FrameFacts DEF Commands
<1> HIDE DEF f
<1>5. Len(stack') = 1 /\ stack'[1] = f
  BY <1>1
<1>6. Asked(f)
  BY <1>4 DEF Asked
<1>7. todo' = <<f.cmd>>
  BY <1>1, <1>3, <1>4, Pairs
<1>8. NoPdu'
  BY <1>1, <1>3 DEF NoPdu
<1>9. Sent(f, s)'
  BY <1>3, <1>6, <1>7, <1>8 DEF Sent
<1>10. Alone(f, s)'
  BY <1>9, Zenon DEF Alone
<1>11. stack' # << >> /\ Len(stack') # 2
  BY <1>5, NotEmpty
<1>12. Phase(s)'
  BY <1>5, <1>10, <1>11 DEF Phase
<1>13. Pending(s)'
  BY <1>1, <1>2, PendingKept
<1> QED
  BY <1>12, <1>13, Zenon DEF PhaseAfter

\* A step that changes neither the answers nor the calls.
LEMMA SamePhase ==
  ASSUME NEW s, Phase(s), todo' = todo, entering' = entering, stack' = stack, result' = result,
         said' = said, sendAck' = sendAck
  PROVE  Phase(s)'
<1>1. NoPdu' <=> NoPdu
  BY DEF NoPdu
<1>2. \A c : WantsPdu(c)' <=> WantsPdu(c)
  BY DEF WantsPdu
<1>3. \A f : Done(f)' <=> Done(f)
  BY DEF Done
<1>4. \A f : Answering(f, s)' <=> Answering(f, s)
  BY DEF Answering
<1>5. AtRest(s)' <=> AtRest(s)
  BY <1>1 DEF AtRest
<1>6. \A f : Alone(f, s)' <=> Alone(f, s)
  BY <1>1, <1>2, <1>3, <1>4
     DEF Alone, Sent, Refused, Answered, Prompting, HasPdu, Swapped, Owed, Exhausted
<1>7. \A f : Acknowledging(f, s)' <=> Acknowledging(f, s)
  BY <1>1, <1>2, <1>3
     DEF Acknowledging, PduFirst, SentFirst, OKFirst, OKAndCode, OnlySent, OnlyOK
<1> QED
  BY <1>5, <1>6, <1>7 DEF Phase

\* An event in the line changes no phase.
LEMMA ReportsPhase ==
  ASSUME Basics, ~broken, PhaseInv, NEW e \in Event, Reports(e)
  PROVE  PhaseAfter
<1> DEFINE x == Item("event", e, Nothing)
<1>1. /\ x \in LineType /\ x.kind = "event" /\ line' = Append(line, x)
      /\ answering' = answering
      /\ todo' = todo /\ entering' = entering /\ stack' = stack /\ result' = result
      /\ said' = said /\ sendAck' = sendAck
  BY ReportsFacts
<1> HIDE DEF x
<1>2. PICK s : Pending(s) /\ Phase(s)
  BY DEF PhaseInv
<1>3. Pending(s)'
  BY <1>1, <1>2, PendingEvent DEF Basics
<1>4. Phase(s)'
  BY <1>1, <1>2, SamePhase
<1> QED
  BY <1>3, <1>4, Zenon DEF PhaseAfter

\* A step that changes none of this.
LEMMA UnchangedPhase ==
  ASSUME ~broken, PhaseInv, line' = line, answering' = answering, todo' = todo,
         entering' = entering, stack' = stack, result' = result, said' = said,
         sendAck' = sendAck
  PROVE  PhaseAfter
<1>1. PICK s : Pending(s) /\ Phase(s)
  BY DEF PhaseInv
<1>2. Phase(s)' /\ Pending(s)'
  BY <1>1, SamePhase, PendingKept
<1> QED
  BY <1>2, Zenon DEF PhaseAfter

\* The TA sends a line of the answer.
LEMMA TransmitsPhase ==
  ASSUME Basics, ~broken, PhaseInv, Transmits
  PROVE  PhaseAfter
<1>1. PICK s : Pending(s) /\ Phase(s)
  BY DEF PhaseInv
<1>2. Pending(s)'
  BY <1>1, PendingSent DEF Basics
<1>3. todo' = todo /\ entering' = entering /\ stack' = stack /\ result' = result
      /\ said' = said /\ sendAck' = sendAck
  BY TransmitsFacts DEF Basics
<1>4. Phase(s)'
  BY <1>1, <1>3, SamePhase
<1> QED
  BY <1>2, <1>4, Zenon DEF PhaseAfter

\* The TA executes a command, in any phase.
LEMMA ExecutesPhase ==
  ASSUME Basics, ~broken, PhaseInv, Executes
  PROVE  PhaseAfter
<1>1. TypeOK /\ StackOK
  BY DEF Basics
<1>2. PICK c \in Commands \cup {Pdu} : ExecutedBy(c) /\ Execution(c)
  BY <1>1, ExecutesFacts
<1>3. stack' = stack /\ todo # << >>
  BY <1>2 DEF ExecutedBy
<1>4. PICK s : Pending(s) /\ Phase(s)
  BY DEF PhaseInv
<1>5. stack # << >>
  BY <1>3, <1>4 DEF Phase, AtRest
<1>6. Len(stack) \in {1, 2} /\ stack[1].cmd \in Command
  BY <1>1, <1>5, DepthFacts
<1>7. CASE Len(stack) = 1
  <2>1. PICK f : f = stack[1]
    OBVIOUS
  <2>2. f.cmd \in Command /\ Alone(f, s) /\ f = stack'[1]
    BY <1>3, <1>4, <1>6, <1>7, <2>1 DEF Phase
  <2>3. PICK u : Pending(u)' /\ Alone(f, u)'
    BY <1>1, <1>2, <1>4, <2>2, AloneExecuted
  <2>4. Phase(u)'
    BY <1>3, <1>5, <1>7, <2>2, <2>3 DEF Phase
  <2> QED
    BY <2>3, <2>4, Zenon DEF PhaseAfter
<1>8. CASE Len(stack) = 2
  <2>1. PICK f : f = stack[1]
    OBVIOUS
  <2>2. f.cmd \in Command /\ Acknowledging(f, s) /\ f = stack'[1]
    BY <1>3, <1>4, <1>6, <1>8, <2>1 DEF Phase
  <2>3. PICK u : Pending(u)' /\ Acknowledging(f, u)'
    BY <1>1, <1>2, <1>4, <2>2, AcknowledgingExecuted
  <2>4. Phase(u)'
    BY <1>3, <1>5, <1>8, <2>2, <2>3 DEF Phase
  <2> QED
    BY <2>3, <2>4, Zenon DEF PhaseAfter
<1> QED
  BY <1>6, <1>7, <1>8

-----------------------------------------------------------------------------
(* Reading the answer. *)

\* A call has returned.
LEMMA AtRestIntro ==
  ASSUME stack' = << >>, todo' = << >>, NoPdu', result'.how = "ok" => result'.infos = said'
  PROVE  Phase(<< >>)'
<1>1. AtRest(<< >>)'
  BY DEF AtRest
<1>2. Len(stack') = 0
  OBVIOUS
<1> QED
  BY <1>1, <1>2 DEF Phase

\* A call waits.
LEMMA AloneIntro ==
  ASSUME NEW g, stack' = <<g>>, NEW u, Alone(g, u)'
  PROVE  Phase(u)'
<1>1. Len(stack') = 1 /\ stack'[1] = g
  OBVIOUS
<1>2. stack' # << >> /\ Len(stack') # 2
  BY <1>1, NotEmpty
<1> QED
  BY <1>1, <1>2 DEF Phase

\* A call and an acknowledgement inside it wait.
LEMMA AcknowledgingIntro ==
  ASSUME NEW g, Len(stack') = 2, stack'[1] = g, NEW u, Acknowledging(g, u)'
  PROVE  Phase(u)'
<1>1. stack' # << >> /\ Len(stack') # 1
  BY NotEmpty
<1> QED
  BY <1>1 DEF Phase

\* An exception, a result or a response, in a call alone.
LEMMA ThrowFacts ==
  ASSUME Len(stack) = 1, NEW how, Throw(how)
  PROVE  stack' = << >> /\ todo' = todo /\ result'.how = how
  BY DEF Throw

\* What a call returns.
LEMMA ReturnFacts ==
  ASSUME TypeOK, StackOK, Len(stack) = 1, NEW infos, Return(infos)
  PROVE  stack' = << >> /\ todo' = todo /\ result'.how = "ok" /\ result'.infos = infos
<1>1. stack # << >>
  BY NotEmpty, DepthFacts
<1>2. Front(stack) = << >>
  BY <1>1, StackFacts
<1>3. result' = [how |-> "ok", of |-> Top.cmd, infos |-> infos]
  BY DEF Return
<1> QED
  BY <1>2, <1>3 DEF Return

\* What a call keeps.
LEMMA KeepInfoFacts ==
  ASSUME TypeOK, StackOK, Len(stack) = 1, NEW x \in LineType, KeepInfo(x)
  PROVE  \E g : /\ stack' = <<g>> /\ g.cmd = stack[1].cmd /\ g.prompted
                /\ g.infos = Append(stack[1].infos, x)
                /\ todo' = todo /\ result' = result
<1> DEFINE g == [Top EXCEPT !.infos = Append(@, x), !.prompted = TRUE]
<1>1. stack # << >>
  BY NotEmpty, DepthFacts
<1>2. Top = stack[1] /\ Top \in FrameType /\ \A f \in FrameType : Append(Front(stack), f) = <<f>>
  BY <1>1, StackFacts
<1>3. Append(Top.infos, x) \in Seq(LineType)
  BY <1>2, AppendProperties DEF FrameType
<1>4. g \in FrameType /\ g.cmd = Top.cmd /\ g.prompted = TRUE /\ g.infos = Append(Top.infos, x)
  BY <1>2, <1>3 DEF FrameType
<1>5. stack' = Append(Front(stack), g) /\ todo' = todo /\ result' = result
  BY DEF KeepInfo, WaitsOn
<1> HIDE DEF g
<1> QED
  BY <1>2, <1>4, <1>5

\* How a call goes on: it does not fail, or it may because of an
\* acknowledgement.
Onward(u) == Phase(u)' /\ result'.how # "failed"
MayFail   == sendAck /\ result'.how = "failed"

\* The refusal of a command is read.
LEMMA RefusedRead ==
  ASSUME TypeOK, StackOK, Len(stack) = 1, NEW f, f = stack[1], f.prompted,
         NEW s \in Seq(LineType), Refused(f, s), ReadAnswer(s[1]), NoPdu'
  PROVE  Onward(Tail(s))
<1>1. /\ todo = << >> /\ Len(s) = 1 /\ s[1].kind = "ERROR" /\ f.infos = << >>
  BY DEF Refused
<1>2. Top = f
  <2>1. stack # << >>
    BY NotEmpty, DepthFacts
  <2> QED
    BY <2>1, StackFacts
<1>3. Throw("error")
  BY <1>1, <1>2 DEF ReadAnswer
<1>4. stack' = << >> /\ todo' = << >> /\ result'.how = "error"
  BY <1>1, <1>3, ThrowFacts
<1>5. Phase(<< >>)'
  BY <1>4, AtRestIntro
<1>6. Tail(s) = << >>
  BY <1>1, OneItem
<1> QED
  BY <1>4, <1>5, <1>6 DEF Onward

\* The "OK" that ends the answer is read.
LEMMA LastRead ==
  ASSUME TypeOK, StackOK, Len(stack) = 1, NEW f, f = stack[1], Done(f),
         NEW s \in Seq(LineType), todo = << >>, Len(s) = 1, s[1].kind = "OK", ReadAnswer(s[1]),
         NoPdu', said' = said
  PROVE  Onward(Tail(s))
<1>1. Top = f
  <2>1. stack # << >>
    BY NotEmpty, DepthFacts
  <2> QED
    BY <2>1, StackFacts
<1>2. f.infos = said /\ (f.infos = << >> => Emptyable(f.cmd))
  BY DEF Done
<1>3. Return(f.infos)
  BY <1>1, <1>2 DEF ReadAnswer, Emptyable
<1>4. stack' = << >> /\ todo' = << >> /\ result'.how = "ok" /\ result'.infos = f.infos
  BY <1>3, ReturnFacts
<1>5. Phase(<< >>)'
  BY <1>2, <1>4, AtRestIntro
<1>6. Tail(s) = << >>
  BY OneItem
<1> QED
  BY <1>4, <1>5, <1>6 DEF Onward

\* A length that is 1 or less.
LEMMA OneOnly ==
  ASSUME NEW n \in Nat \ {0}, n # 1, NEW a \in Nat, NEW b, b = a + n - 1, b <= 1
  PROVE  a = 0 /\ b # 0
  OBVIOUS

\* A response is taken for one.
LEMMA InfoTaken ==
  ASSUME NEW f \in FrameType, NEW s, Answering(f, s), Len(s) # 1, Top = f, ReadAnswer(s[1])
  PROVE  KeepInfo(s[1])
<1>1. /\ Len(s) \in Nat \ {0}
      /\ \A j \in 1..(Len(s) - 1) : s[j].kind = "info" /\ s[j].of = f.cmd
      /\ Allowed(f.cmd, Len(said))
      /\ Len(said) = Len(f.infos) + Len(s) - 1
  BY DEF Answering
<1>2. s[1].kind = "info" /\ s[1].of = f.cmd
  <2>1. 1 \in 1..(Len(s) - 1)
    BY <1>1, OneOrMore, Zenon
  <2> QED
    BY <1>1, <2>1
<1>3. f.cmd \notin Lists => f.infos = << >> /\ f.cmd \in InfoCommands \cup PduCommands
  <2>1. f.infos \in Seq(LineType) /\ Len(f.infos) \in Nat
    <3>1. f.infos \in Seq(LineType)
      BY DEF FrameType
    <3> QED
      BY <3>1, LenProperties
  <2> SUFFICES ASSUME f.cmd \notin Lists
               PROVE  f.infos = << >> /\ f.cmd \in InfoCommands \cup PduCommands
    OBVIOUS
  <2>2. Len(said) <= 1
    BY <1>1 DEF Allowed
  <2>3. f.cmd \notin InfoCommands \cup PduCommands => Len(said) = 0
    BY <1>1 DEF Allowed
  <2>4. Len(f.infos) = 0 /\ Len(said) # 0
    BY <1>1, <2>1, <2>2, OneOnly, Zenon
  <2> QED
    BY <2>1, <2>3, <2>4, EmptySeq
<1> QED
  BY <1>2, <1>3 DEF ReadAnswer

\* A response is kept, and the rest of the answer is to come.
LEMMA AnsweringOn ==
  ASSUME NEW f \in FrameType, NEW s \in Seq(LineType), Answering(f, s), Len(s) # 1,
         NEW g, g.cmd = f.cmd, g.prompted, g.infos = Append(f.infos, s[1]), said' = said
  PROVE  Answering(g, Tail(s))'
<1>1. /\ Len(s) \in Nat \ {0} /\ s[Len(s)].kind = "OK"
      /\ \A j \in 1..(Len(s) - 1) : s[j].kind = "info" /\ s[j].of = f.cmd
      /\ Allowed(f.cmd, Len(said))
      /\ Len(said) = Len(f.infos) + Len(s) - 1
      /\ \A j \in 1..Len(f.infos) : said[j] = f.infos[j]
      /\ \A j \in 1..(Len(s) - 1) : said[Len(f.infos) + j] = s[j]
  BY DEF Answering
<1>2. f.infos \in Seq(LineType)
  BY DEF FrameType
<1> DEFINE i == f.infos
           k == g.infos
           t == Tail(s)
<1>3. i \in Seq(LineType) /\ Len(i) \in Nat
  BY <1>2, LenProperties
<1>4. s # << >> /\ s[1] \in LineType
  <2>1. s # << >>
    BY <1>1, NotEmpty
  <2> QED
    BY <1>1, <2>1, ElementOfSeq
<1>5. /\ Len(t) = Len(s) - 1 /\ \A j \in 1..Len(t) : t[j] = s[j + 1]
  BY <1>4, HeadTailProperties
<1>6. /\ Len(k) = Len(i) + 1 /\ k[Len(i) + 1] = s[1] /\ \A j \in 1..Len(i) : k[j] = i[j]
  BY <1>3, <1>4, AppendProperties
<1> HIDE DEF i, k, t
<1>7. Len(t) \in Nat \ {0} /\ t[Len(t)] = s[Len(s)]
  <2>1. Len(t) \in Nat \ {0} /\ Len(t) + 1 = Len(s) /\ Len(t) \in 1..Len(t)
    BY <1>1, <1>5
  <2> QED
    BY <1>5, <2>1
<1>8. \A j \in 1..(Len(t) - 1) : j + 1 \in 1..(Len(s) - 1) /\ t[j] = s[j + 1]
  BY <1>1, <1>5
<1>9. \A j \in 1..(Len(t) - 1) : t[j].kind = "info" /\ t[j].of = g.cmd
  BY <1>1, <1>8
<1>10. Len(said) = Len(k) + Len(t) - 1
  BY <1>1, <1>3, <1>5, <1>6 DEF i
<1>11. \A j \in 1..Len(k) : said[j] = k[j]
  <2> TAKE j \in 1..Len(k)
  <2>1. CASE j \in 1..Len(i)
    BY <1>1, <1>6, <2>1 DEF i
  <2>2. CASE j = Len(i) + 1
    <3>1. 1 \in 1..(Len(s) - 1)
      BY <1>1, OneOrMore, Zenon
    <3>2. said[Len(i) + 1] = s[1]
      BY <1>1, <3>1 DEF i
    <3> QED
      BY <1>6, <2>2, <3>2
  <2> QED
    BY <1>3, <1>6, <2>1, <2>2
<1>12. \A j \in 1..(Len(t) - 1) : said[Len(k) + j] = t[j]
  <2> TAKE j \in 1..(Len(t) - 1)
  <2>1. said[Len(i) + (j + 1)] = s[j + 1]
    BY <1>1, <1>8 DEF i
  <2>2. Len(k) + j = Len(i) + (j + 1)
    BY <1>3, <1>6, <1>7
  <2> QED
    BY <1>8, <2>1, <2>2
<1>13. Allowed(g.cmd, Len(said))
  BY <1>1
<1>14. t[Len(t)].kind = "OK"
  BY <1>1, <1>7
<1>15. Answering(g, t)
  BY <1>7, <1>9, <1>10, <1>11, <1>12, <1>13, <1>14 DEF Answering, k
<1> QED
  BY <1>15 DEF Answering, t

\* The first "OK" ends the answer.
LEMMA AnsweringDone ==
  ASSUME NEW f \in FrameType, NEW s, Answering(f, s), Len(s) = 1, said \in Seq(LineType)
  PROVE  Done(f) /\ s[1].kind = "OK"
<1>1. /\ f.prompted /\ s[1].kind = "OK"
      /\ Allowed(f.cmd, Len(said))
      /\ Len(said) = Len(f.infos) + Len(s) - 1
      /\ \A j \in 1..Len(f.infos) : said[j] = f.infos[j]
  BY DEF Answering
<1>2. f.infos \in Seq(LineType)
  BY DEF FrameType
<1>3. Len(said) = Len(f.infos)
  <2>1. Len(f.infos) \in Nat
    BY <1>2, LenProperties
  <2> QED
    BY <1>1, <2>1
<1>4. f.infos = said
  BY <1>1, <1>2, <1>3, SeqEqual
<1>5. f.infos = << >> => Emptyable(f.cmd)
  <2>1. f.infos = << >> => Len(said) = 0
    BY <1>3
  <2> QED
    BY <1>1, <2>1 DEF Allowed
<1> QED
  BY <1>1, <1>4, <1>5 DEF Done

\* A line of the answer is read.
LEMMA AnsweredRead ==
  ASSUME TypeOK, StackOK, Len(stack) = 1, NEW f, f = stack[1], result.how # "failed",
         NEW s \in Seq(LineType), Answered(f, s), ReadAnswer(s[1]), NoPdu', said' = said
  PROVE  Onward(Tail(s))
<1>1. todo = << >> /\ Answering(f, s)
  BY DEF Answered
<1>2. Top = f /\ f \in FrameType
  <2>1. stack # << >>
    BY NotEmpty, DepthFacts
  <2> QED
    BY <2>1, StackFacts
<1>3. CASE Len(s) = 1
  <2>1. Done(f) /\ s[1].kind = "OK"
    BY <1>1, <1>2, <1>3, AnsweringDone DEF TypeOK
  <2> QED
    BY <1>1, <1>3, <2>1, LastRead
<1>4. CASE Len(s) # 1
  <2>1. KeepInfo(s[1])
    BY <1>1, <1>2, <1>4, InfoTaken
  <2>2. s[1] \in LineType
    <3>1. Len(s) \in Nat \ {0}
      BY <1>1 DEF Answering
    <3>2. 1 \in 1..Len(s)
      BY <3>1
    <3> QED
      BY <3>2, ElementOfSeq
  <2>3. PICK g : /\ stack' = <<g>> /\ g.cmd = stack[1].cmd /\ g.prompted
                 /\ g.infos = Append(stack[1].infos, s[1])
                 /\ todo' = todo /\ result' = result
    BY <2>1, <2>2, KeepInfoFacts
  <2>4. Answering(g, Tail(s))'
    BY <1>1, <1>2, <1>4, <2>3, AnsweringOn
  <2>5. Answered(g, Tail(s))'
    BY <1>1, <2>3, <2>4 DEF Answered
  <2>6. Alone(g, Tail(s))'
    BY <2>5, Zenon DEF Alone
  <2>7. Phase(Tail(s))'
    BY <2>3, <2>6, AloneIntro
  <2> QED
    BY <2>3, <2>7 DEF Onward
<1> QED
  BY <1>3, <1>4

\* The "OK" of the call was taken for the acknowledgement's: now that, or
\* its error, is taken for the call's.
LEMMA OwedRead ==
  ASSUME TypeOK, StackOK, Len(stack) = 1, NEW f, f = stack[1], result.how # "failed",
         NEW s \in Seq(LineType), Owed(f, s), ReadAnswer(s[1]), NoPdu', said' = said,
         sendAck' = sendAck
  PROVE  Onward(Tail(s)) \/ MayFail
<1>1. sendAck /\ todo = << >> /\ Len(s) = 1 /\ FinalCode(s[1]) /\ Done(f)
  BY DEF Owed
<1>2. Top = f
  <2>1. stack # << >>
    BY NotEmpty, DepthFacts
  <2> QED
    BY <2>1, StackFacts
<1>3. CASE s[1].kind = "OK"
  BY <1>1, <1>3, LastRead
<1>4. CASE s[1].kind = "ERROR"
  <2>1. \/ f.infos = << >> /\ Throw("error")
        \/ KeepInfo(s[1])
        \/ Throw("failed")
    BY <1>2, <1>4 DEF ReadAnswer
  <2>2. Tail(s) = << >> /\ s[1] \in LineType
    <3>1. 1 \in 1..Len(s)
      BY <1>1
    <3> QED
      BY <1>1, <3>1, OneItem, ElementOfSeq
  <2>3. CASE Throw("error")
    <3>1. stack' = << >> /\ todo' = << >> /\ result'.how = "error"
      BY <1>1, <2>3, ThrowFacts
    <3>2. Phase(<< >>)'
      BY <3>1, AtRestIntro
    <3> QED
      BY <2>2, <3>1, <3>2 DEF Onward
  <2>4. CASE Throw("failed")
    BY <1>1, <2>4, ThrowFacts DEF MayFail
  <2>5. CASE KeepInfo(s[1])
    <3>1. PICK g : /\ stack' = <<g>> /\ todo' = todo /\ result' = result
      BY <2>2, <2>5, KeepInfoFacts
    <3>2. Exhausted(Tail(s))'
      BY <1>1, <2>2, <3>1 DEF Exhausted
    <3>3. Alone(g, Tail(s))'
      BY <3>2, Zenon DEF Alone
    <3>4. Phase(Tail(s))'
      BY <3>1, <3>3, AloneIntro
    <3> QED
      BY <3>1, <3>4 DEF Onward
  <2> QED
    BY <2>1, <2>3, <2>4, <2>5
<1> QED
  BY <1>1, <1>3, <1>4 DEF FinalCode

-----------------------------------------------------------------------------
(* The handshake of sendPdu. *)

\* In the handshake.
LEMMA WaitsOnFacts ==
  ASSUME TypeOK, StackOK, Len(stack) = 1, NEW g \in FrameType, WaitsOn(g)
  PROVE  stack' = <<g>> /\ result' = result
<1>1. stack # << >>
  BY NotEmpty, DepthFacts
<1>2. Append(Front(stack), g) = <<g>>
  BY <1>1, StackFacts
<1> QED
  BY <1>2 DEF WaitsOn

\* In the handshake the TA refused the command: it is sent again, or the call ends.
LEMMA RefusedAgain ==
  ASSUME TypeOK, StackOK, Len(stack) = 1, NEW f, f = stack[1], result.how # "failed", ~f.prompted,
         NEW s \in Seq(LineType), Refused(f, s), Handshake(s[1]), NoPdu'
  PROVE  Onward(Tail(s))
<1>1. /\ todo = << >> /\ Len(s) = 1 /\ s[1].kind = "ERROR" /\ f.infos = << >>
      /\ f.cmd \in PduCommands
  BY DEF Refused
<1>2. Top = f /\ f \in FrameType
  <2>1. stack # << >>
    BY NotEmpty, DepthFacts
  <2> QED
    BY <2>1, StackFacts
<1>3. s[1] \in LineType /\ s[1] # Nothing
  <2>1. 1 \in 1..Len(s)
    BY <1>1
  <2>2. s[1] \in LineType
    BY <2>1, ElementOfSeq
  <2> QED
    BY <2>2, Assumptions
<1>4. Tail(s) = << >>
  BY <1>1, OneItem
<1> DEFINE g == [f EXCEPT !.tries = @ - 1, !.seen = s[1]]
<1>5. Retry(s[1])
  BY <1>1 DEF Handshake
<1>6. \/ WaitsOn(g) /\ todo' = Append(todo, f.cmd)
      \/ ReadAnswer(s[1])
  BY <1>2, <1>3, <1>5 DEF Retry
<1>7. CASE ReadAnswer(s[1])
  <2>1. Throw("error")
    BY <1>1, <1>2, <1>7 DEF ReadAnswer
  <2>2. stack' = << >> /\ todo' = << >> /\ result'.how = "error"
    BY <1>1, <2>1, ThrowFacts
  <2>3. Phase(<< >>)'
    BY <2>2, AtRestIntro
  <2> QED
    BY <1>4, <2>2, <2>3 DEF Onward
<1>8. CASE WaitsOn(g) /\ todo' = Append(todo, f.cmd)
  <2>1. f.tries \in Int
    BY <1>2 DEF FrameType
  <2>2. g \in FrameType /\ g.cmd = f.cmd /\ g.infos = f.infos /\ g.prompted = f.prompted
    <3>1. f.tries - 1 \in Int
      BY <2>1
    <3> DEFINE n == f.tries - 1
               y == s[1]
    <3>2. y \in LineType
      BY <1>3
    <3> HIDE DEF n, y
    <3> QED
      BY <1>2, <3>1, <3>2 DEF FrameType, n, y
  <2> HIDE DEF g
  <2>3. stack' = <<g>> /\ result' = result
    BY <1>8, <2>2, WaitsOnFacts
  <2>4. todo' = <<g.cmd>>
    BY <1>1, <1>8, <2>2, Pairs
  <2>5. Asked(g)
    BY <1>1, <2>2 DEF Asked
  <2>6. Sent(g, << >>)'
    BY <2>4, <2>5 DEF Sent
  <2>7. Alone(g, << >>)'
    BY <2>6, Zenon DEF Alone
  <2>8. Phase(<< >>)'
    BY <2>3, <2>7, AloneIntro
  <2> QED
    BY <1>4, <2>3, <2>8 DEF Onward
<1> QED
  BY <1>6, <1>7, <1>8

\* The prompt is read and the PDU is sent.
LEMMA PromptRead ==
  ASSUME TypeOK, StackOK, Len(stack) = 1, NEW f, f = stack[1], result.how # "failed",
         NEW s \in Seq(LineType), Prompting(f, s), Handshake(s[1]), entering' = entering
  PROVE  Onward(Tail(s))
<1>1. /\ WantsPdu(f.cmd) /\ todo = << >> /\ Len(s) = 1 /\ s[1].kind = "prompt" /\ f.infos = << >>
  BY DEF Prompting
<1>2. Top = f /\ f \in FrameType
  <2>1. stack # << >>
    BY NotEmpty, DepthFacts
  <2> QED
    BY <2>1, StackFacts
<1>3. Tail(s) = << >>
  BY <1>1, OneItem
<1> DEFINE g == [f EXCEPT !.prompted = TRUE]
<1>4. WaitsOn(g) /\ todo' = Append(todo, Pdu)
  BY <1>1, <1>2 DEF Handshake
<1>5. g \in FrameType /\ g.cmd = f.cmd /\ g.infos = f.infos /\ g.prompted = TRUE
  BY <1>2 DEF FrameType
<1> HIDE DEF g
<1>6. stack' = <<g>> /\ result' = result
  BY <1>4, <1>5, WaitsOnFacts
<1>7. todo' = <<Pdu>>
  BY <1>1, <1>4, Pairs
<1>8. WantsPdu(g.cmd)'
  BY <1>1, <1>5 DEF WantsPdu
<1>9. HasPdu(g, << >>)'
  BY <1>1, <1>5, <1>7, <1>8 DEF HasPdu
<1>10. Alone(g, << >>)'
  BY <1>9, Zenon DEF Alone
<1>11. Phase(<< >>)'
  BY <1>6, <1>10, AloneIntro
<1> QED
  BY <1>3, <1>6, <1>11 DEF Onward

\* What a call alone reads.
LEMMA AloneRead ==
  ASSUME TypeOK, StackOK, Len(stack) = 1, NEW f, f = stack[1], result.how # "failed",
         NEW s \in Seq(LineType), s # << >>, Alone(f, s),
         IF Top.prompted THEN ReadAnswer(s[1]) ELSE Handshake(s[1]),
         entering' = entering, said' = said, sendAck' = sendAck
  PROVE  Onward(Tail(s)) \/ MayFail
<1>1. Top = f
  <2>1. stack # << >>
    BY NotEmpty, DepthFacts
  <2> QED
    BY <2>1, StackFacts
<1>2. Refused(f, s) \/ Answered(f, s) \/ Prompting(f, s) \/ Owed(f, s)
  BY DEF Alone, Sent, HasPdu, Swapped, Exhausted
<1>3. Prompting(f, s) \/ NoPdu'
  BY <1>2 DEF Refused, Answered, Owed, NoPdu
<1>4. CASE Refused(f, s) /\ f.prompted
  BY <1>1, <1>3, <1>4, RefusedRead DEF Prompting, Refused
<1>5. CASE Refused(f, s) /\ ~f.prompted
  BY <1>1, <1>3, <1>5, RefusedAgain DEF Prompting, Refused
<1>6. CASE Answered(f, s)
  <2>1. NoPdu' /\ f.prompted
    BY <1>6 DEF Answered, NoPdu, Answering
  <2> QED
    BY <1>1, <1>6, <2>1, AnsweredRead
<1>7. CASE Prompting(f, s)
  <2>1. ~f.prompted
    BY <1>7 DEF Prompting
  <2> QED
    BY <1>1, <1>7, <2>1, PromptRead
<1>8. CASE Owed(f, s)
  <2>1. NoPdu' /\ f.prompted
    BY <1>8 DEF Owed, NoPdu, Done
  <2> QED
    BY <1>1, <1>8, <2>1, OwedRead
<1> QED
  BY <1>2, <1>4, <1>5, <1>6, <1>7, <1>8

\* What an acknowledgement reads.
LEMMA AcknowledgingRead ==
  ASSUME TypeOK, StackOK, Len(stack) = 2, NEW f, f = stack[1], result.how # "failed",
         NEW s \in Seq(LineType), s # << >>, Acknowledging(f, s),
         IF Top.prompted THEN ReadAnswer(s[1]) ELSE Handshake(s[1]),
         entering' = entering, said' = said, sendAck' = sendAck
  PROVE  Onward(Tail(s)) \/ MayFail
<1>1. Top = stack[2] /\ Front(stack) = <<f>>
  <2>1. stack # << >>
    BY NotEmpty, DepthFacts
  <2> QED
    BY <2>1, StackFacts
<1>2. Top.prompted /\ Top.cmd = Cnma /\ Top.infos = << >> /\ sendAck
  BY <1>1 DEF StackOK
<1>3. Cnma \notin Lists \cup EmptyOKs \cup InfoCommands \cup PduCommands
  BY Assumptions
<1>4. ReadAnswer(s[1])
  BY <1>2
<1>5. \/ \E how : Throw(how)
      \/ s[1].kind = "OK" /\ Return(<< >>)
  BY <1>2, <1>3, <1>4 DEF ReadAnswer
<1>6. CASE \E how : Throw(how)
  <2>1. PICK how : Throw(how)
    BY <1>6
  <2>2. result'.how = "failed"
    BY <2>1 DEF Throw
  <2> QED
    BY <1>2, <2>2 DEF MayFail
<1>7. CASE s[1].kind = "OK" /\ Return(<< >>)
  <2>1. stack' = <<f>> /\ todo' = todo /\ result' = result
    BY <1>1, <1>7 DEF Return
  <2>2. OKFirst(f, s) \/ OKAndCode(f, s) \/ OnlyOK(s)
    BY <1>7 DEF Acknowledging, Failing, PduFirst, SentFirst, OnlySent
  <2>3. Alone(f, Tail(s))'
    <3>1. CASE OKFirst(f, s)
      <4>1. Tail(s) = << >>
        BY <3>1, OneItem DEF OKFirst
      <4>2. Swapped(f, Tail(s))'
        BY <1>2, <2>1, <3>1, <4>1 DEF OKFirst, Swapped, NoPdu, Done
      <4> QED
        BY <4>2, Zenon DEF Alone
    <3>2. CASE OKAndCode(f, s)
      <4>1. Len(Tail(s)) = 1 /\ Tail(s)[1] = s[2]
        BY <3>2, TwoItems DEF OKAndCode
      <4>2. Owed(f, Tail(s))'
        BY <1>2, <2>1, <3>2, <4>1 DEF OKAndCode, Owed, NoPdu, Done
      <4> QED
        BY <4>2, Zenon DEF Alone
    <3>3. CASE OnlyOK(s)
      <4>1. Tail(s) = << >>
        BY <3>3, OneItem DEF OnlyOK
      <4>2. Exhausted(Tail(s))'
        BY <1>2, <2>1, <3>3, <4>1 DEF OnlyOK, Exhausted, NoPdu
      <4> QED
        BY <4>2, Zenon DEF Alone
    <3> QED
      BY <2>2, <3>1, <3>2, <3>3
  <2>4. Phase(Tail(s))'
    BY <2>1, <2>3, AloneIntro
  <2> QED
    BY <2>1, <2>4 DEF Onward
<1> QED
  BY <1>5, <1>6, <1>7

\* A message has to be acknowledged while a call waits.
LEMMA MessagePushed ==
  ASSUME NEW f \in FrameType, NEW s, Alone(f, s), todo \in Seq(Commands \cup {Pdu}),
         \A i \in 1..Len(todo) : todo[i] # Cnma, todo' = Append(todo, Cnma),
         entering' = entering, said' = said, said \in Seq(LineType)
  PROVE  Acknowledging(f, s)'
<1>1. todo = << >> => todo' = <<Cnma>>
  BY Pairs
<1>2. \A c : todo = <<c>> => todo' = <<c, Cnma>>
  BY Pairs
<1>3. NoPdu' <=> NoPdu
  BY DEF NoPdu
<1>4. \A c : WantsPdu(c)' <=> WantsPdu(c)
  BY DEF WantsPdu
<1>5. Done(f)' <=> Done(f)
  BY DEF Done
<1>6. CASE Sent(f, s)
  <2>1. SentFirst(f, s)'
    BY <1>2, <1>3, <1>6 DEF Sent, SentFirst
  <2> QED
    BY <2>1, Zenon DEF Acknowledging
<1>7. ASSUME Len(s) \in Nat \ {0}, s[1].kind # "OK" PROVE Acknowledging(f, s)'
  BY <1>7 DEF Failing, Acknowledging
<1>8. CASE Refused(f, s) \/ Prompting(f, s)
  BY <1>7, <1>8 DEF Refused, Prompting
<1>9. CASE Answered(f, s)
  <2>1. NoPdu /\ todo = << >> /\ Answering(f, s)
    BY <1>9 DEF Answered
  <2>2. Len(s) \in Nat \ {0}
    BY <2>1 DEF Answering
  <2>3. CASE Len(s) = 1
    <3>1. Done(f) /\ s[1].kind = "OK"
      BY <2>1, <2>3, AnsweringDone
    <3>2. OKFirst(f, s)'
      BY <1>1, <1>3, <1>5, <2>1, <2>3, <3>1 DEF OKFirst
    <3> QED
      BY <3>2, Zenon DEF Acknowledging
  <2>4. CASE Len(s) # 1
    <3>1. 1 \in 1..(Len(s) - 1)
      BY <2>2, <2>4, OneOrMore, Zenon
    <3>2. s[1].kind = "info"
      BY <2>1, <3>1 DEF Answering
    <3> QED
      BY <1>7, <2>2, <3>2
  <2> QED
    BY <2>3, <2>4
<1>10. CASE HasPdu(f, s)
  <2>1. PduFirst(f, s)'
    BY <1>2, <1>4, <1>10 DEF HasPdu, PduFirst
  <2> QED
    BY <2>1, Zenon DEF Acknowledging
<1>11. CASE Swapped(f, s)
  <2>1. todo = <<Cnma>>
    BY <1>11 DEF Swapped
  <2>2. 1 \in 1..Len(todo) /\ todo[1] = Cnma
    BY <2>1
  <2> QED
    BY <2>2
<1>12. CASE Owed(f, s)
  <2>1. /\ NoPdu /\ todo = << >> /\ Len(s) = 1 /\ FinalCode(s[1]) /\ Done(f)
    BY <1>12 DEF Owed
  <2>2. CASE s[1].kind = "OK"
    <3>1. OKFirst(f, s)'
      BY <1>1, <1>3, <1>5, <2>1, <2>2 DEF OKFirst
    <3> QED
      BY <3>1, Zenon DEF Acknowledging
  <2> QED
    BY <1>7, <2>1, <2>2
<1>13. CASE Exhausted(s)
  <2>1. OnlySent(s)'
    BY <1>1, <1>3, <1>13 DEF Exhausted, OnlySent
  <2> QED
    BY <2>1, Zenon DEF Acknowledging
<1> QED
  BY <1>6, <1>8, <1>9, <1>10, <1>11, <1>12, <1>13 DEF Alone

-----------------------------------------------------------------------------
(* The answers. *)

\* The program reads a line while no call failed.
LEMMA ReadPhase ==
  ASSUME Basics, ~broken, PhaseInv, result.how # "failed", Read
  PROVE  (PhaseAfter /\ result'.how # "failed") \/ MayFail
<1>1. TypeOK /\ StackOK /\ OneUnacknowledged
  BY DEF Basics
<1>2. GetLine /\ said' = said
  BY DEF Read
<1>3. /\ stack # << >> /\ line # << >> /\ line' = Tail(line) /\ Head(line) \in LineType
      /\ answering' = answering /\ entering' = entering /\ sendAck' = sendAck
  BY <1>1, <1>2, GetLineFacts DEF Same
<1>4. \/ HandsOver \/ Pushes
      \/ Head(line).kind # "event" /\ (IF Top.prompted THEN ReadAnswer(Head(line)) ELSE Handshake(Head(line)))
  <2>1. HandsOver \/ Pushes \/ Head(line).kind # "event"
    BY <1>1, <1>2, GetLineFacts
  <2>2. Head(line).kind # "event" => IF Top.prompted THEN ReadAnswer(Head(line)) ELSE Handshake(Head(line))
    BY <1>2 DEF GetLine
  <2> QED
    BY <2>1, <2>2
<1>5. PICK s : Pending(s) /\ Phase(s)
  BY DEF PhaseInv
<1>6. line \in Seq(LineType) /\ s \in Seq(LineType) /\ said \in Seq(LineType)
      /\ todo \in Seq(Commands \cup {Pdu})
  BY <1>1, <1>5, PendingSeq DEF TypeOK
<1>7. PICK f : f = stack[1]
  OBVIOUS
<1>8. Len(stack) \in {1, 2} /\ f \in FrameType
  BY <1>1, <1>3, <1>7, StackFacts
<1>9. CASE HandsOver
  <2>1. stack' = stack /\ todo' = todo /\ result' = result /\ Head(line).kind = "event"
    BY <1>9 DEF HandsOver
  <2>2. Pending(s)'
    BY <1>1, <1>3, <1>5, <2>1, PendingEventRead
  <2>3. Phase(s)'
    BY <1>2, <1>3, <1>5, <2>1, SamePhase
  <2> QED
    BY <2>1, <2>2, <2>3 DEF PhaseAfter
<1>10. CASE Pushes
  <2>1. /\ stack' = Append(stack, Frame(Cnma, Head(line).of)) /\ todo' = Append(todo, Cnma)
        /\ result' = result /\ Head(line).kind = "event"
        /\ sendAck /\ IsDirect(Head(line))
    BY <1>10 DEF Pushes, IsDirect
  <2>2. Pending(s)'
    BY <1>1, <1>3, <1>5, <2>1, PendingEventRead
  <2>3. Len(stack) = 1 /\ \A i \in 1..Len(todo) : todo[i] # Cnma
    <3>1. 1 \in 1..Len(line) /\ Head(line) = line[1]
      <4>1. Len(line) \in Nat \ {0} /\ Head(line) = line[1]
        BY <1>3, <1>6, EmptySeq, HeadTailProperties
      <4> QED
        BY <4>1
    <3>2. Len(stack) < 2 /\ \A i \in 1..Len(todo) : todo[i] # Cnma
      BY <1>1, <2>1, <3>1 DEF OneUnacknowledged
    <3> QED
      BY <1>8, <3>2
  <2>4. Alone(f, s)
    BY <1>5, <1>7, <2>3 DEF Phase
  <2>5. Acknowledging(f, s)'
    BY <1>2, <1>3, <1>6, <1>8, <2>1, <2>3, <2>4, MessagePushed
  <2>6. Len(stack') = 2 /\ stack'[1] = f
    <3> DEFINE g == Frame(Cnma, Head(line).of)
    <3>1. g \in FrameType
      <4>1. Cnma \in Commands /\ Head(line).of \in Event \cup {Nothing}
        BY <1>3, <2>1, LineFacts DEF Commands
      <4> QED
        BY <4>1, FrameFacts
    <3>2. stack' = Append(stack, g)
      BY <2>1
    <3> HIDE DEF g, FrameType
    <3>3. stack \in Seq(FrameType)
      BY <1>1 DEF TypeOK
    <3>4. Len(stack') = Len(stack) + 1 /\ \A i \in 1..Len(stack) : stack'[i] = stack[i]
      BY <3>1, <3>2, <3>3, AppendProperties
    <3> QED
      BY <1>7, <2>3, <3>4
  <2>7. Phase(s)'
    BY <2>5, <2>6, AcknowledgingIntro
  <2> QED
    BY <2>1, <2>2, <2>7 DEF PhaseAfter
<1>11. CASE /\ Head(line).kind # "event"
            /\ IF Top.prompted THEN ReadAnswer(Head(line)) ELSE Handshake(Head(line))
  <2>1. s # << >> /\ s[1] = Head(line) /\ Pending(Tail(s))'
    BY <1>1, <1>3, <1>5, <1>11, PendingAnswerRead
  <2>2. IF Top.prompted THEN ReadAnswer(s[1]) ELSE Handshake(s[1])
    BY <1>11, <2>1
  <2>3. Onward(Tail(s)) \/ MayFail
    <3>1. CASE Len(stack) = 1
      <4>1. Alone(f, s)
        BY <1>5, <1>7, <3>1 DEF Phase
      <4> QED
        BY <1>1, <1>2, <1>3, <1>6, <1>7, <2>1, <2>2, <3>1, <4>1, AloneRead
    <3>2. CASE Len(stack) = 2
      <4>1. Acknowledging(f, s)
        BY <1>5, <1>7, <3>2 DEF Phase
      <4> QED
        BY <1>1, <1>2, <1>3, <1>6, <1>7, <2>1, <2>2, <3>2, <4>1, AcknowledgingRead
    <3> QED
      BY <1>8, <3>1, <3>2
  <2> QED
    BY <2>1, <2>3, Zenon DEF Onward, PhaseAfter
<1> QED
  BY <1>4, <1>9, <1>10, <1>11

\* Without acknowledgements a call that times out waits for the TA.
LEMMA TimeOutLate ==
  ASSUME Basics, ~broken, PhaseInv, ~sendAck, TimeOut
  PROVE  todo # << >> \/ answering # << >>
<1>1. TypeOK /\ StackOK
  BY DEF Basics
<1>2. stack # << >> /\ (line = << >> \/ (Len(line) = 1 /\ line[1].kind = "prompt"))
  BY <1>1, TimeOutFacts
<1>3. PICK s : Pending(s) /\ Phase(s)
  BY DEF PhaseInv
<1>4. Len(stack) = 1
  BY <1>1, <1>2, DepthFacts DEF StackOK
<1>5. PICK f : f = stack[1]
  OBVIOUS
<1>6. Top = f /\ f \in FrameType
  BY <1>1, <1>2, <1>4, <1>5, StackFacts
<1>7. Alone(f, s)
  BY <1>3, <1>4, <1>5 DEF Phase
<1> SUFFICES ASSUME todo = << >>, answering = << >>
             PROVE  FALSE
  OBVIOUS
<1>8. Refused(f, s) \/ Answered(f, s) \/ Prompting(f, s)
  BY <1>7, Pairs DEF Alone, Sent, HasPdu, Swapped, Owed, Exhausted
<1>9. Len(s) \in Nat \ {0} /\ s \in Seq(LineType) /\ Holds(line, s)
  BY <1>1, <1>3, <1>8, PendingSeq, PendingHolds DEF Refused, Answered, Answering, Prompting
<1>10. line # << >>
  <2>1. SUFFICES ASSUME line = << >> PROVE FALSE
    OBVIOUS
  <2>2. Takes(line, AnswerLines, s)
    BY <1>9 DEF Holds
  <2>3. \A k \in 1..Len(line) : line[k] \notin AnswerLines
    <3>1. Len(line) = 0
      BY <2>1
    <3> QED
      BY <3>1
  <2>4. s = << >>
    BY <2>2, <2>3, TakesOnly
  <2> QED
    BY <1>9, <2>4
<1>11. Head(line) = line[1] /\ line[1].kind = "prompt" /\ line \in Seq(LineType)
  <2>1. line \in Seq(LineType)
    BY <1>1 DEF TypeOK
  <2> QED
    BY <1>2, <1>10, <2>1, HeadTailProperties
<1>12. s[1].kind = "prompt"
  BY <1>9, <1>10, <1>11, AnswerRead
<1>13. Prompting(f, s)
  <2>1. ~Refused(f, s)
    BY <1>12 DEF Refused
  <2>2. ~Answered(f, s)
    <3>1. SUFFICES ASSUME Answering(f, s) PROVE FALSE
      BY DEF Answered
    <3>2. /\ s[Len(s)].kind = "OK"
          /\ \A j \in 1..(Len(s) - 1) : s[j].kind = "info"
      BY <3>1 DEF Answering
    <3>3. Len(s) = 1 \/ 1 \in 1..(Len(s) - 1)
      BY <1>9, OneOrMore, Zenon
    <3> QED
      BY <1>12, <3>2, <3>3
  <2> QED
    BY <1>8, <2>1, <2>2
<1>14. ~Top.prompted
  BY <1>6, <1>13 DEF Prompting
<1>15. Readable
  BY <1>10, <1>14 DEF Readable
<1> QED
  BY <1>15 DEF TimeOut, Silence

\* A call fails only with acknowledgements or after a late answer.
NoFail ==
  /\ ~broken => result.how # "failed"
  /\ ~sendAck /\ ~late => ~broken
Answers == Basics /\ PhaseInv /\ NoFail

\* The invariant Answers holds at the start.
LEMMA InitAnswers ==
  ASSUME Init
  PROVE  Answers
<1>1. Basics /\ PhaseInv
  BY InitBasics, InitPhase
<1>2. result = NoResult /\ broken = FALSE
  BY DEF Init, AtInit
<1>3. NoFail
  BY <1>2 DEF NoFail, NoResult
<1> QED
  BY <1>1, <1>3 DEF Answers

\* Unless a call failed before, what a step must do.
LEMMA BrokenStays ==
  ASSUME Answers, [Next]_vars, broken \/ broken',
         broken' /\ ~broken => sendAck \/ late'
  PROVE  Answers'
<1>1. Basics'
  BY NextBasics DEF Answers
<1>2. broken' \in BOOLEAN /\ broken \in BOOLEAN
  BY <1>1 DEF Answers, Basics, TypeOK
<1>3. (broken => broken') /\ sendAck' = sendAck /\ (late => late')
  <2>1. ASSUME NEW c \in Command, Call(c)
        PROVE  broken' = broken /\ sendAck' = sendAck /\ late' = late
    BY <2>1 DEF Call, Chat
  <2>2. CASE Read
    <3>1. broken' = (broken \/ result'.how = "failed") /\ sendAck' = sendAck /\ late' = late
      BY <2>2 DEF Read, GetLine
    <3> QED
      BY <3>1
  <2>3. CASE GivesUp
    <3>1. broken' = TRUE /\ sendAck' = sendAck /\ late' = (late \/ todo # << >> \/ answering # << >>)
      BY <2>3 DEF GivesUp, TimeOut
    <3> QED
      BY <3>1
  <2>4. CASE SetEventHandler
    BY <2>4 DEF SetEventHandler
  <2>5. CASE Executes
    BY <2>5 DEF Executes, TAExecutes
  <2>6. ASSUME NEW e \in Event, Reports(e)
        PROVE  broken' = broken /\ sendAck' = sendAck /\ late' = late
    BY <2>6 DEF Reports, TAReports
  <2>7. CASE Transmits
    BY <2>7 DEF Transmits, TATransmits
  <2>8. CASE UNCHANGED vars
    BY <2>8 DEF vars, atVars
  <2> QED
    BY <2>1, <2>2, <2>3, <2>4, <2>5, <2>6, <2>7, <2>8 DEF Next
<1>4. PhaseInv'
  BY <1>3 DEF PhaseInv
<1>5. ~sendAck /\ ~late => ~broken
  BY DEF Answers, NoFail
<1>6. NoFail'
  BY <1>3, <1>5 DEF NoFail
<1> QED
  BY <1>1, <1>4, <1>6 DEF Answers

\* Every step keeps Answers.
LEMMA NextAnswers ==
  ASSUME Answers, [Next]_vars
  PROVE  Answers'
<1>1. Basics /\ PhaseInv /\ NoFail /\ Basics'
  BY NextBasics DEF Answers
<1>2. CASE broken
  BY <1>2, BrokenStays
<1>3. CASE ~broken
  <2>1. result.how # "failed"
    BY <1>1, <1>3 DEF NoFail
  <2>2. ASSUME PhaseAfter, result'.how # "failed", broken' = broken, sendAck' = sendAck
        PROVE  Answers'
    <3>1. PhaseInv'
      BY <2>2, PhaseIntro
    <3>2. NoFail'
      BY <1>3, <2>2 DEF NoFail
    <3> QED
      BY <1>1, <3>1, <3>2 DEF Answers
  <2>3. ASSUME NEW c \in Command, Call(c) PROVE Answers'
    <3>1. PhaseAfter
      BY <1>1, <1>3, <2>3, CallPhase
    <3>2. result'.how # "failed" /\ broken' = broken /\ sendAck' = sendAck
      BY <2>3 DEF Call, Chat, NoResult
    <3> QED
      BY <2>2, <3>1, <3>2
  <2>4. CASE Read
    <3>1. (PhaseAfter /\ result'.how # "failed") \/ MayFail
      BY <1>1, <1>3, <2>1, <2>4, ReadPhase
    <3>2. broken' = (broken \/ result'.how = "failed") /\ sendAck' = sendAck
      BY <2>4 DEF Read, GetLine
    <3>3. CASE PhaseAfter /\ result'.how # "failed"
      <4>1. broken' = broken
        BY <1>1, <1>3, <3>2, <3>3 DEF Basics, TypeOK
      <4> QED
        BY <2>2, <3>2, <3>3, <4>1
    <3>4. CASE MayFail
      <4>1. broken' /\ sendAck
        BY <3>2, <3>4 DEF MayFail
      <4> QED
        BY <4>1, BrokenStays
    <3> QED
      BY <3>1, <3>3, <3>4
  <2>5. CASE GivesUp
    <3>1. TimeOut /\ broken' = TRUE /\ late' = (late \/ todo # << >> \/ answering # << >>)
      BY <2>5 DEF GivesUp
    <3>2. sendAck \/ todo # << >> \/ answering # << >>
      BY <1>1, <1>3, <3>1, TimeOutLate
    <3>3. sendAck \/ late'
      BY <3>1, <3>2
    <3> QED
      BY <3>1, <3>3, BrokenStays
  <2>6. CASE SetEventHandler
    <3>1. /\ line' = line /\ answering' = answering /\ todo' = todo
          /\ entering' = entering /\ stack' = stack /\ result' = result /\ said' = said /\ sendAck' = sendAck /\ broken' = broken
      BY <2>6 DEF SetEventHandler
    <3>2. PhaseAfter
      BY <1>1, <1>3, <3>1, UnchangedPhase
    <3> QED
      BY <2>1, <2>2, <3>1, <3>2
  <2>7. CASE Executes
    <3>1. PhaseAfter
      BY <1>1, <1>3, <2>7, ExecutesPhase
    <3>2. result' = result /\ sendAck' = sendAck /\ broken' = broken
      BY <2>7 DEF Executes, TAExecutes
    <3> QED
      BY <2>1, <2>2, <3>1, <3>2
  <2>8. ASSUME NEW e \in Event, Reports(e) PROVE Answers'
    <3>1. PhaseAfter
      BY <1>1, <1>3, <2>8, ReportsPhase
    <3>2. result' = result /\ sendAck' = sendAck /\ broken' = broken
      BY <2>8 DEF Reports, TAReports
    <3> QED
      BY <2>1, <2>2, <3>1, <3>2
  <2>9. CASE UNCHANGED vars
    <3>1. /\ line' = line /\ answering' = answering /\ todo' = todo
          /\ entering' = entering /\ stack' = stack /\ result' = result /\ said' = said /\ sendAck' = sendAck /\ broken' = broken
      BY <2>9 DEF vars, atVars
    <3>2. PhaseAfter
      BY <1>1, <1>3, <3>1, UnchangedPhase
    <3> QED
      BY <2>1, <2>2, <3>1, <3>2
  <2>10. CASE Transmits
    <3>1. PhaseAfter
      BY <1>1, <1>3, <2>10, TransmitsPhase
    <3>2. result' = result /\ sendAck' = sendAck /\ broken' = broken
      BY <2>10 DEF Transmits, TATransmits
    <3> QED
      BY <2>1, <2>2, <3>1, <3>2
  <2> QED
    BY <2>3, <2>4, <2>5, <2>6, <2>7, <2>8, <2>9, <2>10 DEF Next
<1> QED
  BY <1>2, <1>3

\* Every answer is that of the call.
LEMMA AnswersOwn ==
  ASSUME Answers
  PROVE  OwnAnswer /\ Undisturbed
<1>1. Basics /\ PhaseInv /\ NoFail
  BY DEF Answers
<1>2. OwnAnswer
  <2>1. SUFFICES ASSUME stack = << >>, ~broken
                 PROVE  /\ result.how = "ok" => result.infos = said
                        /\ todo = << >> /\ entering.cmd = Nothing /\ answering = << >>
                        /\ \A i \in DOMAIN line : line[i].kind = "event"
    BY DEF OwnAnswer, Idle
  <2>2. PICK s : Pending(s) /\ Phase(s)
    BY <1>1, <2>1 DEF PhaseInv
  <2>3. /\ s = << >> /\ todo = << >> /\ entering = NotEntering
        /\ result.how = "ok" => result.infos = said
    BY <2>1, <2>2 DEF Phase, AtRest, NoPdu
  <2>4. entering.cmd = Nothing
    BY <2>3 DEF NotEntering
  <2>5. DOMAIN line = 1..Len(line)
    BY <1>1 DEF Basics, TypeOK
  <2>6. Pending(<< >>)
    BY <2>2, <2>3
  <2>7. answering = << >> /\ \A i \in 1..Len(line) : line[i].kind = "event"
    BY <1>1, <2>6, PendingNothing DEF Basics
  <2> QED
    BY <2>3, <2>4, <2>5, <2>7
<1>3. Undisturbed
  <2>1. SUFFICES ASSUME ~sendAck, ~late
                 PROVE  ~entering.garbled /\ result.how # "failed"
    BY DEF Undisturbed
  <2>2. ~broken /\ result.how # "failed"
    BY <1>1, <2>1 DEF NoFail
  <2>3. PICK s : Pending(s) /\ Phase(s)
    BY <1>1, <2>2 DEF PhaseInv
  <2>4. Len(stack) # 2 /\ (stack = << >> \/ Len(stack) = 1)
    BY <1>1, <2>1, DepthFacts DEF Basics, StackOK
  <2>5. entering = NotEntering \/ \E c : entering = [cmd |-> c, garbled |-> FALSE]
    <3>1. CASE stack = << >>
      BY <2>3, <3>1 DEF Phase, AtRest, NoPdu
    <3>2. CASE Len(stack) = 1
      <4>1. Alone(stack[1], s)
        BY <2>3, <3>2 DEF Phase
      <4> QED
        BY <4>1 DEF Alone, Sent, Refused, Answered, Prompting, HasPdu, Swapped, Owed, Exhausted,
                    NoPdu, WantsPdu
    <3> QED
      BY <2>4, <3>1, <3>2
  <2>6. entering.garbled = FALSE
    BY <2>5 DEF NotEntering
  <2> QED
    BY <2>2, <2>6
<1> QED
  BY <1>2, <1>3

\* While no call failed, a call is in one of the phases of PhaseInv, in each of which
\* the lines, the commands that are not executed and the calls fit together; and
\* without acknowledgements no call fails unless the TA was late. The type of every
\* variable and the shape of the stack are part of it (GsmAt, GsmEvent::dispatch()).
THEOREM AnswersInvariant == Spec => []Answers
<1>1. Init => Answers
  BY InitAnswers
<1>2. Answers /\ [Next]_vars => Answers'
  BY NextAnswers
<1> QED
  BY <1>1, <1>2, PTL DEF Spec

\* What chat(), chatv() and sendPdu() return is what the TA answered to that command,
\* and nothing of an answer is left, in the line or at the TA, for the next call, for
\* any commands, events, answers and bounds and whichever events come between any two
\* lines of an answer.
THEOREM AnswersAreOwn == Spec => []OwnAnswer
<1>1. Answers => OwnAnswer
  BY AnswersOwn
<1> QED
  BY <1>1, AnswersInvariant, PTL

\* Without acknowledgements events never make a call fail, and the TA gets the PDU
\* with no other text before it (GsmAt::getLine(), sendPdu()).
THEOREM EventsDoNotDisturb == Spec => []Undisturbed
<1>1. Answers => Undisturbed
  BY AnswersOwn
<1> QED
  BY <1>1, AnswersInvariant, PTL

-----------------------------------------------------------------------------
(* Counting the places of an event. *)

\* How many things of s are in T, and where.
Where(s, T) == {i \in 1..Len(s) : s[i] \in T}
Count(s, T) == Cardinality(Where(s, T))

\* A count is a number.
LEMMA WhereFinite ==
  ASSUME NEW S, NEW s \in Seq(S), NEW T
  PROVE  IsFiniteSet(Where(s, T)) /\ Count(s, T) \in Nat
<1>1. Len(s) \in Int /\ 1 \in Int
  BY LenProperties
<1>2. IsFiniteSet(1..Len(s))
  BY <1>1, FS_Interval
<1>3. Where(s, T) \in SUBSET (1..Len(s))
  BY DEF Where
<1>4. IsFiniteSet(Where(s, T))
  BY <1>2, <1>3, FS_Subset
<1> QED
  BY <1>4, FS_CardinalityType DEF Count

\* Nothing is counted.
LEMMA CountNone ==
  ASSUME NEW s, NEW T, \A i \in 1..Len(s) : s[i] \notin T
  PROVE  Count(s, T) = 0
<1>1. Where(s, T) = {}
  BY DEF Where
<1> QED
  BY <1>1, FS_EmptySet DEF Count

\* One more thing at the end.
LEMMA CountAppend ==
  ASSUME NEW S, NEW s \in Seq(S), NEW x \in S, NEW T
  PROVE  /\ x \notin T => Count(Append(s, x), T) = Count(s, T)
         /\ x \in T => Count(Append(s, x), T) = Count(s, T) + 1
<1> DEFINE m == Append(s, x)
           n == Len(s)
<1>1. /\ Len(m) = n + 1 /\ n \in Nat /\ m[n + 1] = x /\ \A i \in 1..n : m[i] = s[i]
  BY AppendProperties, LenProperties
<1> HIDE DEF m
<1>2. CASE x \notin T
  <2>1. Where(m, T) = Where(s, T)
    <3>1. ASSUME NEW i \in Where(m, T) PROVE i \in Where(s, T)
      <4>1. i \in 1..n \/ i = n + 1
        BY <1>1 DEF Where
      <4> QED
        BY <1>1, <1>2, <4>1 DEF Where
    <3>2. ASSUME NEW i \in Where(s, T) PROVE i \in Where(m, T)
      <4>1. i \in 1..n /\ i \in 1..(n + 1)
        BY <1>1 DEF Where
      <4> QED
        BY <1>1, <4>1 DEF Where
    <3> QED
      BY <3>1, <3>2
  <2> QED
    BY <1>2, <2>1 DEF Count, m
<1>3. CASE x \in T
  <2>1. Where(m, T) = Where(s, T) \cup {n + 1}
    <3>1. ASSUME NEW i \in Where(m, T) PROVE i \in Where(s, T) \cup {n + 1}
      <4>1. i \in 1..n \/ i = n + 1
        BY <1>1 DEF Where
      <4> QED
        BY <1>1, <4>1 DEF Where
    <3>2. ASSUME NEW i \in Where(s, T) PROVE i \in Where(m, T)
      <4>1. i \in 1..n /\ i \in 1..(n + 1)
        BY <1>1 DEF Where
      <4> QED
        BY <1>1, <4>1 DEF Where
    <3>3. n + 1 \in Where(m, T)
      <4>1. n + 1 \in 1..(n + 1)
        BY <1>1
      <4> QED
        BY <1>1, <1>3, <4>1 DEF Where
    <3> QED
      BY <3>1, <3>2, <3>3
  <2>2. n + 1 \notin Where(s, T)
    BY <1>1 DEF Where
  <2>3. Cardinality(Where(s, T) \cup {n + 1}) = Cardinality(Where(s, T)) + 1
    BY <2>2, WhereFinite, FS_AddElement
  <2> QED
    BY <1>3, <2>1, <2>3 DEF Count, m
<1> QED
  BY <1>2, <1>3

\* The first thing is gone.
LEMMA CountTail ==
  ASSUME NEW S, NEW s \in Seq(S), s # << >>, NEW T
  PROVE  /\ Head(s) \notin T => Count(s, T) = Count(Tail(s), T)
         /\ Head(s) \in T => Count(s, T) = Count(Tail(s), T) + 1
<1> DEFINE m == Tail(s)
           n == Len(m)
           W == {i \in 2..(n + 1) : s[i] \in T}
<1>1. /\ Len(s) = n + 1 /\ n \in Nat /\ s[1] = Head(s) /\ \A i \in 1..n : m[i] = s[i + 1]
      /\ m \in Seq(S)
  BY HeadTailProperties, LenProperties, EmptySeq
<1> HIDE DEF m
<1>2. ExistsBijection(Where(m, T), W)
  <2> DEFINE F == [i \in Where(m, T) |-> i + 1]
  <2>1. \A i \in Where(m, T) : i \in 1..n /\ i \in Int /\ m[i] \in T
    BY <1>1 DEF Where
  <2>2. \A i \in Where(m, T) : i + 1 \in W
    <3> TAKE i \in Where(m, T)
    <3>1. i + 1 \in 2..(n + 1) /\ s[i + 1] = m[i] /\ m[i] \in T
      BY <1>1, <2>1
    <3> QED
      BY <3>1
  <2>3. \A i, j \in Where(m, T) : i + 1 = j + 1 => i = j
    BY <2>1
  <2>4. \A k \in W : \E i \in Where(m, T) : i + 1 = k
    <3> TAKE k \in W
    <3>1. k - 1 \in 1..n /\ (k - 1) + 1 = k /\ s[k] \in T
      BY <1>1
    <3>2. m[k - 1] = s[k]
      BY <1>1, <3>1
    <3>3. k - 1 \in Where(m, T)
      BY <1>1, <3>1, <3>2 DEF Where
    <3> QED
      BY <3>1, <3>3
  <2> HIDE DEF W
  <2>5. F \in Bijection(Where(m, T), W)
    BY <2>2, <2>3, <2>4, Fun_IsBij
  <2> QED
    BY <2>5 DEF ExistsBijection
<1>3. IsFiniteSet(Where(m, T))
  BY <1>1, WhereFinite
<1>4. IsFiniteSet(W) /\ Cardinality(W) = Count(m, T)
  BY <1>2, <1>3, FS_Bijection DEF Count
<1>5. CASE s[1] \notin T
  <2>1. Where(s, T) = W
    <3>1. ASSUME NEW i \in Where(s, T) PROVE i \in W
      <4>1. i \in 1..(n + 1) /\ s[i] \in T /\ i # 1
        BY <1>1, <1>5 DEF Where
      <4>2. i \in 2..(n + 1)
        BY <1>1, <4>1
      <4> QED
        BY <4>1, <4>2
    <3>2. ASSUME NEW i \in W PROVE i \in Where(s, T)
      <4>1. i \in 1..(n + 1) /\ s[i] \in T
        BY <1>1
      <4> QED
        BY <1>1, <4>1 DEF Where
    <3> QED
      BY <3>1, <3>2
  <2> QED
    BY <1>1, <1>4, <1>5, <2>1 DEF Count, m
<1>6. CASE s[1] \in T
  <2>1. Where(s, T) = W \cup {1}
    <3>1. ASSUME NEW i \in Where(s, T) PROVE i \in W \cup {1}
      <4>1. i \in 1..(n + 1) /\ s[i] \in T
        BY <1>1 DEF Where
      <4>2. i \in 2..(n + 1) \/ i = 1
        BY <1>1, <4>1
      <4> QED
        BY <4>1, <4>2
    <3>2. ASSUME NEW i \in W PROVE i \in Where(s, T)
      <4>1. i \in 1..(n + 1) /\ s[i] \in T
        BY <1>1
      <4> QED
        BY <1>1, <4>1 DEF Where
    <3>3. 1 \in Where(s, T)
      <4>1. 1 \in 1..(n + 1)
        BY <1>1
      <4> QED
        BY <1>1, <1>6, <4>1 DEF Where
    <3> QED
      BY <3>1, <3>2, <3>3
  <2>2. 1 \notin W
    OBVIOUS
  <2> HIDE DEF W
  <2>3. Cardinality(W \cup {1}) = Cardinality(W) + 1
    BY <1>4, <2>2, FS_AddElement
  <2> QED
    BY <1>1, <1>4, <1>6, <2>1, <2>3 DEF Count, m
<1> QED
  BY <1>1, <1>5, <1>6

\* Other things at the end.
LEMMA CountConcat ==
  ASSUME NEW S, NEW s \in Seq(S), NEW t \in Seq(S), NEW T, \A j \in 1..Len(t) : t[j] \notin T
  PROVE  Count(s \o t, T) = Count(s, T)
<1> DEFINE m == s \o t
<1>1. /\ Len(m) = Len(s) + Len(t) /\ Len(s) \in Nat /\ Len(t) \in Nat
      /\ \A k \in 1..(Len(s) + Len(t)) : m[k] = IF k <= Len(s) THEN s[k] ELSE t[k - Len(s)]
  BY ConcatProperties, LenProperties
<1> HIDE DEF m
<1>2. ASSUME NEW i \in Where(m, T) PROVE i \in Where(s, T)
  <2>1. i \in 1..(Len(s) + Len(t)) /\ m[i] \in T
    BY <1>1, <1>2 DEF Where
  <2>2. CASE i <= Len(s)
    <3>1. i \in 1..Len(s) /\ m[i] = s[i]
      BY <1>1, <2>1, <2>2
    <3> QED
      BY <2>1, <3>1 DEF Where
  <2>3. CASE ~(i <= Len(s))
    <3>1. i - Len(s) \in 1..Len(t) /\ m[i] = t[i - Len(s)]
      BY <1>1, <2>1, <2>3
    <3> QED
      BY <2>1, <3>1
  <2> QED
    BY <2>2, <2>3
<1>3. ASSUME NEW i \in Where(s, T) PROVE i \in Where(m, T)
  <2>1. i \in 1..Len(s) /\ s[i] \in T
    BY <1>3 DEF Where
  <2>2. i \in 1..(Len(s) + Len(t)) /\ i <= Len(s)
    BY <1>1, <2>1
  <2>3. m[i] = s[i]
    BY <1>1, <2>2
  <2> QED
    BY <1>1, <2>1, <2>2, <2>3 DEF Where
<1>4. Where(m, T) = Where(s, T)
  BY <1>2, <1>3
<1> QED
  BY <1>4 DEF Count, m

One(p) == IF p THEN 1 ELSE 0
EventLine(e) == {x \in LineType : x.kind = "event" /\ x.of = e}
Frames(e)    == {f \in FrameType : f.event = e}
\* In how many places e is: in the lines, the calls and the events received.
In(l, s, r, e) == Count(l, EventLine(e)) + Count(s, Frames(e)) + Count(r, {e})

\* The places of an event, counted one by one.
LEMMA PlacesSum ==
  ASSUME NEW l \in Seq(LineType), NEW s \in Seq(FrameType), NEW r \in Seq(Event), NEW e
  PROVE  In(l, s, r, e) = Cardinality({i \in DOMAIN l : l[i].kind = "event" /\ l[i].of = e})
                          + Cardinality({i \in DOMAIN s : s[i].event = e})
                          + Cardinality({i \in DOMAIN r : r[i] = e})
<1> HIDE DEF FrameType
<1>1. DOMAIN l = 1..Len(l) /\ DOMAIN s = 1..Len(s) /\ DOMAIN r = 1..Len(r)
  BY LenProperties
<1>2. Where(l, EventLine(e)) = {i \in DOMAIN l : l[i].kind = "event" /\ l[i].of = e}
  <2>1. \A i \in 1..Len(l) : l[i] \in LineType
    BY ElementOfSeq
  <2>2. \A i \in 1..Len(l) : l[i] \in EventLine(e) <=> l[i].kind = "event" /\ l[i].of = e
    BY <2>1 DEF EventLine
  <2> QED
    BY <1>1, <2>2 DEF Where
<1>3. Where(s, Frames(e)) = {i \in DOMAIN s : s[i].event = e}
  <2>1. \A i \in 1..Len(s) : s[i] \in FrameType
    BY ElementOfSeq
  <2>2. \A i \in 1..Len(s) : s[i] \in Frames(e) <=> s[i].event = e
    BY <2>1 DEF Frames
  <2> QED
    BY <1>1, <2>2 DEF Where
<1>4. Where(r, {e}) = {i \in DOMAIN r : r[i] = e}
  BY <1>1 DEF Where
<1> QED
  BY <1>2, <1>3, <1>4 DEF In, Count

\* One event fewer in the line when it is read.
LEMMA LineCount ==
  ASSUME NEW l \in Seq(LineType), l # << >>, NEW e
  PROVE  /\ Count(l, EventLine(e)) \in Nat /\ Count(Tail(l), EventLine(e)) \in Nat
         /\ Count(l, EventLine(e)) = Count(Tail(l), EventLine(e))
              + One(Head(l).kind = "event" /\ Head(l).of = e)
<1>1. Tail(l) \in Seq(LineType) /\ Head(l) \in LineType
  BY HeadTailProperties
<1>2. Head(l) \in EventLine(e) <=> Head(l).kind = "event" /\ Head(l).of = e
  BY <1>1 DEF EventLine
<1>3. Count(l, EventLine(e)) \in Nat /\ Count(Tail(l), EventLine(e)) \in Nat
  BY <1>1, WhereFinite
<1>4. /\ Head(l) \notin EventLine(e) => Count(l, EventLine(e)) = Count(Tail(l), EventLine(e))
      /\ Head(l) \in EventLine(e) => Count(l, EventLine(e)) = Count(Tail(l), EventLine(e)) + 1
  BY CountTail
<1> QED
  BY <1>2, <1>3, <1>4 DEF One

\* An event in the calls is the one whose acknowledgement is waited for.
LEMMA StackCount ==
  ASSUME NEW s \in Seq(FrameType), Len(s) \in 0..2, s # << >> => s[1].event = Nothing,
         NEW e \in Event
  PROVE  /\ Len(s) < 2 => Count(s, Frames(e)) = 0
         /\ Len(s) = 2 => Count(s, Frames(e)) = One(s[2].event = e)
<1> HIDE DEF FrameType
<1>1. e # Nothing
  BY Assumptions
<1>2. \A i \in 1..Len(s) : s[i] \in FrameType
  BY ElementOfSeq
<1>3. Len(s) # 0 => s[1] \notin Frames(e)
  BY <1>1 DEF Frames
<1>4. CASE Len(s) < 2
  <2>1. \A i \in 1..Len(s) : i = 1 /\ Len(s) # 0
    BY <1>4
  <2>2. \A i \in 1..Len(s) : s[i] \notin Frames(e)
    BY <1>3, <2>1
  <2> QED
    BY <1>4, <2>2, CountNone
<1>5. CASE Len(s) = 2
  <2>1. 2 \in 1..Len(s) /\ 1 \in 1..Len(s)
    BY <1>5
  <2>2. s[2] \in FrameType
    BY <1>2, <2>1
  <2>3. CASE s[2].event # e
    <3>1. s[2] \notin Frames(e)
      BY <2>3 DEF Frames
    <3>2. \A i \in 1..Len(s) : i = 1 \/ i = 2
      BY <1>5
    <3>3. \A i \in 1..Len(s) : s[i] \notin Frames(e)
      BY <1>3, <1>5, <3>1, <3>2
    <3> QED
      BY <1>5, <2>3, <3>3, CountNone DEF One
  <2>4. CASE s[2].event = e
    <3>1. s[2] \in Frames(e)
      BY <2>2, <2>4 DEF Frames
    <3>2. \A i \in 1..Len(s) : i \in Where(s, Frames(e)) <=> i = 2
      <4>1. \A i \in 1..Len(s) : i = 1 \/ i = 2
        BY <1>5
      <4> QED
        BY <1>3, <1>5, <3>1, <4>1 DEF Where
    <3>3. \A i \in Where(s, Frames(e)) : i \in 1..Len(s)
      BY DEF Where
    <3>4. Where(s, Frames(e)) = {2}
      BY <2>1, <3>2, <3>3, Zenon
    <3>5. Count(s, Frames(e)) = 1
      BY <3>4, FS_Singleton DEF Count
    <3> QED
      BY <1>5, <2>4, <3>5 DEF One
  <2> QED
    BY <1>5, <2>3, <2>4
<1> QED
  BY <1>4, <1>5

\* One event more when the program was given one.
LEMMA ReceivedCount ==
  ASSUME NEW r \in Seq(Event), NEW d \in Event, NEW e
  PROVE  /\ Count(r, {e}) \in Nat
         /\ d = e => Count(Append(r, d), {e}) = Count(r, {e}) + 1
         /\ d # e => Count(Append(r, d), {e}) = Count(r, {e})
<1>1. Count(r, {e}) \in Nat
  BY WhereFinite
<1>2. /\ d \notin {e} => Count(Append(r, d), {e}) = Count(r, {e})
      /\ d \in {e} => Count(Append(r, d), {e}) = Count(r, {e}) + 1
  BY CountAppend
<1> QED
  BY <1>1, <1>2

-----------------------------------------------------------------------------
(* No step loses or doubles an event. *)

\* A step that gives e away only to a program that listens not, or fails.
Kept(e) ==
  /\ In(line', stack', received', e) <= In(line, stack, received, e)
  /\ listening /\ (~broken' \/ ~sendAck)
       => In(line', stack', received', e) = In(line, stack, received, e)

\* The counts of a state are numbers, and what they are in the calls.
LEMMA Counts ==
  ASSUME Basics, NEW e \in Event
  PROVE  /\ Count(line, EventLine(e)) \in Nat /\ Count(stack, Frames(e)) \in Nat
         /\ Count(received, {e}) \in Nat /\ In(line, stack, received, e) \in Nat
         /\ Len(stack) < 2 => Count(stack, Frames(e)) = 0
         /\ Len(stack) = 2 => Count(stack, Frames(e)) = One(stack[2].event = e)
<1> HIDE DEF FrameType
<1>1. /\ line \in Seq(LineType) /\ stack \in Seq(FrameType) /\ received \in Seq(Event)
      /\ Len(stack) \in 0..2
      /\ stack # << >> => stack[1].event = Nothing
  BY DEF Basics, TypeOK, StackOK
<1>2. /\ Count(line, EventLine(e)) \in Nat /\ Count(stack, Frames(e)) \in Nat
      /\ Count(received, {e}) \in Nat
  BY <1>1, WhereFinite
<1>3. /\ Len(stack) < 2 => Count(stack, Frames(e)) = 0
      /\ Len(stack) = 2 => Count(stack, Frames(e)) = One(stack[2].event = e)
  BY <1>1, StackCount, Zenon
<1> QED
  BY <1>2, <1>3 DEF In

\* A call that ends or goes on keeps the event it acknowledges, or gives it to
\* the program, unless it fails.
LEMMA OutcomeKeeps ==
  ASSUME Basics, stack # << >>, Outcome, Same, NEW e \in Event,
         Count(line', EventLine(e)) = Count(line, EventLine(e)),
         result'.how = "failed" => broken'
  PROVE  Kept(e)
<1> HIDE DEF FrameType
<1>1. /\ TypeOK /\ StackOK /\ received \in Seq(Event) /\ stack \in Seq(FrameType)
      /\ Len(stack) \in 1..2 /\ sendAck' = sendAck
      /\ Len(stack) = 2 => sendAck /\ stack[2].cmd = Cnma /\ stack[2].event \in Event
      /\ stack[1].cmd \in Command
  BY StackFacts, Assumptions DEF Basics, TypeOK, StackOK, Same
<1> DEFINE a == Count(line, EventLine(e))
           b == Count(stack, Frames(e))
           c == Count(received, {e})
           d == Count(stack', Frames(e))
           g == Count(received', {e})
<1>2. a \in Nat /\ b \in Nat /\ c \in Nat
      /\ (Len(stack) < 2 => b = 0) /\ (Len(stack) = 2 => b = One(stack[2].event = e))
  BY Counts
<1>3. /\ stack' \in Seq(FrameType) /\ Len(stack') \in 0..1
      /\ stack' # << >> => stack'[1].event = Nothing
  BY <1>1, OutcomeFacts
<1>4. d = 0
  <2> DEFINE n == Len(stack')
  <2>0. n \in 0..1
    BY <1>3
  <2> HIDE DEF n
  <2>1. n \in 0..2 /\ n < 2
    BY <2>0
  <2> USE DEF n
  <2> QED
    BY <1>3, <2>1, StackCount, Zenon
<1>5. SUFFICES /\ d + g <= b + c
               /\ listening /\ (~broken' \/ ~sendAck) => d + g = b + c
  <2> HIDE DEF a, b, c, d, g
  <2>1. In(line, stack, received, e) = a + b + c
    BY DEF In, a, b, c
  <2>2. In(line', stack', received', e) = a + d + g
    BY DEF In, a, d, g
  <2>3. g \in Nat
    <3>1. received' \in Seq(Event)
      BY <1>1, OutcomeFacts
    <3> QED
      BY <3>1, WhereFinite DEF g
  <2> QED
    BY <1>2, <1>4, <1>5, <2>1, <2>2, <2>3 DEF Kept
<1>6. CASE received' = received /\ Len(stack) = 1
  <2>1. g = c /\ b = 0
    BY <1>2, <1>6
  <2> QED
    BY <1>2, <1>4, <2>1
<1>7. CASE Throws /\ Len(stack) = 2
  <2>1. g = c /\ broken' /\ sendAck
    BY <1>1, <1>7 DEF Throws
  <2> QED
    BY <1>2, <1>4, <2>1
<1>8. CASE Returns /\ Len(stack) = 2
  <2>1. received' = Handed(stack[2].event)
    BY <1>1, <1>8, StackFacts DEF Returns
  <2>2. b = One(stack[2].event = e)
    BY <1>2, <1>8
  <2>3. CASE listening
    <3>1. received' = Append(received, stack[2].event)
      BY <2>1, <2>3 DEF Handed
    <3>2. g = c + One(stack[2].event = e)
      <4>1. /\ stack[2].event = e => Count(Append(received, stack[2].event), {e}) = c + 1
            /\ stack[2].event # e => Count(Append(received, stack[2].event), {e}) = c
        BY <1>1, <1>8, ReceivedCount
      <4> QED
        BY <1>2, <3>1, <4>1 DEF One
    <3> QED
      BY <1>2, <1>4, <2>2, <3>2
  <2>4. CASE ~listening
    <3>1. g = c
      BY <2>1, <2>4 DEF Handed
    <3> QED
      BY <1>2, <1>4, <2>2, <2>4, <3>1 DEF One
  <2> QED
    BY <2>3, <2>4
<1>9. Len(stack) = 1 => received' = received
  <2>1. SUFFICES ASSUME Len(stack) = 1, Returns PROVE received' = received
    BY DEF Outcome, Throws, Waits
  <2>2. Top = stack[1]
    BY <1>1, <2>1, StackFacts
  <2>3. Top.cmd # Cnma
    BY <1>1, <2>2, Assumptions
  <2> QED
    BY <2>1, <2>3 DEF Returns
<1> QED
  BY <1>1, <1>6, <1>7, <1>8, <1>9 DEF Outcome, Waits

\* Reading a line moves an event, or gives it to the program.
LEMMA ReadKeeps ==
  ASSUME Basics, Read, NEW e \in Event
  PROVE  Kept(e)
<1> HIDE DEF FrameType
<1>1. GetLine /\ broken' = (broken \/ result'.how = "failed")
  BY DEF Read
<1>2. /\ TypeOK /\ StackOK /\ OneUnacknowledged
      /\ line \in Seq(LineType) /\ received \in Seq(Event) /\ stack \in Seq(FrameType)
      /\ Len(stack) \in 0..2
  BY DEF Basics, TypeOK, StackOK
<1>3. /\ stack # << >> /\ line # << >> /\ line' = Tail(line) /\ Head(line) \in LineType /\ Same
      /\ HandsOver \/ Pushes \/ (Head(line).kind # "event" /\ Outcome)
  BY <1>1, <1>2, GetLineFacts
<1> DEFINE h == Head(line)
           a == Count(line, EventLine(e))
           z == Count(line', EventLine(e))
           b == Count(stack, Frames(e))
           c == Count(received, {e})
           d == Count(stack', Frames(e))
           g == Count(received', {e})
<1>4. a \in Nat /\ z \in Nat /\ a = z + One(h.kind = "event" /\ h.of = e)
  BY <1>2, <1>3, LineCount
<1>5. b \in Nat /\ c \in Nat /\ (Len(stack) < 2 => b = 0)
  BY Counts
<1>6. CASE h.kind # "event" /\ Outcome
  <2>1. z = a
    BY <1>4, <1>6 DEF One
  <2>2. result'.how = "failed" => broken'
    BY <1>1
  <2> QED
    BY <1>3, <1>6, <2>1, <2>2, OutcomeKeeps
<1>7. /\ In(line, stack, received, e) = a + b + c
      /\ In(line', stack', received', e) = z + d + g
  BY DEF In
<1>8. CASE HandsOver
  <2>1. /\ h.kind = "event" /\ received' = Handed(h.of) /\ stack' = stack /\ h.of \in Event
    BY <1>3, <1>8, LineFacts DEF HandsOver
  <2>2. d = b
    BY <2>1
  <2>3. CASE listening
    <3>1. received' = Append(received, h.of)
      BY <2>1, <2>3 DEF Handed
    <3>2. g = c + One(h.of = e)
      <4>1. /\ h.of = e => Count(Append(received, h.of), {e}) = c + 1
            /\ h.of # e => Count(Append(received, h.of), {e}) = c
        BY <1>2, <2>1, ReceivedCount
      <4> QED
        BY <1>5, <3>1, <4>1 DEF One
    <3> HIDE DEF a, b, c, d, g, z
    <3> QED
      BY <1>4, <1>5, <1>7, <2>1, <2>2, <3>2 DEF Kept, One
  <2>4. CASE ~listening
    <3>1. g = c
      BY <2>1, <2>4 DEF Handed
    <3> HIDE DEF a, b, c, d, g, z
    <3> QED
      BY <1>4, <1>5, <1>7, <2>2, <2>4, <3>1 DEF Kept, One
  <2> QED
    BY <2>3, <2>4
<1>9. CASE Pushes
  <2>1. /\ h.kind = "event" /\ h.of \in Event /\ sendAck /\ IsDirect(h)
        /\ stack' = Append(stack, Frame(Cnma, h.of)) /\ received' = received
    BY <1>3, <1>9, LineFacts DEF Pushes, IsDirect
  <2>2. Len(stack) = 1
    <3>1. line[1] = h /\ 1 \in 1..Len(line)
      BY <1>2, <1>3, HeadTailProperties, LenProperties, EmptySeq
    <3>2. Len(stack) < 2
      BY <1>2, <2>1, <3>1 DEF OneUnacknowledged
    <3>3. Len(stack) \in 1..2
      BY <1>2, <1>3, StackFacts
    <3> DEFINE n == Len(stack)
    <3> HIDE DEF n
    <3>4. n = 1
      BY <3>2, <3>3 DEF n
    <3> QED
      BY <3>4 DEF n
  <2> DEFINE e1 == h.of
             f == Frame(Cnma, e1)
  <2>3. f \in FrameType /\ f.event = h.of
    <3>1. e1 \in Event \cup {Nothing} /\ Cnma \in Commands
      BY <2>1 DEF Commands
    <3> HIDE DEF e1
    <3>2. f \in FrameType /\ f.event = e1
      BY <3>1, FrameFacts
    <3> QED
      BY <3>2 DEF e1
  <2> HIDE DEF f
  <2>4. b = 0 /\ g = c
    BY <1>5, <2>1, <2>2
  <2>5. d = b + One(h.of = e)
    <3>1. f \in Frames(e) <=> h.of = e
      BY <2>3 DEF Frames
    <3>2. stack' = Append(stack, f)
      BY <2>1 DEF f
    <3>3. /\ f \notin Frames(e) => d = b
          /\ f \in Frames(e) => d = b + 1
      BY <1>2, <2>3, <3>2, CountAppend
    <3> HIDE DEF b, d, f
    <3> QED
      BY <1>5, <3>1, <3>3 DEF One
  <2> HIDE DEF a, b, c, d, g, z
  <2> QED
    BY <1>4, <1>5, <1>7, <2>1, <2>4, <2>5 DEF Kept, One
<1> QED
  BY <1>3, <1>6, <1>8, <1>9

\* A call that gives up keeps every event that was not being acknowledged.
LEMMA GivesUpKeeps ==
  ASSUME Basics, GivesUp, NEW e \in Event
  PROVE  Kept(e)
<1>1. TypeOK /\ StackOK /\ TimeOut /\ broken'
  BY DEF Basics, GivesUp
<1>2. /\ stack # << >> /\ line' = << >> /\ Same
      /\ line = << >> \/ (Len(line) = 1 /\ line[1].kind = "prompt")
      /\ Outcome
  BY <1>1, TimeOutFacts
<1>3. Count(line, EventLine(e)) = 0
  <2>1. \A i \in 1..Len(line) : line[i] \notin EventLine(e)
    <3> TAKE i \in 1..Len(line)
    <3>1. line[i].kind = "prompt"
      BY <1>2
    <3> QED
      BY <3>1 DEF EventLine
  <2> QED
    BY <2>1, CountNone
<1>4. Count(line', EventLine(e)) = 0
  BY <1>2, CountNone
<1> QED
  BY <1>1, <1>2, <1>3, <1>4, OutcomeKeeps

\* An event is in one place at most, and in none before it was reported; one
\* that was reported to the program is in one, unless an acknowledgement failed.
Delivery ==
  /\ \A e \in Event : /\ In(line, stack, received, e) <= 1
                      /\ e \notin reported => In(line, stack, received, e) = 0
  /\ heard # << >> => listening
  /\ \A i \in 1..Len(heard) : heard[i] \in reported
  /\ ~broken \/ ~sendAck => \A i \in 1..Len(heard) : In(line, stack, received, heard[i]) = 1

\* What a step leaves of a count, as numbers.
LEMMA LessOrSame ==
  ASSUME NEW a \in Nat, NEW b \in Nat, b <= a
  PROVE  (a <= 1 => b <= 1) /\ (a = 0 => b = 0)
  OBVIOUS

\* A step that keeps every event keeps the invariant.
LEMMA KeptDelivery ==
  ASSUME Basics, Basics', Delivery, \A e \in Event : Kept(e), heard' = heard, reported' = reported,
         listening => listening', sendAck' = sendAck, broken => broken'
  PROVE  Delivery'
<1> DEFINE p(e) == In(line, stack, received, e)
           q(e) == In(line', stack', received', e)
<1>1. \A e \in Event : p(e) \in Nat
  BY Counts
<1>2. \A e \in Event : q(e) \in Nat
  <2>1. /\ line' \in Seq(LineType) /\ stack' \in Seq(FrameType) /\ received' \in Seq(Event)
    BY DEF Basics, TypeOK
  <2> HIDE DEF FrameType
  <2>2. \A e \in Event : /\ Count(line', EventLine(e)) \in Nat /\ Count(stack', Frames(e)) \in Nat
                         /\ Count(received', {e}) \in Nat
    BY <2>1, WhereFinite
  <2> QED
    BY <2>2 DEF In
<1>3. \A e \in Event : q(e) <= p(e) /\ (listening /\ (~broken' \/ ~sendAck) => q(e) = p(e))
  BY DEF Kept
<1>4. \A i \in 1..Len(heard) : heard[i] \in Event
  BY ElementOfSeq DEF Basics, TypeOK
<1>5. /\ \A e \in Event : p(e) <= 1 /\ (e \notin reported => p(e) = 0)
      /\ heard # << >> => listening
      /\ \A i \in 1..Len(heard) : heard[i] \in reported
      /\ ~broken \/ ~sendAck => \A i \in 1..Len(heard) : p(heard[i]) = 1
  BY DEF Delivery
<1> HIDE DEF p, q
<1>6. \A e \in Event : q(e) <= 1 /\ (e \notin reported => q(e) = 0)
  BY <1>1, <1>2, <1>3, <1>5
<1>7. heard' # << >> => listening'
  BY <1>5
<1>8. ~broken' \/ ~sendAck' => \A i \in 1..Len(heard) : q(heard[i]) = 1
  <2>1. SUFFICES ASSUME ~broken' \/ ~sendAck, NEW i \in 1..Len(heard)
                 PROVE  q(heard[i]) = 1
    OBVIOUS
  <2>2. heard # << >>
    BY <2>1
  <2>3. listening /\ (~broken \/ ~sendAck)
    BY <1>5, <2>1, <2>2
  <2> QED
    BY <1>3, <1>4, <1>5, <2>1, <2>3
<1>9. \A i \in 1..Len(heard') : heard'[i] \in reported'
  BY <1>5
<1> QED
  BY <1>6, <1>7, <1>8, <1>9 DEF Delivery, q

\* A step that moves no event.
LEMMA SameKept ==
  ASSUME Basics, stack' = stack \/ (Len(stack) < 2 /\ Len(stack') = 1), Basics',
         NEW t \in Seq(LineType), \A j \in 1..Len(t) : t[j].kind # "event", line' = line \o t,
         received' = received, NEW e \in Event
  PROVE  Kept(e)
<1> HIDE DEF FrameType
<1>1. /\ line \in Seq(LineType) /\ stack' \in Seq(FrameType)
      /\ Len(stack') \in 0..2
      /\ stack' # << >> => stack'[1].event = Nothing
  BY DEF Basics, TypeOK, StackOK
<1>2. Count(line', EventLine(e)) = Count(line, EventLine(e))
  <2>1. \A j \in 1..Len(t) : t[j] \notin EventLine(e)
    BY DEF EventLine
  <2> QED
    BY <1>1, <2>1, CountConcat
<1>3. Count(stack', Frames(e)) = Count(stack, Frames(e))
  <2>1. CASE stack' = stack
    BY <2>1
  <2>2. CASE Len(stack) < 2 /\ Len(stack') = 1
    <3>1. Count(stack, Frames(e)) = 0
      BY <2>2, Counts
    <3>2. Len(stack') < 2
      BY <2>2
    <3>3. Count(stack', Frames(e)) = 0
      BY <1>1, <3>2, StackCount, Zenon
    <3> QED
      BY <3>1, <3>3
  <2> QED
    BY <2>1, <2>2
<1>4. In(line', stack', received', e) = In(line, stack, received, e)
  BY <1>2, <1>3 DEF In
<1>5. In(line, stack, received, e) \in Nat
  BY Counts
<1> DEFINE p == In(line, stack, received, e)
<1>6. p <= p
  <2> HIDE DEF p
  <2> QED
    BY <1>5 DEF p
<1> QED
  BY <1>4, <1>6 DEF Kept

\* The TA reports an event.
LEMMA ReportsDelivery ==
  ASSUME Basics, Basics', Delivery, NEW e \in Event, Reports(e)
  PROVE  Delivery'
<1> DEFINE x == Item("event", e, Nothing)
<1>1. /\ x \in LineType /\ x.kind = "event" /\ x.of = e
      /\ line' = Append(line, x)
      /\ e \notin reported /\ reported' = reported \cup {e}
      /\ heard' = IF listening THEN Append(heard, e) ELSE heard
      /\ stack' = stack /\ listening' = listening /\ sendAck' = sendAck
      /\ received' = received /\ broken' = broken
  BY ReportsFacts
<1> HIDE DEF x
<1> DEFINE p(d) == In(line, stack, received, d)
           q(d) == In(line', stack', received', d)
<1>2. \A d \in Event : p(d) \in Nat
  BY Counts
<1>3. \A d \in Event : (d = e => q(d) = p(d) + 1) /\ (d # e => q(d) = p(d))
  <2> TAKE d \in Event
  <2>1. x \in EventLine(d) <=> d = e
    BY <1>1 DEF EventLine
  <2>2. line \in Seq(LineType)
    BY DEF Basics, TypeOK
  <2>3. /\ x \notin EventLine(d) => Count(Append(line, x), EventLine(d)) = Count(line, EventLine(d))
        /\ x \in EventLine(d) => Count(Append(line, x), EventLine(d)) = Count(line, EventLine(d)) + 1
    BY <1>1, <2>2, CountAppend
  <2>4. /\ d = e => Count(line', EventLine(d)) = Count(line, EventLine(d)) + 1
        /\ d # e => Count(line', EventLine(d)) = Count(line, EventLine(d))
    BY <1>1, <2>1, <2>3
  <2>5. /\ Count(line, EventLine(d)) \in Nat /\ Count(stack, Frames(d)) \in Nat
        /\ Count(received, {d}) \in Nat
    BY Counts
  <2>6. stack' = stack /\ received' = received
    BY <1>1
  <2> QED
    BY <2>4, <2>5, <2>6 DEF In
<1>4. \A i \in 1..Len(heard) : heard[i] \in Event
  BY ElementOfSeq DEF Basics, TypeOK
<1>5. /\ \A d \in Event : p(d) <= 1 /\ (d \notin reported => p(d) = 0)
      /\ heard # << >> => listening
      /\ \A i \in 1..Len(heard) : heard[i] \in reported
      /\ ~broken \/ ~sendAck => \A i \in 1..Len(heard) : p(heard[i]) = 1
  BY DEF Delivery
<1> HIDE DEF p, q
<1>6. p(e) = 0 /\ q(e) = 1
  BY <1>1, <1>2, <1>3, <1>5
<1>7. \A d \in Event : q(d) <= 1 /\ (d \notin reported' => q(d) = 0)
  <2> TAKE d \in Event
  <2>1. CASE d = e
    BY <1>1, <1>6, <2>1
  <2>2. CASE d # e
    BY <1>1, <1>3, <1>5, <2>2
  <2> QED
    BY <2>1, <2>2
<1>8. \A i \in 1..Len(heard) : heard[i] # e
  BY <1>1, <1>5
<1>9. CASE listening
  <2> DEFINE h == Append(heard, e)
  <2>1. /\ Len(h) = Len(heard) + 1 /\ Len(heard) \in Nat /\ h[Len(heard) + 1] = e
        /\ \A i \in 1..Len(heard) : h[i] = heard[i]
    BY AppendProperties, LenProperties DEF Basics, TypeOK
  <2>2. heard' = h
    BY <1>1, <1>9
  <2> HIDE DEF h
  <2>3. \A i \in 1..Len(h) : i \in 1..Len(heard) \/ i = Len(heard) + 1
    BY <2>1
  <2>4. \A i \in 1..Len(h) : h[i] \in reported'
    BY <1>1, <1>5, <2>1, <2>3
  <2>5. ~broken' \/ ~sendAck' => \A i \in 1..Len(h) : q(h[i]) = 1
    BY <1>1, <1>3, <1>4, <1>5, <1>6, <1>8, <2>1, <2>3
  <2>6. listening'
    BY <1>1, <1>9
  <2> QED
    BY <1>7, <2>2, <2>4, <2>5, <2>6 DEF Delivery, q
<1>10. CASE ~listening
  <2>1. heard' = heard /\ listening' = listening
    BY <1>1, <1>10
  <2>2. \A i \in 1..Len(heard) : heard[i] \in reported'
    BY <1>1, <1>5
  <2>3. ~broken' \/ ~sendAck' => \A i \in 1..Len(heard) : q(heard[i]) = 1
    BY <1>1, <1>3, <1>4, <1>5, <1>8
  <2> QED
    BY <1>5, <1>7, <2>1, <2>2, <2>3 DEF Delivery, q
<1> QED
  BY <1>9, <1>10

\* The invariant Delivery holds at the start.
LEMMA InitDelivery ==
  ASSUME Init
  PROVE  Delivery
<1>1. line = << >> /\ stack = << >> /\ received = << >> /\ heard = << >>
  BY DEF Init, AtInit
<1>2. Len(<< >>) = 0 /\ 1..0 = {}
  OBVIOUS
<1>3. \A e \in Event : In(line, stack, received, e) = 0
  <2> TAKE e \in Event
  <2>1. \A i \in 1..Len(<< >>) : FALSE
    BY <1>2
  <2>2. Count(<< >>, EventLine(e)) = 0 /\ Count(<< >>, Frames(e)) = 0 /\ Count(<< >>, {e}) = 0
    BY <2>1, CountNone
  <2> QED
    BY <1>1, <2>2 DEF In
<1> QED
  BY <1>1, <1>2, <1>3 DEF Delivery

\* Every step keeps Delivery.
LEMMA NextDelivery ==
  ASSUME Basics, Delivery, [Next]_vars
  PROVE  Delivery'
<1>1. Basics'
  BY NextBasics
<1>2. SUFFICES ASSUME ~(\E e \in Event : Reports(e))
               PROVE  /\ \A e \in Event : Kept(e)
                      /\ heard' = heard /\ reported' = reported /\ (listening => listening')
                      /\ sendAck' = sendAck /\ (broken => broken')
  BY <1>1, KeptDelivery, ReportsDelivery
<1> DEFINE z == << >>
<1>3. z \in Seq(LineType) /\ \A j \in 1..Len(z) : z[j].kind # "event"
  OBVIOUS
<1>4. line \o z = line
  BY ConcatEmptySeq DEF Basics, TypeOK
<1> HIDE DEF z
<1>5. CASE \E c \in Command : Call(c)
  <2>1. PICK c \in Command : Call(c)
    BY <1>5
  <2>2. /\ stack = << >> /\ stack' = <<Frame(c, Nothing)>> /\ line' = line /\ received' = received
        /\ heard' = heard /\ reported' = reported /\ listening' = listening
        /\ sendAck' = sendAck /\ broken' = broken
    BY <2>1 DEF Call, Chat
  <2>3. Len(stack) < 2 /\ Len(stack') = 1
    BY <2>2
  <2>4. \A e \in Event : Kept(e)
    BY <1>1, <1>3, <1>4, <2>2, <2>3, SameKept
  <2> QED
    BY <2>2, <2>4
<1>6. CASE Read
  <2>1. \A e \in Event : Kept(e)
    BY <1>6, ReadKeeps
  <2> QED
    BY <1>6, <2>1 DEF Read, GetLine
<1>7. CASE GivesUp
  <2>1. \A e \in Event : Kept(e)
    BY <1>7, GivesUpKeeps
  <2> QED
    BY <1>7, <2>1 DEF GivesUp, TimeOut
<1>8. CASE SetEventHandler
  <2>1. /\ line' = line /\ stack' = stack /\ received' = received /\ heard' = heard
        /\ reported' = reported /\ listening' /\ sendAck' = sendAck /\ broken' = broken
    BY <1>8 DEF SetEventHandler
  <2>2. \A e \in Event : Kept(e)
    BY <1>1, <1>3, <1>4, <2>1, SameKept
  <2> QED
    BY <2>1, <2>2
<1>9. CASE Executes
  <2>1. PICK c \in Commands \cup {Pdu} : ExecutedBy(c) /\ Execution(c)
    BY <1>9, ExecutesFacts DEF Basics
  <2>2. PICK t \in Seq(LineType) :
          /\ \A j \in 1..Len(t) : t[j].kind # "event"
          /\ line' = line \o t
    BY <2>1, ExecutionAdds DEF Basics
  <2>3. /\ stack' = stack /\ received' = received /\ heard' = heard
        /\ reported' = reported /\ listening' = listening /\ sendAck' = sendAck /\ broken' = broken
    BY <2>1 DEF ExecutedBy
  <2>4. \A e \in Event : Kept(e)
    BY <1>1, <2>2, <2>3, SameKept
  <2> QED
    BY <2>3, <2>4
<1>10. CASE UNCHANGED vars
  <2>1. /\ line' = line /\ stack' = stack /\ received' = received /\ heard' = heard
        /\ reported' = reported /\ listening' = listening /\ sendAck' = sendAck /\ broken' = broken
    BY <1>10 DEF vars, atVars
  <2>2. \A e \in Event : Kept(e)
    BY <1>1, <1>3, <1>4, <2>1, SameKept
  <2> QED
    BY <2>1, <2>2
<1>11. CASE Transmits
  <2>1. PICK t \in Seq(LineType) : line' = line \o t /\ \A j \in 1..Len(t) : t[j].kind # "event"
    BY <1>11, TransmitsFacts DEF Basics
  <2>2. /\ stack' = stack /\ received' = received /\ heard' = heard
        /\ reported' = reported /\ listening' = listening /\ sendAck' = sendAck /\ broken' = broken
    BY <1>11, TransmitsFacts DEF Basics
  <2>3. \A e \in Event : Kept(e)
    BY <1>1, <2>1, <2>2, SameKept
  <2> QED
    BY <2>2, <2>3
<1> QED
  BY <1>2, <1>5, <1>6, <1>7, <1>8, <1>9, <1>10, <1>11 DEF Next

-----------------------------------------------------------------------------
(* The order of the events. *)

\* The events the program was given, and after them those in the line.
EventLines == {x \in LineType : x.kind = "event"}
Nth(r, es, i) == IF i <= Len(r) THEN r[i] ELSE es[i - Len(r)].of
\* The last of them are those the program is to hear of; the first n it was
\* given or is to ignore.
InOrder(r, es, h, n, rep) ==
  /\ n \in Nat /\ Len(r) + Len(es) = n + Len(h)
  /\ \A i \in 1..(Len(r) + Len(es)) : Nth(r, es, i) \in rep
  /\ \A i \in 1..n : \A j \in 1..Len(h) : Nth(r, es, i) # h[j]
  /\ \A j \in 1..Len(h) : Nth(r, es, n + j) = h[j]
Orderly(l, r, h, rep) == \E es, n : Takes(l, EventLines, es) /\ InOrder(r, es, h, n, rep)
Order == ~sendAck => /\ ~listening => received = << >> /\ heard = << >>
                     /\ Orderly(line, received, heard, reported)

\* Other things at the end of the line.
LEMMA TakesOthers ==
  ASSUME NEW K, NEW l \in Seq(LineType), NEW s, Takes(l, K, s), NEW t \in Seq(LineType),
         \A j \in 1..Len(t) : t[j] \notin K
  PROVE  Takes(l \o t, K, s)
<1>1. PICK g : Picks(l, K, s, g)
  BY DEF Takes
<1> DEFINE m == l \o t
<1>2. /\ Len(m) = Len(l) + Len(t) /\ Len(l) \in Nat /\ Len(t) \in Nat
      /\ \A k \in 1..(Len(l) + Len(t)) : m[k] = IF k <= Len(l) THEN l[k] ELSE t[k - Len(l)]
  BY ConcatProperties, LenProperties
<1> HIDE DEF m
<1>3. \A j \in 1..Len(s) : g[j] \in 1..Len(l)
  BY <1>1 DEF Picks
<1>4. g \in [1..Len(s) -> 1..Len(m)]
  BY <1>1, <1>2, <1>3 DEF Picks
<1>5. \A j \in 1..Len(s) : s[j] = m[g[j]] /\ m[g[j]] \in K
  <2> TAKE j \in 1..Len(s)
  <2>1. m[g[j]] = l[g[j]]
    BY <1>2, <1>3
  <2> QED
    BY <1>1, <2>1 DEF Picks
<1>6. ASSUME NEW k \in 1..Len(m), m[k] \in K PROVE \E j \in 1..Len(s) : g[j] = k
  <2>1. CASE k <= Len(l)
    <3>1. k \in 1..Len(l) /\ l[k] = m[k]
      BY <1>2, <2>1
    <3> QED
      BY <1>1, <1>6, <3>1 DEF Picks
  <2>2. CASE ~(k <= Len(l))
    <3>1. k - Len(l) \in 1..Len(t) /\ m[k] = t[k - Len(l)]
      BY <1>2, <2>2
    <3> QED
      BY <1>6, <3>1
  <2> QED
    BY <2>1, <2>2
<1>7. Picks(m, K, s, g)
  BY <1>1, <1>4, <1>5, <1>6 DEF Picks
<1> QED
  BY <1>7 DEF Takes, m

\* The event at the head of the line is given to the program.
LEMMA GivenInOrder ==
  ASSUME NEW r \in Seq(Event), NEW es \in Seq(LineType), es # << >>, es[1].of \in Event,
         NEW h \in Seq(Event), NEW n, NEW rep, InOrder(r, es, h, n, rep)
  PROVE  InOrder(Append(r, es[1].of), Tail(es), h, n, rep)
<1> DEFINE x == es[1].of
           u == Append(r, x)
           v == Tail(es)
<1>1. /\ Len(u) = Len(r) + 1 /\ u[Len(r) + 1] = x /\ \A i \in 1..Len(r) : u[i] = r[i]
      /\ Len(r) \in Nat /\ Len(h) \in Nat
  BY AppendProperties, LenProperties
<1>2. /\ Len(v) = Len(es) - 1 /\ Len(es) \in Nat \ {0} /\ \A k \in 1..Len(v) : v[k] = es[k + 1]
  BY HeadTailProperties, LenProperties, EmptySeq
<1>3. n \in Nat /\ Len(r) + Len(es) = n + Len(h)
  BY DEF InOrder
<1> HIDE DEF u, v
<1>4. \A i \in 1..(Len(r) + Len(es)) : Nth(u, v, i) = Nth(r, es, i)
  <2> TAKE i \in 1..(Len(r) + Len(es))
  <2>1. CASE i <= Len(r)
    <3>1. u[i] = r[i] /\ i <= Len(u)
      BY <1>1, <2>1
    <3> QED
      BY <2>1, <3>1 DEF Nth
  <2>2. CASE i = Len(r) + 1
    <3>1. u[i] = es[1].of /\ i <= Len(u) /\ ~(i <= Len(r)) /\ i - Len(r) = 1
      BY <1>1, <2>2
    <3> QED
      BY <3>1 DEF Nth
  <2>3. CASE i > Len(r) + 1
    <3>1. i - Len(u) \in 1..Len(v) /\ (i - Len(u)) + 1 = i - Len(r)
      BY <1>1, <1>2, <2>3
    <3>2. v[i - Len(u)] = es[i - Len(r)]
      BY <1>2, <3>1
    <3>3. ~(i <= Len(u)) /\ ~(i <= Len(r))
      BY <1>1, <2>3
    <3> QED
      BY <3>2, <3>3 DEF Nth
  <2> QED
    BY <1>1, <1>2, <2>1, <2>2, <2>3
<1>5. Len(u) + Len(v) = Len(r) + Len(es)
  BY <1>1, <1>2
<1>6. /\ \A i \in 1..n : i \in 1..(Len(r) + Len(es))
      /\ \A j \in 1..Len(h) : n + j \in 1..(Len(r) + Len(es))
  BY <1>1, <1>2, <1>3
<1>7. InOrder(u, v, h, n, rep)
  <2>1. \A i \in 1..(Len(u) + Len(v)) : Nth(u, v, i) \in rep
    BY <1>4, <1>5 DEF InOrder
  <2>2. \A i \in 1..n : \A j \in 1..Len(h) : Nth(u, v, i) # h[j]
    BY <1>4, <1>6 DEF InOrder
  <2>3. \A j \in 1..Len(h) : Nth(u, v, n + j) = h[j]
    BY <1>4, <1>6 DEF InOrder
  <2> QED
    BY <1>3, <1>5, <2>1, <2>2, <2>3 DEF InOrder
<1> QED
  BY <1>7 DEF u, v

\* The event at the head of the line is ignored.
LEMMA IgnoredInOrder ==
  ASSUME NEW es \in Seq(LineType), es # << >>, NEW n, NEW rep,
         InOrder(<< >>, es, << >>, n, rep)
  PROVE  InOrder(<< >>, Tail(es), << >>, n - 1, rep)
<1> DEFINE v == Tail(es)
           z == << >>
<1>1. /\ Len(v) = Len(es) - 1 /\ Len(es) \in Nat \ {0} /\ \A k \in 1..Len(v) : v[k] = es[k + 1]
  BY HeadTailProperties, LenProperties, EmptySeq
<1>2. Len(z) = 0 /\ 1..0 = {}
  OBVIOUS
<1>3. InOrder(z, es, z, n, rep)
  OBVIOUS
<1> HIDE DEF v, z
<1>4. n \in Nat /\ Len(es) = n
  BY <1>1, <1>2, <1>3 DEF InOrder
<1>5. \A i \in 1..Len(v) : Nth(z, v, i) = Nth(z, es, i + 1) /\ i + 1 \in 1..Len(es)
  <2> TAKE i \in 1..Len(v)
  <2>1. ~(i <= 0) /\ ~(i + 1 <= 0) /\ i - 0 = i /\ i + 1 - 0 = i + 1 /\ i + 1 \in 1..Len(es)
    BY <1>1
  <2> QED
    BY <1>1, <1>2, <2>1 DEF Nth
<1>6. \A i \in 1..(Len(z) + Len(es)) : Nth(z, es, i) \in rep
  BY <1>3 DEF InOrder
<1>7. Len(z) + Len(es) = Len(es) /\ Len(z) + Len(v) = Len(v)
  BY <1>1, <1>2
<1>8. \A i \in 1..(Len(z) + Len(v)) : Nth(z, v, i) \in rep
  BY <1>5, <1>6, <1>7
<1>9. n - 1 \in Nat /\ Len(z) + Len(v) = (n - 1) + Len(z)
  BY <1>1, <1>2, <1>4
<1>10. InOrder(z, v, z, n - 1, rep)
  BY <1>2, <1>8, <1>9 DEF InOrder
<1> QED
  BY <1>10 DEF v, z

\* One more event is reported.
LEMMA ReportedInOrder ==
  ASSUME NEW r \in Seq(Event), NEW es \in Seq(LineType), NEW x \in LineType, NEW h \in Seq(Event),
         NEW n, NEW rep, InOrder(r, es, h, n, rep), x.of \in Event, x.of \notin rep,
         \A j \in 1..Len(h) : h[j] \in rep
  PROVE  /\ InOrder(r, Append(es, x), Append(h, x.of), n, rep \cup {x.of})
         /\ h = << >> => InOrder(r, Append(es, x), h, n + 1, rep \cup {x.of})
<1> DEFINE v == Append(es, x)
           e == x.of
           w == Append(h, e)
<1>1. /\ Len(v) = Len(es) + 1 /\ v[Len(es) + 1] = x /\ \A i \in 1..Len(es) : v[i] = es[i]
      /\ Len(r) \in Nat /\ Len(es) \in Nat /\ Len(h) \in Nat
  BY AppendProperties, LenProperties
<1>2. Len(w) = Len(h) + 1 /\ w[Len(h) + 1] = e /\ \A i \in 1..Len(h) : w[i] = h[i]
  BY AppendProperties
<1>3. n \in Nat /\ Len(r) + Len(es) = n + Len(h)
  BY DEF InOrder
<1> DEFINE N == Len(r) + Len(es)
<1>4. \A i \in 1..N : Nth(r, v, i) = Nth(r, es, i)
  <2> HIDE DEF v
  <2> TAKE i \in 1..N
  <2>1. CASE i <= Len(r)
    BY <2>1 DEF Nth
  <2>2. CASE ~(i <= Len(r))
    <3>1. i - Len(r) \in 1..Len(es)
      BY <1>1, <2>2
    <3> QED
      BY <1>1, <2>2, <3>1 DEF Nth
  <2> QED
    BY <2>1, <2>2
<1>5. Nth(r, v, N + 1) = e
  <2> HIDE DEF v
  <2>1. ~(N + 1 <= Len(r)) /\ N + 1 - Len(r) = Len(es) + 1
    BY <1>1
  <2> QED
    BY <1>1, <2>1 DEF Nth
<1>6. /\ \A i \in 1..N : Nth(r, es, i) \in rep
      /\ \A i \in 1..n : \A j \in 1..Len(h) : Nth(r, es, i) # h[j]
      /\ \A j \in 1..Len(h) : Nth(r, es, n + j) = h[j]
  BY DEF InOrder
<1> HIDE DEF v, w, e
<1>7. N \in Nat /\ Len(r) + Len(v) = N + 1 /\ N = n + Len(h)
  BY <1>1, <1>3
<1>8. e \notin rep
  BY DEF e
<1> HIDE DEF N
<1>9. \A i \in 1..(N + 1) : Nth(r, v, i) \in rep \cup {e}
  <2> TAKE i \in 1..(N + 1)
  <2>1. i \in 1..N \/ i = N + 1
    BY <1>7
  <2> QED
    BY <1>4, <1>5, <1>6, <2>1
<1>10. \A i \in 1..n : i \in 1..N
  BY <1>1, <1>3, <1>7
<1>11. InOrder(r, v, w, n, rep \cup {e})
  <2>1. \A i \in 1..n : \A j \in 1..Len(w) : Nth(r, v, i) # w[j]
    <3> TAKE i \in 1..n
    <3> TAKE j \in 1..Len(w)
    <3>1. Nth(r, v, i) = Nth(r, es, i) /\ Nth(r, es, i) \in rep
      BY <1>4, <1>6, <1>10
    <3>2. j \in 1..Len(h) \/ j = Len(h) + 1
      BY <1>1, <1>2
    <3> QED
      BY <1>2, <1>6, <1>8, <3>1, <3>2
  <2>2. \A j \in 1..Len(w) : Nth(r, v, n + j) = w[j]
    <3> TAKE j \in 1..Len(w)
    <3>1. CASE j \in 1..Len(h)
      <4>1. n + j \in 1..N
        BY <1>1, <1>3, <1>7, <3>1
      <4> QED
        BY <1>2, <1>4, <1>6, <3>1, <4>1
    <3>2. CASE j = Len(h) + 1
      <4>1. n + j = N + 1
        BY <1>1, <1>3, <1>7, <3>2
      <4> QED
        BY <1>2, <1>5, <3>2, <4>1
    <3> QED
      BY <1>1, <1>2, <3>1, <3>2
  <2>3. Len(r) + Len(v) = n + Len(w)
    BY <1>1, <1>2, <1>3, <1>7
  <2> QED
    BY <1>3, <1>7, <1>9, <2>1, <2>2, <2>3 DEF InOrder
<1>12. h = << >> => InOrder(r, v, h, n + 1, rep \cup {e})
  <2>1. SUFFICES ASSUME h = << >> PROVE InOrder(r, v, h, n + 1, rep \cup {e})
    OBVIOUS
  <2>2. Len(h) = 0 /\ 1..Len(h) = {}
    BY <2>1
  <2>3. n + 1 \in Nat /\ Len(r) + Len(v) = n + 1 + Len(h)
    BY <1>3, <1>7, <2>2
  <2> QED
    BY <1>7, <1>9, <2>2, <2>3 DEF InOrder
<1> QED
  BY <1>11, <1>12 DEF v, w, e

-----------------------------------------------------------------------------
(* The order, step by step. *)

\* Without acknowledgements a call that ends or goes on gives no event away.
LEMMA OutcomeGives ==
  ASSUME Basics, ~sendAck, stack # << >>, Outcome
  PROVE  received' = received
<1>1. /\ Len(stack) = 1 /\ stack[1].cmd \in Command
  BY StackFacts DEF Basics, StackOK
<1>2. Top.cmd # Cnma
  BY <1>1, StackFacts, Assumptions DEF Basics
<1> QED
  BY <1>2 DEF Outcome, Throws, Returns, Waits

\* Which lines are events.
LEMMA EventLineFacts ==
  ASSUME NEW x \in LineType
  PROVE  /\ x \in EventLines <=> x.kind = "event"
         /\ x.kind = "event" => x.of \in Event
  BY LineFacts DEF EventLines

\* Reading a line keeps the order.
LEMMA ReadOrder ==
  ASSUME Basics, Order, Read
  PROVE  Order'
<1>1. /\ TypeOK /\ StackOK /\ line \in Seq(LineType) /\ received \in Seq(Event) /\ heard \in Seq(Event)
  BY DEF Basics, TypeOK
<1>2. GetLine /\ heard' = heard /\ reported' = reported
  BY DEF Read
<1>3. /\ stack # << >> /\ line # << >> /\ line' = Tail(line) /\ Head(line) \in LineType
      /\ listening' = listening /\ sendAck' = sendAck
      /\ HandsOver \/ Pushes \/ (Head(line).kind # "event" /\ Outcome)
  BY <1>1, <1>2, GetLineFacts DEF Same
<1>4. SUFFICES ASSUME ~sendAck
               PROVE  /\ ~listening => received' = << >> /\ heard = << >>
                      /\ Orderly(Tail(line), received', heard, reported)
  BY <1>2, <1>3 DEF Order
<1>5. /\ ~listening => received = << >> /\ heard = << >>
      /\ Orderly(line, received, heard, reported)
  BY <1>4 DEF Order
<1>6. PICK es, n : Takes(line, EventLines, es) /\ InOrder(received, es, heard, n, reported)
  BY <1>5 DEF Orderly
<1>7. CASE Head(line).kind # "event" /\ Outcome
  <2>1. Head(line) \notin EventLines
    BY <1>3, <1>7, EventLineFacts
  <2>2. Takes(Tail(line), EventLines, es)
    BY <1>1, <1>3, <1>6, <2>1, OtherRead
  <2>3. received' = received
    BY <1>3, <1>4, <1>7, OutcomeGives
  <2> QED
    BY <1>5, <1>6, <2>2, <2>3 DEF Orderly
<1>8. CASE HandsOver
  <2> DEFINE e == Head(line).of
  <2>1. received' = Handed(e) /\ Head(line).kind = "event"
    BY <1>8 DEF HandsOver
  <2>2. Head(line) \in EventLines /\ e \in Event
    BY <1>3, <2>1, EventLineFacts
  <2>3. es # << >> /\ es[1] = Head(line) /\ Takes(Tail(line), EventLines, Tail(es))
    BY <1>1, <1>3, <1>6, <2>2, TakenRead
  <2>4. es \in Seq(LineType) /\ es[1].of = e /\ es[1].of \in Event
    BY <1>6, <2>2, <2>3 DEF Takes
  <2> HIDE DEF e
  <2>5. CASE listening
    <3>1. received' = Append(received, es[1].of)
      BY <2>1, <2>4, <2>5 DEF Handed
    <3>2. InOrder(received', Tail(es), heard, n, reported)
      BY <1>1, <1>6, <2>3, <2>4, <3>1, GivenInOrder
    <3> QED
      BY <2>3, <2>5, <3>2 DEF Orderly
  <2>6. CASE ~listening
    <3>1. received' = << >> /\ received = << >> /\ heard = << >>
      BY <1>5, <2>1, <2>6 DEF Handed
    <3>2. InOrder(<< >>, es, << >>, n, reported)
      BY <1>6, <3>1
    <3>3. InOrder(<< >>, Tail(es), << >>, n - 1, reported)
      BY <2>3, <2>4, <3>2, IgnoredInOrder
    <3> QED
      BY <2>3, <3>1, <3>3 DEF Orderly
  <2> QED
    BY <2>5, <2>6
<1> QED
  BY <1>3, <1>4, <1>7, <1>8 DEF Pushes

\* A call that gives up keeps the order.
LEMMA GivesUpOrder ==
  ASSUME Basics, Order, GivesUp
  PROVE  Order'
<1>1. /\ TypeOK /\ StackOK /\ TimeOut /\ heard' = heard /\ reported' = reported
  BY DEF Basics, GivesUp
<1>2. /\ stack # << >> /\ line' = << >> /\ listening' = listening /\ sendAck' = sendAck
      /\ line = << >> \/ (Len(line) = 1 /\ line[1].kind = "prompt")
      /\ Outcome
  BY <1>1, TimeOutFacts DEF Same
<1>3. SUFFICES ASSUME ~sendAck
               PROVE  /\ ~listening => received' = << >> /\ heard = << >>
                      /\ Orderly(<< >>, received', heard, reported)
  BY <1>1, <1>2 DEF Order
<1>4. /\ ~listening => received = << >> /\ heard = << >>
      /\ Orderly(line, received, heard, reported)
  BY <1>3 DEF Order
<1>5. received' = received
  BY <1>2, <1>3, OutcomeGives
<1>6. PICK es, n : Takes(line, EventLines, es) /\ InOrder(received, es, heard, n, reported)
  BY <1>4 DEF Orderly
<1>7. \A k \in 1..Len(line) : line[k] \notin EventLines
  <2> TAKE k \in 1..Len(line)
  <2>1. line[k].kind = "prompt"
    BY <1>2
  <2> QED
    BY <2>1 DEF EventLines
<1>8. es = << >>
  BY <1>6, <1>7, TakesOnly
<1>9. Takes(<< >>, EventLines, es)
  BY <1>8, TakesEmpty
<1> QED
  BY <1>4, <1>5, <1>6, <1>9 DEF Orderly

\* What is added to the line is no event.
LEMMA AddedOrder ==
  ASSUME Basics, Order, NEW t \in Seq(LineType), \A j \in 1..Len(t) : t[j].kind # "event",
         line' = line \o t, received' = received, heard' = heard, reported' = reported,
         listening' = listening \/ listening', sendAck' = sendAck
  PROVE  Order'
<1>1. line \in Seq(LineType) /\ listening \in BOOLEAN
  BY DEF Basics, TypeOK
<1>2. SUFFICES ASSUME ~sendAck
               PROVE  /\ ~listening' => received = << >> /\ heard = << >>
                      /\ Orderly(line \o t, received, heard, reported)
  BY DEF Order
<1>3. /\ ~listening => received = << >> /\ heard = << >>
      /\ Orderly(line, received, heard, reported)
  BY <1>2 DEF Order
<1>4. PICK es, n : Takes(line, EventLines, es) /\ InOrder(received, es, heard, n, reported)
  BY <1>3 DEF Orderly
<1>5. \A j \in 1..Len(t) : t[j] \notin EventLines
  BY DEF EventLines
<1>6. Takes(line \o t, EventLines, es)
  BY <1>1, <1>4, <1>5, TakesOthers
<1> QED
  BY <1>3, <1>4, <1>6 DEF Orderly

\* The TA reports an event.
LEMMA ReportsOrder ==
  ASSUME Basics, Delivery, Order, NEW e \in Event, Reports(e)
  PROVE  Order'
<1> DEFINE x == Item("event", e, Nothing)
<1>1. /\ x \in LineType /\ x.kind = "event" /\ x.of = e
      /\ line' = Append(line, x)
      /\ e \notin reported /\ reported' = reported \cup {e}
      /\ heard' = IF listening THEN Append(heard, e) ELSE heard
      /\ listening' = listening /\ sendAck' = sendAck /\ received' = received
  BY ReportsFacts
<1> HIDE DEF x
<1>2. /\ line \in Seq(LineType) /\ received \in Seq(Event) /\ heard \in Seq(Event)
  BY DEF Basics, TypeOK
<1>3. SUFFICES ASSUME ~sendAck
               PROVE  /\ ~listening => received = << >> /\ heard' = << >>
                      /\ Orderly(Append(line, x), received, heard', reported \cup {e})
  BY <1>1 DEF Order
<1>4. /\ ~listening => received = << >> /\ heard = << >>
      /\ Orderly(line, received, heard, reported)
  BY <1>3 DEF Order
<1>5. PICK es, n : Takes(line, EventLines, es) /\ InOrder(received, es, heard, n, reported)
  BY <1>4 DEF Orderly
<1>6. es \in Seq(LineType)
  BY <1>5 DEF Takes
<1>7. Takes(Append(line, x), EventLines, Append(es, x))
  <2>1. <<x>> \in Seq(LineType) /\ Len(<<x>>) = 1 /\ <<x>>[1] = x
    BY <1>1
  <2>2. x \in EventLines
    BY <1>1 DEF EventLines
  <2>3. \A j \in 1..Len(<<x>>) : <<x>>[j] \in EventLines
    <3> TAKE j \in 1..Len(<<x>>)
    <3>1. j = 1
      BY <2>1
    <3> QED
      BY <2>1, <2>2, <3>1
  <2>4. Takes(line \o <<x>>, EventLines, es \o <<x>>)
    BY <1>2, <1>5, <2>1, <2>3, TakesMore
  <2>5. line \o <<x>> = Append(line, x) /\ es \o <<x>> = Append(es, x)
    BY <1>1, <1>2, <1>6, AppendIsConcat
  <2> QED
    BY <2>4, <2>5
<1>8. \A j \in 1..Len(heard) : heard[j] \in reported
  BY DEF Delivery
<1>9. /\ InOrder(received, Append(es, x), Append(heard, e), n, reported \cup {e})
      /\ heard = << >> => InOrder(received, Append(es, x), heard, n + 1, reported \cup {e})
  <2>1. x.of \in Event /\ x.of \notin reported
    BY <1>1
  <2>2. /\ InOrder(received, Append(es, x), Append(heard, x.of), n, reported \cup {x.of})
        /\ heard = << >> => InOrder(received, Append(es, x), heard, n + 1, reported \cup {x.of})
    BY <1>1, <1>2, <1>5, <1>6, <1>8, <2>1, ReportedInOrder
  <2> QED
    BY <1>1, <2>2
<1>10. CASE listening
  <2>1. heard' = Append(heard, e)
    BY <1>1, <1>10
  <2> QED
    BY <1>7, <1>9, <1>10, <2>1 DEF Orderly
<1>11. CASE ~listening
  <2>1. heard' = heard /\ heard = << >> /\ received = << >>
    BY <1>1, <1>4, <1>11
  <2> QED
    BY <1>7, <1>9, <2>1 DEF Orderly
<1> QED
  BY <1>10, <1>11

\* The invariant Order holds at the start.
LEMMA InitOrder ==
  ASSUME Init
  PROVE  Order
<1> DEFINE z == << >>
<1>1. line = z /\ received = z /\ heard = z
  BY DEF Init, AtInit
<1>2. Takes(z, EventLines, z)
  BY TakesEmpty
<1>3. Len(z) = 0 /\ 1..0 = {} /\ 0 \in Nat
  OBVIOUS
<1> HIDE DEF z
<1>4. InOrder(z, z, z, 0, reported)
  BY <1>3 DEF InOrder
<1>5. Orderly(line, received, heard, reported)
  BY <1>1, <1>2, <1>4 DEF Orderly
<1> QED
  BY <1>1, <1>5 DEF Order, z

\* Every step keeps Order.
LEMMA NextOrder ==
  ASSUME Basics, Delivery, Order, [Next]_vars
  PROVE  Order'
<1> DEFINE z == << >>
<1>1. z \in Seq(LineType) /\ \A j \in 1..Len(z) : z[j].kind # "event"
  OBVIOUS
<1>2. line \o z = line
  BY ConcatEmptySeq DEF Basics, TypeOK
<1> HIDE DEF z
<1>3. CASE \E c \in Command : Call(c)
  <2>1. /\ line' = line /\ received' = received
        /\ heard' = heard /\ reported' = reported /\ listening' = listening /\ sendAck' = sendAck
    BY <1>3 DEF Call, Chat
  <2> QED
    BY <1>1, <1>2, <2>1, AddedOrder
<1>4. CASE SetEventHandler
  <2>1. /\ line' = line /\ received' = received /\ heard' = heard
        /\ reported' = reported /\ listening' /\ sendAck' = sendAck
    BY <1>4 DEF SetEventHandler
  <2> QED
    BY <1>1, <1>2, <2>1, AddedOrder
<1>5. CASE Executes
  <2>1. PICK c \in Commands \cup {Pdu} : ExecutedBy(c) /\ Execution(c)
    BY <1>5, ExecutesFacts DEF Basics
  <2>2. PICK t \in Seq(LineType) :
          /\ \A j \in 1..Len(t) : t[j].kind # "event"
          /\ line' = line \o t
    BY <2>1, ExecutionAdds DEF Basics
  <2>3. /\ received' = received /\ heard' = heard
        /\ reported' = reported /\ listening' = listening /\ sendAck' = sendAck
    BY <2>1 DEF ExecutedBy
  <2> QED
    BY <2>2, <2>3, AddedOrder
<1>6. CASE UNCHANGED vars
  <2>1. /\ line' = line /\ received' = received /\ heard' = heard
        /\ reported' = reported /\ listening' = listening /\ sendAck' = sendAck
    BY <1>6 DEF vars, atVars
  <2> QED
    BY <1>1, <1>2, <2>1, AddedOrder
<1>7. CASE Transmits
  <2>1. PICK t \in Seq(LineType) : line' = line \o t /\ \A j \in 1..Len(t) : t[j].kind # "event"
    BY <1>7, TransmitsFacts DEF Basics
  <2>2. /\ received' = received /\ heard' = heard
        /\ reported' = reported /\ listening' = listening /\ sendAck' = sendAck
    BY <1>7, TransmitsFacts DEF Basics
  <2> QED
    BY <2>1, <2>2, AddedOrder
<1> QED
  BY <1>3, <1>4, <1>5, <1>6, <1>7, ReadOrder, GivesUpOrder, ReportsOrder DEF Next

\* What is in order was given to the program in order.
LEMMA GivenPrefix ==
  ASSUME NEW r \in Seq(Event), NEW h \in Seq(Event), NEW es \in Seq(LineType), NEW n, NEW rep,
         InOrder(r, es, h, n, rep)
  PROVE  \E k \in 0..Len(r) : /\ \A i \in 1..k : r[i] \notin ToSet(h)
                              /\ IsPrefix(SubSeq(r, k + 1, Len(r)), h)
<1>1. Len(r) \in Nat /\ Len(h) \in Nat /\ Len(es) \in Nat
  BY LenProperties
<1>2. /\ n \in Nat /\ Len(r) + Len(es) = n + Len(h)
      /\ \A i \in 1..n : \A j \in 1..Len(h) : Nth(r, es, i) # h[j]
      /\ \A j \in 1..Len(h) : Nth(r, es, n + j) = h[j]
  BY DEF InOrder
<1> DEFINE k == IF n <= Len(r) THEN n ELSE Len(r)
           u == SubSeq(r, k + 1, Len(r))
<1>3. /\ k \in 0..Len(r) /\ k <= n /\ k \in Nat /\ Len(r) - k \in Nat
      /\ n <= Len(r) => k = n
      /\ ~(n <= Len(r)) => k = Len(r)
  BY <1>1, <1>2
<1> HIDE DEF k
<1>4. \A i \in 1..k : r[i] \notin ToSet(h)
  <2>1. SUFFICES ASSUME NEW i \in 1..k, NEW j \in 1..Len(h), r[i] = h[j] PROVE FALSE
    BY <1>1 DEF ToSet
  <2>2. i \in 1..n /\ i <= Len(r)
    BY <1>1, <1>2, <1>3
  <2>3. Nth(r, es, i) = r[i]
    BY <2>2 DEF Nth
  <2> QED
    BY <1>2, <2>1, <2>2, <2>3
<1>5. /\ u \in Seq(Event) /\ Len(u) = Len(r) - k
      /\ \A i \in 1..(Len(r) - k) : u[i] = r[k + i]
  <2>1. \A i \in (k + 1)..Len(r) : r[i] \in Event
    <3> TAKE i \in (k + 1)..Len(r)
    <3>1. i \in 1..Len(r)
      BY <1>1, <1>3
    <3> QED
      BY <3>1, ElementOfSeq
  <2>2. k + 1 \in Int /\ Len(r) \in Int
    BY <1>1, <1>3
  <2> DEFINE a == k + 1
             b == Len(r)
  <2>3. /\ u \in Seq(Event)
        /\ Len(u) = IF a <= b THEN b - a + 1 ELSE 0
        /\ \A i \in 1..(b - a + 1) : u[i] = r[a + i - 1]
    BY <2>1, <2>2, SubSeqProperties
  <2>4. (IF a <= b THEN b - a + 1 ELSE 0) = Len(r) - k /\ b - a + 1 = Len(r) - k
    BY <1>1, <1>3
  <2>5. \A i \in 1..(Len(r) - k) : a + i - 1 = k + i
    BY <1>1, <1>3
  <2> HIDE DEF a, b, u
  <2> QED
    BY <2>3, <2>4, <2>5
<1> HIDE DEF u
<1>6. IsPrefix(u, h)
  <2>1. CASE n <= Len(r)
    <3>1. k = n /\ Len(u) <= Len(h)
      BY <1>1, <1>2, <1>3, <1>5, <2>1
    <3>2. \A i \in 1..Len(u) : u[i] = h[i]
      <4> TAKE i \in 1..Len(u)
      <4>1. i \in 1..Len(h) /\ k + i <= Len(r) /\ i \in 1..(Len(r) - k)
        BY <1>1, <1>2, <1>3, <1>5, <3>1
      <4>2. Nth(r, es, n + i) = r[k + i]
        BY <3>1, <4>1 DEF Nth
      <4> QED
        BY <1>2, <1>5, <4>1, <4>2
    <3>3. SubSeq(u, 1, Len(u)) = SubSeq(h, 1, Len(u))
      <4> DEFINE m == Len(u)
      <4>1. m \in Nat /\ m \in Int /\ 1 \in Int
        BY <1>1, <1>3, <1>5
      <4>2. \A i \in 1..m : u[i] \in Event /\ h[i] \in Event
        <5> TAKE i \in 1..m
        <5>1. i \in 1..Len(h)
          BY <1>1, <3>1, <4>1
        <5> QED
          BY <1>5, <5>1, ElementOfSeq
      <4>3. \A i \in 1..m : u[i] = h[i]
        BY <3>2
      <4> HIDE DEF m
      <4>4. /\ SubSeq(u, 1, m) \in Seq(Event) /\ Len(SubSeq(u, 1, m)) = IF 1 <= m THEN m - 1 + 1 ELSE 0
            /\ \A i \in 1..(m - 1 + 1) : SubSeq(u, 1, m)[i] = u[1 + i - 1]
        BY <4>1, <4>2, SubSeqProperties
      <4>5. /\ SubSeq(h, 1, m) \in Seq(Event) /\ Len(SubSeq(h, 1, m)) = IF 1 <= m THEN m - 1 + 1 ELSE 0
            /\ \A i \in 1..(m - 1 + 1) : SubSeq(h, 1, m)[i] = h[1 + i - 1]
        BY <4>1, <4>2, SubSeqProperties
      <4>6. (IF 1 <= m THEN m - 1 + 1 ELSE 0) = m /\ m - 1 + 1 = m /\ \A i \in 1..m : 1 + i - 1 = i
        BY <4>1
      <4> DEFINE p == SubSeq(u, 1, m)
                 q == SubSeq(h, 1, m)
      <4> HIDE DEF p, q
      <4>7. p \in Seq(Event) /\ Len(p) = m /\ \A i \in 1..m : p[i] = u[i]
        BY <4>4, <4>6 DEF p
      <4>8. q \in Seq(Event) /\ Len(q) = m /\ \A i \in 1..m : q[i] = h[i]
        BY <4>5, <4>6 DEF q
      <4>9. p = q
        BY <4>3, <4>7, <4>8, SeqEqual
      <4> QED
        BY <4>9 DEF p, q, m
    <3> QED
      BY <3>1, <3>3 DEF IsPrefix
  <2>2. CASE ~(n <= Len(r))
    <3>1. Len(u) = 0 /\ Len(u) <= Len(h)
      BY <1>1, <1>3, <1>5, <2>2
    <3>2. SubSeq(u, 1, 0) = << >> /\ SubSeq(h, 1, 0) = << >>
      BY SubSeqEmpty
    <3> QED
      BY <3>1, <3>2 DEF IsPrefix
  <2> QED
    BY <2>1, <2>2
<1> QED
  BY <1>3, <1>4, <1>6 DEF u

\* The invariants in the words of the property.
LEMMA EventsOrderly ==
  ASSUME Basics, Delivery, Order
  PROVE  EventsInOrder
<1>1. /\ line \in Seq(LineType) /\ stack \in Seq(FrameType) /\ received \in Seq(Event)
      /\ heard \in Seq(Event)
  BY DEF Basics, TypeOK
<1>2. ~broken \/ ~sendAck => \A i \in DOMAIN heard : Places(heard[i]) = 1
  <2> HIDE DEF FrameType
  <2>1. DOMAIN heard = 1..Len(heard)
    BY <1>1, LenProperties
  <2>2. \A e : Places(e) = In(line, stack, received, e)
    BY <1>1, PlacesSum DEF Places
  <2> QED
    BY <2>1, <2>2 DEF Delivery
<1>3. ~sendAck => \E n \in 0..Len(received) :
                   /\ \A i \in 1..n : received[i] \notin ToSet(heard)
                   /\ IsPrefix(SubSeq(received, n + 1, Len(received)), heard)
  <2>1. SUFFICES ASSUME ~sendAck
                 PROVE  \E n \in 0..Len(received) :
                           /\ \A i \in 1..n : received[i] \notin ToSet(heard)
                           /\ IsPrefix(SubSeq(received, n + 1, Len(received)), heard)
    OBVIOUS
  <2>2. PICK es, n : Takes(line, EventLines, es) /\ InOrder(received, es, heard, n, reported)
    BY <2>1 DEF Order, Orderly
  <2>3. es \in Seq(LineType)
    BY <2>2 DEF Takes
  <2> QED
    BY <1>1, <2>2, <2>3, GivenPrefix
<1> QED
  BY <1>2, <1>3 DEF EventsInOrder

\* No event is lost or given to the handler twice, and without acknowledgements the
\* handler is given the events in the order the TA reported them
\* (GsmAt::getLine(), GsmEvent::dispatch()).
THEOREM EventsArriveInOrder == Spec => []EventsInOrder
<1>1. Init => Basics /\ Delivery /\ Order
  BY InitBasics, InitDelivery, InitOrder
<1>2. Basics /\ Delivery /\ Order /\ [Next]_vars => (Basics /\ Delivery /\ Order)'
  BY NextBasics, NextDelivery, NextOrder
<1>3. Basics /\ Delivery /\ Order => EventsInOrder
  BY EventsOrderly
<1> QED
  BY <1>1, <1>2, <1>3, PTL DEF Spec

=============================================================================
