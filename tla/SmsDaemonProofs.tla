-------------------------- MODULE SmsDaemonProofs ---------------------------
(***************************************************************************)
(* Theorems about gsmsmsd with its TA and its network, for any numbers of  *)
(* messages, slots and files, any options, any refusals of the TA and any  *)
(* order of the steps.  A step of the daemon is first brought into one of  *)
(* a few forms (Steps).  The invariant then has the types and places       *)
(* (Shape), the events and the store (Events, Erasing, Fetches, Ahead),    *)
(* the slot that is read (Paired, Balanced, NoTokens, Tokens), what was    *)
(* given to the action (Once) and the order of the messages (Order).  For  *)
(* NothingLost there are also the phases of a call (Protocol), the answer  *)
(* behind which nothing is routed (Off) and where each message is (Kept).  *)
(***************************************************************************)
EXTENDS SmsDaemon, SequenceTheorems, FiniteSetTheorems, FunctionTheorems, TLAPS

-----------------------------------------------------------------------------
(* Sequences: what is in them, and how often. *)

\* Something of K is in s; not more than one thing of K is in s.
Some(s, K)   == \E p \in 1..Len(s) : s[p] \in K
Single(s, K) == \A p, q \in 1..Len(s) : s[p] \in K /\ s[q] \in K => p = q

\* The parts of a sequence that grew.
LEMMA Grown ==
  ASSUME NEW S, NEW s \in Seq(S), NEW x \in S
  PROVE  /\ Append(s, x) \in Seq(S) /\ Len(Append(s, x)) = Len(s) + 1 /\ Len(s) \in Nat
         /\ Append(s, x)[Len(s) + 1] = x
         /\ \A p \in 1..Len(s) : Append(s, x)[p] = s[p] /\ s[p] \in S
         /\ \A p \in 1..(Len(s) + 1) : p \in 1..Len(s) \/ p = Len(s) + 1
<1>1. /\ Append(s, x) \in Seq(S) /\ Len(Append(s, x)) = Len(s) + 1
      /\ Append(s, x)[Len(s) + 1] = x /\ \A p \in 1..Len(s) : Append(s, x)[p] = s[p]
  BY AppendProperties
<1>2. Len(s) \in Nat /\ \A p \in 1..Len(s) : s[p] \in S
  BY LenProperties, ElementOfSeq
<1>3. \A p \in 1..(Len(s) + 1) : p \in 1..Len(s) \/ p = Len(s) + 1
  BY <1>2
<1> QED
  BY <1>1, <1>2, <1>3

\* The parts of a sequence that lost its first element.
LEMMA Shrunk ==
  ASSUME NEW S, NEW s \in Seq(S), s # << >>
  PROVE  /\ Tail(s) \in Seq(S) /\ Len(Tail(s)) = Len(s) - 1 /\ Len(s) \in Nat \ {0}
         /\ Head(s) = s[1] /\ Head(s) \in S /\ 1 \in 1..Len(s)
         /\ \A p \in 1..(Len(s) - 1) : Tail(s)[p] = s[p + 1] /\ p + 1 \in 1..Len(s)
         /\ \A p \in 1..Len(s) : p = 1 \/ p - 1 \in 1..(Len(s) - 1)
<1>1. /\ Tail(s) \in Seq(S) /\ Len(Tail(s)) = Len(s) - 1
      /\ Head(s) = s[1] /\ Head(s) \in S
      /\ \A p \in 1..Len(Tail(s)) : Tail(s)[p] = s[p + 1]
  BY HeadTailProperties
<1>2. Len(s) \in Nat \ {0}
  BY EmptySeq, LenProperties
<1>3. /\ 1 \in 1..Len(s)
      /\ \A p \in 1..(Len(s) - 1) : p + 1 \in 1..Len(s)
      /\ \A p \in 1..Len(s) : p = 1 \/ p - 1 \in 1..(Len(s) - 1)
  BY <1>2
<1>4. \A p \in 1..(Len(s) - 1) : Tail(s)[p] = s[p + 1]
  BY <1>1
<1> QED
  BY <1>1, <1>2, <1>3, <1>4

\* The parts of a sequence that lost its last element.
LEMMA Shortened ==
  ASSUME NEW S, NEW s \in Seq(S), s # << >>
  PROVE  /\ Front(s) \in Seq(S) /\ Len(Front(s)) = Len(s) - 1 /\ Len(s) \in Nat \ {0}
         /\ Last(s) = s[Len(s)] /\ Last(s) \in S
         /\ \A p \in 1..(Len(s) - 1) : Front(s)[p] = s[p]
<1>1. Len(s) \in Nat \ {0}
  BY EmptySeq, LenProperties
<1> DEFINE n == Len(s) - 1
<1>2. n \in Nat /\ n \in Int /\ 1 \in Int /\ \A k \in 1..n : s[k] \in S
  BY <1>1, ElementOfSeq
<1>3. Front(s) = SubSeq(s, 1, n)
  BY DEF Front
<1> HIDE DEF n
<1>4. /\ SubSeq(s, 1, n) \in Seq(S)
      /\ Len(SubSeq(s, 1, n)) = IF 1 <= n THEN n - 1 + 1 ELSE 0
      /\ \A i \in 1..(n - 1 + 1) : SubSeq(s, 1, n)[i] = s[1 + i - 1]
  BY <1>2, SubSeqProperties
<1>5. Len(Front(s)) = n /\ \A k \in 1..n : Front(s)[k] = s[k]
  BY <1>2, <1>3, <1>4
<1>6. Last(s) = s[Len(s)] /\ s[Len(s)] \in S
  BY <1>1, ElementOfSeq DEF Last
<1> QED
  BY <1>1, <1>3, <1>4, <1>5, <1>6 DEF n

\* Nothing is in an empty sequence.
LEMMA NoneEmpty ==
  ASSUME NEW K
  PROVE  ~Some(<< >>, K) /\ Single(<< >>, K)
<1>1. Len(<< >>) = 0 /\ 1..0 = {}
  OBVIOUS
<1> QED
  BY <1>1 DEF Some, Single

\* What is in a sequence that grew.
LEMMA SomeAppend ==
  ASSUME NEW S, NEW s \in Seq(S), NEW x \in S, NEW K
  PROVE  /\ Some(s, K) => Some(Append(s, x), K)
         /\ x \in K => Some(Append(s, x), K)
         /\ x \notin K => (Some(Append(s, x), K) => Some(s, K))
         /\ Single(s, K) /\ (x \notin K \/ ~Some(s, K)) => Single(Append(s, x), K)
<1> DEFINE m == Append(s, x)
           n == Len(s)
<1>1. /\ Len(m) = n + 1 /\ n \in Nat /\ m[n + 1] = x
      /\ \A p \in 1..n : m[p] = s[p]
      /\ \A p \in 1..(n + 1) : p \in 1..n \/ p = n + 1
  BY Grown
<1>2. n + 1 \in 1..(n + 1) /\ \A p \in 1..n : p \in 1..(n + 1) /\ p # n + 1
  BY <1>1
<1> HIDE DEF m, n
<1>3. Some(s, K) => Some(m, K)
  BY <1>1, <1>2 DEF Some, n
<1>4. x \in K => Some(m, K)
  BY <1>1, <1>2 DEF Some
<1>5. x \notin K => (Some(m, K) => Some(s, K))
  BY <1>1 DEF Some, n
<1>6. Single(s, K) /\ (x \notin K \/ ~Some(s, K)) => Single(m, K)
  BY <1>1 DEF Some, Single, n
<1> QED
  BY <1>3, <1>4, <1>5, <1>6 DEF m

\* What is in a sequence that lost its first element.
LEMMA SomeTail ==
  ASSUME NEW S, NEW s \in Seq(S), s # << >>, NEW K
  PROVE  /\ Some(Tail(s), K) => Some(s, K)
         /\ Head(s) \in K => Some(s, K)
         /\ Some(s, K) => Head(s) \in K \/ Some(Tail(s), K)
         /\ Single(s, K) => Single(Tail(s), K)
         /\ Single(s, K) /\ Head(s) \in K => ~Some(Tail(s), K)
<1> DEFINE m == Tail(s)
           n == Len(s) - 1
<1>1. /\ Len(m) = n /\ Len(s) = n + 1 /\ n \in Nat /\ Head(s) = s[1] /\ 1 \in 1..(n + 1)
      /\ \A p \in 1..n : m[p] = s[p + 1] /\ p + 1 \in 1..(n + 1)
      /\ \A p \in 1..(n + 1) : p = 1 \/ p - 1 \in 1..n
  BY Shrunk
<1> HIDE DEF m, n
<1>2. Some(m, K) => Some(s, K)
  BY <1>1 DEF Some
<1>3. Head(s) \in K => Some(s, K)
  BY <1>1 DEF Some
<1>4. Some(s, K) => Head(s) \in K \/ Some(m, K)
  <2> SUFFICES ASSUME NEW p \in 1..(n + 1), s[p] \in K PROVE Head(s) \in K \/ Some(m, K)
    BY <1>1 DEF Some
  <2>1. p = 1 \/ (p - 1 \in 1..n /\ m[p - 1] = s[p])
    <3>1. p - 1 + 1 = p
      BY <1>1
    <3> QED
      BY <1>1, <3>1
  <2> QED
    BY <1>1, <2>1 DEF Some
<1>5. Single(s, K) => Single(m, K)
  <2> SUFFICES ASSUME Single(s, K), NEW p \in 1..n, NEW q \in 1..n, m[p] \in K, m[q] \in K
               PROVE  p = q
    BY <1>1 DEF Single
  <2>1. p + 1 = q + 1
    BY <1>1 DEF Single
  <2> QED
    BY <1>1, <2>1
<1>6. Single(s, K) /\ Head(s) \in K => ~Some(m, K)
  <2> SUFFICES ASSUME Single(s, K), Head(s) \in K, NEW p \in 1..n, m[p] \in K PROVE FALSE
    BY <1>1 DEF Some
  <2>1. p + 1 = 1
    BY <1>1 DEF Single
  <2> QED
    BY <1>1, <2>1
<1> QED
  BY <1>2, <1>3, <1>4, <1>5, <1>6 DEF m

-----------------------------------------------------------------------------
(* Counting. *)

\* How many things of s are in T, and where.
Where(s, T) == {i \in 1..Len(s) : s[i] \in T}
Count(s, T) == Cardinality(Where(s, T))

\* A count is a number.
LEMMA WhereFinite ==
  ASSUME NEW S, NEW s \in Seq(S), NEW T
  PROVE  IsFiniteSet(Where(s, T)) /\ Count(s, T) \in Nat
<1>1. Len(s) \in Int /\ 1 \in Int
  BY LenProperties
<1>2. IsFiniteSet(1..Len(s))
  BY <1>1, FS_Interval
<1>3. Where(s, T) \in SUBSET (1..Len(s))
  BY DEF Where
<1>4. IsFiniteSet(Where(s, T))
  BY <1>2, <1>3, FS_Subset
<1> QED
  BY <1>4, FS_CardinalityType DEF Count

\* Nothing is counted.
LEMMA CountNone ==
  ASSUME NEW s, NEW T, \A i \in 1..Len(s) : s[i] \notin T
  PROVE  Count(s, T) = 0
<1>1. Where(s, T) = {}
  BY DEF Where
<1> QED
  BY <1>1, FS_EmptySet DEF Count

\* One more thing at the end.
LEMMA CountAppend ==
  ASSUME NEW S, NEW s \in Seq(S), NEW x \in S, NEW T
  PROVE  /\ x \notin T => Count(Append(s, x), T) = Count(s, T)
         /\ x \in T => Count(Append(s, x), T) = Count(s, T) + 1
<1> DEFINE m == Append(s, x)
           n == Len(s)
<1>1. /\ Len(m) = n + 1 /\ n \in Nat /\ m[n + 1] = x /\ \A i \in 1..n : m[i] = s[i]
  BY AppendProperties, LenProperties
<1> HIDE DEF m
<1>2. CASE x \notin T
  <2>1. Where(m, T) = Where(s, T)
    <3>1. ASSUME NEW i \in Where(m, T) PROVE i \in Where(s, T)
      <4>1. i \in 1..n \/ i = n + 1
        BY <1>1 DEF Where
      <4> QED
        BY <1>1, <1>2, <4>1 DEF Where
    <3>2. ASSUME NEW i \in Where(s, T) PROVE i \in Where(m, T)
      <4>1. i \in 1..n /\ i \in 1..(n + 1)
        BY <1>1 DEF Where
      <4> QED
        BY <1>1, <4>1 DEF Where
    <3> QED
      BY <3>1, <3>2
  <2> QED
    BY <1>2, <2>1 DEF Count, m
<1>3. CASE x \in T
  <2>1. Where(m, T) = Where(s, T) \cup {n + 1}
    <3>1. ASSUME NEW i \in Where(m, T) PROVE i \in Where(s, T) \cup {n + 1}
      <4>1. i \in 1..n \/ i = n + 1
        BY <1>1 DEF Where
      <4> QED
        BY <1>1, <4>1 DEF Where
    <3>2. ASSUME NEW i \in Where(s, T) PROVE i \in Where(m, T)
      <4>1. i \in 1..n /\ i \in 1..(n + 1)
        BY <1>1 DEF Where
      <4> QED
        BY <1>1, <4>1 DEF Where
    <3>3. n + 1 \in Where(m, T)
      <4>1. n + 1 \in 1..(n + 1)
        BY <1>1
      <4> QED
        BY <1>1, <1>3, <4>1 DEF Where
    <3> QED
      BY <3>1, <3>2, <3>3
  <2>2. n + 1 \notin Where(s, T)
    BY <1>1 DEF Where
  <2>3. Cardinality(Where(s, T) \cup {n + 1}) = Cardinality(Where(s, T)) + 1
    BY <2>2, WhereFinite, FS_AddElement
  <2> QED
    BY <1>3, <2>1, <2>3 DEF Count, m
<1> QED
  BY <1>2, <1>3

\* The first thing is gone.
LEMMA CountTail ==
  ASSUME NEW S, NEW s \in Seq(S), s # << >>, NEW T
  PROVE  /\ Head(s) \notin T => Count(s, T) = Count(Tail(s), T)
         /\ Head(s) \in T => Count(s, T) = Count(Tail(s), T) + 1
<1> DEFINE m == Tail(s)
           n == Len(m)
           V == {i \in 2..(n + 1) : s[i] \in T}
<1>1. /\ Len(s) = n + 1 /\ n \in Nat /\ s[1] = Head(s) /\ \A i \in 1..n : m[i] = s[i + 1]
      /\ m \in Seq(S)
  BY HeadTailProperties, LenProperties, EmptySeq
<1> HIDE DEF m
<1>2. ExistsBijection(Where(m, T), V)
  <2> DEFINE F == [i \in Where(m, T) |-> i + 1]
  <2>1. \A i \in Where(m, T) : i \in 1..n /\ i \in Int /\ m[i] \in T
    BY <1>1 DEF Where
  <2>2. \A i \in Where(m, T) : i + 1 \in V
    <3> TAKE i \in Where(m, T)
    <3>1. i + 1 \in 2..(n + 1) /\ s[i + 1] = m[i] /\ m[i] \in T
      BY <1>1, <2>1
    <3> QED
      BY <3>1
  <2>3. \A i, j \in Where(m, T) : i + 1 = j + 1 => i = j
    BY <2>1
  <2>4. \A k \in V : \E i \in Where(m, T) : i + 1 = k
    <3> TAKE k \in V
    <3>1. k - 1 \in 1..n /\ (k - 1) + 1 = k /\ s[k] \in T
      BY <1>1
    <3>2. m[k - 1] = s[k]
      BY <1>1, <3>1
    <3>3. k - 1 \in Where(m, T)
      BY <1>1, <3>1, <3>2 DEF Where
    <3> QED
      BY <3>1, <3>3
  <2> HIDE DEF V
  <2>5. F \in Bijection(Where(m, T), V)
    BY <2>2, <2>3, <2>4, Fun_IsBij
  <2> QED
    BY <2>5 DEF ExistsBijection
<1>3. IsFiniteSet(Where(m, T))
  BY <1>1, WhereFinite
<1>4. IsFiniteSet(V) /\ Cardinality(V) = Count(m, T)
  BY <1>2, <1>3, FS_Bijection DEF Count
<1>5. CASE s[1] \notin T
  <2>1. Where(s, T) = V
    <3>1. ASSUME NEW i \in Where(s, T) PROVE i \in V
      <4>1. i \in 1..(n + 1) /\ s[i] \in T /\ i # 1
        BY <1>1, <1>5 DEF Where
      <4>2. i \in 2..(n + 1)
        BY <1>1, <4>1
      <4> QED
        BY <4>1, <4>2
    <3>2. ASSUME NEW i \in V PROVE i \in Where(s, T)
      <4>1. i \in 1..(n + 1) /\ s[i] \in T
        BY <1>1
      <4> QED
        BY <1>1, <4>1 DEF Where
    <3> QED
      BY <3>1, <3>2
  <2> QED
    BY <1>1, <1>4, <1>5, <2>1 DEF Count, m
<1>6. CASE s[1] \in T
  <2>1. Where(s, T) = V \cup {1}
    <3>1. ASSUME NEW i \in Where(s, T) PROVE i \in V \cup {1}
      <4>1. i \in 1..(n + 1) /\ s[i] \in T
        BY <1>1 DEF Where
      <4>2. i \in 2..(n + 1) \/ i = 1
        BY <1>1, <4>1
      <4> QED
        BY <4>1, <4>2
    <3>2. ASSUME NEW i \in V PROVE i \in Where(s, T)
      <4>1. i \in 1..(n + 1) /\ s[i] \in T
        BY <1>1
      <4> QED
        BY <1>1, <4>1 DEF Where
    <3>3. 1 \in Where(s, T)
      <4>1. 1 \in 1..(n + 1)
        BY <1>1
      <4> QED
        BY <1>1, <1>6, <4>1 DEF Where
    <3> QED
      BY <3>1, <3>2, <3>3
  <2>2. 1 \notin V
    OBVIOUS
  <2> HIDE DEF V
  <2>3. Cardinality(V \cup {1}) = Cardinality(V) + 1
    BY <1>4, <2>2, FS_AddElement
  <2> QED
    BY <1>1, <1>4, <1>6, <2>1, <2>3 DEF Count, m
<1> QED
  BY <1>1, <1>5, <1>6

\* Few things.
LEMMA CountFew ==
  ASSUME NEW S, NEW s \in Seq(S), NEW T
  PROVE  /\ Count(s, T) \in Nat
         /\ Count(s, T) = 0 <=> ~Some(s, T)
         /\ Count(s, T) <= 1 => Single(s, T)
<1>1. IsFiniteSet(Where(s, T)) /\ Count(s, T) \in Nat
  BY WhereFinite
<1>2. Count(s, T) = 0 => ~Some(s, T)
  <2>1. Count(s, T) = 0 => Where(s, T) = {}
    BY <1>1, FS_EmptySet DEF Count
  <2> QED
    BY <2>1 DEF Where, Some
<1>3. ~Some(s, T) => Count(s, T) = 0
  BY CountNone DEF Some
<1>4. ASSUME Count(s, T) <= 1, NEW p \in 1..Len(s), NEW q \in 1..Len(s), s[p] \in T, s[q] \in T, p # q
      PROVE  FALSE
  <2>1. p \in Where(s, T) /\ q \in Where(s, T)
    BY <1>4 DEF Where
  <2> DEFINE V == Where(s, T)
  <2>2. IsFiniteSet(V \ {p}) /\ Cardinality(V \ {p}) = Cardinality(V) - 1
    BY <1>1, <2>1, FS_RemoveElement
  <2>3. IsFiniteSet(V) /\ Cardinality(V) \in Nat /\ Cardinality(V) <= 1
    BY <1>1, <1>4 DEF Count
  <2>4. Cardinality(V \ {p}) \in Nat
    BY <2>2, FS_CardinalityType
  <2> HIDE DEF V
  <2>5. Cardinality(V \ {p}) = 0
    BY <2>2, <2>3, <2>4
  <2>6. V \ {p} = {}
    BY <2>2, <2>5, FS_EmptySet
  <2> QED
    BY <1>4, <2>1, <2>6 DEF V
<1> QED
  BY <1>1, <1>2, <1>3, <1>4 DEF Single

-----------------------------------------------------------------------------
(* The order of what is in a sequence. *)

\* All of A comes before all of B; something of B comes after each of A.
Before(s, A, B) == \A p, q \in 1..Len(s) : s[p] \in A /\ s[q] \in B => p < q
Closed(s, A, B) == \A p \in 1..Len(s) : s[p] \in A => \E q \in 1..Len(s) : p < q /\ s[q] \in B

\* Nothing is in order.
LEMMA OrderEmpty ==
  ASSUME NEW A, NEW B
  PROVE  Before(<< >>, A, B) /\ Closed(<< >>, A, B)
<1>1. Len(<< >>) = 0 /\ 1..0 = {}
  OBVIOUS
<1> QED
  BY <1>1 DEF Before, Closed

\* The order of a sequence that grew.
LEMMA OrderAppend ==
  ASSUME NEW S, NEW s \in Seq(S), NEW x \in S, NEW A, NEW B
  PROVE  /\ Before(s, A, B) /\ (x \notin A \/ (x \notin B /\ ~Some(s, B))) => Before(Append(s, x), A, B)
         /\ Closed(s, A, B) /\ x \notin A => Closed(Append(s, x), A, B)
         /\ x \in B /\ x \notin A => Closed(Append(s, x), A, B)
<1> DEFINE m == Append(s, x)
           n == Len(s)
<1>1. /\ Len(m) = n + 1 /\ n \in Nat /\ m[n + 1] = x
      /\ \A p \in 1..n : m[p] = s[p]
      /\ \A p \in 1..(n + 1) : p \in 1..n \/ p = n + 1
  BY Grown
<1>2. n + 1 \in 1..(n + 1) /\ \A p \in 1..n : p \in 1..(n + 1) /\ p < n + 1
  BY <1>1
<1> HIDE DEF m, n
<1>3. ASSUME Before(s, A, B), x \notin A \/ (x \notin B /\ ~Some(s, B)) PROVE Before(m, A, B)
  <2> SUFFICES ASSUME NEW p \in 1..(n + 1), NEW q \in 1..(n + 1), m[p] \in A, m[q] \in B PROVE p < q
    BY <1>1 DEF Before
  <2>1. CASE p = n + 1
    <3>1. x \notin B /\ ~Some(s, B)
      BY <1>1, <1>3, <2>1
    <3> QED
      BY <1>1, <3>1 DEF Some, n
  <2>2. CASE p \in 1..n /\ q = n + 1
    BY <1>2, <2>2
  <2>3. CASE p \in 1..n /\ q \in 1..n
    BY <1>1, <1>3, <2>3 DEF Before, n
  <2> QED
    BY <1>1, <2>1, <2>2, <2>3
<1>4. ASSUME Closed(s, A, B), x \notin A PROVE Closed(m, A, B)
  <2> SUFFICES ASSUME NEW p \in 1..(n + 1), m[p] \in A PROVE \E q \in 1..(n + 1) : p < q /\ m[q] \in B
    BY <1>1 DEF Closed
  <2>1. p \in 1..n /\ s[p] \in A
    BY <1>1, <1>4
  <2>2. PICK q \in 1..n : p < q /\ s[q] \in B
    BY <1>4, <2>1 DEF Closed, n
  <2> QED
    BY <1>1, <1>2, <2>2
<1>5. ASSUME x \in B, x \notin A PROVE Closed(m, A, B)
  <2> SUFFICES ASSUME NEW p \in 1..(n + 1), m[p] \in A PROVE \E q \in 1..(n + 1) : p < q /\ m[q] \in B
    BY <1>1 DEF Closed
  <2>1. p \in 1..n
    BY <1>1, <1>5
  <2> QED
    BY <1>1, <1>2, <1>5, <2>1
<1> QED
  BY <1>3, <1>4, <1>5 DEF m

\* The order of the rest of a sequence.
LEMMA OrderTail ==
  ASSUME NEW S, NEW s \in Seq(S), s # << >>, NEW A, NEW B
  PROVE  /\ Before(s, A, B) => Before(Tail(s), A, B)
         /\ Before(s, A, B) /\ Head(s) \in B => ~Some(Tail(s), A)
         /\ Closed(s, A, B) => Closed(Tail(s), A, B)
<1> DEFINE m == Tail(s)
           n == Len(s) - 1
<1>1. /\ Len(m) = n /\ Len(s) = n + 1 /\ n \in Nat /\ Head(s) = s[1] /\ 1 \in 1..(n + 1)
      /\ \A p \in 1..n : m[p] = s[p + 1] /\ p + 1 \in 1..(n + 1)
      /\ \A p \in 1..(n + 1) : p = 1 \/ p - 1 \in 1..n
  BY Shrunk
<1> HIDE DEF m, n
<1>2. ASSUME Before(s, A, B) PROVE Before(m, A, B)
  <2> SUFFICES ASSUME NEW p \in 1..n, NEW q \in 1..n, m[p] \in A, m[q] \in B PROVE p < q
    BY <1>1 DEF Before
  <2>1. p + 1 < q + 1
    BY <1>1, <1>2 DEF Before
  <2> QED
    BY <1>1, <2>1
<1>3. ASSUME Before(s, A, B), Head(s) \in B, NEW p \in 1..n, m[p] \in A PROVE FALSE
  <2>1. p + 1 < 1
    BY <1>1, <1>3 DEF Before
  <2> QED
    BY <1>1, <2>1
<1>4. ASSUME Closed(s, A, B) PROVE Closed(m, A, B)
  <2> SUFFICES ASSUME NEW p \in 1..n, m[p] \in A PROVE \E q \in 1..n : p < q /\ m[q] \in B
    BY <1>1 DEF Closed
  <2>1. PICK q \in 1..(n + 1) : p + 1 < q /\ s[q] \in B
    BY <1>1, <1>4 DEF Closed
  <2>2. q - 1 \in 1..n /\ p < q - 1 /\ (q - 1) + 1 = q
    BY <1>1, <2>1
  <2>3. m[q - 1] = s[q]
    BY <1>1, <2>2
  <2> QED
    BY <2>1, <2>2, <2>3
<1> QED
  BY <1>1, <1>2, <1>3, <1>4 DEF m, Some

\* What nothing comes after is not in the sequence.
LEMMA ClosedNone ==
  ASSUME NEW s, NEW A, NEW B, Closed(s, A, B), ~Some(s, B)
  PROVE  ~Some(s, A)
  BY DEF Closed, Some

-----------------------------------------------------------------------------
(* Sequences into which something was put. *)

\* The place of what stood at p before something was put behind the place n,
\* and the place at which what stands at q stood.
Later(n, p)   == IF p <= n THEN p ELSE p + 1
Earlier(n, q) == IF q <= n THEN q ELSE q - 1

\* m is w with x put behind the place n; t is what follows that place in w.
Wider(S, w, m, n, x, t) ==
  /\ w \in Seq(S) /\ m \in Seq(S) /\ n \in Nat /\ Len(w) \in Nat /\ n <= Len(w)
  /\ Len(m) = Len(w) + 1 /\ m[n + 1] = x /\ n + 1 \in 1..Len(m)
  /\ \A p \in 1..Len(w) : Later(n, p) \in 1..Len(m) /\ Later(n, p) # n + 1 /\ m[Later(n, p)] = w[p]
  /\ \A q \in 1..Len(m) : q # n + 1 => Earlier(n, q) \in 1..Len(w) /\ w[Earlier(n, q)] = m[q]
  /\ \A p \in (n + 1)..Len(w) : p - n \in 1..Len(t) /\ w[p] = t[p - n]

\* The places of a sequence into which something was put.
LEMMA Widened ==
  ASSUME NEW S, NEW s \in Seq(S), NEW t \in Seq(S), NEW x \in S
  PROVE  Wider(S, s \o t, Append(s, x) \o t, Len(s), x, t)
<1> DEFINE w == s \o t
           u == Append(s, x)
           m == u \o t
           n == Len(s)
           l == Len(t)
<1>1. /\ u \in Seq(S) /\ Len(u) = n + 1 /\ n \in Nat /\ u[n + 1] = x /\ \A p \in 1..n : u[p] = s[p]
  BY Grown
<1>2. l \in Nat
  BY LenProperties
<1>3. /\ w \in Seq(S) /\ Len(w) = n + l
      /\ \A p \in 1..n + l : w[p] = IF p <= n THEN s[p] ELSE t[p - n]
  BY ConcatProperties
<1>4. /\ m \in Seq(S) /\ Len(m) = n + 1 + l
      /\ \A p \in 1..n + 1 + l : m[p] = IF p <= n + 1 THEN u[p] ELSE t[p - (n + 1)]
  <2> HIDE DEF u
  <2>1. /\ m \in Seq(S) /\ Len(m) = Len(u) + Len(t)
        /\ \A p \in 1..Len(u) + Len(t) : m[p] = IF p <= Len(u) THEN u[p] ELSE t[p - Len(u)]
    BY <1>1, ConcatProperties
  <2> HIDE DEF m, n, l
  <2> QED
    BY <1>1, <2>1 DEF l
<1> HIDE DEF w, u, m, n, l
<1>5. m[n + 1] = x /\ n + 1 \in 1..Len(m)
  BY <1>1, <1>2, <1>4
<1>6. ASSUME NEW p \in 1..Len(w)
      PROVE  Later(n, p) \in 1..Len(m) /\ Later(n, p) # n + 1 /\ m[Later(n, p)] = w[p]
  <2>1. CASE p <= n
    <3>1. p \in 1..n /\ p <= n + 1 /\ p \in 1..n + 1 + l /\ p \in 1..n + l
      BY <1>1, <1>2, <1>3, <2>1
    <3> QED
      BY <1>1, <1>3, <1>4, <2>1, <3>1 DEF Later
  <2>2. CASE ~(p <= n)
    <3>1. p \in 1..n + l /\ p + 1 \in 1..n + 1 + l /\ ~(p + 1 <= n + 1) /\ p + 1 - (n + 1) = p - n
      BY <1>1, <1>2, <1>3, <2>2
    <3> DEFINE q == p + 1
    <3>2. q \in 1..n + 1 + l
      BY <3>1
    <3>3. m[q] = IF q <= n + 1 THEN u[q] ELSE t[q - (n + 1)]
      <4> HIDE DEF q
      <4> QED
        BY <1>4, <3>2
    <3>4. m[q] = t[q - (n + 1)] /\ q - (n + 1) = p - n
      BY <1>1, <3>1, <3>3
    <3>5. m[p + 1] = t[p - n] /\ w[p] = t[p - n]
      BY <1>3, <2>2, <3>1, <3>4
    <3>6. Later(n, p) = p + 1 /\ p + 1 # n + 1
      BY <1>1, <2>2, <3>1 DEF Later
    <3> HIDE DEF q
    <3> QED
      BY <1>4, <3>1, <3>5, <3>6
  <2> QED
    BY <2>1, <2>2
<1>7. ASSUME NEW q \in 1..Len(m), q # n + 1
      PROVE  Earlier(n, q) \in 1..Len(w) /\ w[Earlier(n, q)] = m[q]
  <2> DEFINE p == Earlier(n, q)
  <2>1. p \in 1..Len(w) /\ Later(n, p) = q
    <3>1. q \in Int /\ 1 <= q /\ q <= n + 1 + l /\ q # n + 1
      BY <1>1, <1>2, <1>4, <1>7
    <3>2. CASE q <= n
      BY <1>1, <1>2, <1>3, <3>1, <3>2 DEF Earlier, Later
    <3>3. CASE ~(q <= n)
      <4>1. q - 1 \in 1..n + l /\ ~(q - 1 <= n) /\ q - 1 + 1 = q
        BY <1>1, <1>2, <3>1, <3>3
      <4> QED
        BY <1>3, <3>3, <4>1 DEF Earlier, Later
    <3> QED
      BY <3>2, <3>3
  <2> HIDE DEF p
  <2>2. m[q] = w[p]
    BY <1>6, <2>1
  <2> QED
    BY <2>1, <2>2 DEF p
<1>8. ASSUME NEW p \in (n + 1)..Len(w) PROVE p - n \in 1..l /\ w[p] = t[p - n]
  <2>1. p - n \in 1..l /\ p \in 1..n + l /\ ~(p <= n)
    BY <1>1, <1>2, <1>3
  <2> QED
    BY <1>3, <2>1
<1>9. Len(w) \in Nat /\ n <= Len(w) /\ Len(m) = Len(w) + 1
  BY <1>1, <1>2, <1>3, <1>4
<1> QED
  BY <1>1, <1>3, <1>4, <1>5, <1>6, <1>7, <1>8, <1>9 DEF Wider, w, u, m, n, l

\* What is in such a sequence.
LEMMA SomeInsert ==
  ASSUME NEW S, NEW s \in Seq(S), NEW t \in Seq(S), NEW x \in S, NEW K
  PROVE  /\ Some(s \o t, K) => Some(Append(s, x) \o t, K)
         /\ x \in K => Some(Append(s, x) \o t, K)
         /\ x \notin K => (Some(Append(s, x) \o t, K) => Some(s \o t, K))
         /\ Single(s \o t, K) /\ (x \notin K \/ ~Some(s \o t, K)) => Single(Append(s, x) \o t, K)
<1> DEFINE w == s \o t
           m == Append(s, x) \o t
           n == Len(s)
<1>0. Wider(S, w, m, n, x, t)
  BY Widened
<1> HIDE DEF m, w, n
<1>1. /\ n \in Nat /\ Len(w) \in Nat /\ n <= Len(w)
      /\ Len(m) = Len(w) + 1 /\ m[n + 1] = x /\ n + 1 \in 1..Len(m)
      /\ \A p \in 1..Len(w) : Later(n, p) \in 1..Len(m) /\ Later(n, p) # n + 1 /\ m[Later(n, p)] = w[p]
      /\ \A q \in 1..Len(m) : q # n + 1 => Earlier(n, q) \in 1..Len(w) /\ w[Earlier(n, q)] = m[q]
  BY <1>0 DEF Wider
<1>2. Some(w, K) => Some(m, K)
  BY <1>1 DEF Some
<1>3. x \in K => Some(m, K)
  BY <1>1 DEF Some
<1>4. x \notin K => (Some(m, K) => Some(w, K))
  <2> SUFFICES ASSUME x \notin K, NEW q \in 1..Len(m), m[q] \in K PROVE Some(w, K)
    BY DEF Some
  <2>1. q # n + 1
    BY <1>1
  <2> QED
    BY <1>1, <2>1 DEF Some
<1>5. ASSUME Single(w, K), x \notin K \/ ~Some(w, K), NEW q \in 1..Len(m), NEW r \in 1..Len(m),
             m[q] \in K, m[r] \in K
      PROVE  q = r
  <2>1. CASE q # n + 1 /\ r # n + 1
    <3>1. Earlier(n, q) = Earlier(n, r)
      BY <1>1, <1>5, <2>1 DEF Single
    <3> QED
      BY <1>1, <2>1, <3>1 DEF Earlier
  <2>2. CASE q = n + 1 \/ r = n + 1
    <3>1. ~Some(w, K)
      BY <1>1, <1>5, <2>2
    <3>2. q = n + 1 /\ r = n + 1
      BY <1>1, <1>5, <3>1 DEF Some
    <3> QED
      BY <3>2
  <2> QED
    BY <2>1, <2>2
<1>6. Single(w, K) /\ (x \notin K \/ ~Some(w, K)) => Single(m, K)
  BY <1>5 DEF Single
<1> QED
  BY <1>2, <1>3, <1>4, <1>6 DEF m, w

\* How often something is in it.
LEMMA CountInsert ==
  ASSUME NEW S, NEW s \in Seq(S), NEW t \in Seq(S), NEW x \in S, NEW K, x \notin K
  PROVE  Count(Append(s, x) \o t, K) = Count(s \o t, K)
<1> DEFINE w == s \o t
           m == Append(s, x) \o t
           n == Len(s)
<1>0. Wider(S, w, m, n, x, t)
  BY Widened
<1> HIDE DEF m, w, n
<1>1. /\ w \in Seq(S) /\ n \in Nat /\ Len(w) \in Nat /\ n <= Len(w)
      /\ Len(m) = Len(w) + 1 /\ m[n + 1] = x /\ n + 1 \in 1..Len(m)
      /\ \A p \in 1..Len(w) : Later(n, p) \in 1..Len(m) /\ Later(n, p) # n + 1 /\ m[Later(n, p)] = w[p]
      /\ \A q \in 1..Len(m) : q # n + 1 => Earlier(n, q) \in 1..Len(w) /\ w[Earlier(n, q)] = m[q]
  BY <1>0 DEF Wider
<1>2. \A p \in Where(w, K) : Later(n, p) \in Where(m, K)
  BY <1>1 DEF Where
<1>3. ASSUME NEW p \in Where(w, K), NEW q \in Where(w, K), Later(n, p) = Later(n, q) PROVE p = q
  <2>1. p \in Int /\ q \in Int
    BY <1>1 DEF Where
  <2> QED
    BY <1>1, <1>3, <2>1 DEF Later
<1>4. ASSUME NEW q \in Where(m, K) PROVE \E p \in Where(w, K) : Later(n, p) = q
  <2>1. q \in 1..Len(m) /\ m[q] \in K /\ q # n + 1
    BY <1>1 DEF Where
  <2>2. Earlier(n, q) \in Where(w, K)
    BY <1>1, <2>1 DEF Where
  <2>3. Later(n, Earlier(n, q)) = q
    BY <1>1, <2>1 DEF Earlier, Later
  <2> QED
    BY <2>2, <2>3
<1> DEFINE F == [p \in Where(w, K) |-> Later(n, p)]
<1>5. F \in Bijection(Where(w, K), Where(m, K))
  BY <1>2, <1>3, <1>4, Fun_IsBij
<1>6. IsFiniteSet(Where(w, K))
  BY <1>1, WhereFinite
<1>7. Cardinality(Where(m, K)) = Cardinality(Where(w, K))
  BY <1>5, <1>6, FS_Bijection DEF ExistsBijection
<1> QED
  BY <1>7 DEF Count, m, w

\* The order of it.
LEMMA OrderInsert ==
  ASSUME NEW S, NEW s \in Seq(S), NEW t \in Seq(S), NEW x \in S, NEW A, NEW B
  PROVE  /\ /\ Before(s \o t, A, B)
            /\ x \notin A \/ (x \notin B /\ ~Some(s \o t, B))
            /\ x \notin B \/ ~Some(t, A)
            => Before(Append(s, x) \o t, A, B)
         /\ Closed(s \o t, A, B) /\ x \notin A => Closed(Append(s, x) \o t, A, B)
<1> DEFINE w == s \o t
           m == Append(s, x) \o t
           n == Len(s)
<1>0. Wider(S, w, m, n, x, t)
  BY Widened
<1> HIDE DEF m, w, n
<1>1. /\ n \in Nat /\ Len(w) \in Nat /\ n <= Len(w)
      /\ Len(m) = Len(w) + 1 /\ m[n + 1] = x /\ n + 1 \in 1..Len(m)
      /\ \A p \in 1..Len(w) : Later(n, p) \in 1..Len(m) /\ Later(n, p) # n + 1 /\ m[Later(n, p)] = w[p]
      /\ \A q \in 1..Len(m) : q # n + 1 => Earlier(n, q) \in 1..Len(w) /\ w[Earlier(n, q)] = m[q]
      /\ \A p \in (n + 1)..Len(w) : p - n \in 1..Len(t) /\ w[p] = t[p - n]
  BY <1>0 DEF Wider
<1>2. ASSUME Before(w, A, B), x \notin A \/ (x \notin B /\ ~Some(w, B)), x \notin B \/ ~Some(t, A),
             NEW p \in 1..Len(m), NEW q \in 1..Len(m), m[p] \in A, m[q] \in B
      PROVE  p < q
  <2>1. CASE p # n + 1 /\ q # n + 1
    <3>1. Earlier(n, p) < Earlier(n, q)
      BY <1>1, <1>2, <2>1 DEF Before
    <3> QED
      BY <1>1, <2>1, <3>1 DEF Earlier
  <2>2. CASE p = n + 1
    <3>1. x \notin B /\ ~Some(w, B)
      BY <1>1, <1>2, <2>2
    <3>2. q # n + 1
      BY <1>1, <1>2, <3>1
    <3> QED
      BY <1>1, <1>2, <3>1, <3>2 DEF Some
  <2>3. CASE p # n + 1 /\ q = n + 1
    <3>1. ~Some(t, A)
      BY <1>1, <1>2, <2>3
    <3>2. Earlier(n, p) \in 1..Len(w) /\ w[Earlier(n, p)] \in A
      BY <1>1, <1>2, <2>3
    <3>3. ~(Earlier(n, p) \in (n + 1)..Len(w))
      <4> SUFFICES ASSUME Earlier(n, p) \in (n + 1)..Len(w) PROVE FALSE
        OBVIOUS
      <4>1. Earlier(n, p) - n \in 1..Len(t) /\ t[Earlier(n, p) - n] \in A
        BY <1>1, <3>2
      <4> QED
        BY <3>1, <4>1 DEF Some
    <3> QED
      BY <1>1, <2>3, <3>2, <3>3 DEF Earlier
  <2> QED
    BY <2>1, <2>2, <2>3
<1>3. ASSUME Closed(w, A, B), x \notin A, NEW p \in 1..Len(m), m[p] \in A
      PROVE  \E q \in 1..Len(m) : p < q /\ m[q] \in B
  <2>1. p # n + 1
    BY <1>1, <1>3
  <2>2. PICK q \in 1..Len(w) : Earlier(n, p) < q /\ w[q] \in B
    BY <1>1, <1>3, <2>1 DEF Closed
  <2>3. p < Later(n, q)
    BY <1>1, <2>1, <2>2 DEF Earlier, Later
  <2> QED
    BY <1>1, <2>2, <2>3
<1> QED
  BY <1>2, <1>3 DEF m, w, Before, Closed

-----------------------------------------------------------------------------
(* Commands, lines and calls. *)

Cmgr(i) == <<"CMGR", i + 1>>
Cmgd(i) == <<"CMGD", i + 1>>
Cmgrs   == {"CMGR"} \X (1..Slots + 1)
Cmgds   == {"CMGD"} \X (1..Slots + 1)
Sent    == Command \cup {Cnma, Pdu}

LineType  == At!LineType
FrameType == [cmd : Command \cup {Cnma}, event : Event \cup {Nothing}, infos : Seq(LineType),
              prompted : BOOLEAN, tries : Nat, seen : LineType \cup {Nothing}]
ResultType == [how : {"none", "ok", "error", "failed"}, of : Command \cup {Nothing},
               infos : Seq(LineType)]
EnteringType == [cmd : PduCommands \cup {Nothing}, garbled : BOOLEAN]

Starting == {"open", "flushOpened", "flush", "flushRead", "flushErased", "storeSet",
             "serviceSet", "routeProbe", "route"}
Flushing == {"open", "flushOpened", "flush", "flushRead", "flushErased"}
Main     == {"wait", "polled", "drain", "act", "open store", "store opened", "read", "erased",
             "check", "offProbe", "off", "spool", "scan", "sent", "exit0"}
Broken   == {"failProbe", "failOff", "exit1", "abort"}
Fetching == {"open store", "store opened", "read"}
Asking   == {"flushRead", "read"}
Labels   == Starting \cup Main \cup Broken

\* The names of the commands.
LEMMA Names ==
  ASSUME NEW a, NEW b, NEW i, NEW j
  PROVE  <<a, i>> = <<b, j>> <=> a = b /\ i = j
  OBVIOUS

\* The number of a slot.
LEMMA NumberFacts ==
  ASSUME NEW i \in Slot
  PROVE  i + 1 \in 1..Slots + 1 /\ i \in Nat /\ i + 1 - 1 = i /\ i < Slots
<1>1. Slots \in Nat
  BY SmsDaemonAssumption
<1> QED
  BY <1>1 DEF Slot

\* Which commands have responses, and which are none of the daemon's.
LEMMA CommandFacts ==
  /\ {<<"CPMS", 0>>, <<"CSMS", 0>>, <<"CNMI?", 0>>} \subseteq InfoCommands
  /\ {<<"CPMS", 0>>, <<"CSMS", 0>>, <<"CNMI?", 0>>, <<"CNMI", 0>>, <<"CNMI", 1>>, <<"AT", 0>>,
      <<"CMGS", 0>>} \cap (Cmgrs \cup Cmgds) = {}
  /\ {<<"CNMI", 0>>, <<"CNMI", 1>>, <<"AT", 0>>} \subseteq Command \ (InfoCommands \cup PduCommands)
  /\ PduCommands = {<<"CMGS", 0>>}
  /\ InfoCommands \subseteq Command /\ PduCommands \subseteq Command /\ Cmgrs \subseteq InfoCommands
  /\ Cmgds \subseteq Command \ (InfoCommands \cup PduCommands) /\ Cmgrs \cap Cmgds = {}
  /\ PduCommands \cap InfoCommands = {} /\ Cnma \notin Command /\ Pdu \notin Command /\ Cnma # Pdu
<1>1. /\ PduCommands = {<<"CMGS", 0>>} /\ Cnma = <<"CNMA", 0>> /\ Pdu = <<"PDU", 0>>
      /\ \A c \in Cmgrs : c[1] = "CMGR"
      /\ \A c \in Cmgds : c[1] = "CMGD"
      /\ \A c \in InfoCommands : c[1] \in {"CPMS", "CSMS", "CNMI?", "CMGR"}
      /\ \A c \in Command : c \in InfoCommands \/ c[1] \in {"CMGS", "CMGD", "AT", "CNMI"}
  BY DEF PduCommands, Cnma, Pdu, Cmgrs, Cmgds, InfoCommands, Command
<1>2. /\ {<<"CPMS", 0>>, <<"CSMS", 0>>, <<"CNMI?", 0>>} \subseteq InfoCommands
      /\ Cmgrs \subseteq InfoCommands /\ InfoCommands \subseteq Command
      /\ PduCommands \subseteq Command /\ Cmgds \subseteq Command
      /\ {<<"CNMI", 0>>, <<"CNMI", 1>>, <<"AT", 0>>} \subseteq Command
  BY DEF Cmgrs, Cmgds, InfoCommands, Command
<1>3. /\ <<"CPMS", 0>>[1] = "CPMS" /\ <<"CSMS", 0>>[1] = "CSMS" /\ <<"CNMI?", 0>>[1] = "CNMI?"
      /\ <<"CNMI", 0>>[1] = "CNMI" /\ <<"CNMI", 1>>[1] = "CNMI" /\ <<"AT", 0>>[1] = "AT"
      /\ <<"CMGS", 0>>[1] = "CMGS" /\ <<"CNMA", 0>>[1] = "CNMA" /\ <<"PDU", 0>>[1] = "PDU"
  OBVIOUS
<1>4. {<<"CPMS", 0>>, <<"CSMS", 0>>, <<"CNMI?", 0>>, <<"CNMI", 0>>, <<"CNMI", 1>>, <<"AT", 0>>,
      <<"CMGS", 0>>} \cap (Cmgrs \cup Cmgds) = {}
  BY <1>1, <1>3
<1>5. {<<"CNMI", 0>>, <<"CNMI", 1>>, <<"AT", 0>>} \cap (InfoCommands \cup PduCommands) = {}
  BY <1>1, <1>3
<1>6. Cmgds \cap (InfoCommands \cup PduCommands \cup Cmgrs) = {}
  BY <1>1, <1>3
<1>7. PduCommands \cap InfoCommands = {} /\ Cnma \notin Command /\ Pdu \notin Command /\ Cnma # Pdu
  BY <1>1, <1>3
<1> QED
  BY <1>1, <1>2, <1>4, <1>5, <1>6, <1>7

\* The commands that read and erase a slot.
LEMMA CmgrFacts ==
  /\ \A i \in Slot : Cmgr(i) \in Cmgrs /\ Cmgd(i) \in Cmgds
  /\ \A i, j \in Slot : (Cmgr(i) = Cmgr(j) => i = j) /\ (Cmgd(i) = Cmgd(j) => i = j)
<1>1. ASSUME NEW i \in Slot PROVE Cmgr(i) \in Cmgrs /\ Cmgd(i) \in Cmgds
  BY NumberFacts DEF Cmgr, Cmgd, Cmgrs, Cmgds
<1>2. ASSUME NEW i \in Slot, NEW j \in Slot
      PROVE  (Cmgr(i) = Cmgr(j) => i = j) /\ (Cmgd(i) = Cmgd(j) => i = j)
  <2>1. i + 1 = j + 1 => i = j
    BY NumberFacts
  <2> QED
    BY <2>1, Names DEF Cmgr, Cmgd
<1> QED
  BY <1>1, <1>2

\* What the proofs use of the assumption on the constants.
LEMMA NothingFacts ==
  /\ Nothing \notin Message /\ Nothing \notin Event /\ Nothing \notin Command /\ Nothing \notin LineType
  /\ Slots \in Nat \ {0} /\ Messages \in Nat /\ Tries \in Nat
  BY SmsDaemonAssumption, Zenon DEF LineType

\* A line that reports an event, and lines of an answer.
LEMMA LineFacts ==
  /\ \A x \in LineType : /\ x.kind = "event" => x.of \in Event /\ x.of.msg \in Message /\ x.of.index \in 0..Slots
                         /\ x.kind # "event" => /\ x.of \in Command \cup {Cnma}
                                                /\ x.value \in Message \cup {Nothing}
                                                /\ x.kind \in {"info", "OK", "ERROR", "prompt"}
                         /\ x.kind \in {"info", "OK", "ERROR", "prompt", "event"}
  /\ \A e \in Event : /\ At!Item("event", e, Nothing) \in LineType
                      /\ At!Item("event", e, Nothing).kind = "event" /\ At!Item("event", e, Nothing).of = e
<1>1. \A x \in LineType : \/ /\ x.kind = "event" /\ x.of \in Event
                          \/ /\ x.of \in Command \cup {Cnma} /\ x.value \in Message \cup {Nothing}
                             /\ x.kind \in {"info", "OK", "ERROR", "prompt"}
  BY DEF LineType, At!LineType, At!Commands
<1>2. \A e \in Event : e.msg \in Message /\ e.index \in 0..Slots
  BY DEF Event
<1>3. \A e \in Event : /\ At!Item("event", e, Nothing) \in LineType
                      /\ At!Item("event", e, Nothing).kind = "event" /\ At!Item("event", e, Nothing).of = e
  BY DEF LineType, At!LineType, At!Item
<1> QED
  BY <1>1, <1>2, <1>3

\* A line of an answer.
LEMMA ItemFacts ==
  ASSUME NEW k \in {"info", "OK", "ERROR", "prompt"}, NEW c \in Command \cup {Cnma}, NEW v \in Message \cup {Nothing}
  PROVE  /\ At!Item(k, c, v) \in LineType
         /\ At!Item(k, c, v).kind = k /\ At!Item(k, c, v).of = c /\ At!Item(k, c, v).value = v
  BY DEF LineType, At!LineType, At!Item, At!Commands

\* The call of a command, and of an acknowledgement.
LEMMA FrameFacts ==
  /\ \A c \in Command :
       /\ At!Frame(c, Nothing) \in FrameType /\ At!Frame(c, Nothing).cmd = c
       /\ At!Frame(c, Nothing).event = Nothing /\ At!Frame(c, Nothing).infos = << >>
       /\ At!Frame(c, Nothing).prompted = (c \notin PduCommands)
       /\ At!Frame(c, Nothing).seen = Nothing
  /\ \A e \in Event :
       /\ At!Frame(Cnma, e) \in FrameType /\ At!Frame(Cnma, e).cmd = Cnma
       /\ At!Frame(Cnma, e).event = e /\ At!Frame(Cnma, e).infos = << >>
       /\ At!Frame(Cnma, e).prompted = TRUE
<1>1. << >> \in Seq(LineType) /\ Tries \in Nat /\ Cnma \notin PduCommands
  BY NothingFacts, CommandFacts
<1>2. ASSUME NEW c \in Command PROVE (c \notin PduCommands) \in BOOLEAN
  OBVIOUS
<1> QED
  BY <1>1, <1>2 DEF At!Frame, FrameType

-----------------------------------------------------------------------------
(* The types of the variables, and the calls. *)

FrameOK(f, k) ==
  /\ k = 1 => f.cmd \in Command /\ f.event = Nothing /\ Len(f.infos) <= 1
  /\ k > 1 => f.cmd = Cnma /\ f.event \in Direct /\ f.infos = << >>
  /\ ~f.prompted => f.cmd \in PduCommands /\ f.infos = << >>
  /\ f.seen # Nothing => f.seen.kind \in {"info", "ERROR"}

\* What the TA said and the program did not read yet, with the rest of the
\* answer that the TA is sending; only a line of an answer can be in that.
Stream   == line \o answering
Answers0 == {x \in LineType : x.kind # "event"}
Parts    == line \in Seq(LineType) /\ answering \in Seq(Answers0)

LineTypes ==
  /\ Stream \in Seq(LineType) /\ todo \in Seq(Sent) /\ stack \in Seq(FrameType)
  /\ entering \in EnteringType /\ (entering.cmd = Nothing => entering = At!NotEntering)
  /\ result \in ResultType /\ listening \in BOOLEAN /\ sendAck \in BOOLEAN
  /\ received \in Seq(Event)
Calls == \A k \in 1..Len(stack) : FrameOK(stack[k], k)

\* How a call ends or goes on, after a line or a time-out.
Throws ==
  /\ stack' = << >> /\ todo' = todo /\ received' = received
  /\ result' \in ResultType /\ result'.infos = << >> /\ result'.of = stack[1].cmd
  /\ result'.how \in {"error", "failed"} /\ (Len(stack) > 1 => result'.how = "failed")
ReturnsLast ==
  /\ Len(stack) = 1 /\ stack' = << >> /\ todo' = todo /\ received' = received
  /\ result' \in ResultType /\ result'.how = "ok" /\ result'.of = stack[1].cmd
  /\ result'.infos = stack[1].infos
ReturnsInner ==
  /\ Len(stack) > 1 /\ stack' = Front(stack) /\ todo' = todo /\ result' = result
  /\ received' = At!Handed(stack[Len(stack)].event)
Goeson(f) ==
  /\ Len(stack) = 1 /\ stack' = <<f>> /\ f \in FrameType /\ FrameOK(f, 1)
  /\ f.cmd = stack[1].cmd /\ received' = received /\ result' = result
Keeps(x) == /\ \E f \in FrameType : Goeson(f) /\ f.infos = <<x>> /\ f.prompted
            /\ stack[1].infos = << >> /\ stack[1].cmd \in InfoCommands \cup PduCommands
            /\ (stack[1].cmd \in PduCommands => x.kind = "info" /\ x.of = stack[1].cmd)
            /\ (stack[1].cmd \in Cmgrs => x.kind # "OK") /\ x.kind # "ERROR"
            /\ todo' = todo
Continues == /\ ~stack[1].prompted
             /\ \E f \in FrameType : Goeson(f) /\ f.infos = << >> /\ f.prompted
             /\ todo' = Append(todo, Pdu)
Resends(s) == /\ ~stack[1].prompted
              /\ \E f \in FrameType : Goeson(f) /\ f.infos = << >> /\ ~f.prompted /\ f.seen = s
              /\ todo' = Append(todo, stack[1].cmd)

\* What is no part of the answer ends a call.
Refusal(x) == result'.how = "error" => x.kind = "ERROR"
Stray(x) == x.kind = "info" /\ Len(stack) = 1 /\ stack[1].infos = << >>
              => ~(stack[1].cmd \in InfoCommands) /\ ~(stack[1].cmd \in PduCommands /\ x.of = stack[1].cmd)

\* The operators on sequences that GsmAt uses are those used here.
LEMMA AtOperators ==
  At!Top = Last(stack) /\ At!Front(stack) = Front(stack)
  BY DEF At!Top, At!Last, At!Front, Last, Front

\* The innermost call.
LEMMA TopFacts ==
  ASSUME LineTypes, Calls, stack # << >>
  PROVE  /\ Len(stack) \in Nat \ {0} /\ At!Top = stack[Len(stack)] /\ At!Top \in FrameType
         /\ Front(stack) \in Seq(FrameType) /\ Len(Front(stack)) = Len(stack) - 1
         /\ \A p \in 1..(Len(stack) - 1) : Front(stack)[p] = stack[p]
         /\ FrameOK(stack[Len(stack)], Len(stack)) /\ FrameOK(stack[1], 1)
         /\ stack[1] \in FrameType /\ stack[1].cmd \in Command
         /\ \A p \in 1..Len(stack) : stack[p] \in FrameType
         /\ (At!Top.cmd # Cnma \/ ~At!Top.prompted) => Len(stack) = 1
<1>1. stack \in Seq(FrameType)
  BY DEF LineTypes
<1>2. /\ Front(stack) \in Seq(FrameType) /\ Len(Front(stack)) = Len(stack) - 1 /\ Len(stack) \in Nat \ {0}
      /\ Last(stack) = stack[Len(stack)] /\ Last(stack) \in FrameType
      /\ \A p \in 1..(Len(stack) - 1) : Front(stack)[p] = stack[p]
  BY <1>1, Shortened
<1>3. \A p \in 1..Len(stack) : stack[p] \in FrameType
  BY <1>1, ElementOfSeq
<1>4. At!Top = stack[Len(stack)]
  BY <1>2, AtOperators
<1>5. 1 \in 1..Len(stack) /\ Len(stack) \in 1..Len(stack)
  BY <1>2
<1>6. FrameOK(stack[Len(stack)], Len(stack)) /\ FrameOK(stack[1], 1)
  BY <1>5 DEF Calls
<1>7. stack[1].cmd \in Command
  BY <1>6 DEF FrameOK
<1>8. (At!Top.cmd # Cnma \/ ~At!Top.prompted) => Len(stack) = 1
  <2> SUFFICES ASSUME Len(stack) # 1 PROVE At!Top.cmd = Cnma /\ At!Top.prompted
    OBVIOUS
  <2>1. Len(stack) > 1
    BY <1>2
  <2>2. At!Top.cmd = Cnma /\ (~At!Top.prompted => At!Top.cmd \in PduCommands)
    BY <1>4, <1>6, <2>1 DEF FrameOK
  <2> QED
    BY <2>2, CommandFacts
<1> QED
  BY <1>2, <1>3, <1>4, <1>5, <1>6, <1>7, <1>8

\* A sequence of one call.
LEMMA OneCall ==
  ASSUME LineTypes, Calls, Len(stack) = 1
  PROVE  /\ stack # << >> /\ At!Top = stack[1] /\ Front(stack) = << >>
         /\ \A f \in FrameType : Append(Front(stack), f) = <<f>>
<1>1. stack # << >>
  OBVIOUS
<1>2. At!Top = stack[1] /\ Len(Front(stack)) = 0 /\ Front(stack) \in Seq(FrameType)
  BY <1>1, TopFacts
<1>3. Front(stack) = << >>
  BY <1>2, EmptySeq
<1>4. \A f \in FrameType : Append(<< >>, f) = <<f>>
  OBVIOUS
<1> QED
  BY <1>1, <1>2, <1>3, <1>4

\* An exception leaves all calls.
LEMMA ThrowThrows ==
  ASSUME LineTypes, Calls, stack # << >>, NEW how \in {"error", "failed"}, At!Throw(how)
  PROVE  Throws /\ (result'.how = "error" => how = "error")
<1>1. /\ stack' = << >> /\ todo' = todo /\ received' = received
      /\ result' = [how |-> IF Len(stack) = 1 THEN how ELSE "failed",
                    of |-> stack[1].cmd, infos |-> << >>]
  BY DEF At!Throw
<1>2. stack[1].cmd \in Command /\ << >> \in Seq(LineType) /\ Len(stack) \in Nat \ {0}
  BY TopFacts
<1>3. (IF Len(stack) = 1 THEN how ELSE "failed") \in {"error", "failed"}
  OBVIOUS
<1> DEFINE h == IF Len(stack) = 1 THEN how ELSE "failed"
<1>4. (Len(stack) > 1 => h = "failed") /\ (h = "error" => how = "error")
  <2> DEFINE n == Len(stack)
  <2>0. n \in Nat
    BY <1>2
  <2> HIDE DEF n
  <2>1. n > 1 => n # 1
    BY <2>0
  <2> QED
    BY <2>1 DEF n
<1> HIDE DEF h
<1>5. result' = [how |-> h, of |-> stack[1].cmd, infos |-> << >>] /\ h \in {"error", "failed"}
  BY <1>1, <1>3 DEF h
<1>6. result' \in ResultType
  BY <1>2, <1>5 DEF ResultType
<1>7. result'.how = h /\ result'.of = stack[1].cmd /\ result'.infos = << >>
  BY <1>5
<1> QED
  BY <1>1, <1>4, <1>5, <1>6, <1>7 DEF Throws

\* The innermost call returns.
LEMMA ReturnReturns ==
  ASSUME LineTypes, Calls, stack # << >>, At!Return(At!Top.infos)
  PROVE  ReturnsLast \/ ReturnsInner
<1>1. /\ stack' = Front(stack) /\ todo' = todo
      /\ result' = IF Len(stack) = 1 THEN [how |-> "ok", of |-> At!Top.cmd, infos |-> At!Top.infos] ELSE result
      /\ received' = IF At!Top.cmd = Cnma THEN At!Handed(At!Top.event) ELSE received
  BY DEF At!Return, At!Front, Front
<1>2. CASE Len(stack) = 1
  <2>1. At!Top = stack[1] /\ Front(stack) = << >> /\ stack[1] \in FrameType /\ stack[1].cmd \in Command
    BY <1>2, OneCall, TopFacts
  <2>2. stack[1].cmd # Cnma /\ stack[1].infos \in Seq(LineType)
    BY <2>1, CommandFacts DEF FrameType
  <2>3. result' = [how |-> "ok", of |-> stack[1].cmd, infos |-> stack[1].infos]
    BY <1>1, <1>2, <2>1
  <2>4. result' \in ResultType /\ result'.how = "ok" /\ result'.of = stack[1].cmd /\ result'.infos = stack[1].infos
    BY <2>1, <2>2, <2>3 DEF ResultType
  <2>5. received' = received
    BY <1>1, <2>1, <2>2
  <2> QED
    BY <1>1, <1>2, <2>1, <2>4, <2>5 DEF ReturnsLast
<1>3. CASE Len(stack) # 1
  <2>1. Len(stack) > 1 /\ At!Top = stack[Len(stack)] /\ At!Top.cmd = Cnma
    BY <1>3, TopFacts
  <2> QED
    BY <1>1, <1>3, <2>1 DEF ReturnsInner
<1> QED
  BY <1>2, <1>3

\* A frame with a response.
LEMMA KeepInfoKeeps ==
  ASSUME LineTypes, Calls, Len(stack) = 1, stack[1].infos = << >>, NEW x \in LineType, At!KeepInfo(x),
         stack[1].cmd \in InfoCommands \cup PduCommands,
         stack[1].cmd \in PduCommands => x.kind = "info" /\ x.of = stack[1].cmd,
         stack[1].cmd \in Cmgrs => x.kind # "OK", x.kind # "ERROR"
  PROVE  Keeps(x)
<1> DEFINE f == [stack[1] EXCEPT !.infos = Append(@, x), !.prompted = TRUE]
<1>1. At!Top = stack[1] /\ \A g \in FrameType : Append(Front(stack), g) = <<g>>
  BY OneCall
<1>2. stack[1] \in FrameType /\ FrameOK(stack[1], 1)
  BY OneCall, TopFacts
<1>3. Append(stack[1].infos, x) = <<x>> /\ <<x>> \in Seq(LineType) /\ Len(<<x>>) = 1
  OBVIOUS
<1>4. f \in FrameType /\ f.cmd = stack[1].cmd /\ f.event = stack[1].event /\ f.infos = <<x>>
      /\ f.prompted = TRUE /\ f.seen = stack[1].seen
  BY <1>2, <1>3 DEF FrameType
<1>5. FrameOK(f, 1)
  BY <1>2, <1>3, <1>4 DEF FrameOK
<1>6. At!WaitsOn(f) /\ todo' = todo
  BY <1>1 DEF At!KeepInfo
<1> HIDE DEF f
<1>7. stack' = <<f>> /\ received' = received /\ result' = result
  BY <1>1, <1>4, <1>6 DEF At!WaitsOn, At!Front, Front
<1> QED
  BY <1>4, <1>5, <1>6, <1>7 DEF Keeps, Goeson

\* GsmAt::chat, and sendPdu after the prompt: what becomes of a line.
LEMMA ReadAnswerCases ==
  ASSUME LineTypes, Calls, stack # << >>, NEW x \in LineType, x.kind # "event", At!ReadAnswer(x)
  PROVE  \/ Throws /\ Refusal(x) /\ Stray(x)
         \/ x.kind = "OK" /\ (ReturnsLast \/ ReturnsInner)
         \/ Keeps(x)
<1> DEFINE c == At!Top.cmd
           first == At!Top.infos = << >>
<1>1. \/ At!Throw("error") /\ x.kind = "ERROR"
      \/ At!Throw("failed") /\ ~(first /\ c \in InfoCommands) /\ ~(first /\ c \in PduCommands /\ x.kind = "info" /\ x.of = c)
         /\ x.kind # "ERROR"
      \/ At!Throw("failed") /\ x.kind = "ERROR"
      \/ x.kind = "OK" /\ At!Return(At!Top.infos)
      \/ /\ At!KeepInfo(x) /\ first
         /\ \/ c \in InfoCommands
            \/ c \in PduCommands /\ x.kind = "info" /\ x.of = c
         /\ x.kind # "ERROR"
         /\ ~(x.kind = "OK" /\ c \in Cmgrs)
  BY DEF At!ReadAnswer, Cmgrs
<1>2. CASE At!Throw("error") /\ x.kind = "ERROR"
  BY <1>2, ThrowThrows DEF Refusal, Stray
<1>6. CASE At!Throw("failed") /\ x.kind = "ERROR"
  BY <1>6, ThrowThrows DEF Refusal, Stray
<1>5. CASE At!Throw("failed") /\ ~(first /\ c \in InfoCommands)
           /\ ~(first /\ c \in PduCommands /\ x.kind = "info" /\ x.of = c)
  <2>1. Throws /\ result'.how # "error"
    BY <1>5, ThrowThrows
  <2>2. Len(stack) = 1 => At!Top = stack[1]
    BY OneCall
  <2> QED
    BY <1>5, <2>1, <2>2 DEF Refusal, Stray
<1>3. CASE x.kind = "OK" /\ At!Return(At!Top.infos)
  BY <1>3, ReturnReturns
<1>4. CASE /\ At!KeepInfo(x) /\ first
           /\ \/ c \in InfoCommands
              \/ c \in PduCommands /\ x.kind = "info" /\ x.of = c
           /\ x.kind # "ERROR"
           /\ ~(x.kind = "OK" /\ c \in Cmgrs)
  <2>1. c # Cnma
    BY <1>4, CommandFacts
  <2>2. Len(stack) = 1 /\ At!Top = stack[1]
    BY <2>1, TopFacts
  <2>3. c \in PduCommands => c \notin InfoCommands
    BY CommandFacts
  <2> QED
    BY <1>4, <2>2, <2>3, KeepInfoKeeps
<1> QED
  BY <1>1, <1>2, <1>3, <1>4, <1>5, <1>6

\* What sendPdu does after an error condition: s is the last line it saw.
LEMMA RetryCases ==
  ASSUME LineTypes, Calls, stack # << >>, ~At!Top.prompted, NEW x \in LineType \cup {Nothing},
         x # Nothing => x.kind \in {"info", "ERROR"}, At!Retry(x)
  PROVE  /\ Len(stack) = 1 /\ At!Top = stack[1]
         /\ \E s \in LineType \cup {Nothing} :
              /\ s = IF x = Nothing THEN stack[1].seen ELSE x
              /\ s # Nothing => s.kind \in {"info", "ERROR"}
              /\ \/ Resends(s)
                 \/ Throws /\ (result'.how = "error" => s # Nothing /\ s.kind = "ERROR")
                 \/ s # Nothing /\ s.kind = "info" /\ Keeps(s)
<1>1. Len(stack) = 1
  BY TopFacts
<1>2. At!Top = stack[1] /\ stack[1] \in FrameType /\ FrameOK(stack[1], 1)
      /\ \A g \in FrameType : Append(Front(stack), g) = <<g>>
  BY <1>1, OneCall, TopFacts
<1> DEFINE s == IF x = Nothing THEN stack[1].seen ELSE x
           f == [stack[1] EXCEPT !.tries = @ - 1, !.seen = s]
<1>3. s \in LineType \cup {Nothing} /\ (s # Nothing => s.kind \in {"info", "ERROR"})
  BY <1>2 DEF FrameType, FrameOK
<1>4. \/ stack[1].tries > 0 /\ At!WaitsOn(f) /\ todo' = Append(todo, stack[1].cmd)
      \/ At!Throw("failed")
      \/ s # Nothing /\ At!ReadAnswer(s)
  BY <1>2 DEF At!Retry
<1> HIDE DEF s
<1>5. CASE stack[1].tries > 0 /\ At!WaitsOn(f) /\ todo' = Append(todo, stack[1].cmd)
  <2>1. stack[1].tries \in Nat
    BY <1>2 DEF FrameType
  <2>2. stack[1].tries - 1 \in Nat
    BY <1>5, <2>1
  <2> DEFINE n == stack[1].tries - 1
  <2> HIDE DEF n
  <2>3. f \in FrameType /\ f.cmd = stack[1].cmd /\ f.event = stack[1].event /\ f.infos = stack[1].infos
        /\ f.prompted = stack[1].prompted /\ f.seen = s
    BY <1>2, <1>3, <2>2 DEF FrameType, n
  <2> HIDE DEF f
  <2>4. FrameOK(f, 1) /\ f.infos = << >> /\ ~f.prompted
    BY <1>2, <1>3, <2>3 DEF FrameOK
  <2>5. stack' = <<f>> /\ received' = received /\ result' = result
    BY <1>2, <1>5, <2>3 DEF At!WaitsOn, At!Front, Front
  <2>6. Goeson(f)
    BY <1>1, <2>3, <2>4, <2>5 DEF Goeson
  <2>7. Resends(s)
    BY <1>2, <1>5, <2>3, <2>4, <2>6 DEF Resends
  <2> QED
    BY <1>1, <1>2, <1>3, <2>7 DEF s
<1>6. CASE At!Throw("failed")
  <2>1. Throws /\ result'.how # "error"
    BY <1>6, ThrowThrows
  <2> QED
    BY <1>1, <1>2, <1>3, <2>1 DEF s
<1>7. CASE s # Nothing /\ At!ReadAnswer(s)
  <2>1. s \in LineType /\ s.kind \in {"info", "ERROR"} /\ s.kind # "event" /\ s.kind # "OK"
    BY <1>3, <1>7
  <2>2. (Throws /\ Refusal(s)) \/ Keeps(s)
    BY <1>7, <2>1, ReadAnswerCases
  <2>3. (Throws /\ (result'.how = "error" => s.kind = "ERROR")) \/ (s.kind = "info" /\ Keeps(s))
    BY <2>1, <2>2 DEF Keeps, Refusal
  <2> QED
    BY <1>1, <1>2, <1>3, <1>7, <2>3 DEF s
<1> QED
  BY <1>4, <1>5, <1>6, <1>7

\* sendPdu before the prompt: what becomes of a line.
LEMMA HandshakeCases ==
  ASSUME LineTypes, Calls, stack # << >>, ~At!Top.prompted, NEW x \in LineType, x.kind # "event",
         At!Handshake(x)
  PROVE  /\ Len(stack) = 1
         /\ \/ Throws /\ Refusal(x) /\ x.kind # "prompt"
            \/ x.kind = "prompt" /\ Continues
            \/ x.kind \in {"info", "ERROR"} /\ (Resends(x) \/ (x.kind = "info" /\ Keeps(x)))
<1>1. Len(stack) = 1
  BY TopFacts
<1>2. At!Top = stack[1] /\ stack[1] \in FrameType /\ FrameOK(stack[1], 1)
      /\ \A g \in FrameType : Append(Front(stack), g) = <<g>>
  BY <1>1, OneCall, TopFacts
<1> DEFINE f == [stack[1] EXCEPT !.prompted = TRUE]
<1>3. \/ x.kind = "prompt" /\ At!WaitsOn(f) /\ todo' = Append(todo, Pdu)
      \/ At!Throw("failed") /\ x.kind = "OK"
      \/ x.kind \in {"info", "ERROR"} /\ At!Retry(x)
  BY <1>2, LineFacts DEF At!Handshake
<1>4. CASE x.kind = "prompt" /\ At!WaitsOn(f) /\ todo' = Append(todo, Pdu)
  <2>1. f \in FrameType /\ f.cmd = stack[1].cmd /\ f.event = stack[1].event /\ f.infos = stack[1].infos
        /\ f.prompted = TRUE /\ f.seen = stack[1].seen
    BY <1>2 DEF FrameType
  <2>2. FrameOK(f, 1) /\ f.infos = << >>
    BY <1>2, <2>1 DEF FrameOK
  <2> HIDE DEF f
  <2>3. stack' = <<f>> /\ received' = received /\ result' = result
    BY <1>2, <1>4, <2>1 DEF At!WaitsOn, At!Front, Front
  <2>4. Goeson(f)
    BY <1>1, <2>1, <2>2, <2>3 DEF Goeson
  <2> QED
    BY <1>1, <1>2, <1>4, <2>1, <2>2, <2>4 DEF Continues
<1>5. CASE At!Throw("failed") /\ x.kind = "OK"
  BY <1>1, <1>5, ThrowThrows DEF Refusal
<1>6. CASE x.kind \in {"info", "ERROR"} /\ At!Retry(x)
  <2>1. x # Nothing
    BY NothingFacts
  <2>2. \E s \in LineType \cup {Nothing} :
              /\ s = IF x = Nothing THEN stack[1].seen ELSE x
              /\ s # Nothing => s.kind \in {"info", "ERROR"}
              /\ \/ Resends(s)
                 \/ Throws /\ (result'.how = "error" => s # Nothing /\ s.kind = "ERROR")
                 \/ s # Nothing /\ s.kind = "info" /\ Keeps(s)
    BY <1>6, RetryCases
  <2>3. Resends(x) \/ (Throws /\ (result'.how = "error" => x.kind = "ERROR")) \/ (x.kind = "info" /\ Keeps(x))
    BY <2>1, <2>2
  <2> QED
    BY <1>1, <1>6, <2>3 DEF Refusal
<1> QED
  BY <1>3, <1>4, <1>5, <1>6

-----------------------------------------------------------------------------
(* Reading a line, running out of time, and what the TA does. *)

HandsOver(e) ==
  /\ ~(e \in Direct /\ sendAck)
  /\ stack' = stack /\ todo' = todo /\ result' = result /\ received' = At!Handed(e)
Nests(e) ==
  /\ e \in Direct /\ sendAck
  /\ stack' = Append(stack, At!Frame(Cnma, e)) /\ todo' = Append(todo, Cnma)
  /\ result' = result /\ received' = received
Same == entering' = entering /\ listening' = listening /\ sendAck' = sendAck

Reads(x) ==
  \/ x.kind = "event" /\ (HandsOver(x.of) \/ Nests(x.of))
  \/ x.kind # "event" /\ Throws /\ Refusal(x) /\ (x.kind = "prompt" => At!Top.prompted)
     /\ (At!Top.prompted => Stray(x))
  \/ x.kind = "OK" /\ (ReturnsLast \/ ReturnsInner)
  \/ x.kind # "event" /\ Keeps(x) /\ (~At!Top.prompted => x.kind = "info")
  \/ x.kind = "prompt" /\ Len(stack) = 1 /\ Continues
  \/ x.kind \in {"info", "ERROR"} /\ Len(stack) = 1 /\ Resends(x)

\* The events are those in the lines that are sent.
LEMMA StreamLines ==
  ASSUME Parts
  PROVE  Lines = {Stream[j].of : j \in {i \in 1..Len(Stream) : Stream[i].kind = "event"}}
<1> DEFINE n == Len(line)
           l == Len(answering)
<1>1. /\ line \in Seq(LineType) /\ answering \in Seq(LineType)
      /\ \A p \in 1..l : answering[p] \in Answers0
  BY ElementOfSeq DEF Parts, Answers0
<1>2. n \in Nat /\ l \in Nat /\ DOMAIN line = 1..n
  BY <1>1, LenProperties
<1>3. /\ Len(Stream) = n + l
      /\ \A p \in 1..n + l : Stream[p] = IF p <= n THEN line[p] ELSE answering[p - n]
  BY <1>1, ConcatProperties DEF Stream
<1> HIDE DEF n, l
<1>4. ASSUME NEW i \in 1..n PROVE i \in 1..n + l /\ Stream[i] = line[i]
  BY <1>2, <1>3
<1>5. ASSUME NEW i \in 1..n + l, Stream[i].kind = "event" PROVE i \in 1..n /\ Stream[i] = line[i]
  <2>1. CASE i <= n
    BY <1>2, <1>3, <2>1
  <2>2. CASE ~(i <= n)
    <3>1. i - n \in 1..l /\ Stream[i] = answering[i - n]
      BY <1>2, <1>3, <2>2
    <3>2. Stream[i] \in Answers0
      BY <1>1, <3>1
    <3> QED
      BY <1>5, <3>2 DEF Answers0
  <2> QED
    BY <2>1, <2>2
<1> QED
  BY <1>2, <1>3, <1>4, <1>5 DEF Lines

\* The first line that is read is the first there is.
LEMMA StreamHead ==
  ASSUME Parts, line # << >>
  PROVE  /\ Stream # << >> /\ Tail(Stream) = Tail(line) \o answering /\ Head(Stream) = Head(line)
         /\ Tail(line) \in Seq(LineType)
<1>1. /\ line \in Seq(LineType) /\ answering \in Seq(LineType)
  <2>1. Answers0 \subseteq LineType
    BY DEF Answers0
  <2> QED
    BY <2>1 DEF Parts
<1>2. /\ Tail(line) \in Seq(LineType) /\ Tail(line \o answering) = Tail(line) \o answering
      /\ Head(line \o answering) = Head(line) /\ line \o answering # << >>
  BY <1>1
<1> QED
  BY <1>2 DEF Stream

\* GsmAt::getLine(): what becomes of the line that is read.
LEMMA GetLineCases ==
  ASSUME LineTypes, Parts, Calls, At!GetLine
  PROVE  /\ stack # << >> /\ Stream # << >> /\ Stream' = Tail(Stream) /\ Head(Stream) \in LineType /\ Same
         /\ line # << >> /\ Head(line) = Head(Stream)
         /\ Reads(Head(Stream)) /\ Parts'
<1> DEFINE x == Head(Stream)
<1>0. /\ line # << >> /\ line' = Tail(line) /\ answering' = answering
  BY DEF At!GetLine, At!Idle, At!Readable
<1>00. Stream # << >> /\ Stream' = Tail(Stream) /\ x = Head(line) /\ Parts'
  BY <1>0, StreamHead DEF Stream, Parts
<1>1. /\ stack # << >> /\ Stream # << >> /\ Stream' = Tail(Stream) /\ Same
      /\ \/ x.kind = "event" /\ At!Dispatch(x.of) /\ result' = result
         \/ x.kind # "event" /\ At!Top.prompted /\ At!ReadAnswer(x)
         \/ x.kind # "event" /\ ~At!Top.prompted /\ At!Handshake(x)
  <2> HIDE DEF x
  <2> QED
    BY <1>00 DEF At!GetLine, At!Idle, At!Readable, Same
<1>2. x \in LineType
  BY <1>1, HeadTailProperties DEF LineTypes
<1> HIDE DEF x
<1>3. ASSUME x.kind = "event", At!Dispatch(x.of), result' = result PROVE Reads(x)
  BY <1>3 DEF At!Dispatch, HandsOver, Nests, Reads
<1>4. ASSUME x.kind # "event", At!Top.prompted, At!ReadAnswer(x) PROVE Reads(x)
  <2>1. \/ Throws /\ Refusal(x) /\ Stray(x)
        \/ x.kind = "OK" /\ (ReturnsLast \/ ReturnsInner)
        \/ Keeps(x)
    BY <1>1, <1>2, <1>4, ReadAnswerCases
  <2> QED
    BY <1>4, <2>1 DEF Reads
<1>5. ASSUME x.kind # "event", ~At!Top.prompted, At!Handshake(x) PROVE Reads(x)
  <2>1. /\ Len(stack) = 1
        /\ \/ Throws /\ Refusal(x) /\ x.kind # "prompt"
           \/ x.kind = "prompt" /\ Continues
           \/ x.kind \in {"info", "ERROR"} /\ (Resends(x) \/ (x.kind = "info" /\ Keeps(x)))
    BY <1>1, <1>2, <1>5, HandshakeCases
  <2> QED
    BY <1>5, <2>1 DEF Reads
<1> QED
  BY <1>0, <1>00, <1>1, <1>2, <1>3, <1>4, <1>5 DEF x

\* A time-out finds no event in the line, and nothing to execute.
Expires ==
  \/ Throws /\ (result'.how = "error" => ~stack[1].prompted)
  \/ \E s \in LineType : s.kind = "info" /\ s = stack[1].seen /\ ~stack[1].prompted /\ Keeps(s)
  \/ \E s \in LineType \cup {Nothing} : s = stack[1].seen /\ Resends(s)

\* GsmAt::getLine() runs out of time.
LEMMA TimeOutCases ==
  ASSUME LineTypes, Parts, Calls, At!TimeOut
  PROVE  /\ stack # << >> /\ Stream' = << >> /\ Same /\ todo = << >> /\ Stream = line /\ Parts'
         /\ Stream = << >> \/ (Len(Stream) = 1 /\ Stream[1].kind = "prompt" /\ At!Top.prompted)
         /\ Expires
<1>0. /\ stack # << >> /\ line' = << >> /\ answering' = answering /\ Same /\ todo = << >> /\ answering = << >>
      /\ line # << >> => Head(line).kind = "prompt" /\ At!Top.prompted /\ ~(Len(line) > 1)
      /\ \/ At!Throw("failed")
         \/ ~At!Top.prompted /\ At!Retry(Nothing)
  BY DEF At!TimeOut, At!Silence, At!Idle, At!Readable, Same
<1>00. Stream = line /\ Stream' = << >> /\ Parts'
  <2>1. line \o << >> = line /\ << >> \o << >> = << >> /\ << >> \in Seq(LineType)
    BY DEF Parts
  <2>2. Stream = line /\ Stream' = << >> \o << >>
    BY <1>0, <2>1 DEF Stream
  <2> QED
    BY <1>0, <2>1, <2>2 DEF Parts
<1>1. /\ stack # << >> /\ Stream' = << >> /\ Same /\ todo = << >>
      /\ Stream # << >> => Head(Stream).kind = "prompt" /\ At!Top.prompted /\ ~(Len(Stream) > 1)
      /\ \/ At!Throw("failed")
         \/ ~At!Top.prompted /\ At!Retry(Nothing)
  BY <1>0, <1>00
<1>2. Stream = << >> \/ (Len(Stream) = 1 /\ Stream[1].kind = "prompt" /\ At!Top.prompted)
  <2> SUFFICES ASSUME Stream # << >> PROVE Len(Stream) = 1 /\ Stream[1].kind = "prompt" /\ At!Top.prompted
    OBVIOUS
  <2> DEFINE n == Len(Stream)
  <2>1. n \in Nat \ {0} /\ Head(Stream) = Stream[1]
    BY Shrunk DEF LineTypes
  <2>2. ~(n > 1)
    BY <1>1
  <2> HIDE DEF n
  <2>3. n = 1
    BY <2>1, <2>2
  <2> QED
    BY <1>1, <2>1, <2>3 DEF n
<1>3. CASE At!Throw("failed")
  <2>1. Throws /\ result'.how # "error"
    BY <1>1, <1>3, ThrowThrows
  <2> QED
    BY <1>00, <1>1, <1>2, <2>1 DEF Expires
<1>4. CASE ~At!Top.prompted /\ At!Retry(Nothing)
  <2>1. /\ Len(stack) = 1 /\ At!Top = stack[1]
        /\ \E s \in LineType \cup {Nothing} :
             /\ s = stack[1].seen
             /\ s # Nothing => s.kind \in {"info", "ERROR"}
             /\ \/ Resends(s)
                \/ Throws /\ (result'.how = "error" => s # Nothing /\ s.kind = "ERROR")
                \/ s # Nothing /\ s.kind = "info" /\ Keeps(s)
    BY <1>1, <1>4, RetryCases
  <2>2. Expires
    BY <1>4, <2>1 DEF Expires
  <2> QED
    BY <1>00, <1>1, <1>2, <2>2
<1> QED
  BY <1>1, <1>3, <1>4

\* What the TA says of a command: nothing, or one line.
LEMMA ContentFacts ==
  ASSUME NEW c \in Sent, store \in [Slot -> Message \cup {Nothing}]
  PROVE  \/ /\ c \in Cmgrs
            /\ \E i \in Slot : c = Cmgr(i) /\ store[i] # Nothing /\ Content(c) = <<store[i]>>
         \/ c \in (InfoCommands \ Cmgrs) \cup {Pdu} /\ Content(c) = <<Nothing>>
         \/ c \notin (InfoCommands \ Cmgrs) \cup {Pdu} /\ Content(c) = << >>
<1> DEFINE slots == {i \in Slot : c = Cmgr(i) /\ store[i] # Nothing}
<1>1. Content(c) = IF slots # {} THEN <<store[CHOOSE i \in slots : TRUE]>>
                   ELSE IF c \in InfoCommands \ Cmgrs \/ c = Pdu THEN <<Nothing>> ELSE << >>
  BY DEF Content, Cmgr, Cmgrs
<1>2. CASE slots # {}
  <2>1. PICK i \in slots : i = CHOOSE j \in slots : TRUE
    BY <1>2
  <2>2. i \in Slot /\ c = Cmgr(i) /\ store[i] # Nothing /\ Content(c) = <<store[i]>>
    BY <1>1, <1>2, <2>1
  <2> QED
    BY <2>2, CmgrFacts
<1>3. CASE slots = {}
  BY <1>1, <1>3
<1> QED
  BY <1>2, <1>3

\* The lines of an answer.
LEMMA AnswerFacts ==
  ASSUME NEW c \in Command \cup {Cnma}, NEW v \in Message \cup {Nothing}, Stream \in Seq(LineType)
  PROVE  /\ Stream \o At!Answer(c, TRUE, <<v>>)
              = Append(Append(Stream, At!Item("info", c, v)), At!Item("OK", c, Nothing))
         /\ Stream \o At!Answer(c, TRUE, << >>) = Append(Stream, At!Item("OK", c, Nothing))
         /\ \A vs : Stream \o At!Answer(c, FALSE, vs) = Append(Stream, At!Item("ERROR", c, Nothing))
<1> DEFINE y == At!Item("info", c, v)
           z == At!Item("OK", c, Nothing)
           w == At!Item("ERROR", c, Nothing)
<1>1. y \in LineType /\ z \in LineType /\ w \in LineType
  BY ItemFacts
<1>2. At!Infos(c, <<v>>) = <<y>>
  <2>1. DOMAIN <<v>> = {1} /\ <<v>>[1] = v
    OBVIOUS
  <2>2. At!Infos(c, <<v>>) = [i \in {1} |-> y]
    BY <2>1 DEF At!Infos
  <2> QED
    BY <2>2
<1>3. At!Infos(c, << >>) = << >>
  <2>1. DOMAIN << >> = {}
    OBVIOUS
  <2>2. At!Infos(c, << >>) = [i \in {} |-> At!Item("info", c, << >>[i])]
    BY <2>1 DEF At!Infos
  <2> QED
    BY <2>2
<1>4. /\ At!Answer(c, TRUE, <<v>>) = Append(<<y>>, z) /\ At!Answer(c, TRUE, << >>) = Append(<< >>, z)
      /\ \A vs : At!Answer(c, FALSE, vs) = <<w>>
  BY <1>2, <1>3 DEF At!Answer
<1> HIDE DEF y, z, w
<1>5. Stream \o Append(<<y>>, z) = Append(Append(Stream, y), z)
  BY <1>1
<1>6. Stream \o Append(<< >>, z) = Append(Stream, z)
  BY <1>1
<1>7. Stream \o <<w>> = Append(Stream, w)
  BY <1>1
<1> QED
  BY <1>4, <1>5, <1>6, <1>7 DEF y, z, w

Refuses(c) == \E z \in LineType : z.kind = "ERROR" /\ z.of = c /\ Stream' = Append(Stream, z)
Answers(c) ==
  \/ \E z \in LineType : z.kind = "OK" /\ z.of = c /\ Stream' = Append(Stream, z)
  \/ \E y, z \in LineType :
       /\ y.kind = "info" /\ y.of = c /\ c \in InfoCommands \cup PduCommands
       /\ (c \in Cmgrs => \E i \in Slot : c = Cmgr(i) /\ store[i] # Nothing /\ y.value = store[i])
       /\ z.kind = "OK" /\ z.of = c
       /\ Stream' = Append(Append(Stream, y), z)
Stored == store' = store /\ routing' = routing

\* How the TA executes the command c.
Drops(c)   == c = Pdu /\ entering.cmd = Nothing /\ Stream' = Stream /\ entering' = entering /\ Stored
Prompts(c) == /\ c \in PduCommands /\ entering.cmd = Nothing /\ Stored
              /\ \E x \in LineType : x.kind = "prompt" /\ x.of = c /\ Stream' = Append(Stream, x)
              /\ entering' \in EnteringType /\ entering'.cmd = c
Obeys(c)   == /\ c \in (Command \cup {Cnma}) \ PduCommands /\ entering.cmd = Nothing
              /\ entering' = entering /\ Answers(c)
              /\ store' = [i \in Slot |-> IF c = Cmgd(i) THEN Nothing ELSE store[i]]
              /\ routing' \in BOOLEAN
Rejects1(c) == /\ c \in Command \cup {Cnma} /\ entering.cmd = Nothing
               /\ entering' = entering /\ Refuses(c) /\ Stored
Garbles(c) == /\ c # Pdu /\ entering.cmd # Nothing /\ Stream' = Stream /\ Stored
              /\ entering' \in EnteringType /\ entering'.cmd = entering.cmd
Finishes(c) == /\ c = Pdu /\ entering.cmd # Nothing /\ entering' = At!NotEntering /\ Stored
               /\ Refuses(entering.cmd) \/ Answers(entering.cmd)

PromptsFor(c) == /\ Stream' = Append(Stream, At!Item("prompt", c, Nothing))
                 /\ entering' = [cmd |-> c, garbled |-> FALSE]

\* Every way the TA can execute the next command.
LEMMA ExecutesCases ==
  ASSUME LineTypes, Parts, routing \in BOOLEAN, store \in [Slot -> Message \cup {Nothing}], Executes
  PROVE  /\ todo # << >> /\ todo' = Tail(todo) /\ Head(todo) \in Sent
         /\ stack' = stack /\ result' = result /\ listening' = listening /\ sendAck' = sendAck
         /\ received' = received
         /\ UNCHANGED <<arrived, spool, opt, pc, loopVars, terminateSent, ghostVars>>
         /\ \/ Drops(Head(todo)) \/ Prompts(Head(todo)) \/ Obeys(Head(todo)) \/ Rejects1(Head(todo))
            \/ Garbles(Head(todo)) \/ Finishes(Head(todo))
<1> DEFINE c == Head(todo)
<1>1. /\ todo # << >> /\ UNCHANGED <<arrived, spool, opt, pc, loopVars, terminateSent, ghostVars>>
      /\ \/ /\ At!TAExecutes(TRUE, Content(c)) /\ entering = At!NotEntering
            /\ store' = [i \in Slot |-> IF c = Cmgd(i) THEN Nothing ELSE store[i]]
            /\ routing' = IF c[1] = "CNMI" THEN c[2] = 1 ELSE routing
         \/ At!TAExecutes(FALSE, << >>) /\ Stored
         \/ entering # At!NotEntering /\ At!TAExecutes(TRUE, Content(c)) /\ Stored
  BY DEF Executes, Stored, Cmgd
<1>2. c \in Sent
  BY <1>1, HeadTailProperties DEF LineTypes
<1> HIDE DEF c
<1>3. ASSUME NEW ok, NEW vs, At!TAExecutes(ok, vs)
      PROVE  /\ todo' = Tail(todo) /\ stack' = stack /\ result' = result /\ listening' = listening
             /\ sendAck' = sendAck /\ received' = received
             /\ \/ c = Pdu /\ entering.cmd = Nothing /\ Stream' = Stream /\ entering' = entering
                \/ /\ c # Pdu /\ entering.cmd = Nothing
                   /\ IF c \in PduCommands /\ ok THEN PromptsFor(c)
                      ELSE Stream' = Stream \o At!Answer(c, ok, vs) /\ entering' = entering
                \/ /\ c # Pdu /\ entering.cmd # Nothing /\ Stream' = Stream
                   /\ entering' = [entering EXCEPT !.garbled = TRUE]
                \/ /\ c = Pdu /\ entering.cmd # Nothing
                   /\ Stream' = Stream \o At!Answer(entering.cmd, ok, vs) /\ entering' = At!NotEntering
  <2>1. answering = << >> /\ Stream = line
    BY <1>3 DEF At!TAExecutes, Stream, Parts
  <2>2. ASSUME NEW d, At!Responds(d, ok, vs) PROVE Stream' = Stream \o At!Answer(d, ok, vs)
    BY <2>1, <2>2 DEF At!Responds, Stream
  <2>3. At!Prompts(c) => PromptsFor(c)
    <3> SUFFICES ASSUME At!Prompts(c) PROVE PromptsFor(c)
      OBVIOUS
    <3>1. line' = Append(line, At!Item("prompt", c, Nothing)) /\ entering' = [cmd |-> c, garbled |-> FALSE]
          /\ answering' = << >>
      BY <2>1 DEF At!Prompts
    <3>2. Stream' = Append(Stream, At!Item("prompt", c, Nothing))
      BY <2>1, <3>1 DEF Stream, At!Item
    <3> QED
      BY <3>1, <3>2 DEF PromptsFor
  <2>4. line' = line /\ answering' = answering => Stream' = Stream
    BY DEF Stream
  <2> QED
    BY <1>3, <2>2, <2>3, <2>4 DEF At!TAExecutes, c
<1>4. /\ entering \in EnteringType /\ (entering.cmd = Nothing <=> entering = At!NotEntering)
      /\ Stream \in Seq(LineType) /\ entering.cmd \in PduCommands \cup {Nothing}
  BY DEF LineTypes, EnteringType, At!NotEntering
<1>5. c # Pdu => c \in Command \cup {Cnma}
  BY <1>2 DEF Sent
<1>6. Nothing \in Message \cup {Nothing} /\ PduCommands \subseteq Command
  BY CommandFacts
<1>7. ASSUME NEW d \in Command \cup {Cnma}, Stream' = Stream \o At!Answer(d, FALSE, << >>)
      PROVE  Refuses(d)
  <2>1. \A vs : Stream \o At!Answer(d, FALSE, vs) = Append(Stream, At!Item("ERROR", d, Nothing))
    BY <1>4, <1>6, AnswerFacts
  <2>2. Stream' = Append(Stream, At!Item("ERROR", d, Nothing))
    BY <1>7, <2>1
  <2>3. /\ At!Item("ERROR", d, Nothing) \in LineType /\ At!Item("ERROR", d, Nothing).kind = "ERROR"
        /\ At!Item("ERROR", d, Nothing).of = d
    BY <1>6, ItemFacts
  <2> QED
    BY <2>2, <2>3 DEF Refuses
<1>8. ASSUME NEW d \in Command \cup {Cnma}, NEW e \in Sent, Content(e) # << >>, Stream' = Stream \o At!Answer(d, TRUE, Content(e)),
             (e = Pdu /\ d \in PduCommands) \/ e = d
      PROVE  Answers(d)
  <2>1. CASE e \in Cmgrs
    <3>1. d = e
      BY <1>8, <2>1, CommandFacts
    <3>2. PICK i \in Slot : e = Cmgr(i) /\ store[i] # Nothing /\ Content(e) = <<store[i]>>
      BY <1>8, <2>1, ContentFacts, CommandFacts
    <3>3. store[i] \in Message \cup {Nothing}
      BY <3>2
    <3>4. Stream' = Append(Append(Stream, At!Item("info", d, store[i])), At!Item("OK", d, Nothing))
      BY <1>4, <1>8, <3>2, <3>3, AnswerFacts
    <3>5. d \in InfoCommands
      BY <2>1, <3>1, CommandFacts
    <3> DEFINE y == At!Item("info", d, store[i])
               z == At!Item("OK", d, Nothing)
    <3>6. /\ y \in LineType /\ y.kind = "info" /\ y.of = d /\ y.value = store[i]
          /\ z \in LineType /\ z.kind = "OK" /\ z.of = d
      BY <1>6, <3>3, ItemFacts
    <3> HIDE DEF y, z
    <3>7. Stream' = Append(Append(Stream, y), z)
      BY <3>4 DEF y, z
    <3> QED
      BY <3>1, <3>2, <3>5, <3>6, <3>7 DEF Answers
  <2>2. CASE e \notin Cmgrs
    <3>1. e \in (InfoCommands \ Cmgrs) \cup {Pdu} /\ Content(e) = <<Nothing>>
      BY <1>8, <2>2, ContentFacts
    <3>2. d \in InfoCommands \cup PduCommands /\ d \notin Cmgrs
      BY <1>8, <3>1, CommandFacts
    <3>3. Stream' = Append(Append(Stream, At!Item("info", d, Nothing)), At!Item("OK", d, Nothing))
      BY <1>4, <1>6, <1>8, <3>1, AnswerFacts
    <3> QED
      BY <1>6, <3>2, <3>3, ItemFacts DEF Answers
  <2> QED
    BY <2>1, <2>2
<1>9. ASSUME NEW d \in Command \cup {Cnma}, NEW e \in Sent, Content(e) = << >>, Stream' = Stream \o At!Answer(d, TRUE, Content(e))
      PROVE  Answers(d)
  <2>1. Stream' = Append(Stream, At!Item("OK", d, Nothing))
    BY <1>4, <1>6, <1>9, AnswerFacts
  <2> QED
    BY <1>6, <2>1, ItemFacts DEF Answers
<1>10. ASSUME At!TAExecutes(FALSE, << >>), Stored
       PROVE  Drops(c) \/ Rejects1(c) \/ Garbles(c) \/ Finishes(c)
  <2>1. \/ c = Pdu /\ entering.cmd = Nothing /\ Stream' = Stream /\ entering' = entering
        \/ c # Pdu /\ entering.cmd = Nothing /\ Stream' = Stream \o At!Answer(c, FALSE, << >>) /\ entering' = entering
        \/ /\ c # Pdu /\ entering.cmd # Nothing /\ Stream' = Stream
           /\ entering' = [entering EXCEPT !.garbled = TRUE]
        \/ /\ c = Pdu /\ entering.cmd # Nothing
           /\ Stream' = Stream \o At!Answer(entering.cmd, FALSE, << >>) /\ entering' = At!NotEntering
    BY <1>3, <1>10
  <2>2. ASSUME c # Pdu, entering.cmd = Nothing, Stream' = Stream \o At!Answer(c, FALSE, << >>), entering' = entering
        PROVE  Rejects1(c)
    BY <1>5, <1>7, <1>10, <2>2 DEF Rejects1
  <2>3. ASSUME c = Pdu, entering.cmd # Nothing, Stream' = Stream \o At!Answer(entering.cmd, FALSE, << >>), entering' = At!NotEntering
        PROVE  Finishes(c)
    BY <1>4, <1>6, <1>7, <1>10, <2>3 DEF Finishes
  <2>4. entering' = [entering EXCEPT !.garbled = TRUE] => entering' \in EnteringType /\ entering'.cmd = entering.cmd
    BY <1>4 DEF EnteringType
  <2> QED
    BY <1>10, <2>1, <2>2, <2>3, <2>4 DEF Drops, Garbles
<1>11. ASSUME At!TAExecutes(TRUE, Content(c)), entering = At!NotEntering,
              store' = [i \in Slot |-> IF c = Cmgd(i) THEN Nothing ELSE store[i]],
              routing' = IF c[1] = "CNMI" THEN c[2] = 1 ELSE routing
       PROVE  Drops(c) \/ Prompts(c) \/ Obeys(c)
  <2>1. \/ c = Pdu /\ Stream' = Stream /\ entering' = entering
        \/ c # Pdu /\ c \in PduCommands /\ PromptsFor(c)
        \/ c # Pdu /\ c \notin PduCommands /\ Stream' = Stream \o At!Answer(c, TRUE, Content(c)) /\ entering' = entering
    BY <1>3, <1>4, <1>11
  <2>2. (c = Pdu \/ c \in PduCommands) => Stored
    <3> SUFFICES ASSUME c = Pdu \/ c \in PduCommands PROVE Stored
      OBVIOUS
    <3>1. c = <<"PDU", 0>> \/ c = <<"CMGS", 0>>
      BY DEF Pdu, PduCommands
    <3>2. c[1] # "CNMI"
      BY <3>1
    <3>3. c \notin Cmgds
      BY CommandFacts
    <3>4. store' = [i \in Slot |-> store[i]]
      BY <1>11, <3>3, CmgrFacts
    <3> QED
      BY <1>11, <3>2, <3>4 DEF Stored
  <2>3. CASE c = Pdu /\ Stream' = Stream /\ entering' = entering
    BY <1>4, <1>11, <2>2, <2>3 DEF Drops
  <2>4. CASE c # Pdu /\ c \in PduCommands /\ PromptsFor(c)
    <3>1. Stream' = Append(Stream, At!Item("prompt", c, Nothing)) /\ entering' = [cmd |-> c, garbled |-> FALSE]
      BY <2>4 DEF PromptsFor
    <3>2. entering' \in EnteringType /\ entering'.cmd = c
      BY <2>4, <3>1 DEF EnteringType
    <3> QED
      BY <1>4, <1>6, <1>11, <2>2, <2>4, <3>1, <3>2, ItemFacts DEF Prompts
  <2>5. CASE c # Pdu /\ c \notin PduCommands /\ Stream' = Stream \o At!Answer(c, TRUE, Content(c)) /\ entering' = entering
    <3>1. Answers(c)
      BY <1>2, <1>5, <1>8, <1>9, <2>5
    <3>2. routing' \in BOOLEAN
      BY <1>11
    <3> QED
      BY <1>4, <1>5, <1>11, <2>5, <3>1, <3>2 DEF Obeys
  <2> QED
    BY <2>1, <2>3, <2>4, <2>5
<1>12. ASSUME entering # At!NotEntering, At!TAExecutes(TRUE, Content(c)), Stored
       PROVE  Garbles(c) \/ Finishes(c)
  <2>1. entering.cmd # Nothing /\ entering.cmd \in PduCommands
    BY <1>4, <1>12
  <2>2. \/ /\ c # Pdu /\ Stream' = Stream
           /\ entering' = [entering EXCEPT !.garbled = TRUE]
        \/ /\ c = Pdu
           /\ Stream' = Stream \o At!Answer(entering.cmd, TRUE, Content(c)) /\ entering' = At!NotEntering
    BY <1>3, <1>12, <2>1
  <2>3. entering' = [entering EXCEPT !.garbled = TRUE] => entering' \in EnteringType /\ entering'.cmd = entering.cmd
    BY <1>4 DEF EnteringType
  <2>4. ASSUME c = Pdu, Stream' = Stream \o At!Answer(entering.cmd, TRUE, Content(c)), entering' = At!NotEntering
        PROVE  Finishes(c)
    <3>1. entering.cmd \in Command \cup {Cnma}
      BY <1>6, <2>1
    <3>2. Answers(entering.cmd)
      BY <1>2, <1>8, <1>9, <2>1, <2>4, <3>1
    <3> QED
      BY <1>12, <2>1, <2>4, <3>2 DEF Finishes
  <2> QED
    BY <1>12, <2>1, <2>2, <2>3, <2>4 DEF Garbles
<1>13. /\ todo' = Tail(todo) /\ stack' = stack /\ result' = result /\ listening' = listening
       /\ sendAck' = sendAck /\ received' = received
  BY <1>1, <1>3
<1>14. Drops(c) \/ Prompts(c) \/ Obeys(c) \/ Rejects1(c) \/ Garbles(c) \/ Finishes(c)
  BY <1>1, <1>10, <1>11, <1>12
<1> QED
  BY <1>1, <1>2, <1>13, <1>14 DEF c

-----------------------------------------------------------------------------
(* The steps of the daemon: those that change nothing but where it is and  *)
(* what it waits for, and the others.                                      *)

Rests    == UNCHANGED <<Stream, todo, entering, stack, result, listening, sendAck, received>>
Chats(c) ==
  /\ stack' = <<At!Frame(c, Nothing)>> /\ todo' = Append(todo, c) /\ result' = At!NoResult
  /\ Stream' = Stream /\ entering' = entering /\ listening' = listening /\ sendAck' = sendAck
  /\ received' = received
Around0 == UNCHANGED <<arrived, store, routing>>
Acts0   == UNCHANGED <<flushed, dispatched, ignored>>
Plain   == Command \ (Cmgrs \cup Cmgds)

\* Between two labels.
Onward ==
  /\ pc \in Labels /\ pc' \in Labels
  /\ pc \in Broken => pc' \in Broken
  /\ pc \in Main => pc' \in Main \cup Broken
  /\ pc \in Starting => pc' \in Starting \cup Broken
  /\ pc' \notin Asking /\ (pc \in Asking => pc' \in Broken)
  /\ pc' \in Fetching => pc \in Fetching
  /\ pc' \in Flushing => pc' \in {"flushOpened", "flush"} /\ pc \in {"open", "flushOpened"}
  /\ pc' \in {"erased", "act"} => pc \in {"erased", "act"}
  /\ pc \in {"erased", "act"} => pc' \in {"erased", "act"} \cup Broken
Moves ==
  /\ stack = << >> /\ Onward /\ Around0 /\ Acts0 /\ slot' = slot /\ text' = text
  /\ \/ Rests
     \/ pc' \notin Ended \cup {"flush"} /\ \E c \in Plain : Chats(c) /\ (c \in PduCommands => pc' = "sent")
  /\ pc \in Starting /\ pc' \in Starting => pc = "open" \/ pc = "flush" \/ result.how \in {"ok", "error"}
  /\ pc' = "exit0" => received = << >>

Asks ==
  /\ stack = << >> /\ slot' = slot /\ text' = text /\ Chats(Cmgr(slot)) /\ Around0 /\ Acts0
  /\ \/ pc = "flush" /\ pc' = "flushRead" /\ slot < Slots
     \/ pc \in {"open store", "store opened"} /\ pc' = "read"
SkipsEmpty ==
  /\ stack = << >> /\ pc = "flushRead" /\ pc' = "flush" /\ slot' = slot + 1 /\ text' = text
  /\ Ok /\ Answered = Nothing /\ Rests /\ Around0 /\ Acts0
Flushes1 ==
  /\ stack = << >> /\ pc = "flushRead" /\ pc' = "flushErased" /\ slot' = slot /\ text' = text
  /\ Ok /\ Answered # Nothing /\ Chats(Cmgd(slot)) /\ Around0
  /\ flushed' = Append(flushed, Answered) /\ dispatched' = dispatched /\ ignored' = ignored
Advances ==
  /\ stack = << >> /\ pc = "flushErased" /\ pc' = "flush" /\ slot' = slot + 1 /\ text' = text
  /\ Ok /\ Rests /\ Around0 /\ Acts0
Fetched ==
  /\ stack = << >> /\ pc = "read" /\ pc' = "erased" /\ slot' = slot /\ text' = Answered
  /\ Ok /\ Answered # Nothing /\ Chats(Cmgd(slot)) /\ Around0 /\ Acts0
Dispatched1 ==
  /\ stack = << >> /\ pc = "act" /\ pc' = "drain" /\ slot' = slot /\ text' = text
  /\ Rests /\ Around0
  /\ flushed' = flushed /\ dispatched' = Append(dispatched, text) /\ ignored' = ignored
Listens ==
  /\ stack = << >> /\ pc = "route" /\ pc' = "wait" /\ slot' = slot /\ text' = text
  /\ listening' = TRUE /\ UNCHANGED <<Stream, todo, entering, stack, result, sendAck, received>>
  /\ Around0 /\ Acts0
Pops ==
  /\ stack = << >> /\ pc = "drain" /\ received # << >> /\ received' = Tail(received)
  /\ UNCHANGED <<Stream, todo, entering, stack, result, listening, sendAck>> /\ Around0 /\ Acts0
  /\ \/ /\ Head(received) \in Direct /\ pc' = "act" /\ text' = Head(received).msg /\ slot' = slot
     \/ /\ Head(received) \notin Direct /\ pc' = "open store" /\ slot' = Head(received).index - 1
        /\ text' = text

\* A command is sent.
LEMMA ChatFacts ==
  ASSUME NEW c, At!Chat(c)
  PROVE  stack = << >> /\ Chats(c)
  BY DEF At!Chat, Chats, Stream

\* The commands that neither read nor erase a slot.
LEMMA PlainFacts ==
  /\ {<<"CPMS", 0>>, <<"CSMS", 0>>, <<"CNMI?", 0>>, <<"CNMI", 0>>, <<"CNMI", 1>>, <<"AT", 0>>} \subseteq Plain
  /\ <<"CMGS", 0>> \in Plain
  /\ {<<"CPMS", 0>>, <<"CSMS", 0>>, <<"CNMI?", 0>>, <<"CNMI", 0>>, <<"CNMI", 1>>, <<"AT", 0>>} \cap PduCommands = {}
  BY CommandFacts DEF Plain

\* The parts of a step that only goes on.
LEMMA MovesOn ==
  ASSUME Onward, At!Idle, Around0, Acts0, slot' = slot, text' = text,
         NEW p, pc' = p,
         \/ UNCHANGED lineVars
         \/ p \notin Ended \cup {"flush"} /\ \E c \in Plain : At!Chat(c) /\ (c \in PduCommands => p = "sent"),
         pc \in Starting /\ p \in Starting => pc = "open" \/ pc = "flush" \/ result.how \in {"ok", "error"},
         p = "exit0" => received = << >>
  PROVE  Moves
<1>1. stack = << >>
  BY DEF At!Idle
<1>2. \/ Rests
      \/ pc' \notin Ended \cup {"flush"} /\ \E c \in Plain : Chats(c) /\ (c \in PduCommands => pc' = "sent")
  BY ChatFacts DEF Rests, lineVars, Stream
<1> QED
  BY <1>1, <1>2 DEF Moves

\* The catch block of main is entered.
LEMMA FailsMoves ==
  ASSUME Fails, pc \in Labels, At!Idle, Around0, Acts0, slot' = slot, text' = text
  PROVE  Moves
<1>1. At!Chat(<<"CNMI?", 0>>) /\ pc' = "failProbe"
  BY DEF Fails, Sends
<1>2. Onward
  BY <1>1 DEF Onward, Labels, Starting, Main, Broken, Fetching, Flushing, Asking
<1>3. "failProbe" \notin Ended \cup {"flush"} \cup Starting \cup {"exit0"}
  BY DEF Ended, Starting
<1> QED
  BY <1>1, <1>2, <1>3, PlainFacts, MovesOn

OtherSteps == \/ Moves \/ Asks \/ SkipsEmpty \/ Flushes1 \/ Advances \/ Fetched \/ Dispatched1
              \/ Listens \/ Pops

\* The steps of the start, the poll, the drain and the spool directory.
LEMMA StartCases ==
  ASSUME Start \/ FailStep \/ Drained \/ ReadDir \/ SendFile
  PROVE  Moves
<1> USE DEF taVars, loopVars, ghostVars, Around0, Acts0, Reached, Sends, Goes
<1> DEFINE L == /\ Onward /\ At!Idle /\ Around0 /\ Acts0 /\ slot' = slot /\ text' = text
                /\ (pc \in Starting /\ pc' \in Starting => pc = "open" \/ pc = "flush" \/ result.how \in {"ok", "error"})
                /\ (pc' = "exit0" => received = << >>)
                /\ \/ UNCHANGED lineVars
                   \/ pc' \notin Ended \cup {"flush"} /\ \E c \in Plain : At!Chat(c) /\ (c \in PduCommands => pc' = "sent")
<1>0. L => Moves
  BY MovesOn
<1>1. CASE Start
  <2>1. pc = "open" /\ pc' \in {"flushOpened", "storeSet"} /\ At!Chat(<<"CPMS", 0>>)
    BY <1>1 DEF Start
  <2>2. Onward
    BY <2>1 DEF Onward, Labels, Starting, Main, Broken, Fetching, Flushing, Asking
  <2>3. pc' \notin Ended \cup {"flush"} /\ pc' # "exit0"
    BY <2>1 DEF Ended
  <2>4. At!Idle /\ slot' = slot /\ text' = text /\ Around0 /\ Acts0
    BY <1>1 DEF Start
  <2> QED
    BY <1>0, <2>1, <2>2, <2>3, <2>4, PlainFacts
<1>2. CASE FailStep
  <2>1. \/ pc = "failProbe" /\ At!Chat(<<"CNMI", 0>>) /\ pc' = "failOff"
        \/ pc \in {"failProbe", "failOff"} /\ pc' = "exit1" /\ UNCHANGED lineVars
    BY <1>2 DEF FailStep
  <2>2. Onward
    BY <2>1 DEF Onward, Labels, Starting, Main, Broken, Fetching, Flushing, Asking
  <2>3. (pc' = "failOff" => pc' \notin Ended \cup {"flush"}) /\ pc' # "exit0" /\ pc' \notin Starting
    BY <2>1 DEF Ended, Starting
  <2>4. At!Idle /\ slot' = slot /\ text' = text /\ Around0 /\ Acts0
    BY <1>2 DEF FailStep
  <2> QED
    BY <1>0, <2>1, <2>2, <2>3, <2>4, PlainFacts
<1>3. CASE Drained
  <2>1. pc = "drain" /\ pc' \in {"exit0", "check"} /\ UNCHANGED lineVars /\ received = << >>
    BY <1>3 DEF Drained
  <2>2. Onward
    BY <2>1 DEF Onward, Labels, Starting, Main, Broken, Fetching, Flushing, Asking
  <2>3. pc' \notin Starting
    BY <2>1 DEF Starting
  <2>4. At!Idle /\ slot' = slot /\ text' = text /\ Around0 /\ Acts0
    BY <1>3 DEF Drained
  <2> QED
    BY <1>0, <2>1, <2>2, <2>3, <2>4
<1>4. CASE ReadDir
  <2>1. pc = "spool" /\ pc' \in {"wait", "scan"} /\ UNCHANGED lineVars
    BY <1>4 DEF ReadDir
  <2>2. Onward
    BY <2>1 DEF Onward, Labels, Starting, Main, Broken, Fetching, Flushing, Asking
  <2>3. pc' \notin Starting /\ pc' # "exit0"
    BY <2>1 DEF Starting
  <2>4. At!Idle /\ slot' = slot /\ text' = text /\ Around0 /\ Acts0
    BY <1>4 DEF ReadDir
  <2> QED
    BY <1>0, <2>1, <2>2, <2>3, <2>4
<1>5. CASE SendFile
  <2>1. pc = "scan" /\ ((pc' = "wait" /\ UNCHANGED lineVars) \/ (pc' = "sent" /\ At!Chat(<<"CMGS", 0>>)))
    BY <1>5 DEF SendFile
  <2>2. Onward
    BY <2>1 DEF Onward, Labels, Starting, Main, Broken, Fetching, Flushing, Asking
  <2>3. pc' \notin Starting /\ pc' \notin Ended \cup {"flush"} /\ pc' # "exit0"
    BY <2>1 DEF Starting, Ended
  <2>4. At!Idle /\ slot' = slot /\ text' = text /\ Around0 /\ Acts0
    BY <1>5 DEF SendFile
  <2> QED
    BY <1>0, <2>1, <2>2, <2>3, <2>4, PlainFacts
<1> QED
  BY <1>1, <1>2, <1>3, <1>4, <1>5

\* The steps that can end in the catch block.
LEMMA ErrorCases ==
  ASSUME RouteStep \/ WaitEvent \/ Erased \/ HandleSignal \/ FileSent \/ SetEventHandler
  PROVE  Moves \/ Listens
<1> USE DEF taVars, loopVars, ghostVars, Around0, Acts0, Reached, Sends, Goes
<1> DEFINE L == /\ Onward /\ At!Idle /\ Around0 /\ Acts0 /\ slot' = slot /\ text' = text
                /\ (pc \in Starting /\ pc' \in Starting => pc = "open" \/ pc = "flush" \/ result.how \in {"ok", "error"})
                /\ (pc' = "exit0" => received = << >>)
                /\ \/ UNCHANGED lineVars
                   \/ pc' \notin Ended \cup {"flush"} /\ \E c \in Plain : At!Chat(c) /\ (c \in PduCommands => pc' = "sent")
<1>0. L => Moves
  BY MovesOn
<1>1. CASE RouteStep
  <2>1. /\ pc \in {"storeSet", "serviceSet", "routeProbe", "route"}
        /\ \/ Fails
           \/ pc' = "serviceSet" /\ At!Chat(<<"CSMS", 0>>) /\ pc = "storeSet" /\ result.how = "ok"
           \/ pc' = "routeProbe" /\ At!Chat(<<"CNMI?", 0>>) /\ pc = "serviceSet" /\ result.how \in {"ok", "error"}
           \/ pc' = "route" /\ At!Chat(<<"CNMI", 1>>) /\ pc = "routeProbe" /\ result.how = "ok"
    BY <1>1 DEF RouteStep, Ok, SetService
  <2>2. At!Idle /\ slot' = slot /\ text' = text /\ Around0 /\ Acts0
    BY <1>1 DEF RouteStep
  <2>3. CASE Fails
    <3>1. pc \in Labels
      BY <2>1 DEF Labels, Starting
    <3> QED
      BY <2>2, <2>3, <3>1, FailsMoves
  <2>4. CASE ~Fails
    <3>1. Onward
      BY <2>1, <2>4 DEF Onward, Labels, Starting, Main, Broken, Fetching, Flushing, Asking
    <3>2. pc' \notin Ended \cup {"flush"} /\ pc' # "exit0"
      BY <2>1, <2>4 DEF Ended
    <3> QED
      BY <1>0, <2>1, <2>2, <2>4, <3>1, <3>2, PlainFacts
  <2> QED
    BY <2>3, <2>4
<1>2. CASE WaitEvent
  <2>1. \/ pc = "wait" /\ pc' = "polled" /\ At!Chat(<<"AT", 0>>)
        \/ pc \in {"wait", "polled"} /\ pc' = "drain" /\ UNCHANGED lineVars
        \/ pc = "polled" /\ Fails
    BY <1>2 DEF WaitEvent
  <2>2. At!Idle /\ slot' = slot /\ text' = text /\ Around0 /\ Acts0
    BY <1>2 DEF WaitEvent
  <2>3. CASE Fails
    <3>1. pc \in Labels
      BY <2>1 DEF Labels, Main
    <3> QED
      BY <2>2, <2>3, <3>1, FailsMoves
  <2>4. CASE ~Fails
    <3>1. Onward
      BY <2>1, <2>4 DEF Onward, Labels, Starting, Main, Broken, Fetching, Flushing, Asking
    <3>2. pc' \notin Ended \cup {"flush"} /\ pc' # "exit0" /\ pc' \notin Starting
      BY <2>1, <2>4 DEF Ended, Starting
    <3> QED
      BY <1>0, <2>1, <2>2, <2>4, <3>1, <3>2, PlainFacts
  <2> QED
    BY <2>3, <2>4
<1>3. CASE Erased
  <2>1. pc = "erased" /\ ((pc' = "act" /\ UNCHANGED lineVars) \/ Fails)
    BY <1>3 DEF Erased
  <2>2. At!Idle /\ slot' = slot /\ text' = text /\ Around0 /\ Acts0
    BY <1>3 DEF Erased
  <2>3. CASE Fails
    <3>1. pc \in Labels
      BY <2>1 DEF Labels, Main
    <3> QED
      BY <2>2, <2>3, <3>1, FailsMoves
  <2>4. CASE ~Fails
    <3>1. Onward
      BY <2>1, <2>4 DEF Onward, Labels, Starting, Main, Broken, Fetching, Flushing, Asking
    <3>2. pc' \notin Ended \cup {"flush"} /\ pc' # "exit0" /\ pc' \notin Starting
      BY <2>1, <2>4 DEF Ended, Starting
    <3> QED
      BY <1>0, <2>1, <2>2, <2>4, <3>1, <3>2
  <2> QED
    BY <2>3, <2>4
<1>4. CASE HandleSignal
  <2>1. \/ pc = "check" /\ pc' = "offProbe" /\ At!Chat(<<"CNMI?", 0>>)
        \/ pc = "offProbe" /\ pc' = "off" /\ At!Chat(<<"CNMI", 0>>)
        \/ pc \in {"check", "offProbe", "off"} /\ pc' = "spool" /\ UNCHANGED lineVars
    BY <1>4 DEF HandleSignal
  <2>2. At!Idle /\ slot' = slot /\ text' = text /\ Around0 /\ Acts0
    BY <1>4 DEF HandleSignal
  <2>3. Onward
    BY <2>1 DEF Onward, Labels, Starting, Main, Broken, Fetching, Flushing, Asking
  <2>4. pc' \notin Ended \cup {"flush"} /\ pc' # "exit0" /\ pc' \notin Starting
    BY <2>1 DEF Ended, Starting
  <2> QED
    BY <1>0, <2>1, <2>2, <2>3, <2>4, PlainFacts
<1>5. CASE FileSent
  <2>1. pc = "sent" /\ ((pc' = "scan" /\ UNCHANGED lineVars) \/ Fails)
    BY <1>5 DEF FileSent
  <2>2. At!Idle /\ slot' = slot /\ text' = text /\ Around0 /\ Acts0
    BY <1>5 DEF FileSent
  <2>3. CASE Fails
    <3>1. pc \in Labels
      BY <2>1 DEF Labels, Main
    <3> QED
      BY <2>2, <2>3, <3>1, FailsMoves
  <2>4. CASE ~Fails
    <3>1. Onward
      BY <2>1, <2>4 DEF Onward, Labels, Starting, Main, Broken, Fetching, Flushing, Asking
    <3>2. pc' \notin Ended \cup {"flush"} /\ pc' # "exit0" /\ pc' \notin Starting
      BY <2>1, <2>4 DEF Ended, Starting
    <3> QED
      BY <1>0, <2>1, <2>2, <2>4, <3>1, <3>2
  <2> QED
    BY <2>3, <2>4
<1>6. CASE SetEventHandler
  BY <1>6 DEF SetEventHandler, Listens, At!Idle, Stream
<1> QED
  BY <1>1, <1>2, <1>3, <1>4, <1>5, <1>6

\* The steps of the flush.
LEMMA FlushCases ==
  ASSUME FlushOpened \/ FlushNext \/ FlushRead \/ FlushErased, slot \in 0..Slots,
         pc \in {"open", "flushOpened"} => slot = 0
  PROVE  Moves \/ Asks \/ SkipsEmpty \/ Flushes1 \/ Advances
<1> USE DEF taVars, loopVars, ghostVars, Around0, Acts0, Reached, Sends, Goes
<1> DEFINE L == /\ Onward /\ At!Idle /\ Around0 /\ Acts0 /\ slot' = slot /\ text' = text
                /\ (pc \in Starting /\ pc' \in Starting => pc = "open" \/ pc = "flush" \/ result.how \in {"ok", "error"})
                /\ (pc' = "exit0" => received = << >>)
                /\ \/ UNCHANGED lineVars
                   \/ pc' \notin Ended \cup {"flush"} /\ \E c \in Plain : At!Chat(c) /\ (c \in PduCommands => pc' = "sent")
<1>0. L => Moves
  BY MovesOn
<1>1. CASE FlushOpened
  <2>1. /\ pc = "flushOpened"
        /\ \/ result.how = "ok" /\ pc' = "flush" /\ UNCHANGED lineVars /\ slot' = 0
           \/ Fails /\ slot' = slot
    BY <1>1 DEF FlushOpened, Ok
  <2>2. At!Idle /\ text' = text /\ Around0 /\ Acts0 /\ slot' = slot
    BY <1>1, <2>1 DEF FlushOpened
  <2>3. pc \in Labels
    BY <2>1 DEF Labels, Starting
  <2>4. CASE Fails
    BY <2>2, <2>3, <2>4, FailsMoves
  <2>5. CASE ~Fails
    <3>1. Onward
      BY <2>1, <2>5 DEF Onward, Labels, Starting, Main, Broken, Fetching, Flushing, Asking
    <3>2. pc' # "exit0"
      BY <2>1, <2>5
    <3> QED
      BY <1>0, <2>1, <2>2, <2>5, <3>1, <3>2
  <2> QED
    BY <2>4, <2>5
<1>2. CASE FlushNext
  <2>1. /\ pc = "flush"
        /\ \/ slot < Slots /\ At!Chat(Cmgr(slot)) /\ pc' = "flushRead"
           \/ At!Chat(<<"CSMS", 0>>) /\ pc' = "serviceSet"
    BY <1>2 DEF FlushNext, Cmgr, SetService
  <2>2. At!Idle /\ slot' = slot /\ text' = text /\ Around0 /\ Acts0
    BY <1>2 DEF FlushNext
  <2>3. CASE slot < Slots /\ At!Chat(Cmgr(slot)) /\ pc' = "flushRead"
    BY <2>1, <2>2, <2>3, ChatFacts DEF Asks
  <2>4. CASE At!Chat(<<"CSMS", 0>>) /\ pc' = "serviceSet"
    <3>1. Onward
      BY <2>1, <2>4 DEF Onward, Labels, Starting, Main, Broken, Fetching, Flushing, Asking
    <3>2. pc' \notin Ended \cup {"flush"} /\ pc' # "exit0"
      BY <2>4 DEF Ended
    <3> QED
      BY <1>0, <2>1, <2>2, <2>4, <3>1, <3>2, PlainFacts
  <2> QED
    BY <2>1, <2>3, <2>4
<1>3. CASE FlushRead
  <2>1. /\ pc = "flushRead" /\ At!Idle /\ text' = text /\ Around0 /\ dispatched' = dispatched /\ ignored' = ignored
        /\ \/ Ok /\ Answered = Nothing /\ pc' = "flush" /\ UNCHANGED lineVars /\ slot' = slot + 1 /\ flushed' = flushed
           \/ Ok /\ Answered # Nothing /\ flushed' = Append(flushed, Answered) /\ slot' = slot
              /\ At!Chat(Cmgd(slot)) /\ pc' = "flushErased"
           \/ Fails /\ slot' = slot /\ flushed' = flushed
    BY <1>3 DEF FlushRead, Cmgd
  <2>2. CASE Ok /\ Answered = Nothing /\ pc' = "flush" /\ UNCHANGED lineVars /\ slot' = slot + 1 /\ flushed' = flushed
    BY <2>1, <2>2 DEF SkipsEmpty, Rests, lineVars, Stream, At!Idle
  <2>3. CASE /\ Ok /\ Answered # Nothing /\ flushed' = Append(flushed, Answered) /\ slot' = slot
             /\ At!Chat(Cmgd(slot)) /\ pc' = "flushErased"
    BY <2>1, <2>3, ChatFacts DEF Flushes1
  <2>4. CASE Fails /\ slot' = slot /\ flushed' = flushed
    <3>1. pc \in Labels
      BY <2>1 DEF Labels, Starting
    <3> QED
      BY <2>1, <2>4, <3>1, FailsMoves
  <2> QED
    BY <2>1, <2>2, <2>3, <2>4
<1>4. CASE FlushErased
  <2>1. /\ pc = "flushErased" /\ At!Idle /\ text' = text /\ Around0 /\ Acts0
        /\ \/ Ok /\ pc' = "flush" /\ UNCHANGED lineVars /\ slot' = slot + 1
           \/ Fails /\ slot' = slot
    BY <1>4 DEF FlushErased
  <2>2. CASE Ok /\ pc' = "flush" /\ UNCHANGED lineVars /\ slot' = slot + 1
    BY <2>1, <2>2 DEF Advances, Rests, lineVars, Stream, At!Idle
  <2>3. CASE Fails /\ slot' = slot
    <3>1. pc \in Labels
      BY <2>1 DEF Labels, Starting
    <3> QED
      BY <2>1, <2>3, <3>1, FailsMoves
  <2> QED
    BY <2>1, <2>2, <2>3
<1> QED
  BY <1>1, <1>2, <1>3, <1>4

\* The steps that fetch a message and give it to the action.
LEMMA MainCases ==
  ASSUME Pop \/ OpenStore \/ Read \/ DoAction
  PROVE  Moves \/ Asks \/ Fetched \/ Dispatched1 \/ Pops
<1> USE DEF taVars, loopVars, ghostVars, Around0, Acts0, Reached, Sends, Goes
<1> DEFINE L == /\ Onward /\ At!Idle /\ Around0 /\ Acts0 /\ slot' = slot /\ text' = text
                /\ (pc \in Starting /\ pc' \in Starting => pc = "open" \/ pc = "flush" \/ result.how \in {"ok", "error"})
                /\ (pc' = "exit0" => received = << >>)
                /\ \/ UNCHANGED lineVars
                   \/ pc' \notin Ended \cup {"flush"} /\ \E c \in Plain : At!Chat(c) /\ (c \in PduCommands => pc' = "sent")
<1>0. L => Moves
  BY MovesOn
<1>1. CASE Pop
  BY <1>1 DEF Pop, PopAs, Pops, At!Idle, Index, Stream
<1>2. CASE OpenStore
  <2>1. At!Idle /\ slot' = slot /\ text' = text /\ Around0 /\ Acts0 /\ pc \in {"open store", "store opened"}
    BY <1>2 DEF OpenStore
  <2>2. \/ At!Chat(Cmgr(slot)) /\ pc' = "read"
        \/ At!Chat(<<"CPMS", 0>>) /\ pc' = "store opened"
        \/ Fails
    BY <1>2 DEF OpenStore, Cmgr
  <2>3. CASE At!Chat(Cmgr(slot)) /\ pc' = "read"
    BY <2>1, <2>3, ChatFacts DEF Asks
  <2>4. CASE At!Chat(<<"CPMS", 0>>) /\ pc' = "store opened"
    <3>1. Onward
      BY <2>1, <2>4 DEF Onward, Labels, Starting, Main, Broken, Fetching, Flushing, Asking
    <3>2. pc' \notin Ended \cup {"flush"} /\ pc' # "exit0" /\ pc' \notin Starting
      BY <2>4 DEF Ended, Starting
    <3> QED
      BY <1>0, <2>1, <2>4, <3>1, <3>2, PlainFacts
  <2>5. CASE Fails
    <3>1. pc \in Labels
      BY <2>1 DEF Labels, Main
    <3> QED
      BY <2>1, <2>5, <3>1, FailsMoves
  <2> QED
    BY <2>2, <2>3, <2>4, <2>5
<1>3. CASE Read
  <2>1. At!Idle /\ slot' = slot /\ Around0 /\ Acts0 /\ pc = "read"
    BY <1>3 DEF Read
  <2>2. \/ Ok /\ Answered # Nothing /\ text' = Answered /\ At!Chat(Cmgd(slot)) /\ pc' = "erased"
        \/ pc' = "abort" /\ UNCHANGED lineVars /\ text' = text
        \/ Fails /\ text' = text
    BY <1>3 DEF Read, Cmgd
  <2>3. CASE Ok /\ Answered # Nothing /\ text' = Answered /\ At!Chat(Cmgd(slot)) /\ pc' = "erased"
    BY <2>1, <2>3, ChatFacts DEF Fetched
  <2>4. CASE pc' = "abort" /\ UNCHANGED lineVars /\ text' = text
    <3>1. Onward
      BY <2>1, <2>4 DEF Onward, Labels, Starting, Main, Broken, Fetching, Flushing, Asking
    <3>2. pc' # "exit0" /\ pc' \notin Starting
      BY <2>4 DEF Starting
    <3> QED
      BY <1>0, <2>1, <2>4, <3>1, <3>2
  <2>5. CASE Fails /\ text' = text
    <3>1. pc \in Labels
      BY <2>1 DEF Labels, Main
    <3> QED
      BY <2>1, <2>5, <3>1, FailsMoves
  <2> QED
    BY <2>2, <2>3, <2>4, <2>5
<1>4. CASE DoAction
  <2>1. At!Idle /\ slot' = slot /\ text' = text /\ Around0 /\ flushed' = flushed /\ ignored' = ignored /\ pc = "act"
    BY <1>4 DEF DoAction
  <2>2. \/ pc' = "drain" /\ UNCHANGED lineVars /\ dispatched' = Append(dispatched, text)
        \/ Fails /\ dispatched' = dispatched
    BY <1>4 DEF DoAction
  <2>3. CASE pc' = "drain" /\ UNCHANGED lineVars /\ dispatched' = Append(dispatched, text)
    BY <2>1, <2>3 DEF Dispatched1, Rests, lineVars, Stream, At!Idle
  <2>4. CASE Fails /\ dispatched' = dispatched
    <3>1. pc \in Labels
      BY <2>1 DEF Labels, Main
    <3> QED
      BY <2>1, <2>4, <3>1, FailsMoves
  <2> QED
    BY <2>2, <2>3, <2>4
<1> QED
  BY <1>1, <1>2, <1>3, <1>4

\* Every step of the daemon but reading a line.
LEMMA DaemonCases ==
  ASSUME Daemon, slot \in 0..Slots, pc \in {"open", "flushOpened"} => slot = 0
  PROVE  GetsLine \/ OtherSteps
  BY StartCases, ErrorCases, FlushCases, MainCases, Zenon DEF Daemon, OtherSteps

-----------------------------------------------------------------------------
(* Every step there is, once the variables have their types. *)

World ==
  /\ arrived \in 0..Messages /\ store \in [Slot -> Message \cup {Nothing}] /\ routing \in BOOLEAN
  /\ text \in Message \cup {Nothing} /\ flushed \in Seq(Message) /\ dispatched \in Seq(Message)
  /\ ignored \subseteq Message
Places ==
  /\ pc \in Labels /\ slot \in 0..Slots
  /\ pc \in Fetching \cup {"flushRead", "flushErased"} => slot \in Slot
  /\ pc \in {"open", "flushOpened"} => slot = 0
  /\ pc \in {"erased", "act"} => text \in Message
  /\ pc \in Main => listening
  /\ pc \in Starting => ~listening /\ dispatched = << >>
  /\ ~listening => received = << >>
  /\ pc \in Ended \cup {"open", "flush"} => stack = << >>
  /\ ~sendAck => Len(stack) <= 1
  /\ stack # << >> /\ stack[1].cmd \in PduCommands => pc = "sent"
  /\ pc \in Asking => (IF stack # << >> THEN stack[1].cmd ELSE result.of) = Cmgr(slot)
  /\ pc \in {"open", "flush"} => result.how # "failed"
Core  == LineTypes /\ Calls /\ World /\ Places
Shape == Core /\ Parts

Stays == UNCHANGED <<pc, slot, text, flushed, dispatched>>

Reading ==
  /\ stack # << >> /\ Stream # << >> /\ Stream' = Tail(Stream) /\ Head(Stream) \in LineType /\ Same
  /\ Reads(Head(Stream)) /\ Around0 /\ Stays
  /\ ignored' = IF ~listening /\ Head(Stream).kind = "event" /\ Head(Stream).of \in Direct
                THEN ignored \cup {Head(Stream).of.msg} ELSE ignored
Expiring ==
  /\ stack # << >> /\ Stream' = << >> /\ Same /\ todo = << >>
  /\ Stream = << >> \/ (Len(Stream) = 1 /\ Stream[1].kind = "prompt" /\ At!Top.prompted)
  /\ Expires /\ Around0 /\ Stays /\ ignored' = ignored
Executing ==
  /\ todo # << >> /\ todo' = Tail(todo) /\ Head(todo) \in Sent
  /\ UNCHANGED <<stack, result, listening, sendAck, received, arrived>> /\ Stays /\ ignored' = ignored
  /\ \/ Drops(Head(todo)) \/ Prompts(Head(todo)) \/ Obeys(Head(todo)) \/ Rejects1(Head(todo))
     \/ Garbles(Head(todo)) \/ Finishes(Head(todo))
\* An event comes before the rest of an answer.
Inserts(x) == \E s \in Seq(LineType), t \in Seq(Answers0) :
                Stream = s \o t /\ Stream' = Append(s, x) \o t
Reports(k) == \E x \in LineType : /\ x.kind = "event" /\ x.of.msg = arrived + 1 /\ x.of.index = k
                                  /\ Inserts(x)

\* What is in the line when an event came.
LEMMA Inserted ==
  ASSUME NEW x \in LineType, Inserts(x), NEW K
  PROVE  /\ Stream \in Seq(LineType) /\ Stream' \in Seq(LineType)
         /\ Some(Stream, K) => Some(Stream', K)
         /\ x \in K => Some(Stream', K)
         /\ x \notin K => (Some(Stream', K) => Some(Stream, K))
         /\ Single(Stream, K) /\ (x \notin K \/ ~Some(Stream, K)) => Single(Stream', K)
         /\ x \notin K => Count(Stream', K) = Count(Stream, K)
<1>1. PICK s \in Seq(LineType), t \in Seq(Answers0) : Stream = s \o t /\ Stream' = Append(s, x) \o t
  BY DEF Inserts
<1>2. t \in Seq(LineType)
  BY DEF Answers0
<1>3. Stream \in Seq(LineType) /\ Stream' \in Seq(LineType)
  BY <1>1, <1>2, Widened
<1> QED
  BY <1>1, <1>2, <1>3, SomeInsert, CountInsert

\* An event is behind the events that came before.
LEMMA InsertedBehind ==
  ASSUME NEW x \in LineType, Inserts(x), NEW A, NEW B
  PROVE  /\ /\ Before(Stream, A, B)
            /\ x \notin A \/ (x \notin B /\ ~Some(Stream, B))
            /\ x \notin B \/ A \cap Answers0 = {}
            => Before(Stream', A, B)
         /\ Closed(Stream, A, B) /\ x \notin A => Closed(Stream', A, B)
<1>1. PICK s \in Seq(LineType), t \in Seq(Answers0) : Stream = s \o t /\ Stream' = Append(s, x) \o t
  BY DEF Inserts
<1>2. t \in Seq(LineType) /\ \A p \in 1..Len(t) : t[p] \in Answers0
  BY ElementOfSeq DEF Answers0
<1>3. A \cap Answers0 = {} => ~Some(t, A)
  BY <1>2 DEF Some
<1> QED
  BY <1>1, <1>2, <1>3, OrderInsert

ComesDirectly == routing /\ store' = store /\ Reports(0)
ComesTo(i) == /\ store[i] = Nothing /\ store' = [store EXCEPT ![i] = arrived + 1]
              /\ IF routing THEN Reports(i + 1) ELSE Stream' = Stream
Arriving ==
  /\ arrived < Messages /\ arrived' = arrived + 1
  /\ UNCHANGED <<todo, entering, stack, result, listening, sendAck, received, routing>>
  /\ Stays /\ ignored' = ignored
  /\ ComesDirectly \/ \E i \in Slot : ComesTo(i)
Idles == UNCHANGED <<arrived, store, routing, Stream, todo, entering, stack, result, listening, sendAck,
                     received, pc, slot, text, flushed, dispatched, ignored>>
Steps == Reading \/ Expiring \/ Executing \/ Arriving \/ OtherSteps \/ Idles

\* The events there are.
LEMMA EventFacts ==
  /\ \A e \in Event : (e \in Direct <=> e.index = 0) /\ (e \notin Direct => e.index - 1 \in Slot)
  /\ \A m \in Message, k \in 0..Slots : [msg |-> m, index |-> k] \in Event
  /\ Direct \subseteq Event
<1>1. Slots \in Nat \ {0}
  BY NothingFacts
<1>2. \A e \in Event : e.index \in 0..Slots
  BY DEF Event
<1>3. \A e \in Event : e \in Direct <=> e.index = 0
  BY DEF Direct
<1>4. \A e \in Event : e \notin Direct => e.index - 1 \in Slot
  BY <1>1, <1>2, <1>3 DEF Slot
<1> QED
  BY <1>3, <1>4 DEF Event, Direct

\* A message arrives.
LEMMA ArrivesCases ==
  ASSUME Shape, Arrives
  PROVE  Arriving
<1>1. /\ arrived < Messages /\ arrived' = arrived + 1
      /\ ArrivesDirectly \/ \E i \in Slot : ArrivesInSlot(i)
      /\ UNCHANGED <<routing, pc, slot, text, flushed, dispatched, ignored>>
  BY DEF Arrives, loopVars, ghostVars
<1>2. arrived + 1 \in Message /\ arrived \in Nat
  BY <1>1, NothingFacts DEF Shape, Core, World, Message
<1>3. 0 \in 0..Slots /\ \A i \in Slot : i + 1 \in 0..Slots
  BY NothingFacts DEF Slot
<1>4. ASSUME NEW k \in 0..Slots, At!TAReports([msg |-> arrived + 1, index |-> k])
      PROVE  /\ Reports(k)
             /\ UNCHANGED <<todo, entering, stack, result, listening, sendAck, received>>
  <2> DEFINE e == [msg |-> arrived + 1, index |-> k]
             x == At!Item("event", e, Nothing)
  <2>1. e \in Event /\ e.msg = arrived + 1 /\ e.index = k
    BY <1>2, EventFacts
  <2>2. x \in LineType /\ x.kind = "event" /\ x.of = e
    BY <2>1, LineFacts
  <2>3. /\ line' = Append(line, x) /\ answering' = answering
        /\ UNCHANGED <<todo, entering, stack, result, listening, sendAck, received>>
    BY <1>4 DEF At!TAReports
  <2> HIDE DEF e, x
  <2>4. Inserts(x)
    BY <2>3 DEF Inserts, Stream, Shape, Parts
  <2> QED
    BY <2>1, <2>2, <2>3, <2>4 DEF Reports
<1>5. CASE ArrivesDirectly
  BY <1>1, <1>3, <1>4, <1>5 DEF ArrivesDirectly, Arriving, ComesDirectly, Stays
<1>6. ASSUME NEW i \in Slot, ArrivesInSlot(i) PROVE Arriving
  <2>1. store[i] = Nothing /\ store' = [store EXCEPT ![i] = arrived + 1]
    BY <1>6 DEF ArrivesInSlot
  <2>2. /\ IF routing THEN Reports(i + 1) ELSE Stream' = Stream
        /\ UNCHANGED <<todo, entering, stack, result, listening, sendAck, received>>
    BY <1>3, <1>4, <1>6 DEF ArrivesInSlot, lineVars, Stream
  <2> QED
    BY <1>1, <2>1, <2>2 DEF Arriving, ComesTo, Stays
<1> QED
  BY <1>1, <1>5, <1>6

\* The daemon reads a line or runs out of time.
LEMMA GetsLineCases ==
  ASSUME Shape, GetsLine
  PROVE  Reading \/ Expiring
<1>1. /\ At!GetLine \/ At!TimeOut
      /\ ignored' = IF line # << >> /\ ~listening /\ Head(line).kind = "event" /\ Head(line).of \in Direct
                    THEN ignored \cup {Head(line).of.msg} ELSE ignored
      /\ Around0 /\ Stays
  BY DEF GetsLine, taVars, loopVars, Around0, Stays
<1>2. LineTypes /\ Calls /\ Parts
  BY DEF Shape, Core
<1>3. CASE At!GetLine
  BY <1>1, <1>2, <1>3, GetLineCases DEF Reading
<1>4. CASE At!TimeOut
  <2>1. /\ stack # << >> /\ Stream' = << >> /\ Same /\ todo = << >>
        /\ Stream = << >> \/ (Len(Stream) = 1 /\ Stream[1].kind = "prompt" /\ At!Top.prompted)
        /\ Expires /\ Stream = line
    BY <1>2, <1>4, TimeOutCases
  <2>2. Stream # << >> => Head(Stream).kind # "event"
    <3> SUFFICES ASSUME Stream # << >> PROVE Head(Stream).kind # "event"
      OBVIOUS
    <3>1. Head(Stream) = Stream[1]
      BY <1>2, Shrunk DEF LineTypes
    <3> QED
      BY <2>1, <3>1
  <2> QED
    BY <1>1, <2>1, <2>2 DEF Expiring
<1> QED
  BY <1>1, <1>3, <1>4

\* A line of an answer that is sent was already among those to be read.
LEMMA TransmitsSame ==
  ASSUME Parts, Transmits
  PROVE  Stream' = Stream /\ Parts'
<1>1. answering # << >> /\ line' = Append(line, Head(answering)) /\ answering' = Tail(answering)
  BY DEF Transmits, At!TATransmits
<1>2. /\ line \in Seq(LineType) /\ answering \in Seq(LineType) /\ answering \in Seq(Answers0)
  BY DEF Parts, Answers0
<1>3. Head(answering) \in LineType /\ Tail(answering) \in Seq(Answers0)
  BY <1>1, <1>2
<1>4. Append(line, Head(answering)) \o Tail(answering) = line \o answering
  BY <1>1, <1>2
<1>5. Append(line, Head(answering)) \in Seq(LineType)
  BY <1>2, <1>3
<1> QED
  BY <1>1, <1>3, <1>4, <1>5 DEF Stream, Parts

\* The steps of the daemon that read no line leave the lines alone.
LEMMA DaemonParts ==
  ASSUME Daemon, ~GetsLine
  PROVE  line' = line /\ answering' = answering
<1> DEFINE U == line' = line /\ answering' = answering
<1>1. ASSUME NEW c, At!Chat(c) PROVE U
  BY <1>1 DEF At!Chat
<1>2. UNCHANGED lineVars => U
  BY DEF lineVars
<1>3. SetEventHandler \/ Pop => U
  BY DEF SetEventHandler, Pop, PopAs
<1> HIDE DEF U
<1>4. (\A c, p : Sends(c, p) => U) /\ (\A p : Goes(p) => U)
  BY <1>1, <1>2 DEF Sends, Goes
<1>5. (Fails => U) /\ (SetService => U)
  BY <1>4 DEF Fails, SetService
<1>6. Start \/ FlushOpened \/ FlushNext \/ FlushRead \/ FlushErased => U
  BY <1>4, <1>5 DEF Start, FlushOpened, FlushNext, FlushRead, FlushErased
<1>7. RouteStep \/ WaitEvent \/ Drained \/ DoAction => U
  BY <1>4, <1>5 DEF RouteStep, WaitEvent, Drained, DoAction
<1>8. OpenStore \/ Read \/ Erased => U
  BY <1>4, <1>5 DEF OpenStore, Read, Erased
<1>9. HandleSignal \/ ReadDir \/ SendFile \/ FileSent \/ FailStep => U
  BY <1>4, <1>5 DEF HandleSignal, ReadDir, SendFile, FileSent, FailStep
<1> QED
  BY <1>3, <1>6, <1>7, <1>8, <1>9 DEF Daemon, U

\* An answer has no events.
LEMMA AnswerTypes ==
  ASSUME NEW c \in Command \cup {Cnma}, NEW d \in Sent, NEW ok \in BOOLEAN,
         store \in [Slot -> Message \cup {Nothing}]
  PROVE  At!Answer(c, ok, IF ok THEN Content(d) ELSE << >>) \in Seq(Answers0)
<1>1. \A k \in {"info", "OK", "ERROR"}, v \in Message \cup {Nothing} : At!Item(k, c, v) \in Answers0
  BY ItemFacts DEF Answers0
<1>2. Content(d) \in Seq(Message \cup {Nothing})
  <2>1. \/ \E i \in Slot : Content(d) = <<store[i]>>
        \/ Content(d) = <<Nothing>> \/ Content(d) = << >>
    BY ContentFacts
  <2>2. \A v \in Message \cup {Nothing} : <<v>> \in Seq(Message \cup {Nothing})
    OBVIOUS
  <2>3. << >> \in Seq(Message \cup {Nothing}) /\ Nothing \in Message \cup {Nothing}
    OBVIOUS
  <2>4. \A i \in Slot : store[i] \in Message \cup {Nothing}
    OBVIOUS
  <2> QED
    BY <2>1, <2>2, <2>3, <2>4
<1>3. At!Infos(c, Content(d)) \in Seq(Answers0)
  <2>1. /\ DOMAIN Content(d) = 1..Len(Content(d)) /\ Len(Content(d)) \in Nat
        /\ \A i \in DOMAIN Content(d) : Content(d)[i] \in Message \cup {Nothing}
    BY <1>2
  <2>2. At!Infos(c, Content(d)) \in [1..Len(Content(d)) -> Answers0]
    BY <1>1, <2>1 DEF At!Infos
  <2> QED
    BY <2>1, <2>2, SeqDef
<1> QED
  BY <1>1, <1>3 DEF At!Answer

\* What is read and sent keeps its types.
LEMMA PartsNext ==
  ASSUME Shape, [Next]_vars
  PROVE  Parts'
<1>1. /\ LineTypes /\ Parts /\ Calls /\ store \in [Slot -> Message \cup {Nothing}]
      /\ line \in Seq(LineType) /\ answering \in Seq(Answers0)
  BY DEF Shape, Core, World, Parts
<1>2. ASSUME line' = line, answering' = answering PROVE Parts'
  BY <1>1, <1>2 DEF Parts
<1>3. CASE GetsLine
  BY <1>1, <1>3, GetLineCases, TimeOutCases DEF GetsLine
<1>4. CASE Daemon /\ ~GetsLine
  BY <1>2, <1>4, DaemonParts
<1>5. CASE Executes
  <2> DEFINE c == Head(todo)
  <2>1. todo # << >> /\ \E ok \in BOOLEAN : At!TAExecutes(ok, IF ok THEN Content(c) ELSE << >>)
    BY <1>5 DEF Executes
  <2>2. PICK ok \in BOOLEAN : At!TAExecutes(ok, IF ok THEN Content(c) ELSE << >>)
    BY <2>1
  <2>3. c \in Sent /\ entering.cmd \in PduCommands \cup {Nothing} /\ PduCommands \subseteq Command
    BY <1>1, <2>1, CommandFacts DEF LineTypes, EnteringType
  <2> DEFINE vs == IF ok THEN Content(c) ELSE << >>
  <2>4. ASSUME NEW d \in Command \cup {Cnma}, At!Responds(d, ok, vs) PROVE Parts'
    BY <1>1, <2>3, <2>4, AnswerTypes DEF At!Responds, Parts
  <2>5. ASSUME c \in Command \cup {Cnma}, At!Prompts(c) PROVE Parts'
    <3>1. At!Item("prompt", c, Nothing) \in LineType
      BY <2>5, ItemFacts
    <3> QED
      BY <1>1, <2>5, <3>1 DEF At!Prompts, Parts
  <2>6. c # Pdu => c \in Command \cup {Cnma}
    BY <2>3 DEF Sent
  <2>7. \/ line' = line /\ answering' = answering
        \/ c # Pdu /\ (At!Prompts(c) \/ At!Responds(c, ok, vs))
        \/ entering.cmd # Nothing /\ At!Responds(entering.cmd, ok, vs)
    BY <2>2 DEF At!TAExecutes
  <2> HIDE DEF c, vs
  <2>8. entering.cmd # Nothing => entering.cmd \in Command \cup {Cnma}
    BY <2>3
  <2>9. CASE line' = line /\ answering' = answering
    BY <1>2, <2>9
  <2>10. CASE c # Pdu /\ (At!Prompts(c) \/ At!Responds(c, ok, vs))
    <3>1. c \in Command \cup {Cnma}
      BY <2>6, <2>10
    <3> QED
      BY <2>4, <2>5, <2>10, <3>1
  <2>11. CASE entering.cmd # Nothing /\ At!Responds(entering.cmd, ok, vs)
    BY <2>4, <2>8, <2>11
  <2> QED
    BY <2>7, <2>9, <2>10, <2>11
<1>6. CASE Arrives
  <2>1. \/ UNCHANGED lineVars
        \/ \E k \in 0..Slots : At!TAReports([msg |-> arrived + 1, index |-> k])
    <3>1. 0 \in 0..Slots /\ \A i \in Slot : i + 1 \in 0..Slots
      BY SmsDaemonAssumption DEF Slot
    <3>2. CASE ArrivesDirectly
      BY <3>1, <3>2 DEF ArrivesDirectly
    <3>3. CASE \E i \in Slot : ArrivesInSlot(i)
      BY <3>1, <3>3 DEF ArrivesInSlot
    <3> QED
      BY <1>6, <3>2, <3>3 DEF Arrives
  <2>2. arrived + 1 \in Message
    BY <1>6, NothingFacts DEF Arrives, Shape, Core, World, Message
  <2>3. ASSUME NEW k \in 0..Slots, At!TAReports([msg |-> arrived + 1, index |-> k]) PROVE Parts'
    <3>1. At!Item("event", [msg |-> arrived + 1, index |-> k], Nothing) \in LineType
      BY <2>2, EventFacts, LineFacts
    <3> QED
      BY <1>1, <2>3, <3>1 DEF At!TAReports, Parts
  <2> QED
    BY <1>2, <2>1, <2>3 DEF lineVars
<1>7. CASE Transmits
  BY <1>1, <1>7, TransmitsSame
<1>8. CASE Signal \/ (\E f \in File : Spools(f)) \/ UNCHANGED vars
  BY <1>2, <1>8 DEF Signal, Spools, vars, lineVars
<1> QED
  BY <1>3, <1>4, <1>5, <1>6, <1>7, <1>8 DEF Next

\* Every step is one of these.
LEMMA NextCases ==
  ASSUME Shape, [Next]_vars
  PROVE  Steps
<1>1. LineTypes /\ Parts /\ Calls /\ routing \in BOOLEAN /\ store \in [Slot -> Message \cup {Nothing}]
      /\ slot \in 0..Slots /\ (pc \in {"open", "flushOpened"} => slot = 0)
  BY DEF Shape, Core, World, Places
<1>2. CASE Daemon
  <2>1. GetsLine \/ OtherSteps
    BY <1>1, <1>2, DaemonCases
  <2> QED
    BY <2>1, GetsLineCases DEF Steps
<1>3. CASE Executes
  BY <1>1, <1>3, ExecutesCases DEF Steps, Executing, Stays, loopVars, ghostVars
<1>4. CASE Arrives
  BY <1>4, ArrivesCases DEF Steps
<1>5. CASE Signal \/ (\E f \in File : Spools(f)) \/ UNCHANGED vars
  BY <1>5 DEF Signal, Spools, Steps, Idles, vars, taVars, lineVars, loopVars, ghostVars, Stream
<1>6. CASE Transmits
  <2>1. Stream' = Stream
    BY <1>6, TransmitsSame DEF Shape
  <2> QED
    BY <1>6, <2>1 DEF Transmits, At!TATransmits, Steps, Idles, taVars, loopVars, ghostVars
<1> QED
  BY <1>2, <1>3, <1>4, <1>5, <1>6 DEF Next

-----------------------------------------------------------------------------
(* The shape of the state is kept. *)

\* What a line or a time-out makes of the calls.
Turns ==
  \/ /\ stack' = stack /\ result' = result /\ todo' = todo
     /\ \E e \in Event : received' = At!Handed(e)
  \/ \E e \in Event : Nests(e)
  \/ Throws
  \/ ReturnsLast
  \/ ReturnsInner
  \/ \E f \in FrameType : Goeson(f) /\ todo' \in {todo, Append(todo, Pdu), Append(todo, stack[1].cmd)}

\* A line is read: what becomes of the calls.
LEMMA ReadingTurns ==
  ASSUME Shape, Reading
  PROVE  Turns
<1> DEFINE x == Head(Stream)
<1>1. x \in LineType /\ Reads(x)
  BY DEF Reading
<1>2. x.kind = "event" => x.of \in Event
  BY <1>1, LineFacts
<1> HIDE DEF x
<1>3. Keeps(x) => Turns
  BY DEF Keeps, Turns
<1>4. Continues => Turns
  BY DEF Continues, Turns
<1>5. Resends(x) => Turns
  BY DEF Resends, Turns
<1>6. x.kind = "event" /\ (HandsOver(x.of) \/ Nests(x.of)) => Turns
  BY <1>2 DEF HandsOver, Turns
<1>7. Throws \/ ReturnsLast \/ ReturnsInner => Turns
  BY DEF Turns
<1> QED
  BY <1>1, <1>3, <1>4, <1>5, <1>6, <1>7 DEF Reads

\* No line came in time: what becomes of the calls.
LEMMA ExpiringTurns ==
  ASSUME Shape, Expiring
  PROVE  Turns /\ (Throws \/ \E f \in FrameType : Goeson(f))
<1>1. \A s : Keeps(s) => Turns /\ \E f \in FrameType : Goeson(f)
  BY DEF Keeps, Turns
<1>2. \A s : Resends(s) => Turns /\ \E f \in FrameType : Goeson(f)
  BY DEF Resends, Turns
<1>3. Throws => Turns
  BY DEF Turns
<1> QED
  BY <1>1, <1>2, <1>3 DEF Expiring, Expires

\* The calls and the commands keep their types.
LEMMA TurnsKeep ==
  ASSUME Shape, stack # << >>, Same, Turns, Stream' \in Seq(LineType)
  PROVE  LineTypes' /\ Calls'
<1>1. LineTypes /\ Calls
  BY DEF Shape, Core
<1>2. /\ Len(stack) \in Nat \ {0} /\ stack[1].cmd \in Command /\ stack[1] \in FrameType /\ stack[Len(stack)] \in FrameType
      /\ Front(stack) \in Seq(FrameType) /\ Len(Front(stack)) = Len(stack) - 1
      /\ \A p \in 1..(Len(stack) - 1) : Front(stack)[p] = stack[p]
      /\ FrameOK(stack[Len(stack)], Len(stack))
  <2>1. Len(stack) \in 1..Len(stack)
    BY <1>1, TopFacts
  <2> QED
    BY <1>1, <2>1, TopFacts
<1>3. /\ stack \in Seq(FrameType) /\ todo \in Seq(Sent) /\ received \in Seq(Event) /\ result \in ResultType
      /\ entering' = entering /\ listening' = listening /\ sendAck' = sendAck
      /\ entering \in EnteringType /\ (entering.cmd = Nothing => entering = At!NotEntering)
      /\ listening \in BOOLEAN /\ sendAck \in BOOLEAN
  BY <1>1 DEF LineTypes, Same
<1>4. ASSUME NEW e \in Event, received' = At!Handed(e) PROVE received' \in Seq(Event)
  BY <1>3, <1>4, AppendProperties DEF At!Handed
<1>5. Cnma \in Sent /\ Pdu \in Sent /\ stack[1].cmd \in Sent
  BY <1>2 DEF Sent
<1>6. todo' \in Seq(Sent)
  <2>1. \A c \in Sent : Append(todo, c) \in Seq(Sent)
    BY <1>3, AppendProperties
  <2> QED
    BY <1>3, <1>5, <2>1 DEF Turns, Nests, Throws, ReturnsLast, ReturnsInner
<1>7. received' \in Seq(Event)
  <2>1. ReturnsInner => stack[Len(stack)].event \in Event
    BY <1>2, EventFacts DEF ReturnsInner, FrameOK
  <2> QED
    BY <1>3, <1>4, <2>1 DEF Turns, Nests, Throws, ReturnsLast, ReturnsInner, Goeson
<1>8. result' \in ResultType
  BY <1>3 DEF Turns, Nests, Throws, ReturnsLast, ReturnsInner, Goeson
<1>9. stack' \in Seq(FrameType) /\ Calls'
  <2>1. CASE stack' = stack
    BY <1>1, <1>3, <2>1 DEF Calls
  <2>2. CASE stack' = << >>
    BY <2>2 DEF Calls
  <2>3. CASE ReturnsInner
    <3>1. stack' = Front(stack) /\ \A p \in 1..(Len(stack) - 1) : p \in 1..Len(stack)
      BY <1>2, <2>3 DEF ReturnsInner
    <3> QED
      BY <1>1, <1>2, <3>1 DEF Calls
  <2>4. ASSUME NEW f \in FrameType, Goeson(f) PROVE stack' \in Seq(FrameType) /\ Calls'
    <3>1. stack' = <<f>> /\ FrameOK(f, 1)
      BY <2>4 DEF Goeson
    <3>2. Len(<<f>>) = 1 /\ <<f>>[1] = f /\ <<f>> \in Seq(FrameType)
      OBVIOUS
    <3> QED
      BY <3>1, <3>2 DEF Calls
  <2>5. ASSUME NEW e \in Event, Nests(e) PROVE stack' \in Seq(FrameType) /\ Calls'
    <3> DEFINE f == At!Frame(Cnma, e)
               n == Len(stack)
    <3>1. stack' = Append(stack, f) /\ e \in Direct
      BY <2>5 DEF Nests
    <3>2. f \in FrameType /\ f.cmd = Cnma /\ f.event = e /\ f.infos = << >> /\ f.prompted = TRUE
          /\ f.seen = Nothing
      BY <2>5, FrameFacts DEF At!Frame
    <3> HIDE DEF f
    <3>3. /\ stack' \in Seq(FrameType) /\ Len(stack') = n + 1 /\ stack'[n + 1] = f
          /\ \A p \in 1..n : stack'[p] = stack[p]
          /\ \A p \in 1..(n + 1) : p \in 1..n \/ p = n + 1
      BY <1>3, <3>1, <3>2, Grown
    <3>4. FrameOK(f, n + 1)
      <4>1. n + 1 # 1
        BY <1>2
      <4> QED
        BY <3>1, <3>2, <4>1 DEF FrameOK
    <3> QED
      BY <1>1, <3>3, <3>4 DEF Calls
  <2> QED
    BY <2>1, <2>2, <2>3, <2>4, <2>5 DEF Turns, Throws, ReturnsLast
<1>10. LineTypes'
  BY <1>3, <1>6, <1>7, <1>8, <1>9 DEF LineTypes
<1> QED
  BY <1>9, <1>10

\* Where the daemon is still fits its calls.
LEMMA TurnsPlaces ==
  ASSUME Shape, stack # << >>, Same, Turns, Stays, Around0
  PROVE  Places'
<1>1. LineTypes /\ Calls /\ Places
  BY DEF Shape, Core
<1>2. /\ pc' = pc /\ slot' = slot /\ text' = text /\ dispatched' = dispatched /\ listening' = listening
      /\ sendAck' = sendAck
  BY DEF Stays, Same
<1>3. /\ Len(stack) \in Nat \ {0}
      /\ Len(Front(stack)) = Len(stack) - 1
      /\ \A p \in 1..(Len(stack) - 1) : Front(stack)[p] = stack[p]
  BY <1>1, TopFacts
<1>4. pc \notin Ended \cup {"open", "flush"}
  BY <1>1 DEF Places
<1>5. ~listening => received' = << >>
  <2>1. \A e : ~listening => At!Handed(e) = received
    BY DEF At!Handed
  <2> QED
    BY <1>1, <2>1 DEF Turns, Nests, Throws, ReturnsLast, ReturnsInner, Goeson, Places
<1>6. ~sendAck => Len(stack') <= 1
  <2>1. Len(<< >>) = 0 /\ \A f : Len(<<f>>) = 1
    OBVIOUS
  <2>2. ReturnsInner => Len(stack') = Len(stack) - 1
    BY <1>3 DEF ReturnsInner
  <2>3. ~sendAck => Len(stack) <= 1
    BY <1>1 DEF Places
  <2>4. ReturnsInner => (~sendAck => Len(stack') <= 1)
    <3> DEFINE n == Len(stack)
    <3>1. n \in Nat
      BY <1>3
    <3> HIDE DEF n
    <3>2. n <= 1 => n - 1 <= 1
      BY <3>1
    <3> QED
      BY <2>2, <2>3, <3>2 DEF n
  <2>5. Len(stack') = 0 \/ Len(stack') = 1 => Len(stack') <= 1
    <3>1. 0 <= 1 /\ 1 <= 1
      OBVIOUS
    <3> QED
      BY <3>1, Zenon
  <2> QED
    BY <2>1, <2>3, <2>4, <2>5 DEF Turns, Nests, Throws, ReturnsLast, Goeson
<1>7. stack' # << >> => stack'[1].cmd = stack[1].cmd
  <2>1. CASE ReturnsInner
    <3> DEFINE n == Len(stack)
    <3>1. n \in Nat /\ n > 1
      BY <1>3, <2>1 DEF ReturnsInner
    <3> HIDE DEF n
    <3>2. 1 \in 1..(n - 1)
      BY <3>1
    <3> QED
      BY <1>3, <2>1, <3>2 DEF ReturnsInner, n
  <2>2. ASSUME NEW e \in Event, Nests(e) PROVE stack'[1] = stack[1]
    <3>1. stack' = Append(stack, At!Frame(Cnma, e)) /\ At!Frame(Cnma, e) \in FrameType
      BY <2>2, FrameFacts DEF Nests
    <3>2. 1 \in 1..Len(stack) /\ stack \in Seq(FrameType)
      BY <1>1, <1>3 DEF LineTypes
    <3> QED
      BY <3>1, <3>2, AppendProperties
  <2>3. ASSUME NEW f \in FrameType, Goeson(f) PROVE stack'[1].cmd = stack[1].cmd
    BY <2>3 DEF Goeson
  <2> QED
    BY <2>1, <2>2, <2>3 DEF Turns, Throws, ReturnsLast
<1>8. stack' = << >> => result'.of = stack[1].cmd
  <2>1. CASE Throws \/ ReturnsLast
    BY <2>1 DEF Throws, ReturnsLast
  <2>2. CASE ReturnsInner
    <3> DEFINE n == Len(stack)
    <3>1. n \in Nat /\ n > 1 /\ Len(stack') = n - 1
      BY <1>3, <2>2 DEF ReturnsInner
    <3> HIDE DEF n
    <3>2. n - 1 # 0
      BY <3>1
    <3>3. Len(stack') # 0
      BY <3>1, <3>2
    <3> QED
      BY <3>3
  <2>3. ASSUME NEW e \in Event, Nests(e) PROVE stack' # << >>
    <3>1. stack' = Append(stack, At!Frame(Cnma, e)) /\ At!Frame(Cnma, e) \in FrameType
      BY <2>3, FrameFacts DEF Nests
    <3> QED
      BY <1>1, <3>1, AppendProperties DEF LineTypes
  <2>4. ASSUME NEW f \in FrameType, Goeson(f) PROVE stack' # << >>
    BY <2>4 DEF Goeson
  <2> QED
    BY <2>1, <2>2, <2>3, <2>4 DEF Turns
<1> QED
  BY <1>1, <1>2, <1>4, <1>5, <1>6, <1>7, <1>8 DEF Places

\* Reading a line, or none, keeps the shape.
LEMMA ShapeReads ==
  ASSUME Shape, Reading \/ Expiring
  PROVE  Core'
<1>1. Turns /\ stack # << >> /\ Same /\ Stays /\ Around0
  BY ReadingTurns, ExpiringTurns DEF Reading, Expiring
<1>2. Stream' \in Seq(LineType)
  <2>1. Stream \in Seq(LineType)
    BY DEF Shape, Core, LineTypes
  <2>2. Stream # << >> => Tail(Stream) \in Seq(LineType)
    BY <2>1, HeadTailProperties
  <2>3. << >> \in Seq(LineType)
    OBVIOUS
  <2> QED
    BY <2>2, <2>3 DEF Reading, Expiring
<1>3. World'
  <2>1. Reading /\ Head(Stream).kind = "event" => Head(Stream).of.msg \in Message
    BY LineFacts DEF Reading
  <2>2. ignored' \subseteq Message
    BY <2>1 DEF Reading, Expiring, Shape, Core, World
  <2> QED
    BY <1>1, <2>2 DEF Shape, Core, World, Stays, Around0
<1> QED
  BY <1>1, <1>2, <1>3, TurnsKeep, TurnsPlaces DEF Shape, Core

\* What the TA adds to the line.
LEMMA AddsLines ==
  ASSUME Stream \in Seq(LineType), NEW c, Refuses(c) \/ Answers(c)
  PROVE  Stream' \in Seq(LineType)
<1>1. \A s \in Seq(LineType), x \in LineType : Append(s, x) \in Seq(LineType)
  BY AppendProperties
<1> QED
  BY <1>1 DEF Refuses, Answers

\* What the TA executes keeps the shape.
LEMMA ShapeExecutes ==
  ASSUME Shape, Executing
  PROVE  Core'
<1>1. /\ LineTypes /\ Calls /\ World /\ Places
      /\ Stream \in Seq(LineType) /\ todo \in Seq(Sent) /\ stack \in Seq(FrameType)
      /\ entering \in EnteringType /\ (entering.cmd = Nothing => entering = At!NotEntering)
      /\ result \in ResultType /\ listening \in BOOLEAN /\ sendAck \in BOOLEAN
      /\ received \in Seq(Event)
  BY DEF Shape, Core, LineTypes
<1>2. /\ todo # << >> /\ todo' = Tail(todo)
      /\ UNCHANGED <<stack, result, listening, sendAck, received, arrived>> /\ Stays /\ ignored' = ignored
  BY DEF Executing
<1> DEFINE c == Head(todo)
<1>3. todo' \in Seq(Sent)
  BY <1>1, <1>2, HeadTailProperties
<1>4. /\ entering' \in EnteringType /\ (entering'.cmd = Nothing => entering' = At!NotEntering)
  <2>1. At!NotEntering \in EnteringType
    BY DEF At!NotEntering, EnteringType
  <2>2. Nothing \notin PduCommands
    BY NothingFacts, CommandFacts
  <2> QED
    BY <1>1, <2>1, <2>2 DEF Executing, Drops, Prompts, Obeys, Rejects1, Garbles, Finishes
<1>5. Stream' \in Seq(LineType)
  <2>1. \A d : Refuses(d) \/ Answers(d) => Stream' \in Seq(LineType)
    BY <1>1, AddsLines
  <2>2. \A x \in LineType : Append(Stream, x) \in Seq(LineType)
    BY <1>1, AppendProperties
  <2> QED
    BY <1>1, <2>1, <2>2 DEF Executing, Drops, Prompts, Obeys, Rejects1, Garbles, Finishes
<1>6. store' \in [Slot -> Message \cup {Nothing}] /\ routing' \in BOOLEAN
  <2>1. store \in [Slot -> Message \cup {Nothing}] /\ routing \in BOOLEAN
    BY <1>1 DEF World
  <2> QED
    BY <2>1 DEF Executing, Drops, Prompts, Obeys, Rejects1, Garbles, Finishes, Stored
<1>7. LineTypes'
  BY <1>1, <1>2, <1>3, <1>4, <1>5 DEF LineTypes
<1>8. Calls'
  BY <1>1, <1>2 DEF Calls
<1>9. World'
  BY <1>1, <1>2, <1>6 DEF World, Stays
<1>10. Places'
  BY <1>1, <1>2 DEF Places, Stays
<1> QED
  BY <1>7, <1>8, <1>9, <1>10 DEF Shape, Core

\* A message that arrives keeps the shape.
LEMMA ShapeArrives ==
  ASSUME Shape, Arriving
  PROVE  Core'
<1>1. /\ LineTypes /\ Calls /\ World /\ Places
  BY DEF Shape, Core
<1>2. /\ arrived < Messages /\ arrived' = arrived + 1
      /\ UNCHANGED <<todo, entering, stack, result, listening, sendAck, received, routing>>
      /\ Stays /\ ignored' = ignored
  BY DEF Arriving
<1>3. Stream' \in Seq(LineType)
  <2>1. \A x \in LineType : Inserts(x) => Stream' \in Seq(LineType)
    BY Inserted
  <2> QED
    BY <1>1, <2>1 DEF Arriving, ComesDirectly, ComesTo, Reports, LineTypes
<1>4. arrived' \in 0..Messages /\ arrived + 1 \in Message
  BY <1>1, <1>2, NothingFacts DEF World, Message
<1>5. store' \in [Slot -> Message \cup {Nothing}]
  BY <1>1, <1>4 DEF Arriving, ComesDirectly, ComesTo, World
<1>6. LineTypes'
  BY <1>1, <1>2, <1>3 DEF LineTypes
<1>7. Calls'
  BY <1>1, <1>2 DEF Calls
<1>8. World'
  BY <1>1, <1>2, <1>4, <1>5 DEF World, Stays
<1>9. Places'
  BY <1>1, <1>2 DEF Places, Stays
<1> QED
  BY <1>6, <1>7, <1>8, <1>9 DEF Shape, Core

\* What a call was told.
LEMMA AnsweredFacts ==
  ASSUME LineTypes
  PROVE  /\ Answered \in Message \cup {Nothing}
         /\ result.infos # << >> => /\ 1 \in DOMAIN result.infos /\ result.infos[1] \in LineType
                                    /\ Answered = result.infos[1].value
<1>1. result.infos \in Seq(LineType)
  BY DEF LineTypes, ResultType
<1>2. result.infos # << >> => 1 \in DOMAIN result.infos /\ result.infos[1] \in LineType
  <2>1. result.infos # << >> => 1 \in 1..Len(result.infos) /\ DOMAIN result.infos = 1..Len(result.infos)
    BY <1>1, Shrunk
  <2> QED
    BY <1>1, <2>1, ElementOfSeq
<1>3. \A x \in LineType : x.value \in Message \cup {Nothing}
  BY DEF LineType, At!LineType
<1> QED
  BY <1>2, <1>3 DEF Answered

\* A new call.
LEMMA ChatKeeps ==
  ASSUME LineTypes, NEW c \in Command, Chats(c)
  PROVE  /\ LineTypes' /\ Calls' /\ Len(stack') = 1 /\ stack' # << >> /\ stack'[1].cmd = c
         /\ stack'[1].infos = << >> /\ stack'[1].event = Nothing /\ stack'[1].seen = Nothing
         /\ stack'[1].prompted = (c \notin PduCommands)
         /\ result'.how = "none" /\ result'.infos = << >> /\ result'.of = Nothing
<1> DEFINE f == At!Frame(c, Nothing)
<1>1. /\ f \in FrameType /\ f.cmd = c /\ f.event = Nothing /\ f.infos = << >> /\ f.prompted = (c \notin PduCommands)
      /\ f.seen = Nothing
  BY FrameFacts
<1>2. /\ stack' = <<f>> /\ todo' = Append(todo, c) /\ result' = At!NoResult
      /\ Stream' = Stream /\ entering' = entering /\ listening' = listening /\ sendAck' = sendAck
      /\ received' = received
  BY DEF Chats
<1> HIDE DEF f
<1>3. result' \in ResultType /\ result'.how = "none" /\ result'.infos = << >> /\ result'.of = Nothing
  <2>1. << >> \in Seq(LineType)
    OBVIOUS
  <2> QED
    BY <1>2, <2>1 DEF At!NoResult, ResultType
<1>4. todo' \in Seq(Sent)
  BY <1>2, AppendProperties DEF LineTypes, Sent
<1>5. stack' \in Seq(FrameType) /\ Len(stack') = 1 /\ stack'[1] = f /\ stack' # << >>
  BY <1>1, <1>2
<1>6. LineTypes'
  BY <1>2, <1>3, <1>4, <1>5 DEF LineTypes
<1>7. FrameOK(f, 1)
  <2>1. Len(<< >>) <= 1 /\ ~(1 > 1)
    OBVIOUS
  <2>2. Len(f.infos) <= 1
    BY <1>1, <2>1, Zenon
  <2> QED
    BY <1>1, <2>1, <2>2, Zenon DEF FrameOK
<1>8. Calls'
  BY <1>5, <1>7 DEF Calls
<1> QED
  BY <1>1, <1>3, <1>5, <1>6, <1>8

\* A step that leaves the line and the calls alone.
LEMMA RestKeeps ==
  ASSUME LineTypes, Calls, Rests
  PROVE  LineTypes' /\ Calls' /\ stack' = stack /\ result' = result /\ listening' = listening
         /\ sendAck' = sendAck /\ received' = received /\ Stream' = Stream /\ todo' = todo /\ entering' = entering
  BY DEF Rests, LineTypes, Calls

\* The labels of the main loop and the start are apart.
LEMMA LabelFacts ==
  /\ Starting \cap (Main \cup Broken) = {} /\ Main \cap Broken = {}
  /\ Fetching \subseteq Main /\ Flushing \subseteq Starting
  /\ Asking = {"flushRead", "read"} /\ Ended = {"exit0", "exit1", "abort"}
  BY DEF Starting, Main, Broken, Fetching, Flushing, Asking, Ended

\* The daemon goes on.
LEMMA ShapeMoves ==
  ASSUME Shape, Moves
  PROVE  Core'
<1>1. /\ LineTypes /\ Calls /\ World /\ Places
  BY DEF Shape, Core
<1>2. /\ stack = << >> /\ Onward /\ Around0 /\ Acts0 /\ slot' = slot /\ text' = text
      /\ \/ Rests
         \/ pc' \notin Ended \cup {"flush"} /\ \E c \in Plain : Chats(c) /\ (c \in PduCommands => pc' = "sent")
  BY DEF Moves
<1>3. World'
  BY <1>1, <1>2 DEF World, Around0, Acts0
<1>4. /\ pc' \in Labels /\ (pc' \in Main => pc \in Main) /\ (pc' \in Starting => pc \in Starting)
      /\ pc' \notin Asking /\ (pc' \in Fetching => pc \in Fetching) /\ pc' \notin {"open", "flushErased", "flushRead"}
      /\ pc' \in {"flushOpened", "flush"} => pc \in {"open", "flushOpened"}
      /\ pc' \in {"erased", "act"} => pc \in {"erased", "act"}
  BY <1>2 DEF Onward, Labels, Starting, Main, Broken, Fetching, Flushing, Asking
<1> DEFINE G == /\ LineTypes' /\ Calls' /\ listening' = listening /\ sendAck' = sendAck /\ received' = received
                /\ Len(stack') <= 1
                /\ (pc' \in Ended \cup {"flush"} => stack' = << >> /\ result' = result)
                /\ (stack' # << >> /\ stack'[1].cmd \in PduCommands => pc' = "sent")
<1>5. G
  <2>1. CASE Rests
    <3>1. Len(<< >>) = 0 /\ 0 <= 1
      OBVIOUS
    <3>2. stack' = << >> /\ result' = result
      BY <1>1, <1>2, <2>1, RestKeeps
    <3>3. Len(stack') <= 1
      BY <3>1, <3>2, Zenon
    <3> QED
      BY <1>1, <2>1, <3>2, <3>3, RestKeeps
  <2>2. ASSUME NEW c \in Plain, Chats(c), c \in PduCommands => pc' = "sent", pc' \notin Ended \cup {"flush"}
        PROVE  G
    <3>1. c \in Command
      BY DEF Plain
    <3>2. LineTypes' /\ Calls' /\ Len(stack') = 1 /\ stack' # << >> /\ stack'[1].cmd = c
      BY <1>1, <2>2, <3>1, ChatKeeps
    <3>3. 1 <= 1
      OBVIOUS
    <3>4. Len(stack') <= 1
      BY <3>2, <3>3, Zenon
    <3>5. listening' = listening /\ sendAck' = sendAck /\ received' = received
      BY <2>2 DEF Chats
    <3> QED
      BY <2>2, <3>2, <3>4, <3>5
  <2> QED
    BY <1>2, <2>1, <2>2
<1>6. pc' = "flush" => result'.how # "failed"
  <2> SUFFICES ASSUME pc' = "flush" PROVE result.how # "failed"
    BY <1>5
  <2>1. pc \in {"open", "flushOpened"} /\ pc' \in Starting /\ pc \in Starting
    BY <1>4 DEF Starting
  <2>2. pc = "open" \/ pc = "flush" \/ result.how \in {"ok", "error"}
    BY <2>1 DEF Moves
  <2> QED
    BY <1>1, <2>2 DEF Places
<1>7. /\ slot' \in 0..Slots
      /\ pc' \in Fetching \cup {"flushRead", "flushErased"} => slot' \in Slot
      /\ pc' \in {"open", "flushOpened"} => slot' = 0
      /\ pc' \in {"erased", "act"} => text' \in Message
      /\ pc' \in Main => listening'
      /\ pc' \in Starting => ~listening' /\ dispatched' = << >>
      /\ ~listening' => received' = << >>
  BY <1>1, <1>2, <1>4, <1>5 DEF Places, Acts0
<1>8. Places'
  BY <1>4, <1>5, <1>6, <1>7 DEF Places
<1> QED
  BY <1>3, <1>5, <1>8 DEF Shape, Core

\* The daemon asks for a slot.
LEMMA ShapeAsks ==
  ASSUME Shape, Asks
  PROVE  Core'
<1>1. /\ LineTypes /\ Calls /\ World /\ Places
  BY DEF Shape, Core
<1>2. slot \in Slot
  <2>1. slot \in 0..Slots /\ Slots \in Nat \ {0}
    BY <1>1, NothingFacts DEF Places
  <2>2. slot < Slots => slot \in Slot
    BY <2>1 DEF Slot
  <2>3. pc \in Fetching => slot \in Slot
    BY <1>1 DEF Places
  <2> QED
    BY <2>2, <2>3 DEF Asks, Fetching
<1>3. Cmgr(slot) \in Command /\ Cmgr(slot) \notin PduCommands
  BY <1>2, CmgrFacts, CommandFacts
<1>4. /\ LineTypes' /\ Calls' /\ Len(stack') = 1 /\ stack' # << >> /\ stack'[1].cmd = Cmgr(slot)
  BY <1>1, <1>3, ChatKeeps DEF Asks
<1>5. World'
  BY <1>1 DEF Asks, World, Around0, Acts0
<1>6. (pc = "flush" /\ pc' = "flushRead") \/ (pc \in {"open store", "store opened"} /\ pc' = "read")
  BY DEF Asks
<1>7. Places'
  <2>1. slot' = slot /\ text' = text /\ dispatched' = dispatched /\ received' = received /\ listening' = listening
    BY DEF Asks, Acts0, Chats
  <2>2. 1 <= 1
    OBVIOUS
  <2>3. Cmgr(slot)' = Cmgr(slot)
    BY <2>1 DEF Cmgr
  <2> QED
    BY <1>1, <1>2, <1>3, <1>4, <1>6, <2>1, <2>2, <2>3
    DEF Places, Labels, Starting, Main, Broken, Fetching, Ended, Asking
<1> QED
  BY <1>4, <1>5, <1>7 DEF Shape, Core

\* The next slot is in the store, or the store is at its end.
LEMMA NextSlot ==
  ASSUME NEW i \in Slot
  PROVE  i + 1 \in 0..Slots
  BY NothingFacts DEF Slot

\* The flush goes on to the next slot, or the action was given a message.
LEMMA ShapeSteps ==
  ASSUME Shape, SkipsEmpty \/ Advances \/ Dispatched1
  PROVE  Core'
<1>1. /\ LineTypes /\ Calls /\ World /\ Places /\ stack = << >> /\ Rests /\ Around0 /\ text' = text
  BY DEF Shape, Core, SkipsEmpty, Advances, Dispatched1
<1>2. /\ LineTypes' /\ Calls' /\ stack' = stack /\ result' = result /\ listening' = listening
      /\ sendAck' = sendAck /\ received' = received
  BY <1>1, RestKeeps
<1>3. CASE SkipsEmpty \/ Advances
  <2>1. /\ pc \in {"flushRead", "flushErased"} /\ pc' = "flush" /\ slot' = slot + 1 /\ Ok /\ Acts0
    BY <1>3 DEF SkipsEmpty, Advances
  <2>2. slot' \in 0..Slots /\ result.how # "failed"
    BY <1>1, <2>1, NextSlot DEF Places, Ok
  <2>3. World'
    BY <1>1, <2>1 DEF World, Around0, Acts0
  <2>4. pc \in Starting /\ pc' \in Starting /\ pc' \in Labels
        /\ pc' \notin Main \cup Fetching \cup Asking \cup {"exit0", "exit1", "abort", "flushErased"}
    BY <2>1 DEF Starting, Labels, Main, Fetching, Asking
  <2>5. Places'
    BY <1>1, <1>2, <2>1, <2>2, <2>4 DEF Places, Acts0
  <2> QED
    BY <1>2, <2>3, <2>5 DEF Shape, Core
<1>4. CASE Dispatched1
  <2>1. /\ pc = "act" /\ pc' = "drain" /\ slot' = slot /\ flushed' = flushed
        /\ dispatched' = Append(dispatched, text) /\ ignored' = ignored
    BY <1>4 DEF Dispatched1
  <2>2. text \in Message
    BY <1>1, <2>1 DEF Places
  <2>3. dispatched' \in Seq(Message)
    BY <1>1, <2>1, <2>2, AppendProperties DEF World
  <2>4. World'
    BY <1>1, <2>1, <2>3 DEF World, Around0
  <2>5. pc \in Main /\ pc' \in Main /\ pc' \in Labels
        /\ pc' \notin Starting \cup Fetching \cup Asking \cup Ended
    BY <2>1 DEF Starting, Labels, Main, Fetching, Asking, Ended
  <2>6. Places'
    BY <1>1, <1>2, <2>1, <2>5 DEF Places
  <2> QED
    BY <1>2, <2>4, <2>6 DEF Shape, Core
<1> QED
  BY <1>3, <1>4

\* The daemon erases a slot.
LEMMA ShapeErases ==
  ASSUME Shape, Flushes1 \/ Fetched
  PROVE  Core'
<1>1. /\ LineTypes /\ Calls /\ World /\ Places /\ stack = << >> /\ Around0
      /\ slot' = slot /\ Chats(Cmgd(slot)) /\ pc \in {"flushRead", "read"} /\ Answered # Nothing
      /\ ignored' = ignored /\ dispatched' = dispatched
  BY DEF Shape, Core, Flushes1, Fetched, Acts0
<1>2. slot \in Slot
  BY <1>1 DEF Places, Fetching
<1>3. Cmgd(slot) \in Command /\ Cmgd(slot) \notin PduCommands
  BY <1>2, CmgrFacts, CommandFacts
<1>4. /\ LineTypes' /\ Calls' /\ Len(stack') = 1 /\ stack' # << >> /\ stack'[1].cmd = Cmgd(slot)
  BY <1>1, <1>3, ChatKeeps
<1>5. Answered \in Message
  BY <1>1, AnsweredFacts
<1>6. flushed' \in Seq(Message) /\ text' \in Message \cup {Nothing}
  <2>1. Append(flushed, Answered) \in Seq(Message)
    BY <1>1, <1>5, AppendProperties DEF World
  <2> QED
    BY <1>1, <1>5, <2>1 DEF Flushes1, Fetched, World, Acts0
<1>7. World'
  BY <1>1, <1>6 DEF World, Around0
<1>8. received' = received /\ listening' = listening /\ 1 <= 1
  BY <1>1 DEF Chats
<1>9. CASE Flushes1
  <2>1. pc = "flushRead" /\ pc' = "flushErased"
    BY <1>9 DEF Flushes1
  <2>2. pc \in Starting /\ pc' \in Starting /\ pc' \in Labels
        /\ pc' \notin Main \cup Fetching \cup Asking \cup Ended \cup {"open", "flush"}
    BY <2>1 DEF Starting, Labels, Main, Fetching, Asking, Ended
  <2>3. Places'
    BY <1>1, <1>2, <1>3, <1>4, <1>8, <2>1, <2>2 DEF Places
  <2> QED
    BY <1>4, <1>7, <2>3 DEF Shape, Core
<1>10. CASE Fetched
  <2>1. pc = "read" /\ pc' = "erased" /\ text' \in Message
    BY <1>5, <1>10 DEF Fetched
  <2>2. pc \in Main /\ pc' \in Main /\ pc' \in Labels
        /\ pc' \notin Starting \cup Fetching \cup Asking \cup Ended \cup {"open", "flush"}
    BY <2>1 DEF Starting, Labels, Main, Fetching, Asking, Ended
  <2>3. Places'
    BY <1>1, <1>2, <1>3, <1>4, <1>8, <2>1, <2>2 DEF Places
  <2> QED
    BY <1>4, <1>7, <2>3 DEF Shape, Core
<1> QED
  BY <1>1, <1>9, <1>10

\* The event handler is set, or a new message is taken.
LEMMA ShapeQueue ==
  ASSUME Shape, Listens \/ Pops
  PROVE  Core'
<1>1. /\ LineTypes /\ Calls /\ World /\ Places /\ stack = << >> /\ Around0 /\ Acts0
      /\ UNCHANGED <<Stream, todo, entering, stack, result, sendAck>>
  BY DEF Shape, Core, Listens, Pops
<1>2. listening' \in BOOLEAN /\ received' \in Seq(Event)
  <2>1. received # << >> => Tail(received) \in Seq(Event)
    BY <1>1, HeadTailProperties DEF LineTypes
  <2> QED
    BY <1>1, <2>1 DEF Listens, Pops, LineTypes
<1>3. LineTypes' /\ Calls'
  BY <1>1, <1>2 DEF LineTypes, Calls
<1>4. CASE Listens
  <2>1. pc = "route" /\ pc' = "wait" /\ slot' = slot /\ text' = text /\ listening' = TRUE
    BY <1>4 DEF Listens
  <2>2. pc' \in Labels /\ pc' \notin Starting \cup Fetching \cup Asking \cup Ended
    BY <2>1 DEF Starting, Labels, Main, Fetching, Asking, Ended
  <2>3. World'
    BY <1>1, <2>1 DEF World, Around0, Acts0
  <2>4. Places'
    BY <1>1, <2>1, <2>2 DEF Places
  <2> QED
    BY <1>3, <2>3, <2>4 DEF Shape, Core
<1>5. CASE Pops
  <2>1. /\ pc = "drain" /\ received # << >> /\ listening' = listening
        /\ \/ /\ Head(received) \in Direct /\ pc' = "act" /\ text' = Head(received).msg /\ slot' = slot
           \/ /\ Head(received) \notin Direct /\ pc' = "open store" /\ slot' = Head(received).index - 1
              /\ text' = text
    BY <1>5 DEF Pops
  <2>2. Head(received) \in Event /\ Head(received).msg \in Message
    <3>1. Head(received) \in Event
      BY <1>1, <2>1, HeadTailProperties DEF LineTypes
    <3> QED
      BY <3>1 DEF Event
  <2>3. Head(received) \notin Direct => Head(received).index - 1 \in Slot
    BY <2>2, EventFacts
  <2>4. \A i \in Slot : i \in 0..Slots
    BY NothingFacts DEF Slot
  <2>5. pc \in Main /\ pc' \in Main /\ pc' \in Labels /\ pc' \notin Starting \cup Asking \cup Ended
        /\ (pc' \in Fetching => pc' = "open store")
    BY <2>1 DEF Starting, Labels, Main, Fetching, Asking, Ended
  <2>6. World'
    BY <1>1, <2>1, <2>2 DEF World, Around0, Acts0
  <2>7. listening /\ listening' /\ slot' \in 0..Slots
    BY <1>1, <2>1, <2>3, <2>4, <2>5 DEF Places
  <2>8. Places'
    BY <1>1, <2>1, <2>2, <2>3, <2>4, <2>5, <2>7 DEF Places
  <2> QED
    BY <1>3, <2>6, <2>8 DEF Shape, Core
<1> QED
  BY <1>4, <1>5

\* The shape of the state is kept by every step.
LEMMA ShapeNext ==
  ASSUME Shape, [Next]_vars
  PROVE  Steps /\ Shape'
<1>0. Parts'
  BY PartsNext
<1>1. Steps
  BY NextCases
<1>2. CASE Idles
  <2>1. LineTypes' /\ Calls'
    BY <1>2 DEF Idles, Shape, Core, LineTypes, Calls
  <2>2. World' /\ Places'
    BY <1>2 DEF Idles, Shape, Core, World, Places
  <2> QED
    BY <1>0, <1>1, <2>1, <2>2 DEF Shape, Core
<1>3. CASE ~Idles
  <2>1. Core'
    BY <1>1, <1>3, ShapeReads, ShapeExecutes, ShapeArrives, ShapeMoves, ShapeAsks, ShapeSteps,
       ShapeErases, ShapeQueue DEF Steps, OtherSteps
  <2> QED
    BY <1>0, <1>1, <2>1 DEF Shape
<1> QED
  BY <1>2, <1>3

\* There are no lines at the start.
LEMMA StreamInit ==
  ASSUME Init
  PROVE  Stream = << >> /\ Parts
<1>1. line = << >> /\ answering = << >>
  BY DEF Init, At!AtInit
<1>2. << >> \o << >> = << >> /\ << >> \in Seq(LineType) /\ << >> \in Seq(Answers0)
  OBVIOUS
<1> QED
  BY <1>1, <1>2 DEF Stream, Parts

\* The shape at the start.
LEMMA ShapeInit ==
  ASSUME Init
  PROVE  Shape
<1>00. Stream = << >> /\ Parts
  BY StreamInit
<1>1. /\ Stream = << >> /\ todo = << >> /\ entering = At!NotEntering /\ stack = << >>
      /\ result = At!NoResult /\ listening = FALSE /\ sendAck \in BOOLEAN /\ received = << >>
      /\ arrived = 0 /\ store = [i \in Slot |-> Nothing] /\ routing \in RoutedBefore
      /\ pc = "open" /\ slot = 0 /\ text = Nothing /\ flushed = << >> /\ dispatched = << >> /\ ignored = {}
  BY StreamInit DEF Init, At!AtInit
<1>2. LineTypes
  <2>1. At!NotEntering \in EnteringType /\ At!NoResult \in ResultType
    <3>1. << >> \in Seq(LineType)
      OBVIOUS
    <3> QED
      BY <3>1 DEF At!NotEntering, EnteringType, At!NoResult, ResultType
  <2>2. /\ << >> \in Seq(LineType) /\ << >> \in Seq(Sent) /\ << >> \in Seq(FrameType)
        /\ << >> \in Seq(Event)
    OBVIOUS
  <2> QED
    BY <1>1, <2>1, <2>2, Zenon DEF LineTypes
<1>3. Calls
  BY <1>1 DEF Calls
<1>4. World
  BY <1>1, SmsDaemonAssumption DEF World
<1>5. Places
  <2>1. pc \in Starting /\ pc \in Labels /\ pc \notin Main \cup Fetching \cup Asking
    BY <1>1 DEF Labels, Starting, Main, Fetching, Asking
  <2>2. Len(<< >>) = 0 /\ 0 <= 1
    OBVIOUS
  <2>3. Len(stack) <= 1
    BY <1>1, <2>2, Zenon
  <2>4. slot \in 0..Slots /\ result.how # "failed"
    BY <1>1, NothingFacts DEF At!NoResult
  <2> QED
    BY <1>1, <2>1, <2>3, <2>4 DEF Places
<1> QED
  BY <1>00, <1>2, <1>3, <1>4, <1>5 DEF Shape, Core

\* The variables keep their types, the calls nest as they should, and the
\* daemon is where its variables say.
THEOREM ShapeAlways == Spec => []Shape
<1>1. Init => Shape
  BY ShapeInit
<1>2. Shape /\ [Next]_vars => Shape'
  BY ShapeNext
<1> QED
  BY <1>1, <1>2, PTL DEF Spec

-----------------------------------------------------------------------------
(* Where events are. *)

Reporting(E) == {x \in LineType : x.kind = "event" /\ x.of \in E}
Waiting(E)   == {f \in FrameType : f.event \in E}
Seen(E)   == Some(Stream, Reporting(E)) \/ Some(received, E) \/ Some(stack, Waiting(E))
Unique(E) ==
  /\ Single(Stream, Reporting(E)) /\ Single(received, E) /\ Single(stack, Waiting(E))
  /\ ~(Some(Stream, Reporting(E)) /\ Some(received, E))
  /\ ~(Some(Stream, Reporting(E)) /\ Some(stack, Waiting(E)))
  /\ ~(Some(received, E) /\ Some(stack, Waiting(E)))

\* What is left of the calls after a line or a time-out.
LEMMA SomeFront ==
  ASSUME NEW S, NEW s \in Seq(S), s # << >>, NEW K
  PROVE  /\ Some(Front(s), K) => Some(s, K)
         /\ s[Len(s)] \in K => Some(s, K)
         /\ Single(s, K) => Single(Front(s), K)
         /\ Single(s, K) /\ s[Len(s)] \in K => ~Some(Front(s), K)
<1> DEFINE m == Front(s)
           n == Len(s)
<1>1. /\ n \in Nat \ {0} /\ Len(m) = n - 1 /\ \A p \in 1..(n - 1) : m[p] = s[p]
  BY Shortened
<1> HIDE DEF m
<1>2. n \in 1..n /\ \A p \in 1..(n - 1) : p \in 1..n /\ p # n
  BY <1>1
<1> HIDE DEF n
<1>3. Some(m, K) => Some(s, K)
  BY <1>1, <1>2 DEF Some, n
<1>4. s[n] \in K => Some(s, K)
  BY <1>2 DEF Some, n
<1>5. Single(s, K) => Single(m, K)
  BY <1>1, <1>2 DEF Single, n
<1>6. Single(s, K) /\ s[n] \in K => ~Some(m, K)
  BY <1>1, <1>2 DEF Single, Some, n
<1> QED
  BY <1>3, <1>4, <1>5, <1>6 DEF m, n

\* What is in a sequence of one.
LEMMA SomeOne ==
  ASSUME NEW x, NEW K
  PROVE  (Some(<<x>>, K) <=> x \in K) /\ Single(<<x>>, K)
<1>1. Len(<<x>>) = 1 /\ <<x>>[1] = x /\ 1..1 = {1}
  OBVIOUS
<1> QED
  BY <1>1 DEF Some, Single

\* No event appears, and none twice.
Shrinks(E) == (Seen(E)' => Seen(E)) /\ (Unique(E) => Unique(E)')

\* A step that touches no event.
LEMMA SameSeen ==
  ASSUME NEW E, UNCHANGED <<Stream, received, stack>>
  PROVE  Shrinks(E)
  BY DEF Shrinks, Seen, Unique

\* A line that is no event is read, or lines are lost.
LEMMA AnswerSeen ==
  ASSUME Shape, NEW E \in SUBSET Event, stack # << >>,
         Stream' = << >> \/ (Stream # << >> /\ Stream' = Tail(Stream)),
         Throws \/ ReturnsLast \/ ReturnsInner \/ (\E f \in FrameType : Goeson(f))
  PROVE  Shrinks(E)
<1> DEFINE L == Reporting(E)
           W == Waiting(E)
<1>1. Stream \in Seq(LineType) /\ stack \in Seq(FrameType) /\ received \in Seq(Event) /\ LineTypes /\ Calls
  BY DEF Shape, Core, LineTypes
<1>2. (Some(Stream', L) => Some(Stream, L)) /\ (Single(Stream, L) => Single(Stream', L))
  <2> HIDE DEF L, W
  <2>1. CASE Stream' = << >>
    BY <2>1, NoneEmpty, Zenon
  <2>2. CASE Stream # << >> /\ Stream' = Tail(Stream)
    <3>1. (Some(Tail(Stream), L) => Some(Stream, L)) /\ (Single(Stream, L) => Single(Tail(Stream), L))
      BY <1>1, <2>2, SomeTail
    <3> QED
      BY <2>2, <3>1, Zenon
  <2> QED
    BY <2>1, <2>2
<1> HIDE DEF L, W
<1>3. CASE /\ received' = received
           /\ stack' = << >> \/ \E f \in FrameType : Goeson(f)
  <2>1. ~Some(stack', W) /\ Single(stack', W)
    <3>1. CASE stack' = << >>
      BY <3>1, NoneEmpty
    <3>2. ASSUME NEW f \in FrameType, Goeson(f) PROVE ~Some(stack', W) /\ Single(stack', W)
      <4>1. stack' = <<f>> /\ f.event = Nothing
        BY <3>2 DEF Goeson, FrameOK
      <4>2. f \notin W
        BY <4>1, NothingFacts DEF W, Waiting
      <4> QED
        BY <4>1, <4>2, SomeOne
    <3> QED
      BY <1>3, <3>1, <3>2
  <2> QED
    BY <1>2, <1>3, <2>1 DEF Shrinks, Seen, Unique, L, W
<1>4. CASE ReturnsInner
  <2> DEFINE e == stack[Len(stack)].event
  <2>1. stack' = Front(stack) /\ received' = At!Handed(e)
    BY <1>4 DEF ReturnsInner
  <2>2. e \in Event /\ stack[Len(stack)] \in FrameType
    <3>1. FrameOK(stack[Len(stack)], Len(stack)) /\ stack[Len(stack)] \in FrameType
      <4>1. Len(stack) \in 1..Len(stack)
        BY <1>1, TopFacts
      <4> QED
        BY <1>1, <4>1, TopFacts
    <3> QED
      BY <1>4, <3>1, EventFacts DEF ReturnsInner, FrameOK
  <2>3. e \in E <=> stack[Len(stack)] \in W
    BY <2>2 DEF W, Waiting
  <2>4. /\ Some(stack', W) => Some(stack, W)
        /\ stack[Len(stack)] \in W => Some(stack, W)
        /\ Single(stack, W) => Single(stack', W)
        /\ Single(stack, W) /\ stack[Len(stack)] \in W => ~Some(stack', W)
    BY <1>1, <2>1, SomeFront
  <2> HIDE DEF e
  <2>5. received' = received \/ received' = Append(received, e)
    BY <2>1 DEF At!Handed
  <2>6. /\ e \in E \/ (Some(received', E) => Some(received, E))
        /\ Single(received, E) /\ (e \notin E \/ ~Some(received, E)) => Single(received', E)
    BY <1>1, <2>2, <2>5, SomeAppend
  <2> QED
    BY <1>2, <2>3, <2>4, <2>6 DEF Shrinks, Seen, Unique, L, W
<1> QED
  BY <1>3, <1>4 DEF Throws, ReturnsLast, Goeson

\* An event is read.
LEMMA EventSeen ==
  ASSUME Shape, NEW E \in SUBSET Event, stack # << >>, Stream # << >>, Stream' = Tail(Stream),
         Head(Stream).kind = "event", HandsOver(Head(Stream).of) \/ Nests(Head(Stream).of)
  PROVE  Shrinks(E)
<1> DEFINE L == Reporting(E)
           W == Waiting(E)
           e == Head(Stream).of
<1>1. Stream \in Seq(LineType) /\ stack \in Seq(FrameType) /\ received \in Seq(Event) /\ LineTypes /\ Calls
  BY DEF Shape, Core, LineTypes
<1>2. Head(Stream) \in LineType /\ e \in Event
  BY <1>1, Shrunk, LineFacts
<1>3. e \in E <=> Head(Stream) \in L
  BY <1>2 DEF Reporting
<1>4. /\ Some(Stream', L) => Some(Stream, L)
      /\ Head(Stream) \in L => Some(Stream, L)
      /\ Single(Stream, L) => Single(Stream', L)
      /\ Single(Stream, L) /\ Head(Stream) \in L => ~Some(Stream', L)
  BY <1>1, SomeTail
<1> HIDE DEF L, W, e
<1>5. CASE HandsOver(e)
  <2>1. stack' = stack /\ (received' = received \/ received' = Append(received, e))
    BY <1>5 DEF HandsOver, At!Handed
  <2>2. /\ e \in E \/ (Some(received', E) => Some(received, E))
        /\ Single(received, E) /\ (e \notin E \/ ~Some(received, E)) => Single(received', E)
    BY <1>1, <1>2, <2>1, SomeAppend
  <2> QED
    BY <1>3, <1>4, <2>1, <2>2 DEF Shrinks, Seen, Unique, L, W
<1>6. CASE Nests(e)
  <2> DEFINE f == At!Frame(Cnma, e)
  <2>1. stack' = Append(stack, f) /\ received' = received /\ f \in FrameType /\ f.event = e
    BY <1>2, <1>6, FrameFacts DEF Nests
  <2>2. f \in W <=> e \in E
    BY <2>1 DEF W, Waiting
  <2> HIDE DEF f
  <2>3. /\ f \in W \/ (Some(stack', W) => Some(stack, W))
        /\ Single(stack, W) /\ (f \notin W \/ ~Some(stack, W)) => Single(stack', W)
    BY <1>1, <2>1, SomeAppend
  <2> QED
    BY <1>3, <1>4, <2>1, <2>2, <2>3 DEF Shrinks, Seen, Unique, L, W
<1> QED
  BY <1>5, <1>6 DEF e

\* The TA executes a command: no event comes.
LEMMA AddsNoEvents ==
  ASSUME Stream \in Seq(LineType), NEW E, NEW c, Refuses(c) \/ Answers(c)
  PROVE  /\ (Some(Stream', Reporting(E)) => Some(Stream, Reporting(E)))
         /\ (Single(Stream, Reporting(E)) => Single(Stream', Reporting(E)))
<1> DEFINE L == Reporting(E)
<1>1. ASSUME NEW s \in Seq(LineType), NEW x \in LineType, x.kind # "event"
      PROVE  /\ Some(Append(s, x), L) => Some(s, L)
             /\ Single(s, L) => Single(Append(s, x), L)
             /\ Append(s, x) \in Seq(LineType)
  <2>1. x \notin L
    BY <1>1 DEF Reporting
  <2> QED
    BY <2>1, SomeAppend, AppendProperties
<1> HIDE DEF L
<1>2. CASE \E z \in LineType : z.kind # "event" /\ Stream' = Append(Stream, z)
  BY <1>1, <1>2 DEF L
<1>3. CASE \E y, z \in LineType : y.kind # "event" /\ z.kind # "event" /\ Stream' = Append(Append(Stream, y), z)
  <2>1. PICK y \in LineType, z \in LineType : y.kind # "event" /\ z.kind # "event" /\ Stream' = Append(Append(Stream, y), z)
    BY <1>3
  <2>2. /\ Some(Append(Stream, y), L) => Some(Stream, L)
        /\ Single(Stream, L) => Single(Append(Stream, y), L)
        /\ Append(Stream, y) \in Seq(LineType)
    BY <1>1, <2>1
  <2>3. /\ Some(Stream', L) => Some(Append(Stream, y), L)
        /\ Single(Append(Stream, y), L) => Single(Stream', L)
    BY <1>1, <2>1, <2>2
  <2> QED
    BY <2>2, <2>3 DEF L
<1> QED
  BY <1>2, <1>3 DEF Refuses, Answers

\* What the TA executes brings no event.
LEMMA ExecutesSeen ==
  ASSUME Shape, NEW E, Executing
  PROVE  Shrinks(E)
<1> DEFINE G == /\ (Some(Stream', Reporting(E)) => Some(Stream, Reporting(E)))
                /\ (Single(Stream, Reporting(E)) => Single(Stream', Reporting(E)))
<1>1. Stream \in Seq(LineType) /\ stack' = stack /\ received' = received
  BY DEF Shape, Core, LineTypes, Executing
<1>2. G
  <2>1. \A c : (Refuses(c) \/ Answers(c)) => G
    BY <1>1, AddsNoEvents
  <2>2. Stream' = Stream => G
    OBVIOUS
  <2>3. ASSUME NEW c, Prompts(c) PROVE G
    <3>1. PICK x \in LineType : x.kind = "prompt" /\ Stream' = Append(Stream, x)
      BY <2>3 DEF Prompts
    <3>2. x \notin Reporting(E)
      BY <3>1 DEF Reporting
    <3> QED
      BY <1>1, <3>1, <3>2, SomeAppend
  <2> HIDE DEF G
  <2> QED
    BY <2>1, <2>2, <2>3 DEF Executing, Drops, Obeys, Rejects1, Garbles, Finishes
<1> QED
  BY <1>1, <1>2 DEF Shrinks, Seen, Unique

\* The daemon goes on.
LEMMA OthersSeen ==
  ASSUME Shape, NEW E \in SUBSET Event, OtherSteps
  PROVE  /\ Shrinks(E)
         /\ Pops /\ Unique(E) /\ Head(received) \in E => ~Seen(E)'
<1> DEFINE L == Reporting(E)
           W == Waiting(E)
<1>1. received \in Seq(Event) /\ stack = << >> /\ Stream' = Stream
  BY DEF Shape, Core, LineTypes, OtherSteps, Moves, Asks, SkipsEmpty, Flushes1, Advances, Fetched, Dispatched1,
         Listens, Pops, Rests, Chats
<1> HIDE DEF L, W
<1>2. CASE Pops
  <2>1. received # << >> /\ received' = Tail(received) /\ stack' = stack
    BY <1>2 DEF Pops
  <2>2. /\ Some(received', E) => Some(received, E)
        /\ Head(received) \in E => Some(received, E)
        /\ Single(received, E) => Single(received', E)
        /\ Single(received, E) /\ Head(received) \in E => ~Some(received', E)
    BY <1>1, <2>1, SomeTail
  <2> QED
    BY <1>1, <2>1, <2>2 DEF Shrinks, Seen, Unique, L, W
<1>3. ASSUME ~Pops PROVE Shrinks(E)
  <2>1. received' = received
    BY <1>3 DEF OtherSteps, Moves, Asks, SkipsEmpty, Flushes1, Advances, Fetched, Dispatched1,
                Listens, Rests, Chats
  <2>2. stack' = stack \/ \E c \in Command : stack' = <<At!Frame(c, Nothing)>>
    <3>1. slot \in Slot => Cmgr(slot) \in Command /\ Cmgd(slot) \in Command
      BY CmgrFacts, CommandFacts
    <3>2. Asks \/ Flushes1 \/ Fetched => slot \in Slot
      <4>1. slot \in 0..Slots /\ Slots \in Nat \ {0}
        BY NothingFacts DEF Shape, Core, Places
      <4>2. slot < Slots => slot \in Slot
        BY <4>1 DEF Slot
      <4>3. pc \in Fetching \cup {"flushRead"} => slot \in Slot
        BY DEF Shape, Core, Places
      <4> QED
        BY <4>2, <4>3 DEF Asks, Flushes1, Fetched, Fetching
    <3>3. \A c \in Plain : c \in Command
      BY DEF Plain
    <3>4. Asks \/ Flushes1 \/ Fetched => \E c \in Command : Chats(c)
      BY <3>1, <3>2 DEF Asks, Flushes1, Fetched
    <3>5. Moves => Rests \/ \E c \in Command : Chats(c)
      BY <3>3 DEF Moves
    <3>6. SkipsEmpty \/ Advances \/ Dispatched1 => Rests
      BY DEF SkipsEmpty, Advances, Dispatched1
    <3>7. Listens => stack' = stack
      BY DEF Listens
    <3>8. Rests => stack' = stack
      BY DEF Rests
    <3> QED
      BY <1>3, <3>4, <3>5, <3>6, <3>7, <3>8 DEF OtherSteps, Chats
  <2>3. ~Some(stack', W) /\ Single(stack', W)
    <3>1. CASE stack' = stack
      BY <1>1, <3>1, NoneEmpty
    <3>2. ASSUME NEW c \in Command, stack' = <<At!Frame(c, Nothing)>>
          PROVE  ~Some(stack', W) /\ Single(stack', W)
      <4>1. At!Frame(c, Nothing).event = Nothing
        BY FrameFacts
      <4>2. At!Frame(c, Nothing) \notin W
        BY <4>1, NothingFacts DEF W, Waiting
      <4> QED
        BY <3>2, <4>2, SomeOne
    <3> QED
      BY <2>2, <3>1, <3>2
  <2> QED
    BY <1>1, <2>1, <2>3 DEF Shrinks, Seen, Unique, L, W
<1> QED
  BY <1>2, <1>3

\* Only what arrives is new.
LEMMA SeenShrinks ==
  ASSUME Shape, NEW E \in SUBSET Event, Steps, ~Arriving
  PROVE  Shrinks(E)
<1>1. CASE Reading
  <2> DEFINE x == Head(Stream)
  <2>1. stack # << >> /\ Stream # << >> /\ Stream' = Tail(Stream) /\ Reads(x) /\ x \in LineType
    BY <1>1 DEF Reading
  <2>2. CASE x.kind = "event"
    <3>1. HandsOver(x.of) \/ Nests(x.of)
      BY <2>1, <2>2 DEF Reads
    <3> QED
      BY <2>1, <2>2, <3>1, EventSeen
  <2>3. CASE x.kind # "event"
    <3>1. Throws \/ ReturnsLast \/ ReturnsInner \/ (\E f \in FrameType : Goeson(f))
      BY <2>1, <2>3 DEF Reads, Keeps, Continues, Resends
    <3> QED
      BY <2>1, <3>1, AnswerSeen
  <2> QED
    BY <2>2, <2>3
<1>2. CASE Expiring
  <2>1. Throws \/ \E f \in FrameType : Goeson(f)
    BY <1>2, ExpiringTurns
  <2> QED
    BY <1>2, <2>1, AnswerSeen DEF Expiring
<1>3. CASE Executing
  BY <1>3, ExecutesSeen
<1>4. CASE OtherSteps
  BY <1>4, OthersSeen
<1>5. CASE Idles
  BY <1>5, SameSeen DEF Idles
<1> QED
  BY <1>1, <1>2, <1>3, <1>4, <1>5 DEF Steps

\* What arrives is the next message, or what was seen before.
LEMMA SeenArrives ==
  ASSUME Shape, NEW E \in SUBSET Event, Arriving
  PROVE  \/ /\ (Seen(E)' <=> Seen(E)) /\ (Unique(E) => Unique(E)')
         \/ /\ \E e \in E : /\ e.msg = arrived + 1
                            /\ \/ e.index = 0 /\ routing /\ store' = store
                               \/ \E i \in Slot : e.index = i + 1 /\ ComesTo(i)
            /\ Unique(E) /\ ~Seen(E) => Unique(E)'
<1> DEFINE L == Reporting(E)
<1>1. Stream \in Seq(LineType) /\ stack' = stack /\ received' = received
  BY DEF Shape, Core, LineTypes, Arriving
<1>2. CASE Stream' = Stream
  BY <1>1, <1>2 DEF Seen, Unique
<1>3. ASSUME NEW k, Reports(k), \/ k = 0 /\ routing /\ store' = store
                                \/ \E i \in Slot : k = i + 1 /\ ComesTo(i)
      PROVE  \/ /\ (Seen(E)' <=> Seen(E)) /\ (Unique(E) => Unique(E)')
             \/ /\ \E e \in E : e.msg = arrived + 1 /\ e.index = k
                /\ Unique(E) /\ ~Seen(E) => Unique(E)'
  <2>1. PICK x \in LineType : x.kind = "event" /\ x.of.msg = arrived + 1 /\ x.of.index = k /\ Inserts(x)
    BY <1>3 DEF Reports
  <2>2. /\ Some(Stream, L) => Some(Stream', L)
        /\ x \notin L => (Some(Stream', L) => Some(Stream, L))
        /\ Single(Stream, L) /\ (x \notin L \/ ~Some(Stream, L)) => Single(Stream', L)
    BY <1>1, <2>1, Inserted
  <2>3. x \in L <=> x.of \in E
    BY <2>1 DEF Reporting
  <2> HIDE DEF L
  <2>4. CASE x \notin L
    <3>1. Some(Stream', L) <=> Some(Stream, L)
      BY <2>2, <2>4
    <3> QED
      BY <1>1, <2>2, <2>4, <3>1 DEF Seen, Unique, L
  <2>5. CASE x \in L
    BY <1>1, <2>1, <2>2, <2>3, <2>5 DEF Seen, Unique, L
  <2> QED
    BY <2>4, <2>5
<1>4. \/ Stream' = Stream
      \/ routing /\ store' = store /\ Reports(0)
      \/ \E i \in Slot : ComesTo(i) /\ Reports(i + 1)
  BY DEF Arriving, ComesDirectly, ComesTo
<1> QED
  BY <1>2, <1>3, <1>4

-----------------------------------------------------------------------------
(* The store and what is reported of it. *)

Of(m)          == {e \in Event : e.msg = m}
Pointing(m, i) == {e \in Event : e.msg = m /\ e.index = i + 1}
Straight(m)    == {e \in Event : e.msg = m /\ e.index = 0}
Erases(i)      == Some(todo, {Cmgd(i)})

Events ==
  /\ \A m \in Message : Unique(Of(m)) /\ (Seen(Of(m)) => m <= arrived)
  /\ \A i \in Slot : store[i] # Nothing => store[i] <= arrived
  /\ \A i, j \in Slot : store[i] = store[j] /\ store[i] # Nothing => i = j
  /\ \A m \in Message, i \in Slot : Seen(Pointing(m, i)) => store[i] = m
  /\ \A m \in Message, i \in Slot : Seen(Straight(m)) => store[i] # m
Erasing ==
  \A i \in Slot : /\ Single(todo, {Cmgd(i)})
                  /\ Erases(i) => store[i] # Nothing /\ ~Seen(Of(store[i]))

\* Fewer events are seen of fewer.
LEMMA SeenMore ==
  ASSUME NEW D, NEW E, D \subseteq E, Seen(D)
  PROVE  Seen(E)
  BY DEF Seen, Some, Reporting, Waiting

\* When the store changes.
LEMMA StoreSteps ==
  ASSUME Shape, Steps
  PROVE  \/ store' = store
         \/ Arriving /\ \E i \in Slot : ComesTo(i)
         \/ Executing /\ \E i \in Slot : Head(todo) = Cmgd(i) /\ store' = [store EXCEPT ![i] = Nothing]
<1>1. store \in [Slot -> Message \cup {Nothing}]
  BY DEF Shape, Core, World
<1>2. CASE Executing
  <2> DEFINE c == Head(todo)
  <2>1. CASE Obeys(c)
    <3>1. store' = [i \in Slot |-> IF c = Cmgd(i) THEN Nothing ELSE store[i]]
      BY <2>1 DEF Obeys
    <3> HIDE DEF c
    <3>2. CASE \E i \in Slot : c = Cmgd(i)
      <4>1. PICK i \in Slot : c = Cmgd(i)
        BY <3>2
      <4>2. \A j \in Slot : c = Cmgd(j) <=> j = i
        BY <4>1, CmgrFacts
      <4>3. store' = [store EXCEPT ![i] = Nothing]
        BY <1>1, <3>1, <4>2
      <4> QED
        BY <1>2, <4>1, <4>3 DEF c
    <3>3. CASE ~\E i \in Slot : c = Cmgd(i)
      <4>1. store' = [i \in Slot |-> store[i]]
        BY <3>1, <3>3
      <4> QED
        BY <1>1, <4>1
    <3> QED
      BY <3>2, <3>3
  <2>2. CASE ~Obeys(c)
    BY <1>2, <2>2 DEF Executing, Drops, Prompts, Rejects1, Garbles, Finishes, Stored
  <2> QED
    BY <2>1, <2>2
<1>3. CASE Arriving
  BY <1>3 DEF Arriving, ComesDirectly
<1>4. CASE Reading \/ Expiring \/ OtherSteps \/ Idles
  BY <1>4 DEF Reading, Expiring, OtherSteps, Idles, Around0, Moves, Asks, SkipsEmpty, Flushes1,
              Advances, Fetched, Dispatched1, Listens, Pops
<1> QED
  BY <1>2, <1>3, <1>4 DEF Steps

\* How many messages arrived.
LEMMA ArrivedSteps ==
  ASSUME Shape, Steps
  PROVE  (Arriving /\ arrived' = arrived + 1) \/ arrived' = arrived
  BY DEF Steps, Reading, Expiring, Executing, Arriving, OtherSteps, Idles, Around0, Moves, Asks,
         SkipsEmpty, Flushes1, Advances, Fetched, Dispatched1, Listens, Pops

\* The invariants of the events at the start.
LEMMA EventsInit ==
  ASSUME Init
  PROVE  Events /\ Erasing
<1>1. Stream = << >> /\ todo = << >> /\ stack = << >> /\ received = << >> /\ store = [i \in Slot |-> Nothing]
  BY StreamInit DEF Init, At!AtInit
<1>2. \A E : ~Seen(E) /\ Unique(E)
  BY <1>1, NoneEmpty DEF Seen, Unique
<1>3. \A i \in Slot : store[i] = Nothing
  BY <1>1
<1>4. \A i \in Slot : ~Erases(i) /\ Single(todo, {Cmgd(i)})
  BY <1>1, NoneEmpty DEF Erases
<1> QED
  BY <1>2, <1>3, <1>4, NothingFacts DEF Events, Erasing

\* A step in which nothing arrives keeps the events exact.
LEMMA EventsStays ==
  ASSUME Shape, Events, Erasing, Steps, ~Arriving
  PROVE  Events'
<1>1. \A E \in SUBSET Event : (Seen(E)' => Seen(E)) /\ (Unique(E) => Unique(E)')
  BY SeenShrinks DEF Shrinks
<1>2. arrived' = arrived
  BY ArrivedSteps
<1>3. /\ \A m : Of(m) \in SUBSET Event /\ Straight(m) \in SUBSET Event
      /\ \A m, i : Pointing(m, i) \in SUBSET Event
  BY DEF Of, Straight, Pointing
<1>4. \/ store' = store
      \/ \E i \in Slot : Erases(i) /\ store' = [store EXCEPT ![i] = Nothing]
  <2>1. \A i : todo # << >> /\ Head(todo) = Cmgd(i) => Erases(i)
    <3>1. todo \in Seq(Sent)
      BY DEF Shape, Core, LineTypes
    <3> QED
      BY <3>1, SomeTail DEF Erases
  <2> QED
    BY <2>1, StoreSteps DEF Executing
<1>5. store \in [Slot -> Message \cup {Nothing}]
  BY DEF Shape, Core, World
<1>6. \A i \in Slot : \/ store'[i] = store[i]
                      \/ Erases(i) /\ store'[i] = Nothing
  BY <1>4, <1>5
<1>7. \A m \in Message : Unique(Of(m))' /\ (Seen(Of(m))' => m <= arrived')
  <2>1. \A m : Of(m)' = Of(m)
    BY DEF Of
  <2> QED
    BY <1>1, <1>2, <1>3, <2>1 DEF Events
<1>8. \A i \in Slot : store'[i] # Nothing => store'[i] <= arrived'
  BY <1>2, <1>6 DEF Events
<1>9. \A i, j \in Slot : store'[i] = store'[j] /\ store'[i] # Nothing => i = j
  BY <1>6 DEF Events
<1>10. ASSUME NEW m \in Message, NEW i \in Slot, Seen(Pointing(m, i))' PROVE store'[i] = m
  <2>1. Seen(Pointing(m, i)) /\ store[i] = m
    BY <1>1, <1>3, <1>10 DEF Events
  <2>2. Seen(Of(m))
    <3>1. Pointing(m, i) \subseteq Of(m)
      BY DEF Pointing, Of
    <3> QED
      BY <2>1, <3>1, SeenMore
  <2>3. ~Erases(i)
    BY <2>1, <2>2 DEF Erasing
  <2> QED
    BY <1>6, <2>1, <2>3
<1>11. ASSUME NEW m \in Message, NEW i \in Slot, Seen(Straight(m))' PROVE store'[i] # m
  <2>1. store[i] # m
    BY <1>1, <1>3, <1>11 DEF Events
  <2> QED
    BY <1>6, <2>1, NothingFacts
<1> QED
  BY <1>7, <1>8, <1>9, <1>10, <1>11 DEF Events

\* A message that arrives is new, in its slot and in its event.
LEMMA EventsArrives ==
  ASSUME Shape, Events, Arriving
  PROVE  Events'
<1> DEFINE n == arrived + 1
<1>1. arrived \in Nat /\ n \in Message /\ arrived' = n /\ Message \subseteq Nat
      /\ store \in [Slot -> Message \cup {Nothing}]
  <2>1. arrived \in 0..Messages /\ arrived < Messages /\ Messages \in Nat
    BY NothingFacts DEF Shape, Core, World, Arriving
  <2> QED
    BY <2>1 DEF Arriving, Message, Shape, Core, World
<1>2. n \notin {store[i] : i \in Slot} /\ \A i \in Slot : store[i] # Nothing => store[i] <= n
  <2>1. \A i \in Slot : store[i] # Nothing => store[i] <= arrived /\ store[i] \in Nat
    BY <1>1 DEF Events
  <2>2. \A k \in Nat : k <= arrived => k <= n /\ k # n
    BY <1>1
  <2>3. n # Nothing
    BY <1>1, NothingFacts
  <2> HIDE DEF n
  <2> QED
    BY <2>1, <2>2, <2>3
<1>4. /\ \A m : Of(m) \in SUBSET Event /\ Straight(m) \in SUBSET Event
      /\ \A m, i : Pointing(m, i) \in SUBSET Event
  BY DEF Of, Straight, Pointing
<1>5. store' = store \/ \E i \in Slot : store[i] = Nothing /\ store' = [store EXCEPT ![i] = n]
  BY DEF Arriving, ComesDirectly, ComesTo
<1> HIDE DEF n
<1>6. \A i \in Slot : \/ store'[i] = store[i]
                      \/ store[i] = Nothing /\ store'[i] = n
  BY <1>1, <1>5
<1>7. ASSUME NEW m \in Message PROVE Unique(Of(m))' /\ (Seen(Of(m))' => m <= arrived')
  <2>1. CASE (Seen(Of(m))' <=> Seen(Of(m))) /\ (Unique(Of(m)) => Unique(Of(m))')
    <3>1. m <= arrived => m <= n
      BY <1>1 DEF n
    <3> QED
      BY <1>1, <2>1, <3>1 DEF Events
  <2>2. CASE /\ \E e \in Of(m) : e.msg = n
             /\ Unique(Of(m)) /\ ~Seen(Of(m)) => Unique(Of(m))'
    <3>1. m = n
      BY <2>2 DEF Of
    <3>2. ~Seen(Of(m)) /\ m <= n
      <4>1. ~(n <= arrived) /\ n <= n
        BY <1>1 DEF n
      <4> QED
        BY <3>1, <4>1 DEF Events
    <3> QED
      BY <1>1, <2>2, <3>2 DEF Events
  <2>3. \/ (Seen(Of(m))' <=> Seen(Of(m))) /\ (Unique(Of(m)) => Unique(Of(m))')
        \/ /\ \E e \in Of(m) : e.msg = n
           /\ Unique(Of(m)) /\ ~Seen(Of(m)) => Unique(Of(m))'
    <3>1. Of(m)' = Of(m)
      BY DEF Of
    <3> QED
      BY <1>4, <3>1, SeenArrives DEF n
  <2> QED
    BY <2>1, <2>2, <2>3
<1>8. \A i \in Slot : store'[i] # Nothing => store'[i] <= arrived'
  <2>1. n <= n
    BY <1>1
  <2> QED
    BY <1>1, <1>2, <1>6, <2>1
<1>9. \A i, j \in Slot : store'[i] = store'[j] /\ store'[i] # Nothing => i = j
  <2>1. \A i \in Slot : store[i] # n
    BY <1>2
  <2>2. CASE store' = store
    BY <2>2 DEF Events
  <2>3. ASSUME NEW k \in Slot, store' = [store EXCEPT ![k] = n] 
      PROVE  \A i, j \in Slot : store'[i] = store'[j] /\ store'[i] # Nothing => i = j
    <3>1. \A i \in Slot : IF i = k THEN store'[i] = n ELSE store'[i] = store[i]
      BY <1>1, <2>3
    <3> QED
      BY <2>1, <3>1 DEF Events
  <2> QED
    BY <1>5, <2>2, <2>3
<1>10. ASSUME NEW m \in Message, NEW i \in Slot, Seen(Pointing(m, i))' PROVE store'[i] = m
  <2>1. CASE Seen(Pointing(m, i))
    <3>1. store[i] = m /\ m # Nothing
      BY <2>1, NothingFacts DEF Events
    <3> QED
      BY <1>6, <3>1
  <2>2. CASE ~Seen(Pointing(m, i))
    <3>1. PICK e \in Pointing(m, i) : /\ e.msg = n
                                      /\ \/ e.index = 0
                                         \/ \E j \in Slot : e.index = j + 1 /\ ComesTo(j)
      <4>1. Pointing(m, i)' = Pointing(m, i)
        BY DEF Pointing
      <4> QED
        BY <1>4, <1>10, <2>2, <4>1, SeenArrives DEF n
    <3>2. m = n /\ e.index = i + 1
      BY <3>1 DEF Pointing
    <3>3. i + 1 # 0 /\ \A j \in Slot : i + 1 = j + 1 => i = j
      BY NumberFacts
    <3>4. ComesTo(i)
      BY <3>1, <3>2, <3>3
    <3> QED
      BY <1>1, <3>2, <3>4 DEF ComesTo, n
  <2> QED
    BY <2>1, <2>2
<1>11. ASSUME NEW m \in Message, NEW i \in Slot, Seen(Straight(m))' PROVE store'[i] # m
  <2>1. CASE Seen(Straight(m))
    <3>1. store[i] # m
      BY <2>1 DEF Events
    <3>2. m # n
      <4>1. Seen(Of(m))
        <5>1. Straight(m) \subseteq Of(m)
          BY DEF Straight, Of
        <5> QED
          BY <2>1, <5>1, SeenMore
      <4>2. m <= arrived
        BY <4>1 DEF Events
      <4> QED
        BY <1>1, <4>2 DEF n
    <3> QED
      BY <1>6, <3>1, <3>2
  <2>2. CASE ~Seen(Straight(m))
    <3>1. PICK e \in Straight(m) : /\ e.msg = n
                                   /\ \/ e.index = 0 /\ store' = store
                                      \/ \E j \in Slot : e.index = j + 1 /\ ComesTo(j)
      <4>1. Straight(m)' = Straight(m)
        BY DEF Straight
      <4> QED
        BY <1>4, <1>11, <2>2, <4>1, SeenArrives DEF n
    <3>2. m = n /\ e.index = 0
      BY <3>1 DEF Straight
    <3>3. \A j \in Slot : j + 1 # 0
      BY NumberFacts
    <3>4. store' = store
      BY <3>1, <3>2, <3>3
    <3> QED
      BY <1>2, <3>2, <3>4
  <2> QED
    BY <2>1, <2>2
<1> QED
  BY <1>7, <1>8, <1>9, <1>10, <1>11 DEF Events

-----------------------------------------------------------------------------
(* What a step does to the commands that wait and to the line. *)

\* A line or a time-out leaves the commands, or adds one of a PDU or an
\* acknowledgement.
LEMMA TodoTurns ==
  ASSUME Shape, Reading \/ Expiring
  PROVE  todo' = todo \/ \E c \in PduCommands \cup {Cnma, Pdu} : c \in Sent /\ todo' = Append(todo, c)
<1>1. stack # << >> /\ LineTypes /\ Calls
  BY DEF Shape, Core, Reading, Expiring
<1>2. ~stack[1].prompted => stack[1].cmd \in PduCommands
  <2>1. FrameOK(stack[1], 1)
    BY <1>1, TopFacts
  <2> QED
    BY <2>1 DEF FrameOK
<1>3. PduCommands \subseteq Sent /\ Cnma \in Sent /\ Pdu \in Sent
  BY CommandFacts DEF Sent
<1>4. \A s : Resends(s) => \E c \in PduCommands \cup {Cnma, Pdu} : c \in Sent /\ todo' = Append(todo, c)
  BY <1>2, <1>3 DEF Resends
<1>5. Continues => \E c \in PduCommands \cup {Cnma, Pdu} : c \in Sent /\ todo' = Append(todo, c)
  BY <1>3 DEF Continues
<1>6. \A e : Nests(e) => \E c \in PduCommands \cup {Cnma, Pdu} : c \in Sent /\ todo' = Append(todo, c)
  BY <1>3 DEF Nests
<1>7. \A s : Keeps(s) => todo' = todo
  BY DEF Keeps
<1>8. (\E e : HandsOver(e)) \/ Throws \/ ReturnsLast \/ ReturnsInner => todo' = todo
  BY DEF HandsOver, Throws, ReturnsLast, ReturnsInner
<1> QED
  BY <1>4, <1>5, <1>6, <1>7, <1>8 DEF Reading, Reads, Expiring, Expires

\* The commands of the daemon are not among those.
LEMMA SameTodo ==
  ASSUME Shape, Reading \/ Expiring, NEW K, K \cap (PduCommands \cup {Cnma, Pdu}) = {}
  PROVE  (Some(todo', K) <=> Some(todo, K)) /\ (Single(todo, K) => Single(todo', K))
<1>1. todo \in Seq(Sent)
  BY DEF Shape, Core, LineTypes
<1>2. ASSUME NEW c \in PduCommands \cup {Cnma, Pdu}, c \in Sent, todo' = Append(todo, c)
      PROVE  (Some(todo', K) <=> Some(todo, K)) /\ (Single(todo, K) => Single(todo', K))
  <2>1. c \notin K
    OBVIOUS
  <2> QED
    BY <1>1, <1>2, <2>1, SomeAppend
<1> QED
  BY <1>2, TodoTurns

\* What the other steps of the daemon add to the commands.
LEMMA TodoOthers ==
  ASSUME Shape, OtherSteps
  PROVE  \/ todo' = todo /\ ~Asks /\ ~Flushes1 /\ ~Fetched
         \/ Moves /\ \E c \in Plain : c \in Sent /\ todo' = Append(todo, c)
         \/ Asks /\ slot \in Slot /\ Cmgr(slot) \in Sent /\ todo' = Append(todo, Cmgr(slot))
         \/ (Flushes1 \/ Fetched) /\ slot \in Slot /\ Cmgd(slot) \in Sent /\ todo' = Append(todo, Cmgd(slot))
<1>1. Asks \/ Flushes1 \/ Fetched => slot \in Slot
  <2>1. slot \in 0..Slots /\ Slots \in Nat \ {0}
    BY NothingFacts DEF Shape, Core, Places
  <2>2. slot < Slots => slot \in Slot
    BY <2>1 DEF Slot
  <2>3. pc \in Fetching \cup {"flushRead"} => slot \in Slot
    BY DEF Shape, Core, Places
  <2> QED
    BY <2>2, <2>3 DEF Asks, Flushes1, Fetched, Fetching
<1>2. slot \in Slot => Cmgr(slot) \in Sent /\ Cmgd(slot) \in Sent
  BY CmgrFacts, CommandFacts DEF Sent
<1>3. \A c \in Plain : c \in Sent
  BY DEF Plain, Sent
<1>4. \/ Moves /\ (Rests \/ \E c \in Plain : Chats(c))
      \/ Asks /\ Chats(Cmgr(slot))
      \/ (Flushes1 \/ Fetched) /\ Chats(Cmgd(slot))
      \/ (SkipsEmpty \/ Advances \/ Dispatched1 \/ Listens \/ Pops) /\ todo' = todo
  BY DEF OtherSteps, Moves, Asks, SkipsEmpty, Flushes1, Advances, Fetched, Dispatched1, Listens, Pops, Rests
<1>5. Rests => todo' = todo
  BY DEF Rests
<1>6. /\ Asks => pc \in {"flush", "open store", "store opened"} /\ pc' \in {"flushRead", "read"}
      /\ Flushes1 => pc = "flushRead" /\ pc' = "flushErased"
      /\ Fetched => pc = "read" /\ pc' = "erased"
      /\ Moves => pc' \notin {"flushRead", "read"} /\ (pc \in {"flushRead", "read"} => pc' \in Broken)
      /\ SkipsEmpty => pc = "flushRead" /\ pc' = "flush"
      /\ Advances => pc = "flushErased"
      /\ Dispatched1 => pc = "act"
      /\ Listens => pc = "route"
      /\ Pops => pc = "drain"
  BY DEF Moves, Onward, Asking, Asks, SkipsEmpty, Flushes1, Advances, Fetched, Dispatched1, Listens, Pops
<1>7. Moves \/ SkipsEmpty \/ Advances \/ Dispatched1 \/ Listens \/ Pops => ~Asks /\ ~Flushes1 /\ ~Fetched
  BY DEF Moves, Onward, Asking, Broken, Asks, SkipsEmpty, Flushes1, Advances, Fetched, Dispatched1, Listens, Pops
<1> QED
  BY <1>1, <1>2, <1>3, <1>4, <1>5, <1>7 DEF Chats

\* A line that only grew.
Added(X) == \/ Stream' = Stream
            \/ \E x \in X : Stream' = Append(Stream, x)
            \/ \E x, y \in X : Stream' = Append(Append(Stream, x), y)

\* What is in a line that only grew.
LEMMA AddedFacts ==
  ASSUME Stream \in Seq(LineType), NEW X \in SUBSET LineType, Added(X), NEW K, NEW A,
         X \cap K = {}, X \cap A = {}
  PROVE  /\ Some(Stream', K) <=> Some(Stream, K)
         /\ Single(Stream, K) => Single(Stream', K)
         /\ Before(Stream, A, K) => Before(Stream', A, K)
<1>1. ASSUME NEW s \in Seq(LineType), NEW x \in X
      PROVE  /\ Some(Append(s, x), K) <=> Some(s, K)
             /\ Single(s, K) => Single(Append(s, x), K)
             /\ Before(s, A, K) => Before(Append(s, x), A, K)
             /\ Append(s, x) \in Seq(LineType)
  <2>1. x \in LineType /\ x \notin K /\ x \notin A
    OBVIOUS
  <2> QED
    BY <2>1, SomeAppend, OrderAppend, AppendProperties
<1>2. ASSUME NEW x \in X, NEW y \in X, Stream' = Append(Append(Stream, x), y)
      PROVE  /\ Some(Stream', K) <=> Some(Stream, K)
             /\ Single(Stream, K) => Single(Stream', K)
             /\ Before(Stream, A, K) => Before(Stream', A, K)
  <2>1. /\ Some(Append(Stream, x), K) <=> Some(Stream, K)
        /\ Single(Stream, K) => Single(Append(Stream, x), K)
        /\ Before(Stream, A, K) => Before(Append(Stream, x), A, K)
        /\ Append(Stream, x) \in Seq(LineType)
    BY <1>1
  <2>2. /\ Some(Stream', K) <=> Some(Append(Stream, x), K)
        /\ Single(Append(Stream, x), K) => Single(Stream', K)
        /\ Before(Append(Stream, x), A, K) => Before(Stream', A, K)
    BY <1>1, <1>2, <2>1
  <2> QED
    BY <2>1, <2>2
<1>3. ASSUME NEW x \in X, Stream' = Append(Stream, x)
      PROVE  /\ Some(Stream', K) <=> Some(Stream, K)
             /\ Single(Stream, K) => Single(Stream', K)
             /\ Before(Stream, A, K) => Before(Stream', A, K)
  BY <1>1, <1>3
<1> QED
  BY <1>2, <1>3 DEF Added

\* The TA adds to the line what it answers, and no event.
Answering(c) == {x \in LineType : x.kind # "event" /\ x.of = c}

\* What the TA adds to the line.
LEMMA ExecutesAdds ==
  ASSUME Shape, Executing
  PROVE  \/ Obeys(Head(todo)) /\ Added(Answering(Head(todo)))
         \/ (Prompts(Head(todo)) \/ Rejects1(Head(todo))) /\ Added(Answering(Head(todo)) \ {x \in LineType : x.kind \in {"info", "OK"}})
         \/ (Drops(Head(todo)) \/ Garbles(Head(todo))) /\ Stream' = Stream
         \/ Finishes(Head(todo)) /\ entering.cmd \in PduCommands /\ Added(Answering(entering.cmd))
<1>1. ASSUME NEW c, Answers(c) PROVE Added(Answering(c))
  BY <1>1 DEF Answers, Answering, Added
<1>2. ASSUME NEW c, Refuses(c) PROVE Added(Answering(c) \ {x \in LineType : x.kind \in {"info", "OK"}})
  BY <1>2 DEF Refuses, Answering, Added
<1>3. ASSUME NEW c, Refuses(c) PROVE Added(Answering(c))
  BY <1>3 DEF Refuses, Answering, Added
<1>4. ASSUME NEW c, Prompts(c) PROVE Added(Answering(c) \ {x \in LineType : x.kind \in {"info", "OK"}})
  BY <1>4 DEF Prompts, Answering, Added
<1>5. entering.cmd \in PduCommands \cup {Nothing}
  BY DEF Shape, Core, LineTypes, EnteringType
<1> DEFINE c == Head(todo)
<1>6. Obeys(c) => Answers(c)
  BY DEF Obeys
<1>7. Rejects1(c) => Refuses(c)
  BY DEF Rejects1
<1>8. Finishes(c) => (Refuses(entering.cmd) \/ Answers(entering.cmd)) /\ entering.cmd # Nothing
  BY DEF Finishes
<1>9. Drops(c) \/ Garbles(c) => Stream' = Stream
  BY DEF Drops, Garbles
<1>10. Drops(c) \/ Prompts(c) \/ Obeys(c) \/ Rejects1(c) \/ Garbles(c) \/ Finishes(c)
  BY DEF Executing
<1> HIDE DEF c
<1>11. Obeys(c) => Added(Answering(c))
  BY <1>1, <1>6
<1>12. Prompts(c) \/ Rejects1(c) => Added(Answering(c) \ {x \in LineType : x.kind \in {"info", "OK"}})
  BY <1>2, <1>4, <1>7
<1>13. Finishes(c) => entering.cmd \in PduCommands /\ Added(Answering(entering.cmd))
  BY <1>1, <1>3, <1>5, <1>8
<1> QED
  BY <1>9, <1>10, <1>11, <1>12, <1>13 DEF c

-----------------------------------------------------------------------------
(* A message of which nothing is reported any more stays so. *)

\* No event of an old message appears.
LEMMA OldUnseen ==
  ASSUME Shape, Steps, NEW m \in Message, m <= arrived, ~Seen(Of(m))
  PROVE  ~Seen(Of(m))'
<1>1. Of(m) \in SUBSET Event /\ Of(m)' = Of(m)
  BY DEF Of
<1>2. CASE ~Arriving
  <2>1. Shrinks(Of(m))
    BY <1>1, <1>2, SeenShrinks
  <2> QED
    BY <1>1, <2>1 DEF Shrinks
<1>3. CASE Arriving
  <2>1. arrived \in Nat
    BY NothingFacts DEF Shape, Core, World
  <2>2. \A e \in Of(m) : e.msg # arrived + 1
    BY <2>1 DEF Of, Message
  <2>3. Seen(Of(m))' <=> Seen(Of(m))
    BY <1>1, <1>3, <2>2, SeenArrives
  <2> QED
    BY <2>3
<1> QED
  BY <1>2, <1>3

Silent(i) == store[i] # Nothing /\ ~Seen(Of(store[i]))

\* A slot keeps its message while nothing erases it.
LEMMA StoreKept ==
  ASSUME Shape, Steps, NEW i \in Slot, store[i] # Nothing, Executing => Head(todo) # Cmgd(i)
  PROVE  store'[i] = store[i]
<1>1. store \in [Slot -> Message \cup {Nothing}]
  BY DEF Shape, Core, World
<1>2. ASSUME NEW j \in Slot, ComesTo(j) PROVE store'[i] = store[i]
  <2>1. j # i /\ store' = [store EXCEPT ![j] = arrived + 1]
    BY <1>2 DEF ComesTo
  <2> QED
    BY <1>1, <2>1
<1>3. ASSUME Executing, NEW j \in Slot, Head(todo) = Cmgd(j), store' = [store EXCEPT ![j] = Nothing]
      PROVE  store'[i] = store[i]
  <2>1. j # i
    BY <1>3
  <2> QED
    BY <1>1, <1>3, <2>1
<1> QED
  BY <1>2, <1>3, StoreSteps

\* A slot whose message is reported no more.
LEMMA SilentStays ==
  ASSUME Shape, Events, Steps, NEW i \in Slot, Silent(i), Executing => Head(todo) # Cmgd(i)
  PROVE  Silent(i)' /\ store'[i] = store[i]
<1> DEFINE m == store[i]
<1>1. store'[i] = m /\ m \in Message /\ m <= arrived /\ ~Seen(Of(m)) /\ m # Nothing
  <2>1. store \in [Slot -> Message \cup {Nothing}]
    BY DEF Shape, Core, World
  <2> QED
    BY <2>1, StoreKept DEF Silent, Events
<1> QED
  <2> SUFFICES ASSUME NEW n \in Message, n = store[i], store'[i] = n, n <= arrived, ~Seen(Of(n))
               PROVE  Silent(i)' /\ store'[i] = store[i]
    BY <1>1
  <2>1. ~Seen(Of(n))'
    BY OldUnseen
  <2>2. n # Nothing
    BY NothingFacts
  <2> QED
    BY <2>1, <2>2 DEF Silent

-----------------------------------------------------------------------------
(* The messages that are being erased, fetched and flushed. *)

From    == IF pc = "flushErased" THEN slot + 1 ELSE slot
Fetches == pc \in Fetching => Silent(slot) /\ ~Erases(slot)
Ahead   == pc \in Flushing => \A i \in Slot : Erases(i) => i < From
ToErase == Flushes1 => Silent(slot)

\* The commands that erase do not become more, but for the slot that was read.
LEMMA ErasesSteps ==
  ASSUME Shape, Erasing, Steps, NEW i \in Slot
  PROVE  /\ Erases(i)' => Erases(i) \/ ((Flushes1 \/ Fetched) /\ i = slot)
         /\ Executing /\ Head(todo) = Cmgd(i) => ~Erases(i)' /\ Erases(i)
         /\ ((Flushes1 \/ Fetched) /\ i = slot => ~Erases(i)) => Single(todo', {Cmgd(i)})
<1> DEFINE K == {Cmgd(i)}
<1>1. todo \in Seq(Sent) /\ Single(todo, K)
  BY DEF Shape, Core, LineTypes, Erasing
<1>2. Cmgd(i) \in Cmgds /\ Cmgd(i)' = Cmgd(i)
  BY CmgrFacts DEF Cmgd
<1>3. K \cap (PduCommands \cup {Cnma, Pdu} \cup Plain \cup Cmgrs) = {}
  BY <1>2, CommandFacts DEF Plain
<1>4. Executing /\ Head(todo) = Cmgd(i) => ~Some(todo', K) /\ Some(todo, K)
  BY <1>1, SomeTail DEF Executing
<1> DEFINE B == (Flushes1 \/ Fetched) /\ i = slot
           G == /\ Some(todo', K) => Some(todo, K) \/ B
                /\ (B => ~Some(todo, K)) => Single(todo', K)
<1> HIDE DEF K
<1>5. ASSUME Reading \/ Expiring PROVE G
  BY <1>1, <1>3, <1>5, SameTodo
<1>6. ASSUME Executing PROVE G
  BY <1>1, <1>6, SomeTail DEF Executing
<1>7. ASSUME Arriving \/ Idles PROVE G
  BY <1>1, <1>7 DEF Arriving, Idles
<1>8. ASSUME OtherSteps PROVE G
  <2>1. CASE todo' = todo
    BY <1>1, <2>1
  <2>2. ASSUME NEW c \in Plain \cup Cmgrs, c \in Sent, todo' = Append(todo, c) PROVE G
    <3>1. c \notin K
      BY <1>3
    <3> QED
      BY <1>1, <2>2, <3>1, SomeAppend
  <2>3. CASE (Flushes1 \/ Fetched) /\ slot \in Slot /\ Cmgd(slot) \in Sent /\ todo' = Append(todo, Cmgd(slot))
    <3>1. Cmgd(slot) \in K => i = slot
      BY <2>3, CmgrFacts DEF K
    <3> QED
      BY <1>1, <2>3, <3>1, SomeAppend
  <2> QED
    BY <1>8, <2>1, <2>2, <2>3, TodoOthers, CmgrFacts
<1>9. G
  BY <1>5, <1>6, <1>7, <1>8 DEF Steps
<1> QED
  BY <1>2, <1>4, <1>9 DEF Erases, K

\* A slot is only erased once nothing is reported of its message.
LEMMA ErasingNext ==
  ASSUME Shape, Events, Erasing, Fetches, Ahead, ToErase, Steps
  PROVE  Erasing'
<1> SUFFICES ASSUME NEW i \in Slot
             PROVE  Single(todo', {Cmgd(i)}) /\ (Erases(i)' => Silent(i)')
  BY DEF Erasing, Silent, Cmgd
<1>1. Flushes1 \/ Fetched => Silent(slot) /\ ~Erases(slot)
  <2>1. CASE Flushes1
    <3>1. pc = "flushRead" /\ slot \in Slot
      BY <2>1 DEF Flushes1, Shape, Core, Places
    <3>2. ~(slot < slot)
      BY <3>1, NumberFacts
    <3> QED
      BY <2>1, <3>1, <3>2 DEF ToErase, Ahead, Flushing, From
  <2>2. CASE Fetched
    BY <2>2 DEF Fetched, Fetches, Fetching
  <2> QED
    BY <2>1, <2>2
<1>2. /\ Erases(i)' => Erases(i) \/ ((Flushes1 \/ Fetched) /\ i = slot)
      /\ Executing /\ Head(todo) = Cmgd(i) => ~Erases(i)' /\ Erases(i)
      /\ ((Flushes1 \/ Fetched) /\ i = slot => ~Erases(i)) => Single(todo', {Cmgd(i)})
  BY ErasesSteps
<1>3. Erases(i) => Silent(i)
  BY DEF Erasing, Silent
<1>4. ASSUME Erases(i)' PROVE Silent(i)'
  <2>1. Silent(i) /\ (Executing => Head(todo) # Cmgd(i))
    BY <1>1, <1>2, <1>3, <1>4
  <2> QED
    BY <2>1, SilentStays
<1> QED
  BY <1>1, <1>2, <1>4

\* Which slots are fetched, and when.
LEMMA FetchesSteps ==
  ASSUME Shape, Steps, pc' \in Fetching
  PROVE  \/ pc \in Fetching /\ slot' = slot /\ slot \in Slot
         \/ Pops /\ Head(received) \notin Direct /\ slot' = Head(received).index - 1
<1>1. pc \in Fetching => slot \in Slot
  BY DEF Shape, Core, Places
<1>2. CASE Reading \/ Expiring \/ Executing \/ Arriving \/ Idles
  BY <1>1, <1>2 DEF Reading, Expiring, Executing, Arriving, Idles, Stays
<1>3. CASE OtherSteps
  <2>1. CASE Moves
    BY <1>1, <2>1 DEF Moves, Onward
  <2>2. CASE Asks
    BY <1>1, <2>2 DEF Asks, Fetching
  <2>3. CASE Pops
    BY <2>3 DEF Pops, Fetching
  <2>4. CASE SkipsEmpty \/ Flushes1 \/ Advances \/ Fetched \/ Dispatched1 \/ Listens
    BY <2>4 DEF SkipsEmpty, Flushes1, Advances, Fetched, Dispatched1, Listens, Fetching
  <2> QED
    BY <1>3, <2>1, <2>2, <2>3, <2>4 DEF OtherSteps
<1> QED
  BY <1>2, <1>3 DEF Steps

\* The slot that is fetched is not reported and not erased.
LEMMA FetchesNext ==
  ASSUME Shape, Events, Erasing, Fetches, Steps
  PROVE  Fetches'
<1> SUFFICES ASSUME pc' \in Fetching PROVE Silent(slot)' /\ ~Erases(slot)'
  BY DEF Fetches
<1>1. CASE pc \in Fetching /\ slot' = slot /\ slot \in Slot
  <2>1. Silent(slot) /\ ~Erases(slot)
    BY <1>1 DEF Fetches
  <2>2. ~Flushes1 /\ ~Fetched
    BY <1>1 DEF Flushes1, Fetched, Fetching
  <2> SUFFICES ASSUME NEW i \in Slot, i = slot, slot' = i PROVE Silent(slot)' /\ ~Erases(slot)'
    BY <1>1
  <2>3. Silent(i) /\ ~Erases(i)
    BY <2>1
  <2>4. ~Erases(i)' /\ (Executing => Head(todo) # Cmgd(i))
    BY <2>2, <2>3, ErasesSteps
  <2>5. Silent(i)'
    BY <2>3, <2>4, SilentStays
  <2>6. (Silent(slot)' <=> Silent(i)') /\ (Erases(slot)' <=> Erases(i)')
    BY DEF Silent, Erases, Cmgd
  <2> QED
    BY <2>4, <2>5, <2>6
<1>2. CASE Pops /\ Head(received) \notin Direct /\ slot' = Head(received).index - 1
  <2> DEFINE e == Head(received)
  <2>1. received # << >> /\ received \in Seq(Event)
    BY <1>2 DEF Pops, Shape, Core, LineTypes
  <2>2. e \in Event /\ (e \in Direct <=> e.index = 0)
    BY <2>1, Shrunk, EventFacts
  <2>3. e.msg \in Message /\ e.index \in 0..Slots
    BY <2>2 DEF Event
  <2>4. e.index - 1 \in Slot /\ e.index - 1 + 1 = e.index
    BY <1>2, <2>2, <2>3, EventFacts
  <2> SUFFICES ASSUME NEW i \in Slot, i = e.index - 1, NEW m \in Message, m = e.msg, slot' = i
               PROVE  Silent(slot)' /\ ~Erases(slot)'
    BY <1>2, <2>3, <2>4
  <2>5. e \in Pointing(m, i) /\ e \in Of(m)
    BY <2>2, <2>4 DEF Pointing, Of
  <2>6. Seen(Pointing(m, i)) /\ Seen(Of(m))
    BY <2>1, <2>5, SomeTail DEF Seen
  <2>7. store[i] = m /\ Unique(Of(m)) /\ m # Nothing
    BY <2>6, NothingFacts DEF Events
  <2>8. ~Erases(i)
    BY <2>6, <2>7 DEF Erasing
  <2>9. Of(m) \in SUBSET Event /\ Of(m)' = Of(m)
    BY DEF Of
  <2>10. OtherSteps
    BY <1>2 DEF OtherSteps
  <2>11. ~Seen(Of(m))'
    BY <1>2, <2>5, <2>7, <2>9, <2>10, OthersSeen
  <2>12. store' = store /\ todo' = todo
    BY <1>2 DEF Pops, Around0
  <2>13. ~Erases(i)'
    BY <2>8, <2>12 DEF Erases, Cmgd
  <2>14. Silent(i)'
    BY <2>7, <2>11, <2>12 DEF Silent
  <2>15. (Silent(slot)' <=> Silent(i)') /\ (Erases(slot)' <=> Erases(i)')
    BY DEF Silent, Erases, Cmgd
  <2> QED
    BY <2>13, <2>14, <2>15
<1> QED
  BY <1>1, <1>2, FetchesSteps

\* How the flush goes on.
LEMMA FlushSteps ==
  ASSUME Shape, Steps, pc' \in Flushing
  PROVE  /\ pc \in Flushing
         /\ \/ slot' = slot /\ ~Flushes1 /\ (pc' = "flushErased" <=> pc = "flushErased")
            \/ SkipsEmpty /\ slot' = slot + 1 /\ pc' = "flush" /\ pc = "flushRead" /\ ~Flushes1
            \/ Flushes1 /\ slot' = slot /\ pc' = "flushErased" /\ pc = "flushRead"
            \/ Advances /\ slot' = slot + 1 /\ pc' = "flush" /\ pc = "flushErased" /\ ~Flushes1
         /\ ~Fetched
<1>1. CASE Reading \/ Expiring \/ Executing \/ Arriving \/ Idles
  <2>1. pc' = pc /\ slot' = slot
    BY <1>1 DEF Reading, Expiring, Executing, Arriving, Idles, Stays
  <2> QED
    BY <2>1 DEF Flushes1, Fetched, Flushing
<1>2. CASE OtherSteps
  <2>1. CASE Moves
    BY <2>1 DEF Moves, Onward, Flushing, Flushes1, Fetched
  <2>2. CASE Asks
    BY <2>2 DEF Asks, Flushing, Flushes1, Fetched
  <2>3. CASE SkipsEmpty \/ Flushes1 \/ Advances
    BY <2>3 DEF SkipsEmpty, Flushes1, Advances, Flushing, Fetched
  <2>4. CASE Fetched \/ Dispatched1 \/ Listens \/ Pops
    BY <2>4 DEF Fetched, Dispatched1, Listens, Pops, Flushing
  <2> QED
    BY <1>2, <2>1, <2>2, <2>3, <2>4 DEF OtherSteps
<1> QED
  BY <1>1, <1>2 DEF Steps

\* The flush erases only what it has passed.
LEMMA AheadNext ==
  ASSUME Shape, Erasing, Ahead, Steps
  PROVE  Ahead'
<1> SUFFICES ASSUME pc' \in Flushing, NEW i \in Slot, Erases(i)' PROVE i < From'
  BY DEF Ahead, Erases, Cmgd
<1>1. /\ pc \in Flushing /\ ~Fetched
      /\ \/ slot' = slot /\ ~Flushes1 /\ (pc' = "flushErased" <=> pc = "flushErased")
         \/ slot' = slot + 1 /\ pc' = "flush" /\ pc = "flushRead" /\ ~Flushes1
         \/ Flushes1 /\ slot' = slot /\ pc' = "flushErased" /\ pc = "flushRead"
         \/ slot' = slot + 1 /\ pc' = "flush" /\ pc = "flushErased" /\ ~Flushes1
  BY FlushSteps
<1>2. slot \in Nat /\ i \in Nat
  BY NothingFacts DEF Shape, Core, Places, Slot
<1>3. Erases(i) \/ (Flushes1 /\ i = slot)
  BY <1>1, ErasesSteps
<1>4. Erases(i) => i < From
  BY <1>1 DEF Ahead
<1>5. From' = From \/ From' = From + 1
  BY <1>1, <1>2 DEF From
<1>6. Flushes1 => From' = slot + 1
  BY <1>1 DEF From
<1>7. From \in Nat
  BY <1>2 DEF From
<1> QED
  BY <1>2, <1>3, <1>4, <1>5, <1>6, <1>7

-----------------------------------------------------------------------------
(* What a slot was asked for is told in front of a final result code, and  *)
(* during the start no more answers are to come than calls wait for.       *)

Tok    == {x \in LineType : x.kind \in {"info", "prompt"} /\ x.of \in Cmgrs}
Finals == {x \in LineType : x.kind \in {"OK", "ERROR"}}
Paired == Closed(Stream, Tok, Finals)
Entering == IF entering.cmd = Nothing THEN 0 ELSE 1
Balanced ==
  pc \in Starting /\ (stack # << >> \/ result.how # "failed")
    => Len(todo) + Count(Stream, Finals) + Entering <= Len(stack)

\* What a step makes of the line.
Prompted(c) == \E x \in LineType : x.kind = "prompt" /\ x.of = c /\ c \in PduCommands /\ Stream' = Append(Stream, x)

\* What a step does to the line.
LEMMA LineSteps ==
  ASSUME Shape, Steps
  PROVE  \/ Stream' = Stream /\ ~Reading /\ ~Expiring
         \/ Reading /\ Stream # << >> /\ Stream' = Tail(Stream)
         \/ Expiring /\ Stream' = << >>
         \/ Arriving /\ \E x \in LineType : x.kind = "event" /\ x.of.msg = arrived + 1 /\ Inserts(x)
         \/ Executing /\ \E c \in Command \cup {Cnma} :
              /\ Refuses(c) \/ Answers(c) \/ Prompted(c)
              /\ c = Head(todo) \/ c \in PduCommands
         \/ Executing /\ Stream' = Stream
<1>1. CASE Reading
  BY <1>1 DEF Reading
<1>2. CASE Expiring
  BY <1>2 DEF Expiring
<1>3. CASE Arriving
  BY <1>1, <1>2, <1>3 DEF Arriving, ComesDirectly, ComesTo, Reports
<1>4. CASE Executing
  <2> DEFINE c == Head(todo)
  <2>1. entering.cmd \in PduCommands \cup {Nothing}
    BY DEF Shape, Core, LineTypes, EnteringType
  <2>2. Drops(c) \/ Prompts(c) \/ Obeys(c) \/ Rejects1(c) \/ Garbles(c) \/ Finishes(c)
    BY <1>4 DEF Executing
  <2> HIDE DEF c
  <2>3. Drops(c) \/ Garbles(c) => Stream' = Stream
    BY DEF Drops, Garbles
  <2>4. Prompts(c) => c \in Command /\ Prompted(c)
    BY CommandFacts DEF Prompts, Prompted
  <2>5. Obeys(c) => c \in Command \cup {Cnma} /\ Answers(c)
    BY DEF Obeys
  <2>6. Rejects1(c) => c \in Command \cup {Cnma} /\ Refuses(c)
    BY DEF Rejects1
  <2>7. Finishes(c) => entering.cmd \in PduCommands /\ entering.cmd \in Command /\ (Refuses(entering.cmd) \/ Answers(entering.cmd))
    BY <2>1, CommandFacts DEF Finishes
  <2> QED
    BY <1>4, <2>2, <2>3, <2>4, <2>5, <2>6, <2>7 DEF c
<1>5. CASE OtherSteps /\ ~Reading /\ ~Expiring
  BY <1>5 DEF OtherSteps, Moves, Asks, SkipsEmpty, Flushes1, Advances, Fetched, Dispatched1, Listens, Pops,
                  Rests, Chats
<1>6. CASE Idles /\ ~Reading /\ ~Expiring
  BY <1>6 DEF Idles
<1> QED
  BY <1>1, <1>2, <1>3, <1>4, <1>5, <1>6 DEF Steps

\* Every step keeps an answer's parts before its end.
LEMMA PairedNext ==
  ASSUME Shape, Paired, Steps
  PROVE  Paired'
<1>1. Stream \in Seq(LineType)
  BY DEF Shape, Core, LineTypes
<1> DEFINE T == Tok
           F == Finals
<1>2. Closed(Stream, T, F)
  BY DEF Paired
<1>3. \A x \in LineType : /\ x.kind = "event" \/ x.of \in PduCommands => x \notin T
                          /\ x.kind \in {"OK", "ERROR"} => x \in F /\ x \notin T
  BY CommandFacts DEF Tok, Finals
<1>4. T' = T /\ F' = F
  BY DEF Tok, Finals
<1> HIDE DEF T, F
<1>5. ASSUME Stream # << >>, Stream' = Tail(Stream) PROVE Closed(Stream', T, F)
  BY <1>1, <1>2, <1>5, OrderTail
<1>6. ASSUME NEW x \in LineType, x.kind = "event" \/ x.of \in PduCommands \/ x.kind \in {"OK", "ERROR"},
             Stream' = Append(Stream, x) \/ Inserts(x)
      PROVE  Closed(Stream', T, F)
  <2>1. x \notin T
    BY <1>3, <1>6
  <2>2. CASE Stream' = Append(Stream, x)
    BY <1>1, <1>2, <2>1, <2>2, OrderAppend
  <2>3. CASE Inserts(x)
    BY <1>2, <2>1, <2>3, InsertedBehind
  <2> QED
    BY <1>6, <2>2, <2>3
<1>7. ASSUME NEW y \in LineType, NEW z \in LineType, z.kind = "OK", Stream' = Append(Append(Stream, y), z)
      PROVE  Closed(Stream', T, F)
  <2>1. Append(Stream, y) \in Seq(LineType)
    BY <1>1, AppendProperties
  <2>2. z \in F /\ z \notin T
    BY <1>3, <1>7
  <2> QED
    BY <1>7, <2>1, <2>2, OrderAppend
<1>8. ASSUME NEW c, Refuses(c) \/ Answers(c) \/ Prompted(c) PROVE Closed(Stream', T, F)
  BY <1>6, <1>7, <1>8 DEF Refuses, Answers, Prompted
<1>9. Closed(Stream', T, F)
  BY <1>2, <1>5, <1>6, <1>8, LineSteps, OrderEmpty
<1> QED
  BY <1>4, <1>9 DEF Paired, T, F

-----------------------------------------------------------------------------
(* Counting the final result codes of the line. *)

\* The TA adds one final result code for a command, if any.
LEMMA CountAdds ==
  ASSUME Stream \in Seq(LineType), NEW c
  PROVE  /\ Refuses(c) \/ Answers(c) => Count(Stream', Finals) = Count(Stream, Finals) + 1
         /\ Prompted(c) => Count(Stream', Finals) = Count(Stream, Finals)
<1> DEFINE F == Finals
<1>1. \A x \in LineType : x \in F <=> x.kind \in {"OK", "ERROR"}
  BY DEF Finals
<1> HIDE DEF F
<1>2. ASSUME NEW x \in LineType, x.kind \in {"OK", "ERROR"}, Stream' = Append(Stream, x)
      PROVE  Count(Stream', F) = Count(Stream, F) + 1
  BY <1>1, <1>2, CountAppend
<1>3. ASSUME NEW x \in LineType, x.kind = "prompt", Stream' = Append(Stream, x)
      PROVE  Count(Stream', F) = Count(Stream, F)
  <2>1. x \notin F
    BY <1>1, <1>3
  <2> QED
    BY <1>3, <2>1, CountAppend
<1>4. ASSUME NEW y \in LineType, NEW z \in LineType, y.kind = "info", z.kind = "OK",
             Stream' = Append(Append(Stream, y), z)
      PROVE  Count(Stream', F) = Count(Stream, F) + 1
  <2>1. y \notin F /\ z \in F
    BY <1>1, <1>4
  <2>2. Append(Stream, y) \in Seq(LineType)
    BY AppendProperties
  <2>3. Count(Append(Stream, y), F) = Count(Stream, F)
    BY <2>1, CountAppend
  <2>4. Count(Stream', F) = Count(Append(Stream, y), F) + 1
    BY <1>4, <2>1, <2>2, CountAppend
  <2> QED
    BY <2>3, <2>4
<1>5. Refuses(c) \/ Answers(c) => Count(Stream', F) = Count(Stream, F) + 1
  BY <1>2, <1>4 DEF Refuses, Answers
<1>6. Prompted(c) => Count(Stream', F) = Count(Stream, F)
  BY <1>3 DEF Prompted
<1> QED
  BY <1>5, <1>6 DEF F

\* What the TA executes moves one answer from the commands to the line.
LEMMA BalancedExecutes ==
  ASSUME Shape, Executing
  PROVE  Len(todo') + Count(Stream', Finals) + Entering' <= Len(todo) + Count(Stream, Finals) + Entering
<1> DEFINE c == Head(todo)
           t == Len(todo)
           n == Count(Stream, Finals)
<1>1. Stream \in Seq(LineType) /\ todo \in Seq(Sent) /\ entering \in EnteringType /\ entering' \in EnteringType
  <2>1. Core'
    BY ShapeExecutes
  <2> QED
    BY <2>1 DEF Shape, Core, LineTypes
<1>2. Len(todo') = t - 1 /\ t \in Nat /\ n \in Nat
  <2>1. todo # << >> /\ todo' = Tail(todo)
    BY DEF Executing
  <2> QED
    BY <1>1, <2>1, Shrunk, CountFew
<1>3. Drops(c) \/ Prompts(c) \/ Obeys(c) \/ Rejects1(c) \/ Garbles(c) \/ Finishes(c)
  BY DEF Executing
<1>4. entering.cmd = Nothing => Entering = 0
  BY DEF Entering
<1>5. entering.cmd # Nothing => Entering = 1
  BY DEF Entering
<1>6. Entering' \in {0, 1} /\ (entering'.cmd = entering.cmd => Entering' = Entering)
  BY DEF Entering
<1>7. At!NotEntering.cmd = Nothing
  BY DEF At!NotEntering
<1>8. entering' = At!NotEntering => Entering' = 0
  BY <1>7 DEF Entering
<1>9. Finals' = Finals
  BY DEF Finals
<1> HIDE DEF c, t, n
<1>10. CASE Drops(c)
  <2>1. Count(Stream', Finals) = n /\ Entering' = Entering
    BY <1>10, <1>6 DEF Drops, n
  <2> QED
    BY <1>2, <1>4, <1>5, <2>1 DEF t, n
<1>11. CASE Prompts(c)
  <2>1. Prompted(c) /\ entering.cmd = Nothing
    BY <1>11 DEF Prompts, Prompted
  <2>2. Count(Stream', Finals) = n
    BY <1>1, <2>1, CountAdds DEF n
  <2> QED
    BY <1>2, <1>4, <1>6, <2>1, <2>2 DEF t, n
<1>12. CASE Obeys(c) \/ Rejects1(c)
  <2>1. (Refuses(c) \/ Answers(c)) /\ entering' = entering
    BY <1>12 DEF Obeys, Rejects1
  <2>2. Count(Stream', Finals) = n + 1 /\ Entering' = Entering
    BY <1>1, <1>6, <2>1, CountAdds DEF n
  <2> QED
    BY <1>2, <1>4, <1>5, <2>2 DEF t, n
<1>13. CASE Garbles(c)
  <2>1. Count(Stream', Finals) = n /\ Entering' = Entering
    BY <1>13, <1>6 DEF Garbles, n
  <2> QED
    BY <1>2, <1>4, <1>5, <2>1 DEF t, n
<1>14. CASE Finishes(c)
  <2>1. (Refuses(entering.cmd) \/ Answers(entering.cmd)) /\ Entering' = 0 /\ Entering = 1
    BY <1>5, <1>8, <1>14 DEF Finishes
  <2>2. Count(Stream', Finals) = n + 1
    BY <1>1, <2>1, CountAdds DEF n
  <2> QED
    BY <1>2, <2>1, <2>2 DEF t, n
<1> QED
  BY <1>3, <1>10, <1>11, <1>12, <1>13, <1>14

\* A line or a time-out during the start.
LEMMA BalancedReads ==
  ASSUME Shape, Balanced, Reading \/ Expiring
  PROVE  Balanced'
<1> SUFFICES ASSUME pc \in Starting, stack' # << >> \/ result'.how # "failed"
             PROVE  Len(todo') + Count(Stream', Finals) + Entering' <= Len(stack')
  <2>1. pc' = pc /\ Finals' = Finals
    BY DEF Reading, Expiring, Stays, Finals
  <2> QED
    BY <2>1 DEF Balanced
<1> DEFINE t == Len(todo)
           n == Count(Stream, Finals)
           k == Len(stack)
           N == Count(Stream', Finals)
<1>1. Stream \in Seq(LineType) /\ todo \in Seq(Sent) /\ stack \in Seq(FrameType) /\ Calls
  BY DEF Shape, Core, LineTypes
<1>2. Stream' \in Seq(LineType) /\ stack' \in Seq(FrameType) /\ todo' \in Seq(Sent)
  BY ShapeReads DEF Shape, Core, LineTypes
<1>3. stack # << >> /\ Entering' = Entering /\ Entering \in {0, 1}
  BY DEF Reading, Expiring, Same, Entering
<1>4. stack[1].prompted /\ Len(<< >>) = 0 /\ FrameOK(stack[1], 1)
  <2>1. stack[1].cmd \notin PduCommands
    BY <1>3, LabelFacts DEF Shape, Core, Places, Main, Starting
  <2>2. 1 \in 1..Len(stack)
    BY <1>1, <1>3, Shrunk
  <2>3. FrameOK(stack[1], 1)
    BY <1>1, <2>2 DEF Calls
  <2> QED
    BY <2>1, <2>3 DEF FrameOK
<1>5. t \in Nat /\ n \in Nat /\ N \in Nat /\ k \in Nat \ {0} /\ t + n + Entering <= k
  <2>1. t + n + Entering <= k
    BY <1>3 DEF Balanced
  <2> QED
    BY <1>1, <1>2, <1>3, <2>1, LenProperties, CountFew, EmptySeq
<1>6. /\ Throws => stack' = << >> /\ todo' = todo /\ (k > 1 => result'.how = "failed")
      /\ ReturnsLast => k = 1 /\ stack' = << >> /\ todo' = todo
      /\ ReturnsInner => k > 1 /\ stack' = Front(stack) /\ todo' = todo
      /\ \A s : Keeps(s) => k = 1 /\ todo' = todo /\ Len(stack') = 1
      /\ ~Continues /\ \A s : ~Resends(s)
  BY <1>4 DEF Throws, ReturnsLast, ReturnsInner, Keeps, Goeson, Continues, Resends
<1>7. Len(Front(stack)) = k - 1
  BY <1>1, <1>3, Shortened
<1>8. CASE Expiring
  <2>1. Stream' = << >> /\ Throws /\ result'.how # "error"
    BY <1>4, <1>6, <1>8 DEF Expiring, Expires
  <2>2. result'.how = "failed"
    BY <2>1 DEF Throws
  <2>3. stack' = << >>
    BY <2>1 DEF Throws
  <2> QED
    BY <2>2, <2>3
<1>9. CASE Reading
  <2> DEFINE x == Head(Stream)
  <2>1. Stream # << >> /\ Stream' = Tail(Stream) /\ x \in LineType /\ Reads(x)
    BY <1>9 DEF Reading
  <2>2. /\ x \in Finals => n = N + 1
        /\ x \notin Finals => n = N
    BY <1>1, <2>1, CountTail
  <2>3. x \in Finals <=> x.kind \in {"OK", "ERROR"}
    BY <2>1 DEF Finals
  <2> HIDE DEF x, t, n, k, N
  <2>4. ASSUME x.kind = "event", HandsOver(x.of) \/ Nests(x.of)
        PROVE  Len(todo') + N + Entering' <= Len(stack')
    <3>1. CASE HandsOver(x.of)
      BY <1>3, <1>5, <2>2, <2>3, <2>4, <3>1 DEF HandsOver, t, k
    <3>2. CASE Nests(x.of)
      <4>1. x.of \in Event /\ Cnma \in Sent
        BY <2>1, <2>4, LineFacts DEF Sent
      <4>2. At!Frame(Cnma, x.of) \in FrameType
        BY <4>1, FrameFacts
      <4>3. Len(stack') = k + 1 /\ Len(todo') = t + 1
        BY <1>1, <3>2, <4>1, <4>2, AppendProperties DEF Nests, k, t
      <4> QED
        BY <1>3, <1>5, <2>2, <2>3, <2>4, <4>3
    <3> QED
      BY <2>4, <3>1, <3>2
  <2>5. ASSUME Throws, Refusal(x) PROVE Len(todo') + N + Entering' <= Len(stack')
    <3>1. stack' = << >> /\ result'.how = "error" /\ ~(k > 1) /\ x.kind = "ERROR" /\ todo' = todo
      BY <1>6, <2>5 DEF Throws, Refusal
    <3>2. Len(stack') = 0 /\ Len(todo') = t
      BY <1>4, <3>1 DEF t
    <3> QED
      BY <1>3, <1>5, <2>2, <2>3, <3>1, <3>2
  <2>6. ASSUME x.kind = "OK", ReturnsLast PROVE Len(todo') + N + Entering' <= Len(stack')
    <3>1. Len(stack') = 0 /\ Len(todo') = t /\ k = 1
      BY <1>4, <1>6, <2>6 DEF t
    <3> QED
      BY <1>3, <1>5, <2>2, <2>3, <2>6, <3>1
  <2>7. ASSUME x.kind = "OK", ReturnsInner PROVE Len(todo') + N + Entering' <= Len(stack')
    <3>1. Len(stack') = k - 1 /\ Len(todo') = t
      BY <1>6, <1>7, <2>7 DEF t
    <3> QED
      BY <1>3, <1>5, <2>2, <2>3, <2>7, <3>1
  <2>8. ASSUME Keeps(x) PROVE Len(todo') + N + Entering' <= Len(stack')
    <3>1. Len(stack') = 1 /\ Len(todo') = t /\ k = 1
      BY <1>6, <2>8 DEF t
    <3> QED
      BY <1>3, <1>5, <2>2, <3>1
  <2> QED
    BY <1>6, <2>1, <2>4, <2>5, <2>6, <2>7, <2>8 DEF Reads, N
<1> QED
  BY <1>8, <1>9

\* Every step keeps the balance of calls and answers.
LEMMA BalancedNext ==
  ASSUME Shape, Balanced, Steps
  PROVE  Balanced'
<1> SUFFICES ASSUME ~Reading, ~Expiring PROVE Balanced'
  BY BalancedReads
<1> SUFFICES ASSUME pc' \in Starting, stack' # << >> \/ result'.how # "failed"
             PROVE  Len(todo') + Count(Stream', Finals) + Entering' <= Len(stack')
  BY DEF Balanced, Finals
<1>1. Stream \in Seq(LineType) /\ todo \in Seq(Sent) /\ stack \in Seq(FrameType)
  BY DEF Shape, Core, LineTypes
<1> DEFINE t == Len(todo)
           n == Count(Stream, Finals)
           k == Len(stack)
<1>2. t \in Nat /\ n \in Nat /\ k \in Nat /\ Entering \in {0, 1} /\ Len(<< >>) = 0
  BY <1>1, LenProperties, CountFew DEF Entering
<1>3. entering' = entering => Entering' = Entering
  BY DEF Entering
<1>4. CASE Executing
  <2>1. pc' = pc /\ stack' = stack /\ result' = result
    BY <1>4 DEF Executing, Stays
  <2>2. t + n + Entering <= k
    BY <2>1 DEF Balanced
  <2>3. Len(todo') + Count(Stream', Finals) + Entering' <= t + n + Entering
    BY <1>4, BalancedExecutes
  <2>4. Core'
    BY <1>4, ShapeExecutes
  <2>5. Len(todo') \in Nat /\ Count(Stream', Finals) \in Nat /\ Entering' \in Nat
    BY <2>4, LenProperties, CountFew DEF Shape, Core, LineTypes, Entering
  <2> HIDE DEF t, n, k
  <2> QED
    BY <1>2, <2>1, <2>2, <2>3, <2>5 DEF k
<1>5. CASE Arriving
  <2>1. pc' = pc /\ stack' = stack /\ result' = result /\ todo' = todo /\ entering' = entering
    BY <1>5 DEF Arriving, Stays
  <2>2. t + n + Entering <= k
    BY <2>1 DEF Balanced
  <2>3. Stream' = Stream \/ \E x \in LineType : x.kind = "event" /\ Inserts(x)
    BY <1>5 DEF Arriving, ComesDirectly, ComesTo, Reports
  <2>4. ASSUME NEW x \in LineType, x.kind = "event", Inserts(x) PROVE Count(Stream', Finals) = n
    <3>1. x \notin Finals
      BY <2>4 DEF Finals
    <3> QED
      BY <2>4, <3>1, Inserted
  <2>5. Count(Stream', Finals) = n
    <3>1. CASE Stream' = Stream
      BY <3>1
    <3> QED
      BY <2>3, <2>4, <3>1
  <2> HIDE DEF n
  <2> QED
    BY <1>3, <2>1, <2>2, <2>5
<1>6. CASE Idles
  <2>1. pc' = pc /\ stack' = stack /\ result' = result /\ todo' = todo /\ entering' = entering /\ Stream' = Stream
    BY <1>6 DEF Idles
  <2> QED
    BY <1>3, <2>1 DEF Balanced
<1>7. CASE OtherSteps
  <2>1. /\ stack = << >> /\ pc \in Starting /\ result.how # "failed"
        /\ \/ Rests \/ \E c \in Command : Chats(c)
    <3>1. CASE Moves
      <4>1. stack = << >> /\ pc \in Starting
        BY <3>1, LabelFacts DEF Moves, Onward, Labels
      <4>2. pc = "open" \/ pc = "flush" \/ result.how \in {"ok", "error"}
        BY <3>1, <4>1 DEF Moves
      <4>3. result.how # "failed"
        BY <4>2 DEF Shape, Core, Places
      <4>4. Rests \/ \E c \in Command : Chats(c)
        BY <3>1 DEF Moves, Plain
      <4> QED
        BY <4>1, <4>3, <4>4
    <3>2. CASE Asks
      <4>1. stack = << >> /\ pc = "flush" /\ slot < Slots /\ Chats(Cmgr(slot))
        BY <3>2 DEF Asks, Starting
      <4>2. slot \in 0..Slots /\ result.how # "failed"
        BY <4>1 DEF Shape, Core, Places
      <4>3. slot \in Slot
        BY <4>1, <4>2, NothingFacts DEF Slot
      <4>4. Cmgr(slot) \in Command
        BY <4>3, CmgrFacts, CommandFacts
      <4> QED
        BY <4>1, <4>2, <4>4 DEF Starting
    <3>5. CASE Flushes1
      <4>1. stack = << >> /\ pc = "flushRead" /\ Chats(Cmgd(slot)) /\ result.how = "ok"
        BY <3>5 DEF Flushes1, Ok
      <4>2. slot \in Slot
        BY <4>1 DEF Shape, Core, Places
      <4>3. Cmgd(slot) \in Command
        BY <4>2, CmgrFacts, CommandFacts
      <4> QED
        BY <4>1, <4>3 DEF Starting
    <3>6. CASE Fetched
      BY <3>6 DEF Fetched, Starting
    <3>3. CASE SkipsEmpty \/ Advances
      BY <3>3 DEF SkipsEmpty, Advances, Ok, Starting
    <3>4. CASE Listens \/ Pops \/ Dispatched1
      BY <3>4 DEF Listens, Pops, Dispatched1, Starting
    <3> QED
      BY <1>7, <3>1, <3>2, <3>3, <3>4, <3>5, <3>6 DEF OtherSteps
  <2>2. t + n + Entering <= k /\ k = 0
    BY <1>2, <2>1 DEF Balanced
  <2>3. CASE Rests
    BY <1>3, <2>2, <2>3 DEF Rests
  <2>4. ASSUME NEW c \in Command, Chats(c) PROVE Len(todo') + Count(Stream', Finals) + Entering' <= Len(stack')
    <3>1. Len(stack') = 1 /\ Stream' = Stream /\ entering' = entering /\ todo' = Append(todo, c)
      BY <2>4 DEF Chats
    <3>2. Len(todo') = t + 1
      BY <1>1, <3>1, AppendProperties DEF Sent
    <3>3. Count(Stream', Finals) = n
      BY <3>1
    <3> HIDE DEF t, n, k
    <3> QED
      BY <1>2, <1>3, <2>2, <3>1, <3>2, <3>3
  <2> QED
    BY <2>1, <2>3, <2>4
<1> QED
  BY <1>4, <1>5, <1>6, <1>7 DEF Steps

-----------------------------------------------------------------------------
(* The message in a slot that is read: its command waits, or what the TA   *)
(* told of it is in the line, or the call has it.                          *)

Held == IF stack # << >> THEN stack[1].infos ELSE result.infos
Odd  == {x \in LineType : x.kind \notin {"info", "prompt"}}
Rights(m) == {x \in Tok : x.of = Cmgr(slot) /\ x.value = m}
Asked  == /\ Single(todo, Cmgrs) /\ ~Some(todo, Cmgrs \ {Cmgr(slot)})
          /\ ~Some(Stream, Tok) /\ ~Some(Held, Tok)
Told(m) == /\ ~Some(todo, Cmgrs) /\ Single(Stream, Tok) /\ ~Some(Stream, Tok \ Rights(m)) /\ ~Some(Held, Tok)
           /\ pc = "flushRead" => Before(Stream, Reporting(Of(m)), Tok)
Knows(m) == /\ ~Some(todo, Cmgrs) /\ ~Some(Stream, Tok) /\ ~Some(Held, Tok \ Rights(m))
            /\ ~Seen(Of(m))
NoTokens == pc \notin Asking \cup Broken => ~Some(todo, Cmgrs) /\ ~Some(Stream, Tok)
Tokens ==
  pc \in Asking =>
    /\ ~Some(Held, Odd)
    /\ Asked \/ \E m \in Message : store[slot] = m /\ (Told(m) \/ Knows(m))

\* While a message is asked for, its slot is not erased.
LEMMA AskedStays ==
  ASSUME Shape, Fetches, Ahead, pc \in Asking
  PROVE  slot \in Slot /\ ~Erases(slot) /\ (pc = "read" => Silent(slot))
<1>1. slot \in Slot
  BY DEF Shape, Core, Places, Asking, Fetching
<1>2. pc = "read" => Silent(slot) /\ ~Erases(slot)
  BY DEF Fetches, Fetching
<1>3. CASE pc = "flushRead"
  <2>1. Erases(slot) => slot < slot
    BY <1>1, <1>3 DEF Ahead, Flushing, From
  <2>2. ~(slot < slot)
    BY <1>1, NumberFacts
  <2> QED
    BY <1>1, <1>3, <2>1, <2>2
<1> QED
  BY <1>1, <1>2, <1>3, LabelFacts

\* Which commands a step adds to those that wait.
LEMMA NoMoreCmgrs ==
  ASSUME Shape, Steps, ~Asks
  PROVE  /\ Some(todo', Cmgrs) => Some(todo, Cmgrs)
         /\ Single(todo, Cmgrs) => Single(todo', Cmgrs)
         /\ \A K : K \subseteq Cmgrs /\ Some(todo', K) => Some(todo, K)
         /\ Executing => (Some(todo, Cmgrs) /\ Single(todo, Cmgrs) /\ Head(todo) \in Cmgrs => ~Some(todo', Cmgrs))
<1>1. todo \in Seq(Sent)
  BY DEF Shape, Core, LineTypes
<1>2. Cmgrs \cap (PduCommands \cup {Cnma, Pdu} \cup Plain \cup Cmgds) = {}
  BY CommandFacts DEF Plain
<1> DEFINE G == /\ Single(todo, Cmgrs) => Single(todo', Cmgrs)
                /\ \A K : K \subseteq Cmgrs /\ Some(todo', K) => Some(todo, K)
<1>3. ASSUME todo' = todo PROVE G
  BY <1>3
<1>4. ASSUME NEW c \in Sent, c \notin Cmgrs, todo' = Append(todo, c) PROVE G
  <2>1. Single(todo, Cmgrs) => Single(todo', Cmgrs)
    BY <1>1, <1>4, SomeAppend
  <2>2. ASSUME NEW K, K \subseteq Cmgrs, Some(todo', K) PROVE Some(todo, K)
    <3>1. c \notin K
      BY <1>4, <2>2
    <3> QED
      BY <1>1, <1>4, <2>2, <3>1, SomeAppend
  <2> QED
    BY <2>1, <2>2
<1>5. ASSUME Reading \/ Expiring PROVE G
  <2>1. todo' = todo \/ \E c \in PduCommands \cup {Cnma, Pdu} : c \in Sent /\ todo' = Append(todo, c)
    BY <1>5, TodoTurns
  <2> QED
    BY <1>2, <1>3, <1>4, <2>1
<1>6. ASSUME Executing PROVE G
  <2>1. todo # << >> /\ todo' = Tail(todo)
    BY <1>6 DEF Executing
  <2> QED
    BY <1>1, <2>1, SomeTail
<1>7. ASSUME Arriving \/ Idles PROVE G
  BY <1>3, <1>7 DEF Arriving, Idles
<1>8. ASSUME OtherSteps PROVE G
  BY <1>2, <1>3, <1>4, <1>8, TodoOthers, CmgrFacts
<1>9. G
  BY <1>5, <1>6, <1>7, <1>8 DEF Steps
<1>10. Executing => (Some(todo, Cmgrs) /\ Single(todo, Cmgrs) /\ Head(todo) \in Cmgrs => ~Some(todo', Cmgrs))
  <2> SUFFICES ASSUME Executing, Single(todo, Cmgrs), Head(todo) \in Cmgrs PROVE ~Some(todo', Cmgrs)
    OBVIOUS
  <2>1. todo # << >> /\ todo' = Tail(todo)
    BY DEF Executing
  <2> QED
    BY <1>1, <2>1, SomeTail
<1>11. Some(todo', Cmgrs) => Some(todo, Cmgrs)
  <2>1. Cmgrs \subseteq Cmgrs
    OBVIOUS
  <2> QED
    BY <1>9, <2>1
<1> HIDE DEF G
<1>12. /\ Single(todo, Cmgrs) => Single(todo', Cmgrs)
       /\ \A K : K \subseteq Cmgrs /\ Some(todo', K) => Some(todo, K)
  BY <1>9 DEF G
<1> QED
  BY <1>10, <1>11, <1>12, Zenon

\* What the TA tells of a slot is what is in it.
LEMMA TokenAnswers ==
  ASSUME Shape, Executing
  PROVE  \/ /\ Some(Stream', Tok) <=> Some(Stream, Tok)
            /\ Single(Stream, Tok) => Single(Stream', Tok)
            /\ \A K : K \subseteq Tok /\ Some(Stream', K) => Some(Stream, K)
            /\ \A A, K : K \subseteq Tok /\ A \cap {x \in LineType : x.kind # "event"} = {} /\ Before(Stream, A, K)
                           => Before(Stream', A, K)
         \/ /\ Head(todo) \in Cmgrs /\ store' = store
            /\ \E i \in Slot : \E y, z \in LineType :
                 /\ Head(todo) = Cmgr(i) /\ store[i] # Nothing /\ y.value = store[i]
                 /\ y \in Tok /\ y.of = Cmgr(i) /\ z.kind = "OK" /\ Stream' = Append(Append(Stream, y), z)
<1> DEFINE c == Head(todo)
<1>1. Stream \in Seq(LineType) /\ store \in [Slot -> Message \cup {Nothing}]
  BY DEF Shape, Core, LineTypes, World
<1>2. ASSUME NEW X \in SUBSET LineType, Added(X), X \cap Tok = {}, \A x \in X : x.kind # "event"
      PROVE  /\ Some(Stream', Tok) <=> Some(Stream, Tok)
             /\ Single(Stream, Tok) => Single(Stream', Tok)
             /\ \A K : K \subseteq Tok /\ Some(Stream', K) => Some(Stream, K)
             /\ \A A, K : K \subseteq Tok /\ A \cap {x \in LineType : x.kind # "event"} = {} /\ Before(Stream, A, K)
                            => Before(Stream', A, K)
  <2>1. ASSUME NEW A, NEW K, K \subseteq Tok, A \cap {x \in LineType : x.kind # "event"} = {}
        PROVE  /\ Some(Stream', K) <=> Some(Stream, K)
               /\ Single(Stream, K) => Single(Stream', K)
               /\ Before(Stream, A, K) => Before(Stream', A, K)
    <3>1. X \cap K = {} /\ X \cap A = {}
      BY <1>2, <2>1
    <3> QED
      BY <1>1, <1>2, <3>1, AddedFacts
  <2>2. {} \cap {x \in LineType : x.kind # "event"} = {}
    OBVIOUS
  <2> QED
    BY <2>1, <2>2
<1> DEFINE S == Answering(c) \ {x \in LineType : x.kind \in {"info", "OK"}}
<1>3. Drops(c) \/ Prompts(c) \/ Obeys(c) \/ Rejects1(c) \/ Garbles(c) \/ Finishes(c)
  BY DEF Executing
<1> HIDE DEF c
<1>4. \A d : d \notin Cmgrs => Answering(d) \in SUBSET LineType /\ Answering(d) \cap Tok = {}
                               /\ \A x \in Answering(d) : x.kind # "event"
  BY DEF Answering, Tok
<1>5. CASE Stream' = Stream
  BY <1>5
<1>6. CASE \E d : d \notin Cmgrs /\ Added(Answering(d))
  BY <1>2, <1>4, <1>6
<1>7. \A x \in LineType : x.kind \in {"OK", "ERROR"} => x \notin Tok
  BY DEF Tok
<1>8. ASSUME NEW z \in LineType, z.kind \in {"OK", "ERROR"}, Stream' = Append(Stream, z)
      PROVE  /\ Some(Stream', Tok) <=> Some(Stream, Tok)
             /\ Single(Stream, Tok) => Single(Stream', Tok)
             /\ \A K : K \subseteq Tok /\ Some(Stream', K) => Some(Stream, K)
             /\ \A A, K : K \subseteq Tok /\ A \cap {x \in LineType : x.kind # "event"} = {} /\ Before(Stream, A, K)
                            => Before(Stream', A, K)
  <2>1. Added({z}) /\ {z} \cap Tok = {} /\ \A x \in {z} : x.kind # "event"
    BY <1>7, <1>8 DEF Added
  <2> QED
    BY <1>2, <2>1
<1>9. ASSUME Obeys(c), c \in Cmgrs, NEW y \in LineType, NEW z \in LineType, y.kind = "info", y.of = c,
             \E i \in Slot : c = Cmgr(i) /\ store[i] # Nothing /\ y.value = store[i],
             z.kind = "OK", Stream' = Append(Append(Stream, y), z)
      PROVE  /\ c \in Cmgrs /\ store' = store
             /\ \E i \in Slot : /\ c = Cmgr(i) /\ store[i] # Nothing /\ y.value = store[i]
                                /\ y \in Tok /\ y.of = Cmgr(i)
  <2>1. store' = [i \in Slot |-> IF c = Cmgd(i) THEN Nothing ELSE store[i]]
    BY <1>9 DEF Obeys
  <2>2. \A i \in Slot : c # Cmgd(i)
    BY <1>9, CmgrFacts, CommandFacts
  <2>3. store' = store
    BY <1>1, <2>1, <2>2
  <2>4. y \in Tok
    BY <1>9 DEF Tok
  <2> QED
    BY <1>9, <2>3, <2>4
<1>10. CASE c \in Cmgrs
  <2>1. c \notin PduCommands /\ c # Pdu
    BY <1>10, CommandFacts
  <2>2. Obeys(c) \/ Rejects1(c) \/ Garbles(c)
    BY <1>3, <2>1 DEF Drops, Prompts, Finishes
  <2>3. CASE Obeys(c)
    <3>1. Answers(c)
      BY <2>3 DEF Obeys
    <3>2. \/ \E z \in LineType : z.kind = "OK" /\ Stream' = Append(Stream, z)
          \/ \E y, z \in LineType :
               /\ y.kind = "info" /\ y.of = c
               /\ \E i \in Slot : c = Cmgr(i) /\ store[i] # Nothing /\ y.value = store[i]
               /\ z.kind = "OK" /\ Stream' = Append(Append(Stream, y), z)
      BY <1>10, <3>1 DEF Answers
    <3>3. CASE \E z \in LineType : z.kind = "OK" /\ Stream' = Append(Stream, z)
      BY <1>8, <3>3
    <3>4. ASSUME NEW y \in LineType, NEW z \in LineType, y.kind = "info", y.of = c,
                 \E i \in Slot : c = Cmgr(i) /\ store[i] # Nothing /\ y.value = store[i],
                 z.kind = "OK", Stream' = Append(Append(Stream, y), z)
          PROVE  /\ Head(todo) \in Cmgrs /\ store' = store
                 /\ \E i \in Slot : \E v, w \in LineType :
                    /\ Head(todo) = Cmgr(i) /\ store[i] # Nothing /\ v.value = store[i]
                    /\ v \in Tok /\ v.of = Cmgr(i) /\ w.kind = "OK" /\ Stream' = Append(Append(Stream, v), w)
      <4>1. /\ c \in Cmgrs /\ store' = store
            /\ \E i \in Slot : /\ c = Cmgr(i) /\ store[i] # Nothing /\ y.value = store[i]
                               /\ y \in Tok /\ y.of = Cmgr(i)
        BY <1>9, <1>10, <2>3, <3>4
      <4> QED
        BY <3>4, <4>1 DEF c
    <3> QED
      BY <3>2, <3>3, <3>4
  <2>4. CASE Rejects1(c)
    <3>1. \E z \in LineType : z.kind = "ERROR" /\ Stream' = Append(Stream, z)
      BY <2>4 DEF Rejects1, Refuses
    <3> QED
      BY <1>8, <3>1
  <2>5. CASE Garbles(c)
    BY <1>5, <2>5 DEF Garbles
  <2> QED
    BY <2>2, <2>3, <2>4, <2>5
<1>11. CASE c \notin Cmgrs
  <2>1. /\ Obeys(c) => Added(Answering(c))
        /\ Prompts(c) \/ Rejects1(c) => Added(S)
        /\ Drops(c) \/ Garbles(c) => Stream' = Stream
        /\ Finishes(c) => entering.cmd \in PduCommands /\ Added(Answering(entering.cmd))
    <3>1. Obeys(c) => Added(Answering(c))
      BY DEF Obeys, Answers, Answering, Added
    <3>2. Prompts(c) \/ Rejects1(c) => Added(S)
      BY DEF Prompts, Rejects1, Refuses, Answering, Added
    <3>3. Finishes(c) => entering.cmd \in PduCommands /\ Added(Answering(entering.cmd))
      <4>1. entering.cmd \in PduCommands \cup {Nothing}
        BY DEF Shape, Core, LineTypes, EnteringType
      <4> QED
        BY <4>1 DEF Finishes, Refuses, Answers, Answering, Added
    <3> QED
      BY <3>1, <3>2, <3>3 DEF Drops, Garbles
  <2>2. Added(S) => Added(Answering(c))
    BY DEF Added
  <2>3. entering.cmd \in PduCommands => entering.cmd \notin Cmgrs
    BY CommandFacts
  <2> QED
    BY <1>3, <1>5, <1>6, <1>11, <2>1, <2>2, <2>3
<1> QED
  BY <1>10, <1>11

-----------------------------------------------------------------------------
(* The tokens of a slot that is read, step by step. *)

\* What a call has after a line or a time-out.
LEMMA HeldTurns ==
  ASSUME Shape, Reading \/ Expiring, pc \in Asking
  PROVE  /\ ~Some(Held, Odd) => ~Some(Held', Odd)
         /\ \/ Held' = Held \/ Held' = << >>
            \/ /\ Reading /\ Held' = <<Head(Stream)>> /\ Len(stack) = 1 /\ received' = received
               /\ \E f \in FrameType : stack' = <<f>> /\ f.event = Nothing
<1>1. stack # << >> /\ stack \in Seq(FrameType) /\ Calls /\ Len(stack) \in Nat \ {0}
  <2>1. stack # << >> /\ stack \in Seq(FrameType) /\ Calls
    BY DEF Reading, Expiring, Shape, Core, LineTypes
  <2> QED
    BY <2>1, Shrunk
<1>2. stack[1].cmd = Cmgr(slot) /\ slot \in Slot
  BY <1>1 DEF Shape, Core, Places, Asking, Fetching
<1>3. stack[1].cmd \in Cmgrs /\ stack[1].cmd \notin PduCommands
  BY <1>2, CmgrFacts, CommandFacts
<1>4. stack[1].prompted
  <2>1. 1 \in 1..Len(stack)
    BY <1>1
  <2>2. FrameOK(stack[1], 1)
    BY <1>1, <2>1 DEF Calls
  <2> QED
    BY <1>3, <2>2 DEF FrameOK
<1>5. Held = stack[1].infos
  BY <1>1 DEF Held
<1>6. Odd' = Odd
  BY DEF Odd
<1>7. ~Some(<< >>, Odd)
  BY NoneEmpty
<1>8. ASSUME Throws PROVE Held' = << >>
  BY <1>8 DEF Throws, Held
<1>9. ~Continues /\ \A s : ~Resends(s)
  BY <1>4 DEF Continues, Resends
<1>10. CASE Expiring
  <2>1. Throws
    BY <1>4, <1>9, <1>10 DEF Expiring, Expires
  <2> QED
    BY <1>6, <1>7, <1>8, <2>1
<1>11. CASE Reading
  <2> DEFINE x == Head(Stream)
  <2>1. Reads(x) /\ x \in LineType
    BY <1>11 DEF Reading
  <2> HIDE DEF x
  <2>2. x.kind = "event" => x.of \in Event
    BY <2>1, LineFacts
  <2>3. ASSUME x.kind = "event", HandsOver(x.of) \/ Nests(x.of) PROVE Held' = Held
    <3>1. CASE HandsOver(x.of)
      BY <3>1 DEF HandsOver, Held
    <3>2. CASE Nests(x.of)
      <4> DEFINE f == At!Frame(Cnma, x.of)
      <4>1. f \in FrameType /\ stack' = Append(stack, f)
        BY <2>2, <2>3, <3>2, FrameFacts DEF Nests
      <4> HIDE DEF f
      <4>2. Len(stack') = Len(stack) + 1 /\ stack'[1] = stack[1]
        BY <1>1, <4>1, AppendProperties
      <4>3. stack' # << >>
        BY <1>1, <4>2
      <4> QED
        BY <1>1, <4>2, <4>3 DEF Held
    <3> QED
      BY <2>3, <3>1, <3>2
  <2>4. ASSUME ReturnsLast PROVE Held' = Held
    BY <1>5, <2>4 DEF ReturnsLast, Held
  <2>5. ASSUME ReturnsInner PROVE Held' = Held
    <3>1. stack' = Front(stack) /\ Len(stack) > 1
      BY <2>5 DEF ReturnsInner
    <3>2. Len(Front(stack)) = Len(stack) - 1 /\ \A p \in 1..(Len(stack) - 1) : Front(stack)[p] = stack[p]
      BY <1>1, Shortened
    <3> DEFINE n == Len(stack)
    <3>3. n \in Nat /\ n > 1 /\ Len(Front(stack)) = n - 1 /\ \A p \in 1..(n - 1) : Front(stack)[p] = stack[p]
      BY <1>1, <3>1, <3>2
    <3> HIDE DEF n
    <3>4. 1 \in 1..(n - 1) /\ Len(Front(stack)) # 0
      BY <3>3
    <3>5. Front(stack)[1] = stack[1]
      BY <3>3, <3>4
    <3>6. Front(stack) # << >>
      BY <3>4
    <3> QED
      BY <1>5, <3>1, <3>5, <3>6 DEF Held
  <2>6. ASSUME x.kind # "event", Keeps(x)
        PROVE  /\ Held' = <<x>> /\ Len(stack) = 1 /\ received' = received /\ x \notin Odd
               /\ \E f \in FrameType : stack' = <<f>> /\ f.event = Nothing
    <3>1. PICK f \in FrameType : Goeson(f) /\ f.infos = <<x>>
      BY <2>6 DEF Keeps
    <3>2. stack' = <<f>> /\ Len(stack) = 1 /\ received' = received /\ FrameOK(f, 1)
      BY <3>1 DEF Goeson
    <3>3. f.event = Nothing
      BY <3>2 DEF FrameOK
    <3>4. Held' = <<x>>
      BY <3>1, <3>2 DEF Held
    <3>5. x.kind # "OK" /\ x.kind # "ERROR"
      BY <1>3, <2>6 DEF Keeps
    <3>6. x.kind \in {"info", "prompt"}
      BY <2>1, <2>6, <3>5, LineFacts
    <3> QED
      BY <3>2, <3>3, <3>4, <3>6 DEF Odd
  <2>7. x \notin Odd => ~Some(<<x>>, Odd)
    BY SomeOne
  <2>8. \/ Held' = Held \/ Held' = << >>
        \/ /\ Held' = <<x>> /\ Len(stack) = 1 /\ received' = received /\ x \notin Odd
           /\ \E f \in FrameType : stack' = <<f>> /\ f.event = Nothing
    BY <1>8, <1>9, <2>1, <2>3, <2>4, <2>5, <2>6 DEF Reads
  <2> QED
    BY <1>6, <1>7, <1>11, <2>7, <2>8 DEF x
<1> QED
  BY <1>10, <1>11

\* A message that was asked for is told, and what was told is read, once.
LEMMA TokensReads ==
  ASSUME Shape, Events, Fetches, Ahead, Tokens, Reading \/ Expiring
  PROVE  Tokens'
<1>1. pc' = pc /\ slot' = slot /\ store' = store /\ Steps /\ ~Asks
  BY DEF Reading, Expiring, Stays, Around0, Steps, Asks
<1> SUFFICES ASSUME pc \in Asking
             PROVE  /\ ~Some(Held, Odd)'
                    /\ Asked' \/ \E m \in Message : store[slot] = m /\ (Told(m)' \/ Knows(m)')
  BY <1>1 DEF Tokens
<1>2. /\ ~Some(Held, Odd)
      /\ Asked \/ \E m \in Message : store[slot] = m /\ (Told(m) \/ Knows(m))
  BY DEF Tokens
<1>3. /\ ~Some(Held', Odd)
      /\ \/ Held' = Held \/ Held' = << >>
         \/ /\ Reading /\ Held' = <<Head(Stream)>> /\ Len(stack) = 1 /\ received' = received
            /\ \E f \in FrameType : stack' = <<f>> /\ f.event = Nothing
  BY <1>2, HeldTurns
<1>4. Odd' = Odd /\ Tok' = Tok /\ Cmgr(slot)' = Cmgr(slot) /\ \A m : Rights(m)' = Rights(m)
  BY <1>1 DEF Odd, Tok, Cmgr, Rights
<1>5. \A m : Reporting(Of(m))' = Reporting(Of(m)) /\ Of(m) \in SUBSET Event
  BY DEF Reporting, Of
<1>6. Stream \in Seq(LineType) /\ todo \in Seq(Sent)
  BY DEF Shape, Core, LineTypes
<1>7. \/ Reading /\ Stream # << >> /\ Stream' = Tail(Stream)
      \/ Stream' = << >>
  BY DEF Reading, Expiring
<1>8. /\ \A K : Some(Stream', K) => Some(Stream, K)
      /\ Single(Stream, Tok) => Single(Stream', Tok)
      /\ \A A : Before(Stream, A, Tok) => Before(Stream', A, Tok)
  <2>1. CASE Stream' = << >>
    BY <2>1, NoneEmpty, OrderEmpty
  <2>2. CASE Stream # << >> /\ Stream' = Tail(Stream)
    BY <1>6, <2>2, SomeTail, OrderTail
  <2> QED
    BY <1>7, <2>1, <2>2
<1>9. /\ Some(todo', Cmgrs) => Some(todo, Cmgrs)
      /\ Single(todo, Cmgrs) => Single(todo', Cmgrs)
      /\ Some(todo', Cmgrs \ {Cmgr(slot)}) => Some(todo, Cmgrs \ {Cmgr(slot)})
  <2>1. Cmgrs \ {Cmgr(slot)} \subseteq Cmgrs
    OBVIOUS
  <2> QED
    BY <1>1, <2>1, NoMoreCmgrs
<1>10. ASSUME NEW m \in Message, store[slot] = m, ~Seen(Of(m)) PROVE ~Seen(Of(m))'
  <2>1. store[slot] # Nothing /\ slot \in Slot
    BY <1>10, NothingFacts, AskedStays
  <2>2. m <= arrived
    BY <1>10, <2>1 DEF Events
  <2> QED
    BY <1>1, <1>10, <2>2, OldUnseen
<1>11. ASSUME \A K : K \subseteq Tok => (Some(Held', K) => Some(Held, K))
       PROVE  Asked' \/ \E m \in Message : store[slot] = m /\ (Told(m)' \/ Knows(m)')
  <2>1. ASSUME Asked PROVE Asked'
    <3>1. ~Some(Held', Tok)
      BY <1>11, <2>1 DEF Asked
    <3> QED
      BY <1>4, <1>8, <1>9, <2>1, <3>1 DEF Asked
  <2>2. ASSUME NEW m \in Message, store[slot] = m, Told(m) PROVE Told(m)'
    <3>1. ~Some(Held', Tok)
      BY <1>11, <2>2 DEF Told
    <3> QED
      BY <1>1, <1>4, <1>5, <1>8, <1>9, <2>2, <3>1 DEF Told
  <2>3. ASSUME NEW m \in Message, store[slot] = m, Knows(m) PROVE Knows(m)'
    <3>1. ~Some(Held', Tok \ Rights(m))
      BY <1>11, <2>3 DEF Knows
    <3> QED
      BY <1>4, <1>8, <1>9, <1>10, <2>3, <3>1 DEF Knows
  <2> QED
    BY <1>2, <2>1, <2>2, <2>3
<1>12. CASE Held' = Held \/ Held' = << >>
  BY <1>3, <1>4, <1>11, <1>12, NoneEmpty
<1>13. ASSUME Reading, Held' = <<Head(Stream)>>, Len(stack) = 1, received' = received,
              \E f \in FrameType : stack' = <<f>> /\ f.event = Nothing
       PROVE  Asked' \/ \E m \in Message : store[slot] = m /\ (Told(m)' \/ Knows(m)')
  <2> DEFINE x == Head(Stream)
  <2>1. Stream # << >> /\ Stream' = Tail(Stream)
    BY <1>13 DEF Reading
  <2>2. \A K : Some(Held', K) <=> x \in K
    BY <1>13, SomeOne
  <2>3. /\ \A K : x \in K => Some(Stream, K)
        /\ Single(Stream, Tok) /\ x \in Tok => ~Some(Stream', Tok)
        /\ \A A : Before(Stream, A, Tok) /\ x \in Tok => ~Some(Stream', A)
    BY <1>6, <2>1, SomeTail, OrderTail
  <2> HIDE DEF x
  <2>4. CASE x \notin Tok
    <3>1. \A K : K \subseteq Tok => ~Some(Held', K)
      BY <2>2, <2>4
    <3> QED
      BY <1>11, <3>1
  <2>5. CASE x \in Tok
    <3>1. Some(Stream, Tok)
      BY <2>3, <2>5
    <3>2. PICK m \in Message : store[slot] = m /\ Told(m)
      BY <1>2, <3>1 DEF Asked, Knows
    <3>3. ~Some(Stream', Tok)
      BY <2>3, <2>5, <3>2 DEF Told
    <3>4. x \in Rights(m)
      BY <2>3, <2>5, <3>2 DEF Told
    <3>5. ~Some(Held', Tok \ Rights(m))
      BY <2>2, <3>4
    <3>6. ~Some(todo', Cmgrs)
      BY <1>9, <3>2 DEF Told
    <3>7. ~Seen(Of(m))'
      <4>1. CASE pc = "read"
        <5>1. ~Seen(Of(m))
          BY <3>2, <4>1, AskedStays DEF Silent
        <5> QED
          BY <1>10, <3>2, <5>1
      <4>2. CASE pc = "flushRead"
        <5>1. ~Some(Stream', Reporting(Of(m)))
          BY <2>3, <2>5, <3>2, <4>2 DEF Told
        <5>2. received' = << >>
          BY <1>13, <4>2 DEF Shape, Core, Places, Starting
        <5>3. ~Some(received', Of(m))
          BY <5>2, NoneEmpty
        <5>4. PICK f \in FrameType : stack' = <<f>> /\ f.event = Nothing
          BY <1>13
        <5>5. f \notin Waiting(Of(m))
          <6>1. Nothing \notin Of(m)
            BY NothingFacts DEF Of
          <6> QED
            BY <5>4, <6>1 DEF Waiting
        <5>6. ~Some(stack', Waiting(Of(m)))
          BY <5>4, <5>5, SomeOne
        <5>7. Waiting(Of(m))' = Waiting(Of(m)) /\ Of(m)' = Of(m)
          BY DEF Waiting, Of
        <5> QED
          BY <1>5, <5>1, <5>3, <5>6, <5>7 DEF Seen
      <4> QED
        BY <4>1, <4>2 DEF Asking
    <3>8. Knows(m)'
      BY <1>4, <3>3, <3>5, <3>6, <3>7 DEF Knows
    <3> QED
      BY <3>2, <3>8
  <2> QED
    BY <2>4, <2>5
<1>14. Asked' \/ \E m \in Message : store[slot] = m /\ (Told(m)' \/ Knows(m)')
  BY <1>3, <1>12, <1>13
<1> QED
  BY <1>3, <1>4, <1>14

\* The message in the slot stays while it is asked for.
LEMMA AskedKept ==
  ASSUME Shape, Events, Fetches, Ahead, Steps, pc \in Asking, pc' = pc, slot' = slot,
         NEW m \in Message, store[slot] = m
  PROVE  /\ store'[slot] = m /\ m <= arrived
         /\ ~Seen(Of(m)) => ~Seen(Of(m))'
<1>1. store[slot] # Nothing /\ slot \in Slot /\ ~Erases(slot)
  BY NothingFacts, AskedStays
<1>2. m <= arrived
  BY <1>1 DEF Events
<1>3. Executing => Head(todo) # Cmgd(slot)
  <2> SUFFICES ASSUME Executing, Head(todo) = Cmgd(slot) PROVE FALSE
    OBVIOUS
  <2>1. todo # << >> /\ todo \in Seq(Sent)
    BY DEF Executing, Shape, Core, LineTypes
  <2>2. Head(todo) \in {Cmgd(slot)}
    OBVIOUS
  <2>3. Some(todo, {Cmgd(slot)})
    BY <2>1, <2>2, SomeTail
  <2> QED
    BY <1>1, <2>3 DEF Erases
<1>4. store'[slot] = store[slot]
  BY <1>1, <1>3, StoreKept
<1>5. ~Seen(Of(m)) => ~Seen(Of(m))'
  BY <1>2, OldUnseen
<1> QED
  BY <1>2, <1>4, <1>5

\* The TA tells what is in the slot.
LEMMA TokensExecutes ==
  ASSUME Shape, Events, Fetches, Ahead, Tokens, Executing
  PROVE  Tokens'
<1>1. pc' = pc /\ slot' = slot /\ Steps /\ stack' = stack /\ result' = result /\ Held' = Held
  BY DEF Executing, Stays, Steps, Held
<1> SUFFICES ASSUME pc \in Asking
             PROVE  /\ ~Some(Held, Odd)'
                    /\ Asked' \/ \E m \in Message : store'[slot] = m /\ (Told(m)' \/ Knows(m)')
  BY <1>1 DEF Tokens
<1>2. /\ ~Some(Held, Odd)
      /\ Asked \/ \E m \in Message : store[slot] = m /\ (Told(m) \/ Knows(m))
  BY DEF Tokens
<1>3. Odd' = Odd /\ Tok' = Tok /\ Cmgr(slot)' = Cmgr(slot) /\ (\A m : Rights(m)' = Rights(m))
  BY <1>1 DEF Odd, Tok, Cmgr, Rights
<1>4. \A m : Reporting(Of(m))' = Reporting(Of(m)) /\ Rights(m) \subseteq Tok
  BY DEF Reporting, Of, Rights
<1>5. Stream \in Seq(LineType) /\ todo \in Seq(Sent) /\ todo # << >> /\ todo' = Tail(todo) /\ slot \in Slot
  BY AskedStays DEF Shape, Core, LineTypes, Executing
<1>7. /\ Some(todo', Cmgrs) => Some(todo, Cmgrs)
      /\ Single(todo, Cmgrs) => Single(todo', Cmgrs)
      /\ Some(todo', Cmgrs \ {Cmgr(slot)}) => Some(todo, Cmgrs \ {Cmgr(slot)})
      /\ Single(todo, Cmgrs) /\ Head(todo) \in Cmgrs => ~Some(todo', Cmgrs)
      /\ \A K : Head(todo) \in K => Some(todo, K)
  BY <1>5, SomeTail
<1>8. ASSUME NEW m \in Message, store[slot] = m
      PROVE  store'[slot] = m /\ (~Seen(Of(m)) => ~Seen(Of(m))')
  BY <1>1, <1>8, AskedKept
<1>9. ASSUME /\ Some(Stream', Tok) => Some(Stream, Tok)
             /\ Single(Stream, Tok) => Single(Stream', Tok)
             /\ \A K : K \subseteq Tok /\ Some(Stream', K) => Some(Stream, K)
             /\ \A A, K : K \subseteq Tok /\ A \cap {x \in LineType : x.kind # "event"} = {} /\ Before(Stream, A, K)
                           => Before(Stream', A, K)
      PROVE  Asked' \/ \E m \in Message : store'[slot] = m /\ (Told(m)' \/ Knows(m)')
  <2>1. ASSUME Asked PROVE Asked'
    BY <1>1, <1>3, <1>7, <1>9, <2>1 DEF Asked
  <2>2. ASSUME NEW m \in Message, store[slot] = m, Told(m) PROVE Told(m)'
    <3>1. Tok \ Rights(m) \subseteq Tok /\ Tok \subseteq Tok
      OBVIOUS
    <3>2. ~Some(Stream', Tok \ Rights(m))
      BY <1>9, <2>2, <3>1 DEF Told
    <3>3. Reporting(Of(m)) \cap {x \in LineType : x.kind # "event"} = {}
      BY DEF Reporting
    <3>4. Before(Stream, Reporting(Of(m)), Tok) => Before(Stream', Reporting(Of(m)), Tok)
      BY <1>9, <3>1, <3>3
    <3> QED
      BY <1>1, <1>3, <1>4, <1>7, <1>9, <2>2, <3>2, <3>4 DEF Told
  <2>3. ASSUME NEW m \in Message, store[slot] = m, Knows(m) PROVE Knows(m)'
    BY <1>1, <1>3, <1>7, <1>8, <1>9, <2>3 DEF Knows
  <2> QED
    BY <1>2, <1>8, <2>1, <2>2, <2>3
<1>10. ASSUME Head(todo) \in Cmgrs, store' = store, NEW i \in Slot, NEW y \in LineType, NEW z \in LineType,
              Head(todo) = Cmgr(i), store[i] # Nothing, y.value = store[i],
              y \in Tok, y.of = Cmgr(i), z.kind = "OK", Stream' = Append(Append(Stream, y), z)
       PROVE  \E m \in Message : store'[slot] = m /\ Told(m)'
  <2>1. Asked
    BY <1>2, <1>7, <1>10 DEF Told, Knows
  <2>2. Cmgr(i) = Cmgr(slot)
    BY <1>7, <1>10, <2>1 DEF Asked
  <2>3. i = slot
    BY <1>5, <2>2, CmgrFacts
  <2>4. store[i] \in Message
    BY <1>10 DEF Shape, Core, World
  <2> DEFINE m == store[i]
             A == Reporting(Of(m))
  <2>5. y \in Rights(m) /\ y \notin A
    BY <1>10, <2>2, <2>3 DEF Rights, Reporting, Tok
  <2>6. z \notin Tok /\ z \notin A
    BY <1>10 DEF Tok, Reporting
  <2>7. ~Some(Stream, Tok) /\ Single(Stream, Tok) /\ Before(Stream, A, Tok) /\ ~Some(Stream, Tok \ Rights(m))
    BY <2>1 DEF Asked, Some, Single, Before
  <2> HIDE DEF m, A
  <2> DEFINE l == Append(Stream, y)
  <2>8. /\ l \in Seq(LineType) /\ Single(l, Tok) /\ ~Some(l, Tok \ Rights(m)) /\ Before(l, A, Tok)
    BY <1>5, <2>5, <2>7, SomeAppend, OrderAppend, AppendProperties
  <2> HIDE DEF l
  <2>9. Single(Append(l, z), Tok) /\ ~Some(Append(l, z), Tok \ Rights(m)) /\ Before(Append(l, z), A, Tok)
    BY <2>6, <2>8, SomeAppend, OrderAppend
  <2>10. ~Some(todo', Cmgrs)
    BY <1>7, <1>10, <2>1 DEF Asked
  <2>11. Stream' = Append(l, z)
    BY <1>10 DEF l
  <2>12. ASSUME NEW n \in Message, n = store[i] PROVE Told(n)'
    <3>1. ~Some(Held', Tok)
      BY <1>1, <2>1 DEF Asked
    <3> QED
      BY <1>3, <1>4, <2>9, <2>10, <2>11, <2>12, <3>1 DEF Told, m, A
  <2> QED
    BY <1>10, <2>3, <2>4, <2>12
<1>11. Asked' \/ \E m \in Message : store'[slot] = m /\ (Told(m)' \/ Knows(m)')
  BY <1>9, <1>10, TokenAnswers
<1> QED
  BY <1>1, <1>2, <1>3, <1>11

\* A message that arrives does not touch what was told.
LEMMA TokensArrives ==
  ASSUME Shape, Events, Fetches, Ahead, Tokens, Arriving
  PROVE  Tokens'
<1>1. /\ pc' = pc /\ slot' = slot /\ Steps /\ stack' = stack /\ result' = result /\ Held' = Held /\ todo' = todo
      /\ Stream' = Stream \/ \E x \in LineType : x.kind = "event" /\ x.of.msg = arrived + 1 /\ Inserts(x)
  BY DEF Arriving, Stays, Steps, Held, ComesDirectly, ComesTo, Reports
<1> SUFFICES ASSUME pc \in Asking
             PROVE  /\ ~Some(Held, Odd)'
                    /\ Asked' \/ \E m \in Message : store'[slot] = m /\ (Told(m)' \/ Knows(m)')
  BY <1>1 DEF Tokens
<1>2. /\ ~Some(Held, Odd)
      /\ Asked \/ \E m \in Message : store[slot] = m /\ (Told(m) \/ Knows(m))
  BY DEF Tokens
<1>3. Odd' = Odd /\ Tok' = Tok /\ Cmgr(slot)' = Cmgr(slot) /\ (\A m : Rights(m)' = Rights(m))
  BY <1>1 DEF Odd, Tok, Cmgr, Rights
<1>4. \A m : Reporting(Of(m))' = Reporting(Of(m))
  BY DEF Reporting, Of
<1>5. Stream \in Seq(LineType) /\ arrived \in Nat
  BY NothingFacts DEF Shape, Core, LineTypes, World
<1>6. ASSUME NEW m \in Message, store[slot] = m
      PROVE  store'[slot] = m /\ m <= arrived /\ (~Seen(Of(m)) => ~Seen(Of(m))')
  BY <1>1, <1>6, AskedKept
<1>7. /\ \A K : K \subseteq Tok /\ Some(Stream', K) => Some(Stream, K)
      /\ Single(Stream, Tok) => Single(Stream', Tok)
      /\ \A m \in Message : m <= arrived /\ Before(Stream, Reporting(Of(m)), Tok) => Before(Stream', Reporting(Of(m)), Tok)
  <2>1. CASE Stream' = Stream
    BY <2>1
  <2>2. ASSUME NEW x \in LineType, x.kind = "event", x.of.msg = arrived + 1, Inserts(x)
        PROVE  /\ \A K : K \subseteq Tok /\ Some(Stream', K) => Some(Stream, K)
               /\ Single(Stream, Tok) => Single(Stream', Tok)
               /\ \A m \in Message : m <= arrived /\ Before(Stream, Reporting(Of(m)), Tok) => Before(Stream', Reporting(Of(m)), Tok)
    <3>1. x \notin Tok
      BY <2>2 DEF Tok
    <3>2. ASSUME NEW m \in Message, m <= arrived PROVE x \notin Reporting(Of(m))
      <4>1. m # arrived + 1
        BY <1>5, <3>2 DEF Message
      <4> QED
        BY <2>2, <4>1 DEF Reporting, Of
    <3> QED
      BY <1>5, <2>2, <3>1, <3>2, Inserted, InsertedBehind
  <2> QED
    BY <1>1, <2>1, <2>2
<1>8. ~Some(Stream, Tok) => ~Some(Stream', Tok)
  <2>1. Tok \subseteq Tok
    OBVIOUS
  <2> QED
    BY <1>7, <2>1
<1>9. ASSUME Asked PROVE Asked'
  BY <1>1, <1>3, <1>8, <1>9 DEF Asked
<1>10. ASSUME NEW m \in Message, store[slot] = m, Told(m) PROVE Told(m)'
  <2>1. ~Some(Stream', Tok \ Rights(m))
    BY <1>7, <1>10 DEF Told
  <2> QED
    BY <1>1, <1>3, <1>4, <1>6, <1>7, <1>10, <2>1 DEF Told
<1>11. ASSUME NEW m \in Message, store[slot] = m, Knows(m) PROVE Knows(m)'
  BY <1>1, <1>3, <1>6, <1>8, <1>11 DEF Knows
<1> QED
  BY <1>1, <1>2, <1>3, <1>6, <1>9, <1>10, <1>11

\* A slot that is asked for.
LEMMA TokensOthers ==
  ASSUME Shape, NoTokens, Tokens, OtherSteps \/ Idles
  PROVE  Tokens'
<1> SUFFICES ASSUME pc' \in Asking
             PROVE  /\ ~Some(Held, Odd)'
                    /\ Asked' \/ \E m \in Message : store'[slot'] = m /\ (Told(m)' \/ Knows(m)')
  BY DEF Tokens
<1>1. CASE Idles
  <2>1. UNCHANGED <<store, Stream, todo, stack, result, received, pc, slot>>
    BY <1>1 DEF Idles
  <2>2. /\ Tok' = Tok /\ Odd' = Odd /\ Held' = Held /\ Cmgr(slot)' = Cmgr(slot)
        /\ \A m : Rights(m)' = Rights(m) /\ Of(m)' = Of(m) /\ Reporting(Of(m))' = Reporting(Of(m))
        /\ \A m : Seen(Of(m))' <=> Seen(Of(m))
    BY <2>1 DEF Tok, Odd, Held, Cmgr, Rights, Of, Reporting, Seen, Waiting
  <2>3. /\ ~Some(Held, Odd)
        /\ Asked \/ \E m \in Message : store[slot] = m /\ (Told(m) \/ Knows(m))
    BY <2>1 DEF Tokens
  <2>4. Asked => Asked'
    BY <2>1, <2>2 DEF Asked
  <2>5. ASSUME NEW m \in Message PROVE (Told(m) => Told(m)') /\ (Knows(m) => Knows(m)')
    BY <2>1, <2>2 DEF Told, Knows
  <2> QED
    BY <2>1, <2>2, <2>3, <2>4, <2>5
<1>2. CASE OtherSteps
  <2>1. Asks
    BY <1>2, LabelFacts DEF OtherSteps, Moves, Onward, SkipsEmpty, Flushes1, Advances, Fetched, Dispatched1,
                            Listens, Pops
  <2>2. /\ stack = << >> /\ slot' = slot /\ Chats(Cmgr(slot)) /\ pc \notin Asking \cup Broken /\ slot \in Slot
    <3>1. stack = << >> /\ slot' = slot /\ Chats(Cmgr(slot)) /\ pc \notin Asking \cup Broken
      BY <2>1 DEF Asks, Asking, Broken
    <3>2. slot \in 0..Slots /\ (slot < Slots \/ slot \in Slot)
      BY <2>1 DEF Asks, Shape, Core, Places, Fetching
    <3>3. slot \in Slot
      BY <3>2, NothingFacts DEF Slot
    <3> QED
      BY <3>1, <3>3
  <2>3. ~Some(todo, Cmgrs) /\ ~Some(Stream, Tok) /\ todo \in Seq(Sent)
    BY <2>2 DEF NoTokens, Shape, Core, LineTypes
  <2>4. Cmgr(slot) \in Cmgrs /\ Cmgr(slot) \in Command /\ Cmgr(slot) \in Sent
    BY <2>2, CmgrFacts, CommandFacts DEF Sent
  <2>5. Stream' = Stream /\ todo' = Append(todo, Cmgr(slot)) /\ stack' # << >> /\ stack'[1].infos = << >>
    BY <2>2, <2>4, ChatKeeps DEF Chats, Shape, Core
  <2>6. Held' = << >> /\ ~Some(Held', Odd) /\ ~Some(Held', Tok)
    BY <2>5, NoneEmpty DEF Held
  <2>7. Single(todo', Cmgrs)
    BY <2>3, <2>4, <2>5, SomeAppend DEF Single, Some
  <2>8. ~Some(todo', Cmgrs \ {Cmgr(slot)})
    <3>1. ~Some(todo, Cmgrs \ {Cmgr(slot)})
      BY <2>3 DEF Some
    <3>2. Cmgr(slot) \notin Cmgrs \ {Cmgr(slot)}
      OBVIOUS
    <3> QED
      BY <2>3, <2>4, <2>5, <3>1, <3>2, SomeAppend
  <2>9. Tok' = Tok /\ Odd' = Odd /\ Cmgr(slot)' = Cmgr(slot)
    BY <2>2 DEF Tok, Odd, Cmgr
  <2>10. Asked'
    BY <2>3, <2>5, <2>6, <2>7, <2>8, <2>9 DEF Asked
  <2> QED
    BY <2>6, <2>9, <2>10
<1> QED
  BY <1>1, <1>2

\* What the daemon is told of a slot is the message in it, of which nothing
\* is reported any more.
LEMMA AnswerIsStored ==
  ASSUME Shape, Tokens, pc \in Asking, stack = << >>, Ok, Answered # Nothing
  PROVE  /\ Answered \in Message /\ store[slot] = Answered /\ Knows(Answered)
<1>1. result.infos \in Seq(LineType) /\ Held = result.infos
  BY DEF Held, Shape, Core, LineTypes, ResultType
<1>2. result.infos # << >>
  BY DEF Answered
<1>3. /\ result.infos[1] \in LineType /\ Answered = result.infos[1].value /\ 1 \in DOMAIN result.infos
      /\ Answered \in Message
  BY <1>2, AnsweredFacts DEF Shape, Core
<1>4. result.infos[1].of = Cmgr(slot) /\ slot \in Slot
  BY <1>3 DEF Ok, Shape, Core, Places, Asking, Fetching
<1> DEFINE x == result.infos[1]
<1>5. 1 \in 1..Len(Held) /\ Held[1] = x
  BY <1>1, <1>2, Shrunk
<1>6. x \notin Odd
  BY <1>5 DEF Tokens, Some
<1>7. x.kind \in {"info", "prompt"} /\ x \in Tok
  BY <1>3, <1>4, <1>6, CmgrFacts DEF Odd, Tok
<1>8. Some(Held, Tok)
  BY <1>5, <1>7 DEF Some
<1>9. PICK m \in Message : store[slot] = m /\ Knows(m)
  BY <1>8 DEF Tokens, Asked, Told
<1>10. x \in Rights(m)
  BY <1>5, <1>7, <1>9 DEF Knows, Some
<1> QED
  BY <1>3, <1>9, <1>10 DEF Rights

\* When an empty slot is skipped, the answer was read to its end.
LEMMA SkippedClean ==
  ASSUME Shape, Balanced, Paired, SkipsEmpty
  PROVE  ~Some(todo, Cmgrs) /\ ~Some(Stream, Tok)
<1>1. stack = << >> /\ result.how # "failed" /\ pc \in Starting /\ Stream \in Seq(LineType) /\ todo \in Seq(Sent)
  BY DEF SkipsEmpty, Ok, Starting, Shape, Core, LineTypes
<1> DEFINE t == Len(todo)
           n == Count(Stream, Finals)
<1>2. t + n + Entering <= 0 /\ t \in Nat /\ n \in Nat /\ Entering \in {0, 1}
  <2>1. Len(stack) = 0
    BY <1>1
  <2> QED
    BY <1>1, <2>1, LenProperties, CountFew DEF Balanced, Entering
<1> HIDE DEF t, n
<1>3. t = 0 /\ n = 0
  BY <1>2
<1>4. todo = << >> /\ ~Some(Stream, Finals)
  BY <1>1, <1>3, EmptySeq, CountFew DEF t, n
<1> QED
  BY <1>4, NoneEmpty, ClosedNone DEF Paired

\* Elsewhere no slot is asked for.
LEMMA NoTokensNext ==
  ASSUME Shape, NoTokens, Tokens, Balanced, Paired, Steps
  PROVE  NoTokens'
<1> SUFFICES ASSUME pc' \notin Asking \cup Broken
             PROVE  ~Some(todo', Cmgrs) /\ ~Some(Stream', Tok)
  BY DEF NoTokens, Tok
<1>1. todo \in Seq(Sent) /\ Stream \in Seq(LineType)
  BY DEF Shape, Core, LineTypes
<1>2. ASSUME ~Some(todo, Cmgrs), ~Some(Stream, Tok), ~Asks PROVE ~Some(todo', Cmgrs) /\ ~Some(Stream', Tok)
  <2>1. ~Some(todo', Cmgrs)
    BY <1>2, NoMoreCmgrs
  <2>2. CASE Executing
    <3>1. todo # << >>
      BY <2>2 DEF Executing
    <3>2. Head(todo) \notin Cmgrs
      BY <1>1, <1>2, <3>1, SomeTail
    <3>3. Some(Stream', Tok) <=> Some(Stream, Tok)
      BY <2>2, <3>2, TokenAnswers
    <3> QED
      BY <1>2, <2>1, <3>3
  <2>3. CASE ~Executing
    <3>1. \/ Stream' = Stream
          \/ Stream # << >> /\ Stream' = Tail(Stream)
          \/ Stream' = << >>
          \/ \E x \in LineType : x.kind = "event" /\ Inserts(x)
      BY <2>3, LineSteps
    <3>2. ASSUME NEW x \in LineType, x.kind = "event", Inserts(x) PROVE ~Some(Stream', Tok)
      <4>1. x \notin Tok
        BY <3>2 DEF Tok
      <4> QED
        BY <1>2, <3>2, <4>1, Inserted
    <3>3. ~Some(Stream', Tok)
      BY <1>1, <1>2, <3>1, <3>2, SomeTail, NoneEmpty
    <3> QED
      BY <2>1, <3>3
  <2> QED
    BY <2>2, <2>3
<1>3. ~Asks
  BY DEF Asks, Asking
<1>4. CASE pc \notin Asking \cup Broken
  BY <1>2, <1>3, <1>4 DEF NoTokens
<1>5. CASE pc \in Asking \cup Broken
  <2>1. SkipsEmpty \/ Flushes1 \/ Fetched
    <3>1. ~Reading /\ ~Expiring /\ ~Executing /\ ~Arriving /\ ~Idles
      BY <1>5 DEF Reading, Expiring, Executing, Arriving, Idles, Stays
    <3>2. ~Moves
      BY <1>5 DEF Moves, Onward
    <3>3. ~Advances /\ ~Dispatched1 /\ ~Listens /\ ~Pops
      BY <1>5 DEF Advances, Dispatched1, Listens, Pops, Asking, Broken
    <3> QED
      BY <1>3, <3>1, <3>2, <3>3 DEF Steps, OtherSteps
  <2>2. ~Some(todo, Cmgrs) /\ ~Some(Stream, Tok)
    <3>1. CASE SkipsEmpty
      BY <3>1, SkippedClean
    <3>2. CASE Flushes1 \/ Fetched
      <4>1. pc \in Asking /\ stack = << >> /\ Ok /\ Answered # Nothing
        BY <3>2 DEF Flushes1, Fetched, Asking
      <4>2. Knows(Answered)
        BY <4>1, AnswerIsStored
      <4> QED
        BY <4>2 DEF Knows
    <3> QED
      BY <2>1, <3>1, <3>2
  <2> QED
    BY <1>2, <1>3, <2>2
<1> QED
  BY <1>4, <1>5

\* Every step keeps what is known of the slot.
LEMMA TokensNext ==
  ASSUME Shape, Events, Fetches, Ahead, NoTokens, Tokens, Steps
  PROVE  Tokens'
BY TokensReads, TokensExecutes, TokensArrives, TokensOthers DEF Steps

-----------------------------------------------------------------------------
(* The inductive invariant, and that indications are exact. *)

Reports0 == Events /\ Erasing /\ Fetches /\ Ahead /\ Paired /\ Balanced /\ NoTokens /\ Tokens
Base     == Shape /\ Reports0

\* Only a message of which nothing is reported any more is erased.
LEMMA FlushesSilent ==
  ASSUME Shape, Tokens
  PROVE  ToErase
<1> SUFFICES ASSUME Flushes1 PROVE Silent(slot)
  BY DEF ToErase
<1>1. pc \in Asking /\ stack = << >> /\ Ok /\ Answered # Nothing
  BY DEF Flushes1, Asking
<1>2. /\ Answered \in Message /\ store[slot] = Answered /\ ~Seen(Of(Answered))
  BY <1>1, AnswerIsStored DEF Knows
<1> QED
  BY <1>1, <1>2 DEF Silent

\* Every step keeps the events exact.
LEMMA EventsNext ==
  ASSUME Shape, Events, Erasing, Steps
  PROVE  Events'
BY EventsStays, EventsArrives

\* Every step keeps the invariant, and is one of the steps above.
LEMMA BaseNext ==
  ASSUME Base, [Next]_vars
  PROVE  Base' /\ Steps
<1>1. Shape /\ Events /\ Erasing /\ Fetches /\ Ahead /\ Paired /\ Balanced /\ NoTokens /\ Tokens
  BY DEF Base, Reports0
<1>2. Steps /\ Shape'
  BY <1>1, ShapeNext
<1>3. Events' /\ Erasing' /\ Fetches' /\ Ahead'
  BY <1>1, <1>2, EventsNext, ErasingNext, FetchesNext, AheadNext, FlushesSilent
<1>4. Paired' /\ Balanced' /\ NoTokens' /\ Tokens'
  BY <1>1, <1>2, PairedNext, BalancedNext, NoTokensNext, TokensNext
<1> QED
  BY <1>2, <1>3, <1>4 DEF Base, Reports0

\* The invariant at the start.
LEMMA BaseInit ==
  ASSUME Init
  PROVE  Base
<1>1. Shape /\ Events /\ Erasing
  BY ShapeInit, EventsInit
<1>2. /\ Stream = << >> /\ todo = << >> /\ entering = At!NotEntering /\ stack = << >> /\ pc = "open"
  BY StreamInit DEF Init, At!AtInit
<1>3. ~Some(Stream, Tok) /\ \A K : ~Some(todo, K)
  BY <1>2, NoneEmpty
<1>4. Fetches /\ Ahead /\ Tokens
  BY <1>2, <1>3 DEF Fetches, Fetching, Ahead, Erases, Tokens, Asking
<1>5. Paired /\ NoTokens
  BY <1>2, <1>3, OrderEmpty DEF Paired, NoTokens
<1>6. Balanced
  <2>1. Count(Stream, Finals) = 0
    <3>1. ~Some(Stream, Finals)
      BY <1>2, NoneEmpty
    <3> QED
      BY <3>1, CountNone DEF Some
  <2>2. Entering = 0
    BY <1>2 DEF Entering, At!NotEntering
  <2>3. Len(todo) = 0 /\ Len(stack) = 0
    BY <1>2
  <2> QED
    BY <2>1, <2>2, <2>3 DEF Balanced
<1> QED
  BY <1>1, <1>4, <1>5, <1>6 DEF Base, Reports0

\* The inductive invariant: the types and places of Shape; an event is reported
\* once, and as long as it is, its slot holds its message; a slot is erased, fetched
\* or flushed only when nothing is reported of its message; and what the daemon
\* will take for the content of a slot is what the slot holds.
THEOREM BaseAlways == Spec => []Base
<1>1. Init => Base
  BY BaseInit
<1>2. Base /\ [Next]_vars => Base'
  BY BaseNext
<1> QED
  BY <1>1, <1>2, PTL DEF Spec

\* The invariant in the words of the property.
LEMMA BaseExact ==
  ASSUME Base
  PROVE  IndicationExact
<1> SUFFICES ASSUME NEW e \in Lines \cup Queued, e \notin Direct
             PROVE  store[e.index - 1] = e.msg
  BY DEF IndicationExact
<1>1. Stream \in Seq(LineType) /\ received \in Seq(Event) /\ Events
  BY DEF Base, Reports0, Shape, Core, LineTypes
<1>2. /\ DOMAIN Stream = 1..Len(Stream) /\ \A j \in 1..Len(Stream) : Stream[j] \in LineType
      /\ DOMAIN received = 1..Len(received) /\ \A j \in 1..Len(received) : received[j] \in Event
  BY <1>1, LenProperties, ElementOfSeq
<1>3. e \in Event /\ (Some(Stream, Reporting({e})) \/ Some(received, {e}))
  <2>1. CASE e \in Lines
    <3>1. PICK j \in 1..Len(Stream) : Stream[j].kind = "event" /\ e = Stream[j].of
      BY <2>1, StreamLines DEF Base, Shape
    <3>2. Stream[j] \in Reporting({e}) /\ e \in Event
      BY <1>2, <3>1, LineFacts DEF Reporting
    <3> QED
      BY <3>2 DEF Some
  <2>2. CASE e \in Queued
    <3>1. PICK j \in 1..Len(received) : e = received[j]
      BY <1>2, <2>2 DEF Queued, ToSet
    <3> QED
      BY <1>2, <3>1 DEF Some
  <2> QED
    BY <2>1, <2>2
<1>4. e.msg \in Message /\ e.index - 1 \in Slot /\ e.index - 1 + 1 = e.index
  BY <1>3, EventFacts, NothingFacts DEF Event
<1> DEFINE m == e.msg
           i == e.index - 1
<1>5. {e} \subseteq Pointing(m, i)
  BY <1>3, <1>4 DEF Pointing
<1>6. Seen({e})
  BY <1>3 DEF Seen
<1>7. Seen(Pointing(m, i))
  BY <1>5, <1>6, SeenMore
<1> HIDE DEF m, i
<1>8. store[i] = m
  BY <1>1, <1>4, <1>7 DEF Events, m, i
<1> QED
  BY <1>8 DEF m, i

\* An indication that waits in the line or in newMessages still describes its slot
\* (gsmsmsd.cc: SMSReceptionIndication, the main loop, the flush; GsmEvent::dispatch()),
\* for any numbers of messages, slots and files, any options and any refusals.
THEOREM IndicationExactAlways == Spec => []IndicationExact
<1>1. Base => IndicationExact
  BY BaseExact
<1> QED
  BY <1>1, BaseAlways, PTL

-----------------------------------------------------------------------------
(* No message is given to the action twice. *)

\* The message the daemon works on: it is on its way from its slot, or from
\* newMessages, to the action.
Working(m) == \/ pc \in {"erased", "act"} /\ text = m
              \/ pc \in Fetching /\ store[slot] = m
Did(m)  == Some(flushed, {m}) \/ Some(dispatched, {m})
Once ==
  /\ \A m \in Message : /\ Single(flushed, {m}) /\ Single(dispatched, {m})
                        /\ ~(Some(flushed, {m}) /\ Some(dispatched, {m}))
                        /\ Did(m) \/ Working(m) => m <= arrived /\ ~Seen(Of(m))
                        /\ ~(Did(m) /\ Working(m))
  /\ pc \in Flushing => \A i \in Slot : i >= From => ~Some(flushed, {store[i]})

\* A message that the daemon works on was worked on before, or has just been
\* taken out of newMessages.
LEMMA WorkingSteps ==
  ASSUME Base, Steps, NEW m \in Message, Working(m)'
  PROVE  \/ Working(m) /\ ~Dispatched1 /\ ~Pops
         \/ /\ Pops /\ received # << >> /\ received \in Seq(Event) /\ Head(received) \in Of(m)
<1>0. Shape /\ Events /\ Erasing /\ Fetches /\ Tokens
  BY DEF Base, Reports0
<1>1. pc' \in Fetching \cup {"erased", "act"}
  BY DEF Working
<1>2. ~Dispatched1
  BY <1>1 DEF Dispatched1, Fetching
<1>3. ASSUME Pops PROVE received # << >> /\ received \in Seq(Event) /\ Head(received) \in Of(m)
  <2> DEFINE e == Head(received)
  <2>1. received # << >> /\ received \in Seq(Event) /\ e \in Event
    BY <1>0, <1>3, Shrunk DEF Pops, Shape, Core, LineTypes
  <2>2. CASE e \in Direct /\ pc' = "act" /\ text' = e.msg
    <3>1. e.msg = m
      BY <2>2 DEF Working, Fetching
    <3> QED
      BY <2>1, <3>1 DEF Of
  <2>3. CASE e \notin Direct /\ pc' = "open store" /\ slot' = e.index - 1
    <3>1. e.msg \in Message /\ e.index - 1 \in Slot /\ e.index - 1 + 1 = e.index
      <4>1. e.msg \in Message /\ e.index \in 0..Slots
        BY <2>1 DEF Event
      <4>2. e.index - 1 \in Slot
        BY <2>1, <2>3, EventFacts
      <4> QED
        BY <4>1, <4>2
    <3>2. ASSUME NEW n \in Message, n = e.msg, NEW i \in Slot, i = e.index - 1 PROVE store[i] = n
      <4>1. e \in Pointing(n, i)
        BY <2>1, <3>1, <3>2 DEF Pointing
      <4>2. Seen(Pointing(n, i))
        BY <2>1, <4>1, SomeTail DEF Seen
      <4> QED
        BY <1>0, <4>2 DEF Events
    <3>3. store[e.index - 1] = e.msg
      BY <3>1, <3>2
    <3>4. store'[slot'] = m
      BY <2>3 DEF Working
    <3>5. store' = store
      BY <1>3 DEF Pops, Around0
    <3>6. e.msg = m
      BY <2>3, <3>3, <3>4, <3>5
    <3> QED
      BY <2>1, <3>6 DEF Of
  <2> QED
    BY <1>3, <2>1, <2>2, <2>3 DEF Pops
<1>4. ASSUME ~Pops, pc' \in Fetching PROVE Working(m)
  <2>1. pc \in Fetching /\ slot' = slot /\ slot \in Slot
    BY <1>0, <1>4, FetchesSteps
  <2>2. Silent(slot) /\ ~Erases(slot)
    BY <1>0, <2>1 DEF Fetches
  <2>3. Executing => Head(todo) # Cmgd(slot)
    BY <1>0, <2>1, <2>2, ErasesSteps
  <2>4. store'[slot] = store[slot]
    BY <1>0, <2>1, <2>2, <2>3, StoreKept DEF Silent
  <2>5. store'[slot'] = m
    BY <1>4 DEF Working, Fetching
  <2> QED
    BY <2>1, <2>4, <2>5 DEF Working
<1>5. ASSUME ~Pops, pc' \in {"erased", "act"} PROVE Working(m)
  <2>1. text' = m
    BY <1>5 DEF Working, Fetching
  <2>2. CASE Reading \/ Expiring \/ Executing \/ Arriving \/ Idles
    <3>1. pc' = pc /\ text' = text
      BY <2>2 DEF Reading, Expiring, Executing, Arriving, Idles, Stays
    <3> QED
      BY <1>5, <2>1, <3>1 DEF Working
  <2>3. CASE Moves
    BY <1>5, <2>1, <2>3 DEF Moves, Onward, Working
  <2>4. CASE Fetched
    <3>1. pc \in Asking /\ stack = << >> /\ Ok /\ Answered # Nothing /\ pc \in Fetching /\ text' = Answered
      BY <2>4 DEF Fetched, Asking, Fetching
    <3>2. store[slot] = m
      BY <1>0, <2>1, <3>1, AnswerIsStored
    <3> QED
      BY <3>1, <3>2 DEF Working
  <2>5. CASE Asks \/ SkipsEmpty \/ Flushes1 \/ Advances \/ Dispatched1 \/ Listens
    BY <1>5, <2>5 DEF Asks, SkipsEmpty, Flushes1, Advances, Dispatched1, Listens
  <2> QED
    BY <1>5, <2>2, <2>3, <2>4, <2>5 DEF Steps, OtherSteps
<1>6. ~Pops => Working(m)
  BY <1>1, <1>4, <1>5
<1> QED
  BY <1>2, <1>3, <1>6

\* What is given to the action, and when.
LEMMA ActsSteps ==
  ASSUME Base, Steps
  PROVE  \/ flushed' = flushed /\ dispatched' = dispatched
         \/ /\ Flushes1 /\ dispatched' = dispatched /\ dispatched = << >> /\ pc = "flushRead" /\ slot \in Slot
            /\ \E m \in Message : /\ flushed' = Append(flushed, m) /\ store[slot] = m /\ ~Seen(Of(m))
                                  /\ \A n : ~Working(n)'
         \/ /\ Dispatched1 /\ flushed' = flushed
            /\ \E m \in Message : dispatched' = Append(dispatched, m) /\ Working(m) /\ \A n : ~Working(n)'
<1>0. Shape /\ Tokens
  BY DEF Base, Reports0
<1>1. CASE Reading \/ Expiring \/ Executing \/ Arriving \/ Idles
  BY <1>1 DEF Reading, Expiring, Executing, Arriving, Idles, Stays
<1>2. CASE Moves \/ Asks \/ SkipsEmpty \/ Advances \/ Fetched \/ Listens \/ Pops
  BY <1>2 DEF Moves, Asks, SkipsEmpty, Advances, Fetched, Listens, Pops, Acts0
<1>3. CASE Flushes1
  <2>1. pc \in Asking /\ stack = << >> /\ Ok /\ Answered # Nothing /\ pc = "flushRead"
        /\ flushed' = Append(flushed, Answered) /\ dispatched' = dispatched /\ pc' = "flushErased"
    BY <1>3 DEF Flushes1, Asking
  <2>2. Answered \in Message /\ store[slot] = Answered /\ ~Seen(Of(Answered))
    BY <1>0, <2>1, AnswerIsStored DEF Knows
  <2>3. dispatched = << >> /\ slot \in Slot
    BY <1>0, <2>1 DEF Shape, Core, Places, Starting
  <2>4. \A n : ~Working(n)'
    BY <2>1 DEF Working, Fetching
  <2> QED
    BY <1>3, <2>1, <2>2, <2>3, <2>4
<1>4. CASE Dispatched1
  <2>1. pc = "act" /\ pc' = "drain" /\ flushed' = flushed /\ dispatched' = Append(dispatched, text)
    BY <1>4 DEF Dispatched1
  <2>2. text \in Message
    BY <1>0, <2>1 DEF Shape, Core, Places
  <2>3. Working(text) /\ \A n : ~Working(n)'
    BY <2>1 DEF Working, Fetching
  <2> QED
    BY <1>4, <2>1, <2>2, <2>3
<1> QED
  BY <1>1, <1>2, <1>3, <1>4 DEF Steps, OtherSteps

\* A message that was given to the action, or is worked on, is reported no
\* more.
LEMMA WorkedUnseen ==
  ASSUME Base, Once, Steps, NEW m \in Message, Did(m)' \/ Working(m)'
  PROVE  /\ m <= arrived' /\ ~Seen(Of(m))'
         /\ Did(m)' => Did(m) \/ (Flushes1 /\ store[slot] = m) \/ (Dispatched1 /\ Working(m))
<1>0. Shape /\ Events
  BY DEF Base, Reports0
<1>1. flushed \in Seq(Message) /\ dispatched \in Seq(Message) /\ arrived \in Nat
  BY <1>0, NothingFacts DEF Shape, Core, World
<1>2. \/ flushed' = flushed /\ dispatched' = dispatched
      \/ /\ Flushes1 /\ dispatched' = dispatched /\ slot \in Slot
         /\ \E n \in Message : flushed' = Append(flushed, n) /\ store[slot] = n /\ ~Seen(Of(n))
      \/ /\ Dispatched1 /\ flushed' = flushed
         /\ \E n \in Message : dispatched' = Append(dispatched, n) /\ Working(n)
  BY ActsSteps
<1>3. Did(m)' => Did(m) \/ (Flushes1 /\ store[slot] = m /\ slot \in Slot /\ ~Seen(Of(m))) \/ (Dispatched1 /\ Working(m))
  <2>1. CASE flushed' = flushed /\ dispatched' = dispatched
    BY <2>1 DEF Did
  <2>2. ASSUME Flushes1, dispatched' = dispatched, slot \in Slot,
               NEW n \in Message, flushed' = Append(flushed, n), store[slot] = n, ~Seen(Of(n))
        PROVE  Did(m)' => Did(m) \/ (Flushes1 /\ store[slot] = m /\ slot \in Slot /\ ~Seen(Of(m)))
    <3>1. CASE n = m
      BY <2>2, <3>1
    <3>2. CASE n # m
      <4>1. n \notin {m}
        BY <3>2
      <4> QED
        BY <1>1, <2>2, <4>1, SomeAppend DEF Did
    <3> QED
      BY <3>1, <3>2
  <2>3. ASSUME Dispatched1, flushed' = flushed, NEW n \in Message, dispatched' = Append(dispatched, n), Working(n)
        PROVE  Did(m)' => Did(m) \/ (Dispatched1 /\ Working(m))
    <3>1. CASE n = m
      BY <2>3, <3>1
    <3>2. CASE n # m
      <4>1. n \notin {m}
        BY <3>2
      <4> QED
        BY <1>1, <2>3, <4>1, SomeAppend DEF Did
    <3> QED
      BY <3>1, <3>2
  <2> QED
    BY <1>2, <2>1, <2>2, <2>3
<1>4. arrived' \in Nat /\ arrived <= arrived'
  BY <1>0, <1>1, ArrivedSteps
<1>5. ASSUME m <= arrived, ~Seen(Of(m)) PROVE m <= arrived' /\ ~Seen(Of(m))'
  <2>1. ~Seen(Of(m))'
    BY <1>0, <1>5, OldUnseen
  <2>2. m \in Int
    BY DEF Message
  <2> QED
    BY <1>1, <1>4, <1>5, <2>1, <2>2
<1>6. CASE Did(m) \/ Working(m)
  BY <1>3, <1>5, <1>6 DEF Once
<1>7. CASE Flushes1 /\ store[slot] = m /\ slot \in Slot /\ ~Seen(Of(m))
  <2>1. m <= arrived
    BY <1>0, <1>7, NothingFacts DEF Events
  <2> QED
    BY <1>3, <1>5, <1>7, <2>1
<1>8. CASE Pops /\ received # << >> /\ received \in Seq(Event) /\ Head(received) \in Of(m)
  <2>1. Seen(Of(m))
    BY <1>8, SomeTail DEF Seen
  <2>2. m <= arrived /\ Unique(Of(m)) /\ Of(m) \in SUBSET Event /\ Of(m)' = Of(m)
    BY <1>0, <2>1 DEF Events, Of
  <2>3. OtherSteps
    BY <1>8 DEF OtherSteps
  <2>4. ~Seen(Of(m))'
    BY <1>0, <1>8, <2>2, <2>3, OthersSeen
  <2>5. m \in Int
    BY DEF Message
  <2> QED
    BY <1>1, <1>3, <1>4, <2>2, <2>4, <2>5
<1> QED
  BY <1>3, <1>6, <1>7, <1>8, WorkingSteps

\* Every step keeps Once.
LEMMA OnceNext ==
  ASSUME Base, Base', Once, Steps
  PROVE  Once'
<1>0. Shape /\ Events /\ Tokens /\ Shape' /\ Events'
  BY DEF Base, Reports0
<1>1. flushed \in Seq(Message) /\ dispatched \in Seq(Message) /\ arrived \in Nat
      /\ flushed' \in Seq(Message) /\ dispatched' \in Seq(Message)
  BY <1>0, NothingFacts DEF Shape, Core, World
<1>2. \/ flushed' = flushed /\ dispatched' = dispatched
      \/ /\ Flushes1 /\ dispatched' = dispatched /\ dispatched = << >> /\ pc = "flushRead" /\ slot \in Slot
         /\ \E n \in Message : /\ flushed' = Append(flushed, n) /\ store[slot] = n
                               /\ \A k : ~Working(k)'
      \/ /\ Dispatched1 /\ flushed' = flushed
         /\ \E n \in Message : dispatched' = Append(dispatched, n) /\ Working(n) /\ \A k : ~Working(k)'
  BY ActsSteps
<1>3. pc = "flushRead" /\ slot \in Slot => ~Some(flushed, {store[slot]})
  <2> SUFFICES ASSUME pc = "flushRead", slot \in Slot PROVE ~Some(flushed, {store[slot]})
    OBVIOUS
  <2>1. slot >= From
    BY NumberFacts DEF From
  <2> QED
    BY <2>1 DEF Once, Flushing
<1>4. ASSUME NEW m \in Message
      PROVE  /\ Single(flushed', {m}) /\ Single(dispatched', {m})
             /\ ~(Some(flushed', {m}) /\ Some(dispatched', {m}))
             /\ Did(m)' \/ Working(m)' => m <= arrived' /\ ~Seen(Of(m))'
             /\ ~(Did(m)' /\ Working(m)')
  <2>1. /\ Single(flushed, {m}) /\ Single(dispatched, {m})
        /\ ~(Some(flushed, {m}) /\ Some(dispatched, {m}))
        /\ Did(m) \/ Working(m) => m <= arrived /\ ~Seen(Of(m))
        /\ ~(Did(m) /\ Working(m))
    BY DEF Once
  <2>2. Did(m)' \/ Working(m)' => m <= arrived' /\ ~Seen(Of(m))'
    BY WorkedUnseen
  <2>3. CASE flushed' = flushed /\ dispatched' = dispatched
    <3>1. Did(m)' => Did(m)
      BY <2>3 DEF Did
    <3>2. Pops /\ received # << >> /\ received \in Seq(Event) /\ Head(received) \in Of(m) => ~Did(m)
      BY <2>1, SomeTail DEF Seen
    <3>3. ~(Did(m)' /\ Working(m)')
      BY <2>1, <3>1, <3>2, WorkingSteps
    <3> QED
      BY <2>1, <2>2, <2>3, <3>3
  <2>4. ASSUME Flushes1, dispatched' = dispatched, dispatched = << >>, pc = "flushRead", slot \in Slot,
               NEW n \in Message, flushed' = Append(flushed, n), store[slot] = n, \A k : ~Working(k)'
        PROVE  /\ Single(flushed', {m}) /\ Single(dispatched', {m})
               /\ ~(Some(flushed', {m}) /\ Some(dispatched', {m}))
               /\ ~(Did(m)' /\ Working(m)')
    <3>1. n = m => ~Some(flushed, {m})
      BY <1>3, <2>4
    <3>2. Single(flushed', {m})
      <4>1. n \notin {m} \/ ~Some(flushed, {m})
        BY <3>1
      <4> QED
        BY <1>1, <2>1, <2>4, <4>1, SomeAppend
    <3>3. ~Some(dispatched', {m}) /\ Single(dispatched', {m})
      BY <2>4, NoneEmpty
    <3> QED
      BY <2>4, <3>2, <3>3
  <2>5. ASSUME Dispatched1, flushed' = flushed, NEW n \in Message, dispatched' = Append(dispatched, n),
               Working(n), \A k : ~Working(k)'
        PROVE  /\ Single(flushed', {m}) /\ Single(dispatched', {m})
               /\ ~(Some(flushed', {m}) /\ Some(dispatched', {m}))
               /\ ~(Did(m)' /\ Working(m)')
    <3>1. CASE n = m
      <4>1. ~Some(flushed, {m}) /\ ~Some(dispatched, {m})
        BY <2>1, <2>5, <3>1 DEF Did
      <4> QED
        BY <1>1, <2>1, <2>5, <4>1, SomeAppend
    <3>2. CASE n # m
      <4>1. n \notin {m}
        BY <3>2
      <4>2. Single(dispatched', {m}) /\ (Some(dispatched', {m}) => Some(dispatched, {m}))
        BY <1>1, <2>1, <2>5, <4>1, SomeAppend
      <4> QED
        BY <2>1, <2>5, <4>2
    <3> QED
      BY <3>1, <3>2
  <2> QED
    BY <1>2, <2>2, <2>3, <2>4, <2>5
<1>5. ASSUME pc' \in Flushing, NEW i \in Slot, i >= From' PROVE ~Some(flushed', {store'[i]})
  <2>1. /\ pc \in Flushing /\ slot \in Nat /\ i \in Nat
        /\ \/ slot' = slot /\ (pc' = "flushErased" <=> pc = "flushErased") /\ ~Flushes1
           \/ slot' = slot + 1 /\ pc' = "flush" /\ pc = "flushRead" /\ ~Flushes1
           \/ Flushes1 /\ slot' = slot /\ pc' = "flushErased" /\ pc = "flushRead"
           \/ slot' = slot + 1 /\ pc' = "flush" /\ pc = "flushErased" /\ ~Flushes1
    BY <1>0, <1>5, FlushSteps, NothingFacts DEF Shape, Core, Places, Slot
  <2>2. i >= From /\ (Flushes1 => i # slot)
    BY <1>5, <2>1 DEF From
  <2>3. ~Some(flushed, {store[i]})
    BY <2>1, <2>2 DEF Once
  <2>4. ~Some(flushed, {Nothing})
    BY <1>1, NothingFacts, ElementOfSeq DEF Some
  <2>5. Arriving => ~Some(flushed, {arrived + 1})
    <3>1. Arriving => arrived + 1 \in Message /\ ~(arrived + 1 <= arrived)
      BY <1>1, NothingFacts DEF Arriving, Message
    <3> QED
      BY <3>1 DEF Once, Did
  <2>6. ~Some(flushed, {store'[i]})
    <3>1. store \in [Slot -> Message \cup {Nothing}]
      BY <1>0 DEF Shape, Core, World
    <3>2. ASSUME NEW j \in Slot, ComesTo(j), Arriving PROVE ~Some(flushed, {store'[i]})
      <4>1. store'[i] = store[i] \/ store'[i] = arrived + 1
        BY <3>1, <3>2 DEF ComesTo
      <4> QED
        BY <2>3, <2>5, <3>2, <4>1
    <3>3. ASSUME NEW j \in Slot, store' = [store EXCEPT ![j] = Nothing] PROVE ~Some(flushed, {store'[i]})
      <4>1. store'[i] = store[i] \/ store'[i] = Nothing
        BY <3>1, <3>3
      <4> QED
        BY <2>3, <2>4, <4>1
    <3> QED
      BY <1>0, <2>3, <3>2, <3>3, StoreSteps
  <2>7. CASE flushed' = flushed
    BY <2>6, <2>7
  <2>8. ASSUME Flushes1, slot \in Slot, NEW n \in Message, flushed' = Append(flushed, n), store[slot] = n
        PROVE  ~Some(flushed', {store'[i]})
    <3>1. store' = store /\ i # slot /\ n # Nothing
      BY <2>2, <2>8, NothingFacts DEF Flushes1, Around0
    <3>2. n \notin {store'[i]}
      BY <1>0, <2>8, <3>1 DEF Events
    <3> QED
      BY <1>1, <2>6, <2>8, <3>2, SomeAppend
  <2> QED
    BY <1>2, <2>7, <2>8
<1> QED
  BY <1>4, <1>5 DEF Once

\* Once at the start.
LEMMA OnceInit ==
  ASSUME Init
  PROVE  Once
<1>1. flushed = << >> /\ dispatched = << >> /\ pc = "open"
  BY DEF Init
<1>2. \A K : ~Some(flushed, K) /\ ~Some(dispatched, K) /\ Single(flushed, K) /\ Single(dispatched, K)
  BY <1>1, NoneEmpty
<1>3. \A m : ~Did(m) /\ ~Working(m)
  BY <1>1, <1>2 DEF Did, Working, Fetching
<1> QED
  BY <1>2, <1>3 DEF Once

\* Where there is not more than one thing, one is counted at most.
LEMMA CountSingle ==
  ASSUME NEW s, NEW T, Single(s, T)
  PROVE  Count(s, T) \in {0, 1} /\ (Count(s, T) = 1 => Some(s, T))
<1>1. CASE Some(s, T)
  <2>1. PICK p \in 1..Len(s) : s[p] \in T
    BY <1>1 DEF Some
  <2>2. Where(s, T) = {p}
    BY <2>1 DEF Single, Where
  <2> QED
    BY <1>1, <2>2, FS_Singleton DEF Count
<1>2. CASE ~Some(s, T)
  BY <1>2, CountNone DEF Some
<1> QED
  BY <1>1, <1>2

\* Once in the words of the property.
LEMMA OnceOnce ==
  ASSUME Base, Once
  PROVE  DispatchedOnce
<1> SUFFICES ASSUME NEW m \in Message
             PROVE  Cardinality({i \in DOMAIN flushed : flushed[i] = m})
                    + Cardinality({i \in DOMAIN dispatched : dispatched[i] = m}) <= 1
  BY DEF DispatchedOnce
<1>1. flushed \in Seq(Message) /\ dispatched \in Seq(Message)
  BY DEF Base, Shape, Core, World
<1>2. DOMAIN flushed = 1..Len(flushed) /\ DOMAIN dispatched = 1..Len(dispatched)
  BY <1>1, LenProperties
<1>3. /\ {i \in DOMAIN flushed : flushed[i] = m} = Where(flushed, {m})
      /\ {i \in DOMAIN dispatched : dispatched[i] = m} = Where(dispatched, {m})
  BY <1>2 DEF Where
<1>4. /\ Count(flushed, {m}) \in {0, 1} /\ (Count(flushed, {m}) = 1 => Some(flushed, {m}))
      /\ Count(dispatched, {m}) \in {0, 1} /\ (Count(dispatched, {m}) = 1 => Some(dispatched, {m}))
  BY CountSingle DEF Once
<1>5. ~(Some(flushed, {m}) /\ Some(dispatched, {m}))
  BY DEF Once
<1>6. Count(flushed, {m}) + Count(dispatched, {m}) <= 1
  BY <1>4, <1>5
<1> QED
  BY <1>3, <1>6 DEF Count

-----------------------------------------------------------------------------
(* The order in which messages are given to the action. *)

\* Messages are reported, and then worked on, and then given to the action,
\* in the order in which they arrived.
Reported(m, n) ==
  /\ Before(Stream, Reporting(Of(m)), Reporting(Of(n)))
  /\ Before(received, Of(m), Of(n))
  /\ ~(Some(received, Of(n)) /\ Some(Stream, Reporting(Of(m))))
Served(m, n) ==
  /\ Before(dispatched, {m}, {n})
  /\ ~(Some(dispatched, {n}) /\ (Working(m) \/ Seen(Of(m))))
  /\ ~(Working(n) /\ Seen(Of(m)))
Order == ~sendAck => \A m, n \in Message : m < n => Reported(m, n) /\ Served(m, n)

\* Without acknowledgements no event waits in a call.
LEMMA NoneWaits ==
  ASSUME Shape, ~sendAck, NEW m \in Message
  PROVE  ~Some(stack, Waiting(Of(m)))
<1>1. stack \in Seq(FrameType) /\ Calls /\ Len(stack) <= 1
  BY DEF Shape, Core, LineTypes, Places
<1> DEFINE n == Len(stack)
<1>2. n \in Nat /\ n <= 1
  BY <1>1, LenProperties
<1>3. \A p \in 1..n : FrameOK(stack[p], p)
  BY <1>1 DEF Calls
<1>4. Nothing \notin Of(m)
  BY NothingFacts DEF Of
<1>5. \A p \in 1..n : stack[p] \notin Waiting(Of(m))
  <2> TAKE p \in 1..n
  <2> HIDE DEF n
  <2>1. p = 1
    BY <1>2
  <2>2. stack[p].event = Nothing
    BY <1>3, <2>1 DEF FrameOK
  <2> QED
    BY <1>4, <2>2 DEF Waiting
<1> QED
  BY <1>5 DEF Some

\* The lines that are no events.
\* What the TA executes puts no event into the line.
LEMMA AddsPlain ==
  ASSUME Shape, Executing
  PROVE  Added(Answers0)
<1>1. ASSUME NEW X, Added(X), X \subseteq Answers0 PROVE Added(Answers0)
  BY <1>1 DEF Added
<1>2. \A c, K : Answering(c) \subseteq Answers0 /\ Answering(c) \ K \subseteq Answers0
  BY DEF Answering, Answers0
<1>3. Stream' = Stream => Added(Answers0)
  BY DEF Added
<1>4. \/ Stream' = Stream
      \/ \E c, K : Added(Answering(c)) \/ Added(Answering(c) \ K)
  BY ExecutesAdds
<1> QED
  BY <1>1, <1>2, <1>3, <1>4

\* What becomes of the line and of newMessages: without acknowledgements an
\* event goes from the one to the other, and only the one that arrives is new.
LEMMA EventsMove ==
  ASSUME Shape, Shape', Steps, ~sendAck
  PROVE  /\ Stream \in Seq(LineType) /\ received \in Seq(Event)
         /\ \/ Stream' = Stream /\ received' = received
            \/ Stream' = << >> /\ received' = received
            \/ Stream # << >> /\ Stream' = Tail(Stream) /\ received' = received
            \/ /\ Stream # << >> /\ Stream' = Tail(Stream) /\ Head(Stream) \in LineType /\ Head(Stream).kind = "event"
               /\ Head(Stream).of \in Event /\ received' = Append(received, Head(Stream).of)
            \/ /\ Pops /\ received # << >> /\ Stream' = Stream /\ received' = Tail(received)
            \/ Added(Answers0) /\ received' = received
            \/ /\ Arriving /\ received' = received
               /\ \E x \in LineType : x.kind = "event" /\ x.of.msg = arrived + 1 /\ Inserts(x)
<1>1. Stream \in Seq(LineType) /\ received \in Seq(Event) /\ LineTypes /\ Calls /\ Len(stack) <= 1
  BY DEF Shape, Core, LineTypes, Places
<1>2. ASSUME Reading
      PROVE  /\ Stream # << >> /\ Stream' = Tail(Stream) /\ Head(Stream) \in LineType
             /\ \/ received' = received
                \/ /\ Head(Stream).kind = "event" /\ Head(Stream).of \in Event
                   /\ received' = Append(received, Head(Stream).of)
  <2>1. /\ Stream # << >> /\ Stream' = Tail(Stream) /\ Head(Stream) \in LineType /\ Reads(Head(Stream))
    BY <1>2 DEF Reading
  <2>2. Head(Stream).kind = "event" => Head(Stream).of \in Event
    BY <2>1, LineFacts
  <2>3. ~ReturnsInner
    <3>1. Len(stack) \in Nat
      BY <1>1, LenProperties DEF LineTypes
    <3> DEFINE n == Len(stack)
    <3> HIDE DEF n
    <3>2. ~(n > 1)
      BY <1>1, <3>1 DEF n
    <3> QED
      BY <3>2 DEF ReturnsInner, n
  <2>4. \A e : ~Nests(e)
    BY DEF Nests
  <2>5. \A e : HandsOver(e) => received' = received \/ received' = Append(received, e)
    BY DEF HandsOver, At!Handed
  <2>6. Throws \/ ReturnsLast \/ (\E x : Keeps(x)) \/ Continues \/ (\E s : Resends(s)) => received' = received
    BY DEF Throws, ReturnsLast, Keeps, Continues, Resends, Goeson
  <2> QED
    BY <2>1, <2>2, <2>3, <2>4, <2>5, <2>6 DEF Reads
<1>3. ASSUME Expiring PROVE Stream' = << >> /\ received' = received
  <2>1. Stream' = << >> /\ Expires
    BY <1>3 DEF Expiring
  <2>2. Throws \/ (\E x : Keeps(x)) \/ (\E s : Resends(s)) => received' = received
    BY DEF Throws, Keeps, Resends, Goeson
  <2> QED
    BY <2>1, <2>2 DEF Expires
<1>4. ASSUME Executing PROVE Added(Answers0) /\ received' = received
  BY <1>4, AddsPlain DEF Executing
<1>5. ASSUME Arriving
      PROVE  /\ received' = received
             /\ \/ Stream' = Stream
                \/ \E x \in LineType : x.kind = "event" /\ x.of.msg = arrived + 1 /\ Inserts(x)
  BY <1>5 DEF Arriving, ComesDirectly, ComesTo, Reports
<1>6. ASSUME OtherSteps
      PROVE  \/ Stream' = Stream /\ received' = received
             \/ Pops /\ received # << >> /\ Stream' = Stream /\ received' = Tail(received)
  BY <1>6 DEF OtherSteps, Moves, Asks, SkipsEmpty, Flushes1, Advances, Fetched, Dispatched1,
         Listens, Pops, Rests, Chats
<1>7. Idles => Stream' = Stream /\ received' = received
  BY DEF Idles
<1> QED
  BY <1>1, <1>2, <1>3, <1>4, <1>5, <1>6, <1>7 DEF Steps

\* The events stay in order on their way.
LEMMA ReportedNext ==
  ASSUME Base, Base', Steps, ~sendAck, NEW m \in Message, NEW n \in Message, m < n, Reported(m, n)
  PROVE  Reported(m, n)'
<1> DEFINE A == Reporting(Of(m))
           B == Reporting(Of(n))
           M == Of(m)
           N == Of(n)
<1>1. Shape /\ Shape' /\ Events
  BY DEF Base, Reports0
<1>2. M' = M /\ N' = N /\ A' = A /\ B' = B
  BY DEF Of, Reporting
<1>3. /\ \A e \in Event : e \in M <=> e.msg = m
      /\ \A e \in Event : e \in N <=> e.msg = n
      /\ \A x \in LineType : x.kind = "event" => (x \in A <=> x.of.msg = m) /\ (x \in B <=> x.of.msg = n)
      /\ \A x \in LineType : x.kind # "event" => x \notin A /\ x \notin B
      /\ m # n
  BY LineFacts DEF Of, Reporting, Message
<1>4. (Some(Stream, B) \/ Some(received, N) => n <= arrived) /\ arrived \in Nat
  BY <1>1, NothingFacts DEF Events, Seen, Shape, Core, World
<1>5. Before(Stream, A, B) /\ Before(received, M, N) /\ ~(Some(received, N) /\ Some(Stream, A))
  BY DEF Reported
<1>6. Answers0 \in SUBSET LineType /\ Answers0 \cap A = {} /\ Answers0 \cap B = {}
  BY DEF Answers0, Reporting
<1> HIDE DEF A, B, M, N
<1> DEFINE Good == Before(Stream', A, B) /\ Before(received', M, N) /\ ~(Some(received', N) /\ Some(Stream', A))
<1>7. Stream \in Seq(LineType) /\ received \in Seq(Event)
  BY <1>1, EventsMove
<1>8. ASSUME Stream' = Stream /\ received' = received PROVE Good
  BY <1>5, <1>8
<1>9. ASSUME Stream' = << >> /\ received' = received PROVE Good
  BY <1>5, <1>9, OrderEmpty, NoneEmpty
<1>10. ASSUME Stream # << >> /\ Stream' = Tail(Stream) /\ received' = received PROVE Good
  BY <1>5, <1>7, <1>10, OrderTail, SomeTail
<1>11. ASSUME Stream # << >>, Stream' = Tail(Stream), Head(Stream) \in LineType, Head(Stream).kind = "event",
              Head(Stream).of \in Event, received' = Append(received, Head(Stream).of)
       PROVE  Good
  <2> DEFINE x == Head(Stream)
             e == Head(Stream).of
  <2>1. x \in LineType /\ x.kind = "event" /\ e \in Event /\ e = x.of /\ received' = Append(received, e)
    BY <1>11
  <2>2. (x \in A <=> e \in M) /\ (x \in B <=> e \in N) /\ ~(e \in M /\ e \in N)
    BY <1>3, <2>1
  <2>3. /\ Before(Stream', A, B) /\ (x \in B => ~Some(Stream', A))
        /\ (Some(Stream', A) => Some(Stream, A)) /\ (x \in A => Some(Stream, A))
    BY <1>5, <1>7, <1>11, OrderTail, SomeTail
  <2> HIDE DEF x, e
  <2>4. Before(received', M, N)
    <3>1. e \notin M \/ (e \notin N /\ ~Some(received, N))
      BY <1>5, <2>2, <2>3
    <3> QED
      BY <1>5, <1>7, <2>1, <3>1, OrderAppend
  <2>5. Some(received', N) => Some(received, N) \/ e \in N
    BY <1>7, <2>1, SomeAppend
  <2> QED
    BY <1>5, <2>2, <2>3, <2>4, <2>5
<1>12. ASSUME received # << >> /\ Stream' = Stream /\ received' = Tail(received) PROVE Good
  BY <1>5, <1>7, <1>12, OrderTail, SomeTail
<1>13. ASSUME Added(Answers0) /\ received' = received PROVE Good
  <2>1. /\ Some(Stream', A) <=> Some(Stream, A)
        /\ Before(Stream, A, B) => Before(Stream', A, B)
    <3>1. ASSUME NEW K, Answers0 \cap K = {} PROVE Some(Stream', K) <=> Some(Stream, K)
      BY <1>6, <1>7, <1>13, <3>1, AddedFacts
    <3> QED
      BY <1>6, <1>7, <1>13, <3>1, AddedFacts
  <2> QED
    BY <1>5, <1>13, <2>1
<1>14. ASSUME received' = received, NEW x \in LineType, x.kind = "event", x.of.msg = arrived + 1,
              Inserts(x)
       PROVE  Good
  <2>1. (x \in A <=> m = arrived + 1) /\ (x \in B <=> n = arrived + 1)
    BY <1>3, <1>14
  <2>2. x \in A => ~(n <= arrived) /\ x \notin B
    BY <1>4, <2>1 DEF Message
  <2>3. Before(Stream', A, B)
    <3>1. A \cap Answers0 = {} /\ (x \notin A \/ (x \notin B /\ ~Some(Stream, B)))
      BY <1>4, <1>6, <2>2
    <3> QED
      BY <1>5, <1>14, <3>1, InsertedBehind
  <2>4. Some(Stream', A) => Some(Stream, A) \/ x \in A
    BY <1>14, Inserted
  <2> QED
    BY <1>4, <1>5, <1>14, <2>2, <2>3, <2>4
<1>15. Good
  BY <1>1, <1>8, <1>9, <1>10, <1>11, <1>12, <1>13, <1>14, EventsMove
<1> QED
  BY <1>2, <1>15 DEF Reported, A, B, M, N

\* A message is seen of which something was seen before, or it arrives.
LEMMA SeenSteps ==
  ASSUME Shape, Steps, NEW m \in Message, m <= arrived, Seen(Of(m))'
  PROVE  Seen(Of(m))
  BY OldUnseen

\* They stay in order when they are worked on and given to the action.
LEMMA ServedNext ==
  ASSUME Base, Base', Once, Once', Steps, ~sendAck, ~sendAck', NEW m \in Message, NEW n \in Message, m < n,
         Reported(m, n), Served(m, n)
  PROVE  Served(m, n)'
<1>1. Shape /\ Shape' /\ Events
  BY DEF Base, Reports0
<1>2. /\ m # n /\ (n <= arrived => m <= arrived)
      /\ dispatched \in Seq(Message) /\ arrived \in Nat /\ received \in Seq(Event)
  BY <1>1, NothingFacts DEF Message, Shape, Core, World, LineTypes
<1>3. /\ Before(dispatched, {m}, {n})
      /\ ~(Some(dispatched, {n}) /\ (Working(m) \/ Seen(Of(m))))
      /\ ~(Working(n) /\ Seen(Of(m)))
  BY DEF Served
<1>4. /\ Some(dispatched, {n}) => n <= arrived
      /\ Working(n) => n <= arrived
  BY DEF Once, Did
<1>5. n <= arrived /\ Seen(Of(m))' => Seen(Of(m))
  BY <1>1, <1>2, SeenSteps
<1>6. \A k \in Message : Working(k)' =>
        \/ Working(k) /\ ~Dispatched1 /\ ~Pops
        \/ Pops /\ received # << >> /\ Head(received) \in Of(k) /\ Seen(Of(k))
  <2> SUFFICES ASSUME NEW k \in Message, Working(k)', ~(Working(k) /\ ~Dispatched1 /\ ~Pops)
               PROVE  Pops /\ received # << >> /\ Head(received) \in Of(k) /\ Seen(Of(k))
    OBVIOUS
  <2>1. Pops /\ received # << >> /\ received \in Seq(Event) /\ Head(received) \in Of(k)
    BY WorkingSteps
  <2> QED
    BY <2>1, SomeTail DEF Seen
<1>7. Of(m)' = Of(m) /\ Reporting(Of(m))' = Reporting(Of(m)) /\ Waiting(Of(m))' = Waiting(Of(m))
  BY DEF Of, Reporting, Waiting
<1>8. ~(Working(n)' /\ Seen(Of(m))')
  <2>1. Working(n) => ~Seen(Of(m))'
    BY <1>3, <1>4, <1>5
  <2>2. ASSUME Pops, received # << >>, Head(received) \in Of(n) PROVE ~Seen(Of(m))'
    <3>1. Stream' = Stream /\ received' = Tail(received)
      BY <2>2 DEF Pops
    <3>2. ~Some(Tail(received), Of(m)) /\ Some(received, Of(n))
      BY <1>2, <2>2, OrderTail, SomeTail DEF Reported
    <3>3. ~Some(Stream, Reporting(Of(m)))
      BY <3>2 DEF Reported
    <3>4. ~Some(stack', Waiting(Of(m)))
      <4>1. stack' = << >>
        BY <2>2 DEF Pops
      <4> QED
        BY <4>1, NoneEmpty
    <3> QED
      BY <1>7, <3>1, <3>2, <3>3, <3>4 DEF Seen
  <2> QED
    BY <1>6, <2>1, <2>2
<1>9. \/ dispatched' = dispatched
      \/ /\ Dispatched1
         /\ \E k \in Message : dispatched' = Append(dispatched, k) /\ Working(k) /\ \A i : ~Working(i)'
  BY ActsSteps
<1>10. CASE dispatched' = dispatched
  <2>1. Some(dispatched, {n}) => ~Seen(Of(m))' /\ ~Working(m)'
    BY <1>3, <1>4, <1>5, <1>6
  <2> QED
    BY <1>3, <1>8, <1>10, <2>1 DEF Served
<1>11. ASSUME Dispatched1, NEW k \in Message, dispatched' = Append(dispatched, k), Working(k), \A i : ~Working(i)'
       PROVE  Served(m, n)'
  <2>1. Before(dispatched', {m}, {n})
    <3>1. k \notin {m} \/ (k \notin {n} /\ ~Some(dispatched, {n}))
      BY <1>2, <1>3, <1>11
    <3> QED
      BY <1>2, <1>3, <1>11, <3>1, OrderAppend
  <2>2. Some(dispatched', {n}) => ~Seen(Of(m))'
    <3>1. Some(dispatched', {n}) => Some(dispatched, {n}) \/ Working(n)
      <4>1. k = n \/ k \notin {n}
        OBVIOUS
      <4> QED
        BY <1>2, <1>11, <4>1, SomeAppend
    <3> QED
      BY <1>3, <1>4, <1>5, <3>1
  <2> QED
    BY <1>8, <1>11, <2>1, <2>2 DEF Served
<1> QED
  BY <1>9, <1>10, <1>11

\* Acknowledgements are decided on when the TA is opened.
LEMMA AckStays ==
  ASSUME Steps
  PROVE  sendAck' = sendAck
  BY DEF Steps, Reading, Expiring, Executing, Arriving, OtherSteps, Idles, Same, Moves, Asks, SkipsEmpty,
         Flushes1, Advances, Fetched, Dispatched1, Listens, Pops, Rests, Chats

\* Every step keeps the order.
LEMMA OrderNext ==
  ASSUME Base, Base', Once, Once', Order, Steps
  PROVE  Order'
<1> SUFFICES ASSUME ~sendAck', NEW m \in Message, NEW n \in Message, m < n
             PROVE  Reported(m, n)' /\ Served(m, n)'
  <2>1. Message' = Message
    BY DEF Message
  <2> QED
    BY <2>1 DEF Order
<1>1. ~sendAck
  BY AckStays
<1>2. Reported(m, n) /\ Served(m, n)
  BY <1>1 DEF Order
<1> QED
  BY <1>1, <1>2, ReportedNext, ServedNext

\* The order at the start.
LEMMA OrderInit ==
  ASSUME Init
  PROVE  Order
<1>1. Stream = << >> /\ received = << >> /\ stack = << >> /\ dispatched = << >> /\ pc = "open"
  BY StreamInit DEF Init, At!AtInit
<1>2. \A K : ~Some(Stream, K) /\ ~Some(received, K) /\ ~Some(stack, K) /\ ~Some(dispatched, K)
  BY <1>1, NoneEmpty
<1>3. \A A, B : Before(Stream, A, B) /\ Before(received, A, B) /\ Before(dispatched, A, B)
  BY <1>1, OrderEmpty
<1>4. \A m : ~Seen(Of(m)) /\ ~Working(m)
  BY <1>1, <1>2 DEF Seen, Working, Fetching
<1> QED
  BY <1>2, <1>3, <1>4 DEF Order, Reported, Served

Dispatching == Base /\ Once /\ Order

\* Always no message is given to the action twice, and the messages are
\* reported, worked on and given to the action in the order of their arrival.
THEOREM DispatchingAlways == Spec => []Dispatching
<1>1. Init => Dispatching
  BY BaseInit, OnceInit, OrderInit DEF Dispatching
<1>2. Dispatching /\ [Next]_vars => Dispatching'
  <2> SUFFICES ASSUME Dispatching, [Next]_vars
               PROVE  Dispatching'
    OBVIOUS
  <2>1. Base /\ Once /\ Order
    BY DEF Dispatching
  <2>2. Base' /\ Steps
    BY <2>1, BaseNext
  <2>3. Once'
    BY <2>1, <2>2, OnceNext
  <2>4. Order'
    BY <2>1, <2>2, <2>3, OrderNext
  <2> QED
    BY <2>2, <2>3, <2>4 DEF Dispatching
<1> QED
  BY <1>1, <1>2, PTL DEF Spec

\* The order in the words of the property.
LEMMA OrderInOrder ==
  ASSUME Dispatching
  PROVE  DispatchedInOrder
<1>1. Base /\ Once /\ Order
  BY DEF Dispatching
<1>2. DispatchedOnce
  BY <1>1, OnceOnce
<1> SUFFICES ASSUME ~sendAck, NEW i \in DOMAIN dispatched, NEW j \in DOMAIN dispatched, i < j
             PROVE  dispatched[i] < dispatched[j]
  BY <1>2 DEF DispatchedInOrder
<1>3. /\ i \in 1..Len(dispatched) /\ j \in 1..Len(dispatched)
      /\ dispatched[i] \in Message /\ dispatched[j] \in Message
  <2>1. dispatched \in Seq(Message)
    BY <1>1 DEF Base, Shape, Core, World
  <2> QED
    BY <2>1, LenProperties, ElementOfSeq
<1> DEFINE a == dispatched[i]
           b == dispatched[j]
<1>4. a # b
  <2>1. Single(dispatched, {a})
    BY <1>1, <1>3 DEF Once
  <2> QED
    BY <1>3, <2>1 DEF Single
<1>5. ~(b < a)
  <2> SUFFICES ASSUME b < a PROVE FALSE
    OBVIOUS
  <2>1. Before(dispatched, {b}, {a})
    <3>1. \A m, n \in Message : m < n => Before(dispatched, {m}, {n})
      BY <1>1 DEF Order, Served
    <3> QED
      BY <1>3, <3>1
  <2>2. j < i
    BY <1>3, <2>1 DEF Before
  <2> QED
    BY <1>3, <2>2
<1> HIDE DEF a, b
<1>6. a < b
  BY <1>3, <1>4, <1>5 DEF Message, a, b
<1> QED
  BY <1>6 DEF a, b

\* No message is given to the action twice, not by the flush and again by the main
\* loop, and without acknowledgements the main loop gives them to the action in the
\* order of their arrival (gsmsmsd.cc: newMessages, doAction; GsmAt::getLine()).
THEOREM DispatchedInOrderAlways == Spec => []DispatchedInOrder
<1>1. Dispatching => DispatchedInOrder
  BY OrderInOrder
<1> QED
  BY <1>1, DispatchingAlways, PTL

-----------------------------------------------------------------------------
(* The phases of a call without acknowledgements: what the commands that   *)
(* wait, the line and the call say of each other.                          *)

\* The answers in a line: none; one, of K; two, first one of A and then one
\* of B.
Bare(s)      == ~Some(s, Answers0)
One(s, K)    == Single(s, Answers0) /\ Some(s, K) /\ ~Some(s, Answers0 \ K)
Two(s, A, B) == /\ Some(s, A) /\ Some(s, B) /\ ~Some(s, Answers0 \ (A \cup B))
                /\ Single(s, A) /\ Single(s, B) /\ Before(s, A, B)

\* An event at the front, or an answer.
LEMMA FrontEvent ==
  ASSUME NEW s \in Seq(LineType), s # << >>, Head(s).kind = "event",
         NEW K \in SUBSET Answers0, NEW A \in SUBSET Answers0, NEW B \in SUBSET Answers0
  PROVE  /\ Bare(s) => Bare(Tail(s))
         /\ One(s, K) => One(Tail(s), K)
         /\ Two(s, A, B) => Two(Tail(s), A, B)
<1>1. \A T : T \subseteq Answers0 => Head(s) \notin T
  BY DEF Answers0
<1>2. ASSUME NEW T, T \subseteq Answers0
      PROVE  (Some(Tail(s), T) <=> Some(s, T)) /\ (Single(s, T) => Single(Tail(s), T))
  BY <1>1, <1>2, SomeTail
<1>3. Before(s, A, B) => Before(Tail(s), A, B)
  BY OrderTail
<1>4. Answers0 \ K \subseteq Answers0 /\ Answers0 \ (A \cup B) \subseteq Answers0
  OBVIOUS
<1> QED
  BY <1>2, <1>3, <1>4 DEF Bare, One, Two

\* A line of the answer is read.
LEMMA FrontAnswer ==
  ASSUME NEW s \in Seq(LineType), s # << >>, Head(s).kind # "event",
         NEW K \in SUBSET Answers0, NEW A \in SUBSET Answers0, NEW B \in SUBSET Answers0, A \cap B = {}
  PROVE  /\ ~Bare(s)
         /\ One(s, K) => Head(s) \in K /\ Bare(Tail(s))
         /\ Two(s, A, B) => Head(s) \in A /\ One(Tail(s), B)
<1> DEFINE x == Head(s)
           m == Tail(s)
<1>1. x \in Answers0
  BY Shrunk DEF Answers0
<1>2. ~Bare(s)
  BY <1>1, SomeTail DEF Bare
<1>3. ASSUME One(s, K) PROVE x \in K /\ Bare(m)
  <2>1. x \notin Answers0 \ K
    BY <1>3, SomeTail DEF One
  <2>2. ~Some(m, Answers0)
    BY <1>1, <1>3, SomeTail DEF One
  <2> QED
    BY <1>1, <2>1, <2>2 DEF Bare
<1>4. ASSUME Two(s, A, B) PROVE x \in A /\ One(m, B)
  <2>1. x \notin Answers0 \ (A \cup B)
    BY <1>4, SomeTail DEF Two
  <2>2. x \in B => ~Some(m, A) /\ x \notin A
    BY <1>4, OrderTail DEF Two
  <2>3. Some(s, A) => x \in A \/ Some(m, A)
    BY SomeTail
  <2>4. x \in A
    BY <1>1, <1>4, <2>1, <2>2, <2>3 DEF Two
  <2>5. ~Some(m, A)
    BY <1>4, <2>4, SomeTail DEF Two
  <2>6. Some(m, B) /\ Single(m, B)
    BY <1>4, <2>4, SomeTail DEF Two
  <2>7. ~Some(m, Answers0 \ (A \cup B))
    BY <1>4, SomeTail DEF Two
  <2> HIDE DEF m, x
  <2>8. ~Some(m, Answers0 \ B)
    BY <2>5, <2>7 DEF Some
  <2>9. Single(m, Answers0)
    BY <2>6, <2>8 DEF Some, Single
  <2> QED
    BY <2>4, <2>6, <2>8, <2>9 DEF One
<1> QED
  BY <1>2, <1>3, <1>4

\* An event, or answers, at the end of the line.
LEMMA BackEvent ==
  ASSUME NEW x \in LineType, x.kind = "event", Inserts(x),
         NEW K \in SUBSET Answers0, NEW A \in SUBSET Answers0, NEW B \in SUBSET Answers0
  PROVE  /\ Bare(Stream) => Bare(Stream')
         /\ One(Stream, K) => One(Stream', K)
         /\ Two(Stream, A, B) => Two(Stream', A, B)
<1>1. \A T : T \subseteq Answers0 => x \notin T
  BY DEF Answers0
<1>2. ASSUME NEW T, T \subseteq Answers0
      PROVE  (Some(Stream', T) <=> Some(Stream, T)) /\ (Single(Stream, T) => Single(Stream', T))
  BY <1>1, <1>2, Inserted
<1>3. Before(Stream, A, B) => Before(Stream', A, B)
  BY <1>1, InsertedBehind
<1>4. Answers0 \ K \subseteq Answers0 /\ Answers0 \ (A \cup B) \subseteq Answers0
  OBVIOUS
<1> QED
  BY <1>2, <1>3, <1>4 DEF Bare, One, Two

\* The TA sends an answer of one line.
LEMMA BackOne ==
  ASSUME NEW s \in Seq(LineType), Bare(s), NEW K \in SUBSET Answers0, NEW x \in K
  PROVE  One(Append(s, x), K)
<1>1. x \in LineType
  BY DEF Answers0
<1>2. ~Some(s, Answers0) /\ Single(s, Answers0) /\ ~Some(s, Answers0 \ K)
  BY DEF Bare, Some, Single
<1> QED
  BY <1>1, <1>2, SomeAppend DEF One

\* The TA sends an answer of two lines.
LEMMA BackTwo ==
  ASSUME NEW s \in Seq(LineType), Bare(s), NEW A \in SUBSET Answers0, NEW B \in SUBSET Answers0, A \cap B = {},
         NEW x \in A, NEW y \in B
  PROVE  Two(Append(Append(s, x), y), A, B)
<1>1. x \in LineType /\ y \in LineType /\ x \notin B /\ y \notin A
  BY DEF Answers0
<1> DEFINE m == Append(s, x)
           C == Answers0 \ (A \cup B)
<1>2. /\ ~Some(s, A) /\ ~Some(s, B) /\ ~Some(s, C)
      /\ Single(s, A) /\ Single(s, B) /\ Before(s, A, B)
  BY DEF Bare, Some, Single, Before
<1>3. x \notin C /\ y \notin C
  OBVIOUS
<1> HIDE DEF C
<1>4. /\ m \in Seq(LineType) /\ Some(m, A) /\ ~Some(m, B) /\ ~Some(m, C) /\ Single(m, A) /\ Single(m, B)
  BY <1>1, <1>2, <1>3, SomeAppend, AppendProperties
<1>5. Before(m, A, B)
  BY <1>1, <1>2, OrderAppend
<1> HIDE DEF m
<1> DEFINE l == Append(m, y)
<1>7. /\ Some(l, A) /\ Some(l, B) /\ ~Some(l, C) /\ Single(l, A) /\ Single(l, B)
  BY <1>1, <1>3, <1>4, SomeAppend
<1>8. Before(l, A, B)
  BY <1>1, <1>4, <1>5, OrderAppend
<1> QED
  BY <1>7, <1>8 DEF C, Two, m

-----------------------------------------------------------------------------
(* The phases, step by step. *)

InfosOf(c) == {x \in LineType : x.kind = "info" /\ x.of = c}
Prompts0   == {x \in LineType : x.kind = "prompt"}
Errors     == {x \in LineType : x.kind = "ERROR"}

\* No call waits: with the line s, the commands t, and the TA waiting for the
\* PDU of e.
Quiet(s, t, e) == t = << >> /\ e = Nothing /\ Bare(s)

\* The call f: its command is sent; the prompt is sent; the PDU is sent; the
\* last line of the answer is on its way, or two lines of it; there is none.
Called(f, s, t, e) ==
  \/ t = <<f.cmd>> /\ e = Nothing /\ Bare(s) /\ f.infos = << >> /\ (f.cmd \in PduCommands => ~f.prompted)
  \/ t = << >> /\ e = f.cmd /\ One(s, Prompts0) /\ ~f.prompted
  \/ t = <<Pdu>> /\ e = f.cmd /\ Bare(s) /\ f.infos = << >> /\ f.prompted
  \/ t = << >> /\ e = Nothing /\ One(s, Finals) /\ (~f.prompted => One(s, Errors))
  \/ /\ t = << >> /\ e = Nothing /\ Two(s, InfosOf(f.cmd), Finals) /\ f.infos = << >> /\ f.prompted
     /\ f.cmd \in InfoCommands \cup PduCommands
  \/ t = << >> /\ e = Nothing /\ Bare(s) /\ f.prompted
Phase(k, s, t, e) == IF k = << >> THEN Quiet(s, t, e) ELSE Called(k[1], s, t, e)
Protocol == ~sendAck => Phase(stack, Stream, todo, entering.cmd)

\* The kinds of lines an answer has.
LEMMA AnswerSets ==
  /\ Prompts0 \in SUBSET Answers0 /\ Finals \in SUBSET Answers0 /\ Errors \in SUBSET Answers0
  /\ \A c : InfosOf(c) \in SUBSET Answers0 /\ InfosOf(c) \cap Finals = {}
  /\ Errors \subseteq Finals
  BY DEF Prompts0, Finals, Errors, InfosOf, Answers0

\* Events come and go.
LEMMA EventPhase ==
  ASSUME Stream \in Seq(LineType), NEW k, NEW t, NEW e, Phase(k, Stream, t, e),
         \/ Stream # << >> /\ Head(Stream).kind = "event" /\ Stream' = Tail(Stream)
         \/ \E x \in LineType : x.kind = "event" /\ Inserts(x)
  PROVE  Phase(k, Stream', t, e)
<1>1. ASSUME NEW K \in SUBSET Answers0, NEW A \in SUBSET Answers0, NEW B \in SUBSET Answers0
      PROVE  /\ Bare(Stream) => Bare(Stream')
             /\ One(Stream, K) => One(Stream', K)
             /\ Two(Stream, A, B) => Two(Stream', A, B)
  BY FrontEvent, BackEvent
<1> QED
  BY <1>1, AnswerSets DEF Phase, Quiet, Called

\* A command is sent.
LEMMA ChatPhase ==
  ASSUME NEW c \in Command, Chats(c), stack = << >>, Phase(stack, Stream, todo, entering.cmd)
  PROVE  Phase(stack', Stream', todo', entering'.cmd)
<1> DEFINE f == At!Frame(c, Nothing)
<1>1. stack' = <<f>> /\ todo' = Append(todo, c) /\ Stream' = Stream /\ entering' = entering
  BY DEF Chats
<1>2. todo = << >> /\ entering.cmd = Nothing /\ Bare(Stream)
  BY DEF Phase, Quiet
<1>3. f.cmd = c /\ f.infos = << >> /\ (c \in PduCommands => ~f.prompted)
  BY FrameFacts
<1> HIDE DEF f
<1>4. todo' = <<c>>
  BY <1>1, <1>2
<1>5. stack' # << >> /\ stack'[1] = f
  BY <1>1
<1> QED
  BY <1>1, <1>2, <1>3, <1>4, <1>5 DEF Phase, Called

\* What the TA appends for the command c where there was no answer.
LEMMA AnswerPhase ==
  ASSUME Stream \in Seq(LineType), Bare(Stream), NEW c
  PROVE  /\ Refuses(c) => One(Stream', Errors) /\ One(Stream', Finals)
         /\ Answers(c) => \/ One(Stream', Finals)
                          \/ Two(Stream', InfosOf(c), Finals) /\ c \in InfoCommands \cup PduCommands
<1>1. ASSUME NEW z \in LineType, Stream' = Append(Stream, z), z.kind = "ERROR"
      PROVE  One(Stream', Errors) /\ One(Stream', Finals)
  <2>1. z \in Errors /\ z \in Finals
    BY <1>1 DEF Errors, Finals
  <2> QED
    BY <1>1, <2>1, AnswerSets, BackOne
<1>2. ASSUME NEW z \in LineType, Stream' = Append(Stream, z), z.kind = "OK"
      PROVE  One(Stream', Finals)
  <2>1. z \in Finals
    BY <1>2 DEF Finals
  <2> QED
    BY <1>2, <2>1, AnswerSets, BackOne
<1>3. ASSUME NEW y \in LineType, NEW z \in LineType, Stream' = Append(Append(Stream, y), z),
             y.kind = "info", y.of = c, z.kind = "OK"
      PROVE  Two(Stream', InfosOf(c), Finals)
  <2>1. z \in Finals /\ y \in InfosOf(c)
    BY <1>3 DEF Finals, InfosOf
  <2> QED
    BY <1>3, <2>1, AnswerSets, BackTwo
<1> QED
  BY <1>1, <1>2, <1>3 DEF Refuses, Answers

\* What the TA executes brings the call to its next phase.
LEMMA ExecutesPhase ==
  ASSUME Shape, Shape', Executing, stack # << >>, Called(stack[1], Stream, todo, entering.cmd)
  PROVE  Called(stack[1], Stream', todo', entering'.cmd)
<1> DEFINE f == stack[1]
           c == f.cmd
           t == todo'
           h == Head(todo)
<1>1. /\ Stream \in Seq(LineType) /\ todo # << >> /\ t = Tail(todo) /\ c \in Command
      /\ f.prompted \in BOOLEAN /\ (~f.prompted => c \in PduCommands)
  <2>1. LineTypes /\ Calls
    BY DEF Shape, Core
  <2> QED
    BY <2>1, TopFacts DEF Executing, FrameOK, LineTypes, FrameType
<1>2. c # Nothing /\ c # Pdu /\ c # Cnma /\ Pdu \notin Command \cup {Cnma} /\ Pdu \notin PduCommands
  BY <1>1, NothingFacts, CommandFacts
<1>3. Drops(h) \/ Prompts(h) \/ Obeys(h) \/ Rejects1(h) \/ Garbles(h) \/ Finishes(h)
  BY DEF Executing
<1>4. \/ todo = <<c>> /\ entering.cmd = Nothing /\ Bare(Stream) /\ f.infos = << >> /\ (c \in PduCommands => ~f.prompted)
      \/ todo = <<Pdu>> /\ entering.cmd = c /\ Bare(Stream) /\ f.infos = << >> /\ f.prompted
  BY <1>1 DEF Called
<1>5. /\ At!NotEntering.cmd = Nothing
      /\ \A x : Tail(<<x>>) = << >> /\ Head(<<x>>) = x
  BY DEF At!NotEntering
<1> HIDE DEF f, c, t, h
<1>6. CASE todo = <<c>> /\ entering.cmd = Nothing /\ Bare(Stream) /\ f.infos = << >> /\ (c \in PduCommands => ~f.prompted)
  <2>1. t = << >> /\ h = c
    BY <1>1, <1>5, <1>6 DEF h
  <2>2. CASE Prompts(h)
    <3>1. PICK x \in LineType : x.kind = "prompt" /\ Stream' = Append(Stream, x)
      BY <2>2 DEF Prompts
    <3>2. One(Stream', Prompts0)
      <4>1. x \in Prompts0
        BY <3>1 DEF Prompts0
      <4> QED
        BY <1>1, <1>6, <3>1, <4>1, AnswerSets, BackOne
    <3>3. entering'.cmd = c /\ ~f.prompted
      BY <1>6, <2>1, <2>2 DEF Prompts
    <3> QED
      BY <2>1, <3>2, <3>3 DEF Called, f, c, t
  <2>3. CASE Obeys(h)
    <3>1. c \notin PduCommands /\ f.prompted /\ entering' = entering /\ Answers(c)
      BY <1>1, <2>1, <2>3 DEF Obeys
    <3>2. One(Stream', Finals) \/ (Two(Stream', InfosOf(c), Finals) /\ c \in InfoCommands \cup PduCommands)
      BY <1>1, <1>6, <3>1, AnswerPhase
    <3>3. entering'.cmd = Nothing
      BY <1>6, <3>1
    <3> QED
      BY <1>6, <2>1, <3>1, <3>2, <3>3 DEF Called, f, c, t
  <2>4. CASE Rejects1(h)
    <3>1. entering' = entering /\ Refuses(c)
      BY <2>1, <2>4 DEF Rejects1
    <3>2. One(Stream', Finals) /\ One(Stream', Errors)
      BY <1>1, <1>6, <3>1, AnswerPhase
    <3>3. entering'.cmd = Nothing
      BY <1>6, <3>1
    <3> QED
      BY <1>6, <2>1, <3>2, <3>3 DEF Called, f, c, t
  <2>5. ~Drops(h) /\ ~Garbles(h) /\ ~Finishes(h)
    BY <1>2, <1>6, <2>1 DEF Drops, Garbles, Finishes
  <2> QED
    BY <1>3, <2>2, <2>3, <2>4, <2>5
<1>7. CASE todo = <<Pdu>> /\ entering.cmd = c /\ Bare(Stream) /\ f.infos = << >> /\ f.prompted
  <2>1. t = << >> /\ h = Pdu
    BY <1>1, <1>5, <1>7 DEF h
  <2>2. ~Drops(h) /\ ~Prompts(h) /\ ~Obeys(h) /\ ~Rejects1(h) /\ ~Garbles(h)
    BY <1>2, <1>7, <2>1 DEF Drops, Prompts, Obeys, Rejects1, Garbles
  <2>3. entering'.cmd = Nothing /\ (Refuses(c) \/ Answers(c))
    BY <1>3, <1>5, <1>7, <2>2 DEF Finishes
  <2>4. One(Stream', Finals) \/ (Two(Stream', InfosOf(c), Finals) /\ c \in InfoCommands \cup PduCommands)
    BY <1>1, <1>7, <2>3, AnswerPhase
  <2> QED
    BY <1>7, <2>1, <2>3, <2>4 DEF Called, f, c, t
<1> QED
  BY <1>4, <1>6, <1>7 DEF f, c

\* An answer is read.
LEMMA ReadsPhase ==
  ASSUME Shape, Shape', ~sendAck, Reading, Head(Stream).kind # "event", Called(stack[1], Stream, todo, entering.cmd)
  PROVE  Phase(stack', Stream', todo', entering'.cmd)
<1> DEFINE f == stack[1]
           c == f.cmd
           x == Head(Stream)
           e == entering.cmd
<1>1. /\ stack # << >> /\ Stream # << >> /\ Stream' = Tail(Stream) /\ x \in LineType /\ Reads(x)
      /\ entering' = entering /\ LineTypes /\ Calls /\ Stream \in Seq(LineType) /\ x.kind # "event"
  BY DEF Shape, Core, LineTypes, Reading, Same
<1>2. Len(stack) = 1 /\ At!Top = f /\ c \in Command /\ f \in FrameType /\ (~f.prompted => c \in PduCommands)
  <2>1. Len(stack) \in Nat \ {0} /\ FrameOK(stack[1], 1) /\ f \in FrameType
    BY <1>1, TopFacts
  <2>2. Len(stack) <= 1
    BY DEF Shape, Core, Places
  <2>3. \A n \in Nat \ {0} : n <= 1 => n = 1
    OBVIOUS
  <2>4. Len(stack) = 1
    BY <2>1, <2>2, <2>3
  <2> QED
    BY <1>1, <2>1, <2>4, OneCall DEF FrameOK
<1>3. ~(1 > 1)
  OBVIOUS
<1>4. ~ReturnsInner
  BY <1>2, <1>3 DEF ReturnsInner
<1>5. \/ Throws /\ Refusal(x) /\ (x.kind = "prompt" => f.prompted) /\ (f.prompted => Stray(x))
      \/ x.kind = "OK" /\ ReturnsLast
      \/ Keeps(x) /\ (~f.prompted => x.kind = "info")
      \/ x.kind = "prompt" /\ Continues
      \/ x.kind \in {"info", "ERROR"} /\ Resends(x)
  BY <1>1, <1>2, <1>4 DEF Reads
<1> DEFINE Gone == stack' = << >> /\ todo' = todo
           Kept(g) == stack' = <<g>> /\ g.cmd = c /\ g.prompted /\ todo' = todo /\ x.kind # "ERROR" /\ g.infos = <<x>>
           On(g) == stack' = <<g>> /\ g.cmd = c /\ g.prompted /\ todo' = Append(todo, Pdu) /\ g.infos = << >>
           Again(g) == stack' = <<g>> /\ g.cmd = c /\ ~g.prompted /\ todo' = Append(todo, c) /\ g.infos = << >>
<1>6. \/ Gone /\ (x.kind = "prompt" => f.prompted) /\ (f.prompted => Stray(x))
      \/ Gone /\ x.kind = "OK"
      \/ \E g \in FrameType : Kept(g) /\ (~f.prompted => x.kind = "info")
      \/ x.kind = "prompt" /\ ~f.prompted /\ \E g \in FrameType : On(g)
      \/ x.kind \in {"info", "ERROR"} /\ ~f.prompted /\ \E g \in FrameType : Again(g)
  <2>1. Throws \/ ReturnsLast => Gone
    BY DEF Throws, ReturnsLast
  <2>2. ASSUME Keeps(x) PROVE \E g \in FrameType : Kept(g)
    BY <2>2 DEF Keeps, Goeson
  <2>3. ASSUME Continues PROVE ~f.prompted /\ \E g \in FrameType : On(g)
    BY <2>3 DEF Continues, Goeson
  <2>4. ASSUME Resends(x) PROVE ~f.prompted /\ \E g \in FrameType : Again(g)
    BY <2>4 DEF Resends, Goeson
  <2> HIDE DEF Gone, Kept, On, Again, x, f
  <2> QED
    BY <1>5, <2>1, <2>2, <2>3, <2>4
<1>7. \A g \in FrameType : stack' = <<g>> => stack' # << >> /\ stack'[1] = g
  OBVIOUS
<1>8. ASSUME NEW K \in SUBSET Answers0, NEW A \in SUBSET Answers0, NEW B \in SUBSET Answers0, A \cap B = {}
      PROVE  /\ ~Bare(Stream)
             /\ One(Stream, K) => x \in K /\ Bare(Stream')
             /\ Two(Stream, A, B) => x \in A /\ One(Stream', B)
  BY <1>1, <1>8, FrontAnswer
<1> HIDE DEF Gone, Kept, On, Again, x, f, c
<1>9. \/ todo = << >> /\ e = c /\ x \in Prompts0 /\ Bare(Stream') /\ ~f.prompted
      \/ todo = << >> /\ e = Nothing /\ x \in Finals /\ Bare(Stream') /\ (~f.prompted => x \in Errors)
      \/ /\ todo = << >> /\ e = Nothing /\ x \in InfosOf(c) /\ One(Stream', Finals) /\ f.infos = << >> /\ f.prompted
         /\ c \in InfoCommands \cup PduCommands
  <2>1. ~Bare(Stream)
    BY <1>8, AnswerSets
  <2>2. /\ One(Stream, Prompts0) => x \in Prompts0 /\ Bare(Stream')
        /\ One(Stream, Finals) => x \in Finals /\ Bare(Stream')
        /\ One(Stream, Errors) => x \in Errors
        /\ Two(Stream, InfosOf(c), Finals) => x \in InfosOf(c) /\ One(Stream', Finals)
    BY <1>8, AnswerSets
  <2>3. \/ todo = << >> /\ e = c /\ One(Stream, Prompts0) /\ ~f.prompted
        \/ todo = << >> /\ e = Nothing /\ One(Stream, Finals) /\ (~f.prompted => One(Stream, Errors))
        \/ /\ todo = << >> /\ e = Nothing /\ Two(Stream, InfosOf(c), Finals) /\ f.infos = << >> /\ f.prompted
           /\ c \in InfoCommands \cup PduCommands
    BY <2>1 DEF Called, f, c
  <2> HIDE DEF e
  <2> QED
    BY <2>2, <2>3
<1>10. ASSUME todo = << >>, e = c, x \in Prompts0, Bare(Stream'), ~f.prompted
       PROVE  Phase(stack', Stream', todo', e)
  <2>1. x.kind = "prompt"
    BY <1>10 DEF Prompts0
  <2>2. PICK g \in FrameType : On(g)
    <3>1. x.kind # "info" /\ x.kind # "OK" /\ x.kind # "ERROR"
      BY <2>1
    <3> QED
      BY <1>6, <1>10, <2>1, <3>1
  <2>3. stack' # << >> /\ stack'[1] = g /\ todo' = <<Pdu>> /\ g.cmd = c /\ g.prompted /\ g.infos = << >>
    BY <1>7, <1>10, <2>2 DEF On
  <2> QED
    BY <1>10, <2>3 DEF Phase, Called
<1>11. ASSUME todo = << >>, e = Nothing, x \in Finals, Bare(Stream'), ~f.prompted => x \in Errors
       PROVE  Phase(stack', Stream', todo', e)
  <2>1. x.kind \in {"OK", "ERROR"} /\ (~f.prompted => x.kind = "ERROR")
    BY <1>11 DEF Finals, Errors
  <2>2. CASE Gone
    BY <1>11, <2>2 DEF Gone, Phase, Quiet
  <2>3. ASSUME NEW g \in FrameType, Kept(g) PROVE Phase(stack', Stream', todo', e)
    BY <1>7, <1>11, <2>3 DEF Kept, Phase, Called
  <2>4. ASSUME NEW g \in FrameType, Again(g) PROVE Phase(stack', Stream', todo', e)
    <3>1. stack' # << >> /\ stack'[1] = g /\ todo' = <<c>> /\ g.cmd = c /\ ~g.prompted /\ g.infos = << >>
      BY <1>7, <1>11, <2>4 DEF Again
    <3> QED
      BY <1>11, <3>1 DEF Phase, Called
  <2>5. x.kind # "prompt"
    BY <2>1
  <2> QED
    BY <1>6, <2>2, <2>3, <2>4, <2>5
<1>12. ASSUME todo = << >>, e = Nothing, x \in InfosOf(c), One(Stream', Finals), f.infos = << >>, f.prompted,
              c \in InfoCommands \cup PduCommands
       PROVE  Phase(stack', Stream', todo', e)
  <2>1. x.kind = "info" /\ x.of = c
    BY <1>12 DEF InfosOf
  <2>2. ~Stray(x)
    BY <1>2, <1>12, <2>1 DEF Stray, f, c
  <2>3. PICK g \in FrameType : Kept(g)
    BY <1>6, <1>12, <2>1, <2>2
  <2>4. stack' # << >> /\ stack'[1] = g /\ todo' = << >> /\ g.cmd = c /\ g.prompted
    BY <1>7, <1>12, <2>3 DEF Kept
  <2> QED
    BY <1>12, <2>4 DEF Phase, Called
<1> QED
  BY <1>1, <1>9, <1>10, <1>11, <1>12

\* No line came in time: then none was to come.
LEMMA ExpiresPhase ==
  ASSUME Shape, Shape', ~sendAck, Expiring, Called(stack[1], Stream, todo, entering.cmd)
  PROVE  Phase(stack', Stream', todo', entering'.cmd)
<1> DEFINE f == stack[1]
           e == entering.cmd
<1>1. /\ stack # << >> /\ Stream' = << >> /\ todo = << >> /\ entering' = entering /\ Expires
      /\ Stream = << >> \/ (Len(Stream) = 1 /\ Stream[1].kind = "prompt" /\ f.prompted)
      /\ LineTypes /\ Calls
  <2>1. LineTypes /\ Calls /\ stack # << >> /\ Len(stack) <= 1
    BY DEF Shape, Core, Places, Expiring
  <2>2. At!Top = f
    <3>1. Len(stack) \in Nat \ {0}
      BY <2>1, TopFacts
    <3>2. \A n \in Nat \ {0} : n <= 1 => n = 1
      OBVIOUS
    <3> QED
      BY <2>1, <3>1, <3>2, OneCall
  <2> QED
    BY <2>1, <2>2 DEF Expiring, Same
<1>2. \A K : ~Some(<< >>, K)
  BY NoneEmpty
<1>3. e = Nothing /\ f.prompted
  <2>1. CASE Stream = << >>
    <3>1. ~One(Stream, Prompts0) /\ ~One(Stream, Finals) /\ ~Two(Stream, InfosOf(f.cmd), Finals)
      BY <1>2, <2>1 DEF One, Two
    <3>2. \A y : << >> # <<y>>
      OBVIOUS
    <3> QED
      BY <1>1, <3>1, <3>2 DEF Called
  <2>2. CASE Len(Stream) = 1 /\ Stream[1].kind = "prompt" /\ f.prompted
    <3>1. 1..Len(Stream) = {1} /\ Stream[1] \in Prompts0 /\ Stream[1] \in Answers0
      <4>1. Stream \in Seq(LineType) /\ 1..1 = {1}
        BY <1>1 DEF LineTypes
      <4>2. Stream[1] \in LineType
        BY <2>2, <4>1, ElementOfSeq
      <4> QED
        BY <2>2, <4>1, <4>2 DEF Prompts0, Answers0
    <3>2. Stream[1] \notin Finals /\ \A c : Stream[1] \notin InfosOf(c)
      BY <2>2 DEF Finals, InfosOf
    <3>3. Some(Stream, Prompts0) /\ Some(Stream, Answers0) /\ ~Some(Stream, Finals) /\ \A c : ~Some(Stream, InfosOf(c))
      BY <3>1, <3>2 DEF Some
    <3>4. ~Bare(Stream) /\ ~One(Stream, Finals) /\ ~Two(Stream, InfosOf(f.cmd), Finals)
      BY <3>3 DEF Bare, One, Two
    <3> QED
      BY <2>2, <3>4 DEF Called
  <2> QED
    BY <1>1, <2>1, <2>2
<1>4. stack' = << >> /\ todo' = todo
  <2>1. Throws
    BY <1>1, <1>3 DEF Expires, Resends
  <2> QED
    BY <2>1 DEF Throws
<1> QED
  BY <1>1, <1>2, <1>3, <1>4 DEF Phase, Quiet, Bare

\* A slot whose message is asked for or erased is one of the store's.
LEMMA AskedSlot ==
  ASSUME Shape
  PROVE  Asks \/ Flushes1 \/ Fetched => slot \in Slot
<1>1. slot \in 0..Slots /\ Slots \in Nat \ {0}
  BY NothingFacts DEF Shape, Core, Places
<1>2. slot < Slots => slot \in Slot
  BY <1>1 DEF Slot
<1>3. pc \in Fetching \cup {"flushRead"} => slot \in Slot
  BY DEF Shape, Core, Places
<1> QED
  BY <1>2, <1>3 DEF Asks, Flushes1, Fetched, Fetching

\* Without acknowledgements every step keeps one call and its answer in one of the phases.
LEMMA ProtocolNext ==
  ASSUME Shape, Shape', Protocol, Steps
  PROVE  Protocol'
<1> SUFFICES ASSUME ~sendAck'
             PROVE  Phase(stack', Stream', todo', entering'.cmd)
  BY DEF Protocol, Phase, Quiet, Called, Bare, One, Two
<1>1. ~sendAck /\ Phase(stack, Stream, todo, entering.cmd) /\ Stream \in Seq(LineType)
  BY AckStays DEF Protocol, Shape, Core, LineTypes
<1>2. stack # << >> => Called(stack[1], Stream, todo, entering.cmd)
  BY <1>1 DEF Phase
<1>3. CASE Reading
  <2>1. stack # << >> /\ Stream # << >> /\ Stream' = Tail(Stream) /\ Reads(Head(Stream)) /\ entering' = entering
    BY <1>3 DEF Reading, Same
  <2>2. CASE Head(Stream).kind = "event"
    <3>1. HandsOver(Head(Stream).of)
      BY <1>1, <2>1, <2>2 DEF Reads, Nests
    <3>2. stack' = stack /\ todo' = todo
      BY <3>1 DEF HandsOver
    <3> QED
      BY <1>1, <2>1, <2>2, <3>2, EventPhase
  <2>3. CASE Head(Stream).kind # "event"
    BY <1>1, <1>2, <1>3, <2>1, <2>3, ReadsPhase
  <2> QED
    BY <2>2, <2>3
<1>4. CASE Expiring
  <2>1. stack # << >>
    BY <1>4 DEF Expiring
  <2> QED
    BY <1>1, <1>2, <1>4, <2>1, ExpiresPhase
<1>5. CASE Executing
  <2>1. stack' = stack /\ todo # << >>
    BY <1>5 DEF Executing
  <2>2. stack # << >>
    BY <1>1, <2>1 DEF Phase, Quiet
  <2> QED
    BY <1>2, <1>5, <2>1, <2>2, ExecutesPhase DEF Phase
<1>6. CASE Arriving
  <2>1. stack' = stack /\ todo' = todo /\ entering' = entering
        /\ (Stream' = Stream \/ \E x \in LineType : x.kind = "event" /\ Inserts(x))
    BY <1>6 DEF Arriving, ComesDirectly, ComesTo, Reports
  <2>2. CASE Stream' = Stream
    BY <1>1, <2>1, <2>2
  <2>3. CASE \E x \in LineType : x.kind = "event" /\ Inserts(x)
    BY <1>1, <2>1, <2>3, EventPhase
  <2> QED
    BY <2>1, <2>2, <2>3
<1>7. CASE Idles
  BY <1>1, <1>7 DEF Idles
<1>8. CASE OtherSteps
  <2>1. stack = << >>
    BY <1>8 DEF OtherSteps, Moves, Asks, SkipsEmpty, Flushes1, Advances, Fetched, Dispatched1, Listens, Pops
  <2>2. \/ stack' = stack /\ Stream' = Stream /\ todo' = todo /\ entering' = entering
        \/ \E c \in Command : Chats(c)
    <3>1. \/ Moves /\ (Rests \/ \E c \in Plain : Chats(c))
          \/ Asks /\ Chats(Cmgr(slot))
          \/ (Flushes1 \/ Fetched) /\ Chats(Cmgd(slot))
          \/ (SkipsEmpty \/ Advances \/ Dispatched1) /\ Rests
          \/ Listens \/ Pops
      BY <1>8 DEF OtherSteps, Moves, Asks, SkipsEmpty, Flushes1, Advances, Fetched, Dispatched1
    <3>2. Asks \/ Flushes1 \/ Fetched => slot \in Slot
      BY AskedSlot
    <3>3. slot \in Slot => Cmgr(slot) \in Command /\ Cmgd(slot) \in Command
      BY CmgrFacts, CommandFacts
    <3>4. \A c \in Plain : c \in Command
      BY DEF Plain
    <3>5. Rests \/ Listens \/ Pops => stack' = stack /\ Stream' = Stream /\ todo' = todo /\ entering' = entering
      BY DEF Rests, Listens, Pops
    <3> QED
      BY <3>1, <3>2, <3>3, <3>4, <3>5
  <2> QED
    BY <1>1, <2>1, <2>2, ChatPhase
<1> QED
  BY <1>3, <1>4, <1>5, <1>6, <1>7, <1>8 DEF Steps

\* No call waits at the start.
LEMMA ProtocolInit ==
  ASSUME Init
  PROVE  Protocol
<1>1. stack = << >> /\ Stream = << >> /\ todo = << >> /\ entering = At!NotEntering
  BY StreamInit DEF Init, At!AtInit
<1>2. entering.cmd = Nothing /\ ~Some(Stream, Answers0)
  BY <1>1, NoneEmpty DEF At!NotEntering
<1> QED
  BY <1>1, <1>2 DEF Protocol, Phase, Quiet, Bare

-----------------------------------------------------------------------------
(* No message is routed behind the answer to the command that switches     *)
(* routing off.                                                            *)

Straights == {x \in LineType : x.kind = "event" /\ x.of \in Direct}
OKs       == {x \in LineType : x.kind = "OK"}
Off       == ~routing => Closed(Stream, Straights, OKs)

\* Once routing is off, nothing is routed behind the answer that says so.
LEMMA OffNext ==
  ASSUME Shape, Off, Steps
  PROVE  Off'
<1> SUFFICES ASSUME ~routing'
             PROVE  Closed(Stream', Straights, OKs)
  <2>1. Straights' = Straights /\ OKs' = OKs
    BY DEF Straights, OKs
  <2> QED
    BY <2>1 DEF Off, Closed
<1>1. Stream \in Seq(LineType)
  BY DEF Shape, Core, LineTypes
<1>2. ASSUME NEW s \in Seq(LineType), NEW z \in LineType
      PROVE  /\ z.kind = "OK" => Closed(Append(s, z), Straights, OKs)
             /\ z.kind # "event" /\ Closed(s, Straights, OKs) => Closed(Append(s, z), Straights, OKs)
             /\ Append(s, z) \in Seq(LineType)
  <2>1. (z.kind = "OK" => z \in OKs) /\ (z.kind # "event" => z \notin Straights)
    BY DEF OKs, Straights
  <2>2. z.kind = "OK" => z \notin Straights
    BY DEF Straights
  <2> QED
    BY <2>1, <2>2, OrderAppend, AppendProperties
<1>3. CASE Executing
  <2> DEFINE c == Head(todo)
  <2>1. ASSUME NEW d, Answers(d) PROVE Closed(Stream', Straights, OKs)
    BY <1>1, <1>2, <2>1 DEF Answers
  <2>2. ASSUME routing' = routing, NEW d, Refuses(d) PROVE Closed(Stream', Straights, OKs)
    BY <1>1, <1>2, <2>2 DEF Off, Refuses
  <2>3. ASSUME routing' = routing, NEW z \in LineType, z.kind = "prompt", Stream' = Append(Stream, z)
        PROVE  Closed(Stream', Straights, OKs)
    BY <1>1, <1>2, <2>3 DEF Off
  <2>4. ASSUME routing' = routing, Stream' = Stream PROVE Closed(Stream', Straights, OKs)
    BY <2>4 DEF Off
  <2>5. Obeys(c) => Closed(Stream', Straights, OKs)
    BY <2>1 DEF Obeys
  <2>6. Prompts(c) => Closed(Stream', Straights, OKs)
    BY <2>3 DEF Prompts, Stored
  <2>7. Rejects1(c) \/ Finishes(c) => Closed(Stream', Straights, OKs)
    BY <2>1, <2>2 DEF Rejects1, Finishes, Stored
  <2>8. Drops(c) \/ Garbles(c) => Closed(Stream', Straights, OKs)
    BY <2>4 DEF Drops, Garbles, Stored
  <2> QED
    BY <1>3, <2>5, <2>6, <2>7, <2>8 DEF Executing
<1>4. CASE Arriving
  BY <1>4 DEF Arriving, ComesDirectly, ComesTo, Off
<1>5. CASE Reading
  BY <1>1, <1>5, OrderTail DEF Reading, Around0, Off
<1>6. CASE Expiring
  BY <1>6, OrderEmpty DEF Expiring
<1>7. CASE OtherSteps \/ Idles
  <2>1. Stream' = Stream /\ routing' = routing
    BY <1>7 DEF OtherSteps, Idles, Around0, Moves, Asks, SkipsEmpty, Flushes1, Advances, Fetched, Dispatched1,
                Listens, Pops, Rests, Chats
  <2> QED
    BY <2>1 DEF Off
<1> QED
  BY <1>3, <1>4, <1>5, <1>6, <1>7 DEF Steps

\* At the start the line is empty.
LEMMA OffInit ==
  ASSUME Init
  PROVE  Off
<1>1. Stream = << >>
  BY StreamInit DEF Init, At!AtInit
<1> QED
  BY <1>1, OrderEmpty DEF Off

-----------------------------------------------------------------------------
(* No message is lost. *)

\* The message that was read is about to be given to the action.
Holds(m) == pc \in {"erased", "act"} /\ text = m
Safe(m)  == Did(m) \/ m \in ignored \/ Holds(m)
Fine     == ~sendAck /\ ~(pc \in Broken /\ listening)

\* Unless an exception ended the main loop, what arrived is in the store, or
\* routed to the daemon, or safe; and what the daemon erases is safe.
Kept ==
  /\ pc = "exit0" => received = << >>
  /\ Fine => /\ \A m \in Message : m <= arrived =>
                  Safe(m) \/ Seen(Straight(m)) \/ \E i \in Slot : store[i] = m
             /\ \A i \in Slot : Erases(i) => Safe(store[i])

\* How the place in the program and the message that was read change.
LEMMA HoldsSteps ==
  ASSUME Shape, Steps
  PROVE  /\ pc \in Broken /\ listening => pc' \in Broken /\ listening'
         /\ \/ pc' = pc /\ text' = text
            \/ pc \in {"erased", "act"} => \/ pc' \in {"erased", "act"} /\ text' = text
                                           \/ pc' \in Broken /\ listening /\ listening'
                                           \/ dispatched' = Append(dispatched, text)
<1>1. (pc \in Main => listening) /\ {"erased", "act"} \subseteq Main
  BY DEF Shape, Core, Places, Main
<1>2. CASE Reading \/ Expiring \/ Executing \/ Arriving \/ Idles
  BY <1>2 DEF Reading, Expiring, Executing, Arriving, Idles, Stays, Same
<1>3. CASE Moves
  <2>1. listening' = listening /\ text' = text
    BY <1>3 DEF Moves, Rests, Chats
  <2> QED
    BY <1>1, <1>3, <2>1 DEF Moves, Onward
<1>4. CASE Dispatched1
  BY <1>4 DEF Dispatched1, Broken
<1>5. CASE Asks \/ SkipsEmpty \/ Flushes1 \/ Advances \/ Fetched \/ Listens \/ Pops
  BY <1>5 DEF Asks, SkipsEmpty, Flushes1, Advances, Fetched, Listens, Pops, Broken
<1> QED
  BY <1>2, <1>3, <1>4, <1>5 DEF Steps, OtherSteps

\* An exception that ended the main loop cannot be undone.
LEMMA FineBefore ==
  ASSUME Shape, Steps, Fine'
  PROVE  Fine
  BY AckStays, HoldsSteps DEF Fine, Broken

\* What is safe stays so, unless an exception ends the main loop.
LEMMA SafeStays ==
  ASSUME Base, Steps, Fine', NEW m \in Message, Safe(m)
  PROVE  Safe(m)'
<1>1. Shape /\ flushed \in Seq(Message) /\ dispatched \in Seq(Message)
  BY DEF Base, Shape, Core, World
<1>2. /\ flushed' = flushed \/ \E n \in Message : flushed' = Append(flushed, n)
      /\ dispatched' = dispatched \/ \E n \in Message : dispatched' = Append(dispatched, n)
  BY ActsSteps
<1>3. Did(m) => Did(m)'
  <2>1. \A n \in Message : Some(flushed, {m}) => Some(Append(flushed, n), {m})
    BY <1>1, SomeAppend
  <2>2. \A n \in Message : Some(dispatched, {m}) => Some(Append(dispatched, n), {m})
    BY <1>1, SomeAppend
  <2>3. Some(flushed, {m}) => Some(flushed', {m})
    BY <1>2, <2>1
  <2>4. Some(dispatched, {m}) => Some(dispatched', {m})
    BY <1>2, <2>2
  <2> QED
    BY <2>3, <2>4 DEF Did
<1>4. ignored \subseteq ignored'
  BY DEF Steps, Reading, Expiring, Executing, Arriving, OtherSteps, Idles, Moves, Asks, SkipsEmpty,
         Flushes1, Advances, Fetched, Dispatched1, Listens, Pops, Acts0
<1>5. ASSUME Holds(m) PROVE Did(m)' \/ Holds(m)'
  <2>1. pc \in {"erased", "act"} /\ text = m
    BY <1>5 DEF Holds
  <2>2. \/ pc' \in {"erased", "act"} /\ text' = m
        \/ pc' \in Broken /\ listening'
        \/ dispatched' = Append(dispatched, m)
    BY <1>1, <2>1, HoldsSteps
  <2>3. ~(pc' \in Broken /\ listening')
    BY DEF Fine, Broken
  <2>4. dispatched' = Append(dispatched, m) => Did(m)'
    BY <1>1, SomeAppend DEF Did
  <2> QED
    BY <2>2, <2>3, <2>4 DEF Holds
<1> QED
  BY <1>3, <1>4, <1>5 DEF Safe

\* A message that is routed to the daemon stays in the line or in newMessages
\* until it is safe.
LEMMA StraightKept ==
  ASSUME Base, Base', Steps, ~sendAck, NEW m \in Message, Seen(Straight(m))
  PROVE  Seen(Straight(m))' \/ Safe(m)'
<1> DEFINE S == Straight(m)
           R == Reporting(Straight(m))
<1>1. /\ Shape /\ Shape' /\ Stream \in Seq(LineType) /\ received \in Seq(Event)
      /\ S \in SUBSET Event /\ S' = S /\ R' = R /\ R \in SUBSET LineType
  BY DEF Base, Shape, Core, LineTypes, Straight, Reporting
<1>2. /\ \A e \in Event : e \in S <=> e.msg = m /\ e.index = 0
      /\ \A x \in LineType : x \in R <=> x.kind = "event" /\ x.of \in S
      /\ \A e \in S : e \in Direct /\ e \in Event
      /\ Answers0 \cap R = {} /\ Answers0 \in SUBSET LineType
  BY LineFacts DEF Straight, Reporting, Answers0, Direct
<1>3. Some(Stream, R) \/ Some(received, S)
  <2>1. ~Some(stack, Waiting(Of(m)))
    BY <1>1, NoneWaits
  <2>2. Some(stack, Waiting(S)) => Some(stack, Waiting(Of(m)))
    BY DEF Some, Waiting, Straight, Of
  <2> QED
    BY <2>1, <2>2 DEF Seen
<1>4. Some(Stream', R) \/ Some(received', S) => Seen(Straight(m))'
  BY <1>1 DEF Seen
<1> HIDE DEF S, R
<1>5. ASSUME Some(received, S) PROVE Some(received', S) \/ Safe(m)'
  <2>1. received' = received => Some(received', S)
    BY <1>5
  <2>2. \A e \in Event : received' = Append(received, e) => Some(received', S)
    BY <1>1, <1>5, SomeAppend
  <2>3. ASSUME Pops, received # << >>, received' = Tail(received) PROVE Some(received', S) \/ Safe(m)'
    <3>1. Head(received) \in S \/ Some(received', S)
      BY <1>1, <1>5, <2>3, SomeTail
    <3>2. Head(received) \in S => pc' = "act" /\ text' = m
      BY <1>1, <1>2, <2>3 DEF Pops
    <3> QED
      BY <3>1, <3>2 DEF Safe, Holds
  <2> QED
    BY <1>1, <2>1, <2>2, <2>3, EventsMove
<1>6. ASSUME Some(Stream, R) PROVE Some(Stream', R) \/ Some(received', S) \/ Safe(m)'
  <2>1. Stream' = Stream => Some(Stream', R)
    BY <1>6
  <2>2. CASE Reading
    <3> DEFINE x == Head(Stream)
    <3>1. /\ Stream # << >> /\ Stream' = Tail(Stream) /\ x \in LineType /\ Reads(x)
          /\ ~listening /\ x.kind = "event" /\ x.of \in Direct => x.of.msg \in ignored'
      BY <2>2 DEF Reading
    <3> HIDE DEF x
    <3>2. x \in R \/ Some(Stream', R)
      BY <1>1, <1>6, <3>1, SomeTail DEF x
    <3>3. ASSUME x \in R PROVE Some(received', S) \/ Safe(m)'
      <4>1. x.kind = "event" /\ x.of \in S /\ x.of \in Event /\ x.of \in Direct /\ x.of.msg = m
        BY <1>2, <3>1, <3>3
      <4>2. HandsOver(x.of)
        BY <3>1, <4>1 DEF Reads, Nests
      <4>3. CASE listening
        <5>1. received' = Append(received, x.of)
          BY <4>2, <4>3 DEF HandsOver, At!Handed
        <5> QED
          BY <1>1, <4>1, <5>1, SomeAppend
      <4>4. CASE ~listening
        BY <3>1, <4>1, <4>4 DEF Safe
      <4> QED
        BY <4>3, <4>4
    <3> QED
      BY <3>2, <3>3
  <2>3. CASE Expiring
    <3>1. Stream = << >> \/ (Len(Stream) = 1 /\ Stream[1].kind = "prompt")
      BY <2>3 DEF Expiring
    <3>2. Stream # << >>
      BY <1>6, NoneEmpty
    <3>3. PICK p \in 1..Len(Stream) : Stream[p] \in R
      BY <1>6 DEF Some
    <3>4. p = 1
      BY <3>1, <3>2, <3>3
    <3>5. Stream[1].kind = "event"
      BY <1>1, <1>2, <3>3, <3>4
    <3> QED
      BY <3>1, <3>2, <3>5
  <2>4. CASE Executing
    <3>1. Added(Answers0)
      BY <1>1, <2>4, AddsPlain
    <3>2. Some(Stream', R) <=> Some(Stream, R)
      BY <1>1, <1>2, <3>1, AddedFacts
    <3> QED
      BY <1>6, <3>2
  <2>5. CASE Arriving
    <3>1. Stream' = Stream \/ \E x \in LineType : Inserts(x)
      BY <2>5 DEF Arriving, ComesDirectly, ComesTo, Reports
    <3> QED
      BY <1>1, <1>6, <3>1, Inserted
  <2>6. CASE OtherSteps \/ Idles
    <3>1. Stream' = Stream
      BY <2>6 DEF OtherSteps, Idles, Moves, Asks, SkipsEmpty, Flushes1, Advances, Fetched, Dispatched1,
                  Listens, Pops, Rests, Chats
    <3> QED
      BY <2>1, <3>1
  <2> QED
    BY <2>2, <2>3, <2>4, <2>5, <2>6 DEF Steps
<1> QED
  BY <1>3, <1>4, <1>5, <1>6

\* A message that arrives goes to the daemon or to a slot.
LEMMA ArrivesKept ==
  ASSUME Shape, Shape', Arriving, NEW m \in Message, m = arrived + 1
  PROVE  Seen(Straight(m))' \/ \E i \in Slot : store'[i] = m
<1>1. Stream \in Seq(LineType) /\ store \in [Slot -> Message \cup {Nothing}]
  BY DEF Shape, Core, LineTypes, World
<1>2. CASE ComesDirectly
  <2>1. PICK x \in LineType : x.kind = "event" /\ x.of.msg = m /\ x.of.index = 0 /\ Inserts(x)
    BY <1>2 DEF ComesDirectly, Reports
  <2>2. x \in Reporting(Straight(m))
    BY <2>1, LineFacts DEF Reporting, Straight
  <2>3. Some(Stream', Reporting(Straight(m)))
    BY <2>1, <2>2, Inserted
  <2>4. Reporting(Straight(m))' = Reporting(Straight(m))
    BY DEF Reporting, Straight
  <2> QED
    BY <2>3, <2>4 DEF Seen
<1>3. ASSUME NEW i \in Slot, ComesTo(i) PROVE store'[i] = m
  BY <1>1, <1>3 DEF ComesTo
<1> QED
  BY <1>2, <1>3 DEF Arriving

\* Every step keeps the messages.
LEMMA KeptNext ==
  ASSUME Base, Base', Kept, Steps
  PROVE  Kept'
<1>1. Shape /\ Shape' /\ Events /\ Erasing /\ Tokens
  BY DEF Base, Reports0
<1>2. ASSUME pc' = "exit0" PROVE received' = << >>
  <2>1. CASE Moves
    BY <1>2, <2>1 DEF Moves, Rests, Chats
  <2>2. CASE Reading \/ Expiring \/ Executing \/ Arriving \/ Idles
    <3>1. pc = "exit0" /\ received = << >>
      BY <1>2, <2>2 DEF Kept, Reading, Expiring, Executing, Arriving, Idles, Stays
    <3>2. stack = << >>
      BY <1>1, <3>1 DEF Shape, Core, Places, Ended
    <3> QED
      BY <2>2, <3>1, <3>2 DEF Reading, Expiring, Executing, Arriving, Idles
  <2>3. CASE Asks \/ SkipsEmpty \/ Flushes1 \/ Advances \/ Fetched \/ Dispatched1 \/ Listens \/ Pops
    BY <1>2, <2>3 DEF Asks, SkipsEmpty, Flushes1, Advances, Fetched, Dispatched1, Listens, Pops
  <2> QED
    BY <2>1, <2>2, <2>3 DEF Steps, OtherSteps
<1>3. SUFFICES ASSUME Fine'
               PROVE  /\ \A m \in Message : m <= arrived' =>
                           Safe(m)' \/ Seen(Straight(m))' \/ \E i \in Slot : store'[i] = m
                      /\ \A i \in Slot : Erases(i)' => Safe(store[i])'
  <2>1. Message' = Message /\ Slot' = Slot
    BY DEF Message, Slot
  <2> QED
    BY <1>2, <2>1 DEF Kept
<1>4. /\ Fine /\ ~sendAck
      /\ \A m \in Message : m <= arrived => Safe(m) \/ Seen(Straight(m)) \/ \E i \in Slot : store[i] = m
      /\ \A i \in Slot : Erases(i) => Safe(store[i])
  BY <1>1, <1>3, FineBefore DEF Kept, Fine
<1>5. \A m \in Message : Safe(m) => Safe(m)'
  BY <1>3, SafeStays
<1>6. \A i \in Slot : /\ Executing /\ Head(todo) = Cmgd(i) => Erases(i) /\ ~Erases(i)'
                      /\ store[i] \in Message \cup {Nothing} /\ Nothing \notin Message
  BY <1>1, ErasesSteps, NothingFacts DEF Shape, Core, World
<1>7. ASSUME NEW m \in Message, m <= arrived'
      PROVE  Safe(m)' \/ Seen(Straight(m))' \/ \E i \in Slot : store'[i] = m
  <2>1. CASE Arriving /\ m = arrived + 1
    BY <1>1, <2>1, ArrivesKept
  <2>2. CASE ~(Arriving /\ m = arrived + 1)
    <3>1. m <= arrived
      <4>1. arrived \in Nat /\ m \in Int
        BY <1>1, NothingFacts DEF Shape, Core, World, Message
      <4>2. arrived' = arrived \/ (Arriving /\ arrived' = arrived + 1)
        BY <1>1, ArrivedSteps
      <4> QED
        BY <1>7, <2>2, <4>1, <4>2
    <3>2. CASE Safe(m)
      BY <1>5, <3>2
    <3>3. CASE Seen(Straight(m))
      BY <1>4, <3>3, StraightKept
    <3>4. ASSUME NEW i \in Slot, store[i] = m PROVE Safe(m)' \/ store'[i] = m
      <4>1. CASE Executing /\ Head(todo) = Cmgd(i)
        BY <1>4, <1>5, <1>6, <3>4, <4>1
      <4>2. CASE ~(Executing /\ Head(todo) = Cmgd(i))
        BY <1>1, <1>6, <3>4, <4>2, StoreKept
      <4> QED
        BY <4>1, <4>2
    <3> QED
      BY <1>4, <3>1, <3>2, <3>3, <3>4
  <2> QED
    BY <2>1, <2>2
<1>8. ASSUME NEW i \in Slot, Erases(i)' PROVE Safe(store[i])'
  <2>1. CASE Erases(i)
    <3>1. store[i] \in Message /\ Safe(store[i])
      BY <1>1, <1>4, <1>6, <2>1 DEF Erasing
    <3>2. store'[i] = store[i]
      BY <1>1, <1>6, <1>8, <3>1, StoreKept
    <3>3. Safe(store[i]') <=> Safe(store[i])
      BY <3>2
    <3>4. \A m \in Message : store'[i] = m => (Safe(store[i])' <=> Safe(m)')
      BY DEF Safe, Did, Holds
    <3> QED
      BY <1>5, <3>1, <3>2, <3>4
  <2>2. CASE (Flushes1 \/ Fetched) /\ i = slot
    <3>1. /\ stack = << >> /\ Ok /\ Answered # Nothing /\ pc \in Asking /\ store' = store
      BY <2>2 DEF Flushes1, Fetched, Asking, Around0
    <3>2. Answered \in Message /\ store[i] = Answered
      BY <1>1, <2>2, <3>1, AnswerIsStored
    <3>3. store'[i] = store[i]
      BY <3>1
    <3> DEFINE m == Answered
    <3> HIDE DEF m
    <3>4. m \in Message /\ store[i] = m /\ store'[i] = m /\ flushed \in Seq(Message)
      BY <1>1, <3>2, <3>3 DEF m, Shape, Core, World
    <3>5. Flushes1 => flushed' = Append(flushed, m)
      BY DEF Flushes1, m
    <3>6. Fetched => pc' = "erased" /\ text' = m
      BY DEF Fetched, m
    <3>7. Flushes1 => Some(flushed', {m})
      <4>1. Some(Append(flushed, m), {m})
        BY <3>4, SomeAppend
      <4> QED
        BY <3>5, <4>1
    <3> QED
      BY <2>2, <3>4, <3>6, <3>7 DEF Safe, Did, Holds
  <2> QED
    BY <1>1, <1>8, <2>1, <2>2, ErasesSteps
<1> QED
  BY <1>7, <1>8

\* Nothing has arrived at the start.
LEMMA KeptInit ==
  ASSUME Init
  PROVE  Kept
<1>1. arrived = 0 /\ todo = << >> /\ pc = "open"
  BY DEF Init, At!AtInit
<1>2. \A i \in Slot : ~Erases(i)
  BY <1>1, NoneEmpty DEF Erases
<1>3. \A m \in Message : ~(m <= arrived)
  BY <1>1, NothingFacts DEF Message
<1> QED
  BY <1>1, <1>2, <1>3 DEF Kept

\* What an ended daemon leaves is not routed to it.
LEMMA EndedUnseen ==
  ASSUME Shape, Protocol, Off, Kept, Fine, pc \in Ended, ~routing, NEW m \in Message
  PROVE  ~Seen(Straight(m))
<1>1. stack = << >>
  BY DEF Shape, Core, Places
<1>2. received = << >>
  <2>1. pc = "exit0" \/ (pc \in Broken /\ ~listening)
    BY DEF Ended, Broken, Fine
  <2> QED
    BY <2>1 DEF Kept, Shape, Core, Places
<1>3. ~Some(Stream, Answers0)
  BY <1>1 DEF Fine, Protocol, Phase, Quiet, Bare
<1>4. OKs \subseteq Answers0 /\ Reporting(Straight(m)) \subseteq Straights
  BY DEF OKs, Answers0, Reporting, Straight, Straights, Direct
<1>5. ~Some(Stream, OKs)
  BY <1>3, <1>4 DEF Some
<1>6. ~Some(Stream, Straights)
  BY <1>5, ClosedNone DEF Off
<1>7. ~Some(Stream, Reporting(Straight(m)))
  BY <1>4, <1>6 DEF Some
<1> QED
  BY <1>1, <1>2, <1>7, NoneEmpty DEF Seen

Keeping == Dispatching /\ Protocol /\ Off /\ Kept

\* The invariant says that no message is lost.
LEMMA KeepingNothingLost ==
  ASSUME Keeping
  PROVE  NothingLost
<1>1. Shape /\ Protocol /\ Off /\ Kept
  BY DEF Keeping, Dispatching, Base
<1>2. Failing <=> pc \in Broken
  BY DEF Failing, Broken
<1> SUFFICES ASSUME Fine, pc \in Ended => ~routing, NEW m \in Message, m \in 1..arrived
             PROVE  m \in {store[i] : i \in Slot} \cup Acted \cup ignored
                          \cup (IF pc \in Ended THEN {} ELSE OnItsWay)
  BY <1>2 DEF NothingLost, AllKept, Fine
<1>3. Safe(m) \/ Seen(Straight(m)) \/ \E i \in Slot : store[i] = m
  BY <1>1 DEF Kept
<1>4. Stream \in Seq(LineType) /\ received \in Seq(Event) /\ flushed \in Seq(Message) /\ dispatched \in Seq(Message)
  BY <1>1 DEF Shape, Core, LineTypes, World
<1>5. /\ DOMAIN Stream = 1..Len(Stream) /\ DOMAIN received = 1..Len(received)
      /\ DOMAIN flushed = 1..Len(flushed) /\ DOMAIN dispatched = 1..Len(dispatched)
  BY <1>4, LenProperties
<1>6. Did(m) => m \in Acted
  BY <1>5 DEF Did, Some, Acted, ToSet
<1>7. Holds(m) => pc \notin Ended /\ m \in OnItsWay
  BY DEF Holds, Ended, OnItsWay
<1>8. ASSUME Seen(Straight(m)) PROVE pc \notin Ended /\ m \in OnItsWay
  <2>1. pc \notin Ended
    BY <1>1, <1>8, EndedUnseen
  <2>2. ~Some(stack, Waiting(Straight(m)))
    <3>1. ~Some(stack, Waiting(Of(m)))
      BY <1>1, NoneWaits DEF Fine
    <3> QED
      BY <3>1 DEF Some, Waiting, Straight, Of
  <2>3. \A e \in Straight(m) : e \in Direct /\ e.msg = m
    BY DEF Straight, Direct
  <2>4. ASSUME Some(Stream, Reporting(Straight(m))) PROVE \E e \in Straight(m) : e \in Lines
    <3>1. PICK j \in 1..Len(Stream) : Stream[j] \in Reporting(Straight(m))
      BY <2>4 DEF Some
    <3> QED
      BY <1>1, <3>1, StreamLines DEF Reporting, Shape
  <2>5. ASSUME Some(received, Straight(m)) PROVE \E e \in Straight(m) : e \in Queued
    BY <1>5, <2>5 DEF Some, Queued, ToSet
  <2>6. \E e \in Straight(m) : e \in Lines \cup Queued
    BY <1>8, <2>2, <2>4, <2>5 DEF Seen
  <2> QED
    BY <2>1, <2>3, <2>6 DEF OnItsWay
<1> QED
  BY <1>3, <1>6, <1>7, <1>8 DEF Safe

\* Without acknowledgements no message is lost that arrived, unless an exception
\* ended the main loop: it is in its slot, on its way to the action, or was given to
\* it; and none is on its way when the daemon has ended with routing switched off
\* (gsmsmsd.cc: the main loop, terminateHandler, the catch block).
THEOREM NothingLostAlways == Spec => []NothingLost
<1>1. Init => Keeping
  BY BaseInit, OnceInit, OrderInit, ProtocolInit, OffInit, KeptInit DEF Keeping, Dispatching
<1>2. Keeping /\ [Next]_vars => Keeping'
  <2> SUFFICES ASSUME Keeping, [Next]_vars
               PROVE  Keeping'
    OBVIOUS
  <2>1. Base /\ Once /\ Order /\ Protocol /\ Off /\ Kept
    BY DEF Keeping, Dispatching
  <2>2. Base' /\ Steps
    BY <2>1, BaseNext
  <2>3. Shape /\ Shape'
    BY <2>1, <2>2 DEF Base
  <2>4. Once' /\ Order'
    BY <2>1, <2>2, OnceNext, OrderNext
  <2>5. Protocol'
    BY <2>1, <2>2, <2>3, ProtocolNext
  <2>6. Off'
    BY <2>1, <2>2, <2>3, OffNext
  <2>7. Kept'
    BY <2>1, <2>2, KeptNext
  <2> QED
    BY <2>2, <2>4, <2>5, <2>6, <2>7 DEF Keeping, Dispatching
<1>3. Keeping => NothingLost
  BY KeepingNothingLost
<1> QED
  BY <1>1, <1>2, <1>3, PTL DEF Spec

=============================================================================
