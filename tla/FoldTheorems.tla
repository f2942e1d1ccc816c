---------------------------- MODULE FoldTheorems ----------------------------
(***************************************************************************)
(* What FoldLeft of the community modules computes.  Its definition is a   *)
(* recursive function over the subsets of the sequence's domain, of which  *)
(* the provers know nothing: here it is shown that such a function exists, *)
(* and that it goes through the values one gets by applying op from left   *)
(* to right.  The provers cannot instantiate a theorem that is about every *)
(* operator, so op is a parameter of the module: to use the theorems for   *)
(* an operator, instantiate the module with it.                            *)
(***************************************************************************)
EXTENDS Integers, SequencesExt, SequenceTheorems, WellFoundedInduction, NaturalsInduction, TLAPS

CONSTANT op(_, _)

-----------------------------------------------------------------------------
\* A set of natural numbers that is not empty has a least element.
LEMMA LeastNumber ==
  ASSUME NEW S \in SUBSET Nat, S # {}
  PROVE  \E x \in S : \A y \in S : x <= y
<1> DEFINE R == OpToRel(<, Nat)
<1>1. \A x, y \in Nat : y < x => <<y, x>> \in R
  BY DEF OpToRel
<1>2. IsWellFoundedOn(R, Nat)
  BY NatLessThanWellFounded
<1> HIDE DEF R
<1>3. PICK x \in S : \A y \in S : ~(<<y, x>> \in R)
  BY <1>2, WFMin
<1>4. ASSUME NEW y \in S PROVE x <= y
  <2>1. x \in Nat /\ y \in Nat /\ ~(<<y, x>> \in R)
    BY <1>3
  <2> QED
    BY <1>1, <2>1
<1> QED
  BY <1>4

\* Induction for a set of natural numbers.
LEMMA Induction ==
  ASSUME NEW S, 0 \in S, \A n \in Nat : n \in S => n + 1 \in S
  PROVE  Nat \subseteq S
<1>1. SUFFICES ASSUME Nat \ S # {} PROVE FALSE
  OBVIOUS
<1>2. PICK x \in Nat \ S : \A y \in Nat \ S : x <= y
  BY <1>1, LeastNumber
<1>3. x # 0 /\ x - 1 \in Nat /\ ~(x <= x - 1)
  BY <1>2
<1>4. x - 1 \in S
  BY <1>2, <1>3
<1>5. (x - 1) + 1 \in S /\ (x - 1) + 1 = x
  BY <1>3, <1>4
<1> QED
  BY <1>2, <1>5

\* The largest element of a set of numbers up to n.
LEMMA LargestNumber ==
  ASSUME NEW n \in Nat, NEW s \in SUBSET (1..n), s # {}
  PROVE  Max(s) \in s /\ \A y \in s : y <= Max(s)
<1> DEFINE T == {n - y : y \in s}
<1>1. T \in SUBSET Nat /\ T # {}
  <2>1. \A y \in s : n - y \in Nat
    BY SMT
  <2> QED
    BY <2>1, Zenon
<1>2. PICK t \in T : \A u \in T : t <= u
  BY <1>1, LeastNumber
<1>3. PICK x \in s : t = n - x
  BY <1>2
<1>4. ASSUME NEW y \in s PROVE y <= x
  <2>1. n - y \in T /\ y \in 1..n /\ x \in 1..n
    OBVIOUS
  <2>2. n - x <= n - y
    BY <1>2, <1>3, <2>1
  <2> QED
    BY <2>1, <2>2
<1> QED
  BY <1>4 DEF Max

-----------------------------------------------------------------------------
\* The function inside the definition of FoldLeft.
Step(base, seq, f, s) == IF s = {} THEN base ELSE op(f[s \ {Max(s)}], seq[Max(s)])
Folds(base, seq, n, f) == f = [s \in SUBSET (1..n) |-> Step(base, seq, f, s)]

LEMMA FoldExists ==
  ASSUME NEW base, NEW seq, NEW n \in Nat
  PROVE  \E f : Folds(base, seq, n, f)
<1> DEFINE S == {k \in Nat : \E f : Folds(base, seq, k, f)}
<1>1. 0 \in S
  <2> DEFINE f == [s \in SUBSET (1..0) |-> base]
  <2>1. \A s \in SUBSET (1..0) : Step(base, seq, f, s) = base
    BY DEF Step
  <2>2. f = [s \in SUBSET (1..0) |-> Step(base, seq, f, s)]
    BY <2>1
  <2> QED
    BY <2>2 DEF Folds
<1>2. ASSUME NEW k \in Nat, k \in S PROVE k + 1 \in S
  <2>1. PICK f : Folds(base, seq, k, f)
    BY <1>2
  <2> DEFINE g == [s \in SUBSET (1..(k + 1)) |-> Step(base, seq, f, s)]
  <2>2. \A s \in SUBSET (1..k) : s \in SUBSET (1..(k + 1))
    OBVIOUS
  <2>3. ASSUME NEW s \in SUBSET (1..k) PROVE g[s] = f[s]
    BY <2>1, <2>2 DEF Folds
  <2>4. ASSUME NEW s \in SUBSET (1..(k + 1)) PROVE Step(base, seq, g, s) = Step(base, seq, f, s)
    <3>1. CASE s = {}
      BY <3>1 DEF Step
    <3>2. CASE s # {}
      <4> HIDE DEF g
      <4>0. k + 1 \in Nat
        OBVIOUS
      <4>1. Max(s) \in s /\ \A y \in s : y <= Max(s)
        BY <3>2, <4>0, LargestNumber
      <4>2. s \ {Max(s)} \in SUBSET (1..k)
        <5>1. ASSUME NEW y \in s, y # Max(s) PROVE y \in 1..k
          <6>1. y \in 1..(k + 1) /\ Max(s) \in 1..(k + 1) /\ y <= Max(s)
            BY <4>1
          <6> QED
            BY <5>1, <6>1
        <5> QED
          BY <5>1
      <4>3. g[s \ {Max(s)}] = f[s \ {Max(s)}]
        BY <2>3, <4>2
      <4> QED
        BY <4>3 DEF Step
    <3> QED
      BY <3>1, <3>2
  <2>5. g = [s \in SUBSET (1..(k + 1)) |-> Step(base, seq, g, s)]
    BY <2>4
  <2> HIDE DEF g
  <2> QED
    BY <2>5 DEF Folds
<1>3. Nat \subseteq S
  BY <1>1, <1>2, Induction
<1> QED
  BY <1>3

Fold(base, seq) == FoldLeft(op, base, seq)

\* acc[k] is what op made of base and the first k elements, one after the other.
Iterates(base, seq, n, acc) ==
  /\ acc[0] = base
  /\ \A k \in 1..n : acc[k] = op(acc[k - 1], seq[k])
  /\ Fold(base, seq) = acc[n]

\* FoldLeft applies op to what it has and the next element, from the first
\* element to the last.
THEOREM FoldLeftIterates ==
  ASSUME NEW base, NEW seq, NEW n \in Nat, DOMAIN seq = 1..n
  PROVE  \E acc : Iterates(base, seq, n, acc)
<1> DEFINE iter == CHOOSE f : f = [s \in SUBSET (DOMAIN seq) |->
                                     IF s = {} THEN base ELSE op(f[s \ {Max(s)}], seq[Max(s)])]
<1>1. Fold(base, seq) = iter[DOMAIN seq]
  BY Zenon DEF Fold, FoldLeft, MapThenFoldSet
<1>2. iter = [s \in SUBSET (DOMAIN seq) |->
                IF s = {} THEN base ELSE op(iter[s \ {Max(s)}], seq[Max(s)])]
  <2>1. PICK f : Folds(base, seq, n, f)
    BY FoldExists
  <2>2. f = [s \in SUBSET (DOMAIN seq) |->
               IF s = {} THEN base ELSE op(f[s \ {Max(s)}], seq[Max(s)])]
    BY <2>1, Zenon DEF Folds, Step
  <2> QED
    BY <2>2, Zenon
<1> HIDE DEF iter
<1> DEFINE acc == [k \in 0..n |-> iter[1..k]]
<1>3. acc[0] = base
  <2>1. 1..0 = {} /\ {} \in SUBSET (DOMAIN seq)
    OBVIOUS
  <2> QED
    BY <1>2, <2>1
<1>4. ASSUME NEW k \in 1..n PROVE acc[k] = op(acc[k - 1], seq[k])
  <2>1. 1..k \in SUBSET (1..n) /\ 1..k # {} /\ k \in Nat
    OBVIOUS
  <2>2. Max(1..k) = k
    <3>1. Max(1..k) \in 1..k /\ \A y \in 1..k : y <= Max(1..k)
      BY <2>1, LargestNumber
    <3> QED
      BY <3>1
  <2>3. (1..k) \ {k} = 1..(k - 1)
    OBVIOUS
  <2>4. iter[1..k] = op(iter[1..(k - 1)], seq[k])
    BY <1>2, <2>1, <2>2, <2>3
  <2> QED
    BY <2>4
<1>5. Fold(base, seq) = acc[n]
  BY <1>1
<1> HIDE DEF acc
<1> QED
  BY <1>3, <1>4, <1>5 DEF Iterates

-----------------------------------------------------------------------------
\* t is s with it at place n.
Inserted(s, t, n, it) ==
  /\ n \in 1..(Len(s) + 1) /\ Len(t) = Len(s) + 1
  /\ \A k \in 1..Len(t) : t[k] = IF k < n THEN s[k] ELSE IF k = n THEN it ELSE s[k - 1]

\* InsertAt() of a sequence: the item is at the place, the others keep their order.
LEMMA InsertAtFacts ==
  ASSUME NEW S, NEW s \in Seq(S), NEW it \in S, NEW n \in 1..(Len(s) + 1)
  PROVE  /\ InsertAt(s, n, it) \in Seq(S)
         /\ Inserted(s, InsertAt(s, n, it), n, it)
<1> DEFINE a == SubSeq(s, 1, n - 1)
           c == SubSeq(s, n, Len(s))
<1>0. Len(s) \in Nat /\ n \in Nat
  BY LenProperties
<1>1. /\ a \in Seq(S) /\ Len(a) = n - 1
      /\ \A k \in 1..(n - 1) : a[k] = s[k]
  <2>1. \A i \in 1..(n - 1) : s[i] \in S
    BY <1>0, ElementOfSeq
  <2> QED
    BY <1>0, <2>1, SubSeqProperties
<1>2. /\ c \in Seq(S) /\ Len(c) = Len(s) - n + 1
      /\ \A k \in 1..(Len(s) - n + 1) : c[k] = s[n + k - 1]
  <2>1. \A i \in n..Len(s) : s[i] \in S
    BY <1>0, ElementOfSeq
  <2> QED
    BY <1>0, <2>1, SubSeqProperties
<1>3. <<it>> \in Seq(S) /\ Len(<<it>>) = 1 /\ <<it>>[1] = it
  OBVIOUS
<1> HIDE DEF a, c
<1> DEFINE d == a \o <<it>>
           t == d \o c
<1>4. /\ d \in Seq(S) /\ Len(d) = n
      /\ \A k \in 1..n : d[k] = IF k < n THEN s[k] ELSE it
  BY <1>0, <1>1, <1>3, ConcatProperties
<1> HIDE DEF d
<1>5. /\ t \in Seq(S) /\ Len(t) = Len(s) + 1
      /\ \A k \in 1..(Len(s) + 1) : t[k] = IF k <= n THEN d[k] ELSE c[k - n]
  BY <1>0, <1>2, <1>4, ConcatProperties
<1> HIDE DEF t
<1>6. \A k \in 1..(Len(s) + 1) : t[k] = IF k < n THEN s[k] ELSE IF k = n THEN it ELSE s[k - 1]
  <2>1. ASSUME NEW k \in 1..(Len(s) + 1), k > n PROVE t[k] = s[k - 1]
    <3>1. k - n \in 1..(Len(s) - n + 1) /\ n + (k - n) - 1 = k - 1 /\ ~(k <= n)
      BY <1>0, <2>1
    <3>2. t[k] = c[k - n]
      BY <1>5, <3>1
    <3>3. c[k - n] = s[n + (k - n) - 1]
      BY <1>2, <3>1
    <3> QED
      BY <3>1, <3>2, <3>3
  <2>2. ASSUME NEW k \in 1..(Len(s) + 1), k <= n PROVE t[k] = IF k < n THEN s[k] ELSE it
    BY <1>0, <1>4, <1>5, <2>2
  <2> QED
    BY <1>0, <2>1, <2>2
<1>7. InsertAt(s, n, it) = t
  BY Zenon DEF InsertAt, a, c, d, t
<1> QED
  BY <1>0, <1>5, <1>6, <1>7 DEF Inserted
=============================================================================
