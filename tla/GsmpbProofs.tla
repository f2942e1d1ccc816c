---------------------------- MODULE GsmpbProofs ----------------------------
(***************************************************************************)
(* Theorems about gsmpb and the sorted phonebooks it works on, for any     *)
(* contents of the files, any number of slots, any bounds and any faults.  *)
(* The first half is about the functions of SortedPhonebook on one         *)
(* phonebook, as lemmas without state; an invariant of one phonebook (Inv1)*)
(* is then kept by every operation, lifted to both phonebooks (BooksInv)   *)
(* and joined with what the program counter of gsmpb says (MainInv). The   *)
(* last part is about the result: what each loop of gsmpb has made of the  *)
(* destination so far (ResultInv). The folds of the model are reasoned     *)
(* about through FoldTheorems.                                             *)
(***************************************************************************)
EXTENDS Gsmpb, SequenceTheorems, FiniteSetTheorems, FunctionTheorems, TLAPS

-----------------------------------------------------------------------------
(* The map: where an item is put. *)

Puts  == INSTANCE FoldTheorems WITH op <- Put
Keeps == INSTANCE FoldTheorems WITH op <- Keep
Reads == INSTANCE FoldTheorems WITH op <- ReadLine
Loads == INSTANCE FoldTheorems WITH op <- PutUsed

EntryType == [index : Int, text : Text \cup {0}, tel : Tel \cup {0}, changed : BOOLEAN]
ItemType  == [key : Int \X Int, e : EntryType]
BookType  == [open : BOOLEAN, closing : BOOLEAN, order : Orders, useIndices : BOOLEAN,
              items : Seq(ItemType), changed : BOOLEAN, madeBackup : BOOLEAN]

\* t is s with it at place n.
Inserted(s, t, n, it) ==
  /\ n \in 1..(Len(s) + 1) /\ Len(t) = Len(s) + 1
  /\ \A k \in 1..Len(t) : t[k] = IF k < n THEN s[k] ELSE IF k = n THEN it ELSE s[k - 1]

\* InsertAt() of a sequence: the item is at the place, the others keep their order.
LEMMA InsertAtFacts ==
  ASSUME NEW S, NEW s \in Seq(S), NEW it \in S, NEW n \in 1..(Len(s) + 1)
  PROVE  /\ InsertAt(s, n, it) \in Seq(S)
         /\ Inserted(s, InsertAt(s, n, it), n, it)
<1>1. InsertAt(s, n, it) = Puts!InsertAt(s, n, it)
  BY Zenon DEF InsertAt, Puts!InsertAt
<1>2. Puts!InsertAt(s, n, it) \in Seq(S) /\ Puts!Inserted(s, Puts!InsertAt(s, n, it), n, it)
  BY Puts!InsertAtFacts
<1> QED
  BY <1>1, <1>2 DEF Inserted, Puts!Inserted

\* insert() of the map: the item is put behind those whose key is not greater.
LEMMA PutFacts ==
  ASSUME NEW items \in Seq(ItemType), NEW it \in ItemType
  PROVE  /\ Put(items, it) \in Seq(ItemType)
         /\ \E n \in 1..(Len(items) + 1) : Inserted(items, Put(items, it), n, it)
         /\ Inserted(items, Put(items, it),
              1 + Cardinality({k \in DOMAIN items : items[k].key[1] <= it.key[1]}), it)
<1> DEFINE T == {k \in DOMAIN items : items[k].key[1] <= it.key[1]}
           n == 1 + Cardinality(T)
<1>0. Len(items) \in Nat
  BY LenProperties
<1>1. IsFiniteSet(1..Len(items)) /\ Cardinality(1..Len(items)) = Len(items)
  BY <1>0, FS_Interval
<1>2. T \subseteq 1..Len(items)
  BY LenProperties
<1> HIDE DEF T
<1>3. Cardinality(T) \in Nat /\ Cardinality(T) <= Len(items)
  BY <1>1, <1>2, FS_Subset, FS_CardinalityType
<1>4. n \in 1..(Len(items) + 1)
  BY <1>0, <1>3
<1>5. Put(items, it) = InsertAt(items, n, it)
  BY Zenon DEF Put, T
<1> HIDE DEF n
<1>6. Put(items, it) \in Seq(ItemType) /\ Inserted(items, Put(items, it), n, it)
  BY <1>4, <1>5, InsertAtFacts
<1> QED
  BY <1>4, <1>6 DEF n, T

\* A set of places that has with a place all places before it.
LEMMA InitialPlaces ==
  ASSUME NEW n \in Nat, NEW T \in SUBSET (1..n), \A j \in 1..n, k \in T : j <= k => j \in T
  PROVE  T = 1..Cardinality(T) /\ Cardinality(T) \in 0..n
<1> DEFINE U == {k \in Nat \ {0} : k \notin T}
<1>1. n + 1 \in U /\ U \in SUBSET Nat
  OBVIOUS
<1>2. PICK x \in U : \A y \in U : x <= y
  BY <1>1, Puts!LeastNumber
<1>3. x \in 1..(n + 1) /\ x \notin T
  BY <1>1, <1>2
<1>4. \A k \in 1..(x - 1) : k \in T
  <2>1. \A k \in 1..(x - 1) : k \in Nat \ {0} /\ ~(x <= k)
    BY <1>3
  <2> QED
    BY <1>2, <2>1
<1> HIDE DEF U
<1>5. \A k \in T : k \in 1..(x - 1)
  <2>1. ASSUME NEW k \in T, x <= k PROVE FALSE
    <3>1. x \in 1..n
      BY <1>3, <2>1
    <3> QED
      BY <1>3, <2>1, <3>1
  <2>2. \A k \in T : k \in 1..n
    OBVIOUS
  <2> QED
    BY <1>3, <2>1, <2>2
<1>6. T = 1..(x - 1)
  BY <1>4, <1>5
<1>7. Cardinality(1..(x - 1)) = x - 1
  BY <1>3, FS_Interval
<1> QED
  BY <1>3, <1>6, <1>7

InKeyOrder(items) == \A j, k \in 1..Len(items) : j < k => items[j].key[1] <= items[k].key[1]

\* The map stays sorted when an item is put into it.
LEMMA PutSorted ==
  ASSUME NEW items \in Seq(ItemType), NEW it \in ItemType, InKeyOrder(items)
  PROVE  InKeyOrder(Put(items, it))
<1> DEFINE T == {k \in DOMAIN items : items[k].key[1] <= it.key[1]}
           n == 1 + Cardinality(T)
           t == Put(items, it)
<1>0. Len(items) \in Nat /\ DOMAIN items = 1..Len(items) /\ it.key[1] \in Int
      /\ \A k \in 1..Len(items) : items[k].key[1] \in Int
  <2>1. \A k \in 1..Len(items) : items[k] \in ItemType
    BY ElementOfSeq
  <2> QED
    BY <2>1, LenProperties DEF ItemType
<1>1. T \in SUBSET (1..Len(items))
  BY <1>0
<1>2. \A j \in 1..Len(items), k \in T : j <= k => j \in T
  BY <1>0 DEF InKeyOrder
<1> HIDE DEF T
<1>3. T = 1..Cardinality(T) /\ Cardinality(T) \in 0..Len(items)
  BY <1>0, <1>1, <1>2, InitialPlaces
<1>4. Inserted(items, t, n, it)
  BY PutFacts DEF T
<1>5. \A k \in 1..Len(items) : k < n <=> items[k].key[1] <= it.key[1]
  <2>1. \A k \in 1..Len(items) : k \in T <=> items[k].key[1] <= it.key[1]
    BY <1>0 DEF T
  <2> QED
    BY <1>0, <1>3, <2>1
<1>6. n \in 1..(Len(items) + 1)
  BY <1>0, <1>3
<1> HIDE DEF n, t
<1>7. ASSUME NEW j \in 1..Len(t), NEW k \in 1..Len(t), j < k PROVE t[j].key[1] <= t[k].key[1]
  <2>0. Len(t) = Len(items) + 1
    BY <1>4 DEF Inserted
  <2>1. t[j] = IF j < n THEN items[j] ELSE IF j = n THEN it ELSE items[j - 1]
    BY <1>4 DEF Inserted
  <2>2. t[k] = IF k < n THEN items[k] ELSE IF k = n THEN it ELSE items[k - 1]
    BY <1>4 DEF Inserted
  <2>3. CASE k < n
    <3>1. j \in 1..Len(items) /\ k \in 1..Len(items) /\ t[j] = items[j] /\ t[k] = items[k]
      BY <1>6, <1>7, <1>0, <2>1, <2>2, <2>3
    <3> QED
      BY <1>7, <3>1 DEF InKeyOrder
  <2>4. CASE k = n
    <3>1. j \in 1..Len(items) /\ t[j] = items[j] /\ t[k] = it /\ j < n
      BY <1>6, <1>7, <1>0, <2>1, <2>2, <2>4
    <3> QED
      BY <1>5, <3>1
  <2>5. CASE k > n /\ j = n
    <3>1. k - 1 \in 1..Len(items) /\ t[k] = items[k - 1] /\ t[j] = it /\ ~(k - 1 < n)
      BY <1>6, <1>7, <1>0, <2>0, <2>1, <2>2, <2>5
    <3>2. ~(items[k - 1].key[1] <= it.key[1]) /\ items[k - 1].key[1] \in Int
      BY <1>0, <1>5, <3>1
    <3> QED
      BY <1>0, <3>1, <3>2
  <2>6. CASE k > n /\ j < n
    <3>1. /\ k - 1 \in 1..Len(items) /\ t[k] = items[k - 1] /\ j \in 1..Len(items) /\ t[j] = items[j]
          /\ ~(k - 1 < n)
      BY <1>6, <1>7, <1>0, <2>0, <2>1, <2>2, <2>6
    <3>2. items[j].key[1] <= it.key[1] /\ ~(items[k - 1].key[1] <= it.key[1])
      BY <1>5, <2>6, <3>1
    <3>3. items[j].key[1] \in Int /\ items[k - 1].key[1] \in Int
      BY <1>0, <3>1
    <3> QED
      BY <1>0, <3>1, <3>2, <3>3
  <2>7. CASE k > n /\ j > n
    <3>1. /\ k - 1 \in 1..Len(items) /\ t[k] = items[k - 1]
          /\ j - 1 \in 1..Len(items) /\ t[j] = items[j - 1] /\ j - 1 < k - 1
      BY <1>6, <1>7, <1>0, <2>0, <2>1, <2>2, <2>7
    <3> QED
      BY <3>1 DEF InKeyOrder
  <2> QED
    BY <1>6, <1>7, <1>0, <2>3, <2>4, <2>5, <2>6, <2>7
<1> QED
  BY <1>7 DEF InKeyOrder, t
-----------------------------------------------------------------------------
(* A map filled one item after the other. *)

Bijective(f, n) ==
  /\ f \in [1..n -> 1..n]
  /\ \A j, k \in 1..n : f[j] = f[k] => j = k
  /\ \A m \in 1..n : \E k \in 1..n : f[k] = m

\* The places of a sequence into which another item is inserted at place i.
WithPlace(f, k, i) == [j \in 1..(k + 1) |-> IF j < i THEN f[j] ELSE IF j = i THEN k + 1 ELSE f[j - 1]]

\* The places of the items after one more was put among them are numbered once.
LEMMA InsertedPlaces ==
  ASSUME NEW k \in Nat, NEW i \in 1..(k + 1), NEW f, Bijective(f, k),
         NEW g, g = WithPlace(f, k, i)
  PROVE  /\ Bijective(g, k + 1) /\ g[i] = k + 1
         /\ \A j \in 1..(k + 1) : /\ j < i => j \in 1..k /\ g[j] = f[j] /\ f[j] \in 1..k
                                  /\ j > i => j - 1 \in 1..k /\ g[j] = f[j - 1] /\ f[j - 1] \in 1..k
<1>1. g[i] = k + 1
  BY DEF WithPlace
<1>2. \A j \in 1..(k + 1) : /\ j < i => j \in 1..k
                            /\ j > i => j - 1 \in 1..k
  OBVIOUS
<1>3. \A j \in 1..(k + 1) : /\ j < i => g[j] = f[j]
                            /\ j > i => g[j] = f[j - 1]
  BY DEF WithPlace
<1>4. \A j \in 1..k : f[j] \in 1..k
  BY DEF Bijective
<1>5. DOMAIN g = 1..(k + 1) /\ g = [j \in 1..(k + 1) |-> g[j]]
  BY DEF WithPlace
<1> DEFINE h(x) == IF x < i THEN x ELSE x - 1
<1>6. \A x \in 1..(k + 1) : x # i => h(x) \in 1..k /\ g[x] = f[h(x)] /\ g[x] \in 1..k
  BY <1>2, <1>3, <1>4
<1>7. \A j \in 1..(k + 1) : g[j] \in 1..(k + 1)
  BY <1>1, <1>6
<1>8. g \in [1..(k + 1) -> 1..(k + 1)]
  BY <1>5, <1>7
<1>9. ASSUME NEW j \in 1..(k + 1), NEW m \in 1..(k + 1), g[j] = g[m] PROVE j = m
  <2>1. ASSUME NEW x \in 1..(k + 1), x # i PROVE g[x] # k + 1
    <3>1. g[x] \in 1..k
      BY <1>6, <2>1
    <3> QED
      BY <3>1
  <2>2. CASE j # i /\ m # i
    <3>1. h(j) \in 1..k /\ h(m) \in 1..k /\ f[h(j)] = f[h(m)]
      BY <1>6, <1>9, <2>2
    <3>2. h(j) = h(m)
      BY <3>1 DEF Bijective
    <3> QED
      BY <2>2, <3>2
  <2> QED
    BY <1>1, <1>9, <2>1, <2>2
<1>10. ASSUME NEW m \in 1..(k + 1) PROVE \E j \in 1..(k + 1) : g[j] = m
  <2>1. CASE m = k + 1
    BY <1>1, <2>1
  <2>2. CASE m \in 1..k
    <3>1. PICK j \in 1..k : f[j] = m
      BY <2>2 DEF Bijective
    <3>2. CASE j < i
      BY <1>3, <3>1, <3>2
    <3>3. CASE j >= i
      <4>1. j + 1 \in 1..(k + 1) /\ j + 1 > i /\ (j + 1) - 1 = j
        BY <3>3
      <4> QED
        BY <1>3, <3>1, <4>1
    <3> QED
      BY <3>2, <3>3
  <2> QED
    BY <2>1, <2>2
<1> QED
  BY <1>1, <1>2, <1>3, <1>4, <1>8, <1>9, <1>10 DEF Bijective

\* t has the items of s, in another order: t[k] is s[f[k]].
Shuffled(s, t, f) ==
  /\ Len(t) = Len(s)
  /\ Bijective(f, Len(s))
  /\ \A k \in 1..Len(s) : t[k] = s[f[k]]

\* Putting the items of a sequence into the map, one after the other.
PutAll(items, s) == FoldLeft(Put, items, s)

IsPutFold(base, seq, n, acc) ==
                  /\ acc[0] = base
                  /\ \A k \in 1..n : acc[k] = Put(acc[k - 1], seq[k])
                  /\ PutAll(base, seq) = acc[n]

\* The fold that puts the items of a sequence one after the other, as iterates.
LEMMA PutFold ==
  ASSUME NEW base, NEW seq, NEW n \in Nat, DOMAIN seq = 1..n
  PROVE  \E acc : IsPutFold(base, seq, n, acc)
<1>1. \E acc : Puts!Iterates(base, seq, n, acc)
  BY Puts!FoldLeftIterates
<1>2. Puts!Fold(base, seq) = PutAll(base, seq)
  BY Zenon DEF PutAll, FoldLeft, MapThenFoldSet, Puts!Fold, Puts!FoldLeft, Puts!MapThenFoldSet, Max, Puts!Max
<1> QED
  BY <1>1, <1>2 DEF IsPutFold, Puts!Iterates

\* A map filled with the items of a sequence is sorted and has the same items.
LEMMA SortingFold ==
  ASSUME NEW s \in Seq(ItemType)
  PROVE  LET t == PutAll(<<>>, s)
         IN t \in Seq(ItemType) /\ InKeyOrder(t) /\ \E f : Shuffled(s, t, f)
<1> DEFINE n == Len(s)
<1>01. n \in Nat /\ DOMAIN s = 1..n
  BY LenProperties
<1>0. n \in Nat /\ DOMAIN s = 1..n /\ \A k \in 1..n : s[k] \in ItemType
  BY LenProperties, ElementOfSeq
<1> HIDE DEF n
<1>3a. PICK acc : IsPutFold(<<>>, s, n, acc)
  BY <1>01, PutFold, Zenon
<1>3. /\ acc[0] = <<>>
      /\ \A k \in 1..n : acc[k] = Put(acc[k - 1], s[k])
      /\ PutAll(<<>>, s) = acc[n]
  BY <1>3a, Zenon DEF IsPutFold
<1> DEFINE Good(k, t, f) ==
             /\ t \in Seq(ItemType) /\ InKeyOrder(t) /\ Len(t) = k
             /\ Bijective(f, k)
             /\ \A j \in 1..k : t[j] = s[f[j]]
           S == {k \in Nat : k <= n => \E f : Good(k, acc[k], f)}
<1>4. 0 \in S
  <2>1. Good(0, <<>>, [j \in 1..0 |-> j])
    BY EmptySeq DEF InKeyOrder, Bijective
  <2> HIDE DEF Good
  <2> QED
    BY <1>3, <2>1
<1>5. ASSUME NEW k \in Nat, k \in S PROVE k + 1 \in S
  <2>1. SUFFICES ASSUME k + 1 <= n PROVE \E f : Good(k + 1, acc[k + 1], f)
    OBVIOUS
  <2>2. PICK f : Good(k, acc[k], f)
    BY <1>0, <1>5, <2>1
  <2> DEFINE a == acc[k]
             c == acc[k + 1]
  <2>3. k + 1 \in 1..n /\ s[k + 1] \in ItemType /\ c = Put(a, s[k + 1])
    <3>1. k + 1 \in 1..n /\ (k + 1) - 1 = k
      BY <1>0, <2>1
    <3>2. acc[k + 1] = Put(acc[(k + 1) - 1], s[k + 1])
      BY <1>3, <3>1
    <3> QED
      BY <1>0, <3>1, <3>2
  <2>4. a \in Seq(ItemType) /\ InKeyOrder(a) /\ Len(a) = k
    BY <2>2
  <2>5. /\ Bijective(f, k)
        /\ \A j \in 1..k : a[j] = s[f[j]]
    BY <2>2
  <2> HIDE DEF Good, a, c
  <2>6. c \in Seq(ItemType) /\ InKeyOrder(c)
    BY <2>3, <2>4, PutFacts, PutSorted
  <2>7. PICK i \in 1..(k + 1) : Inserted(a, c, i, s[k + 1])
    BY <2>3, <2>4, PutFacts
  <2>8. /\ Len(c) = k + 1
        /\ \A j \in 1..(k + 1) : c[j] = IF j < i THEN a[j] ELSE IF j = i THEN s[k + 1] ELSE a[j - 1]
    BY <2>4, <2>7 DEF Inserted
  <2> DEFINE g == WithPlace(f, k, i)
  <2>12. /\ Bijective(g, k + 1) /\ g[i] = k + 1
         /\ \A j \in 1..(k + 1) : /\ j < i => j \in 1..k /\ g[j] = f[j] /\ f[j] \in 1..k
                                  /\ j > i => j - 1 \in 1..k /\ g[j] = f[j - 1] /\ f[j - 1] \in 1..k
    BY <2>5, InsertedPlaces, Zenon
  <2> HIDE DEF g
  <2>13. ASSUME NEW j \in 1..(k + 1) PROVE c[j] = s[g[j]]
    <3>1. CASE j < i
      BY <2>5, <2>8, <2>12, <3>1
    <3>2. CASE j = i
      BY <2>8, <2>12, <3>2
    <3>3. CASE j > i
      <4>1. c[j] = a[j - 1]
        BY <2>8, <3>3
      <4> QED
        BY <2>5, <2>12, <3>3, <4>1
    <3> QED
      BY <3>1, <3>2, <3>3
  <2>14. Good(k + 1, c, g)
    BY <2>6, <2>8, <2>12, <2>13, Zenon DEF Good
  <2> QED
    BY <2>14 DEF c
<1> HIDE DEF Good
<1>6. n \in S
  BY <1>0, <1>4, <1>5, Puts!Induction
<1>7. PICK f : Good(n, acc[n], f)
  BY <1>0, <1>6
<1> USE DEF Good
<1> DEFINE t == acc[n]
<1>8. t \in Seq(ItemType) /\ InKeyOrder(t) /\ Len(t) = n
  BY <1>7
<1>9. Shuffled(s, t, f)
  BY <1>7 DEF Shuffled, n
<1>10. PutAll(<<>>, s) = t
  BY <1>3
<1> HIDE DEF t
<1> QED
  BY <1>8, <1>9, <1>10, Zenon
-----------------------------------------------------------------------------
(* Keys and setSortOrder(). *)

\* The item that an entry becomes in a map with this order.
LEMMA KeyFacts ==
  ASSUME NEW order \in Orders, NEW e \in EntryType
  PROVE  /\ Item(order, e) \in ItemType
         /\ Item(order, e).e = e
         /\ Item(order, e).key = KeyOf(order, e)
         /\ order = "ByIndex" => KeyOf(order, e)[1] = e.index
<1>1. /\ e.text \in Text \cup {0} /\ e.tel \in Tel \cup {0} /\ e.index \in Int
  BY DEF EntryType
<1>2. /\ Lower[e.text] \in Int /\ TelOrder[e.tel] \in Int /\ TelNumber[e.tel] \in Int
  <2>1. /\ Lower \in [Text \cup {0} -> Nat] /\ TelOrder \in [Tel \cup {0} -> Nat]
        /\ TelNumber \in [Tel \cup {0} -> Nat]
    BY SortedPhonebookAssumption, Zenon
  <2>2. Lower[e.text] \in Nat /\ TelOrder[e.tel] \in Nat /\ TelNumber[e.tel] \in Nat
    BY <1>1, <2>1, Zenon
  <2> QED
    BY <2>2
<1>3. KeyOf(order, e) \in Int \X Int
  <2>1. CASE order = "ByText"
    BY <1>2, <2>1 DEF KeyOf
  <2>2. CASE order = "ByTelephone"
    BY <1>2, <2>2 DEF KeyOf
  <2>3. CASE order = "ByIndex"
    BY <1>1, <2>3 DEF KeyOf
  <2> QED
    BY <2>1, <2>2, <2>3 DEF Orders
<1>4. order = "ByIndex" => KeyOf(order, e)[1] = e.index
  BY DEF KeyOf
<1> QED
  BY <1>3, <1>4 DEF Item, ItemType

\* The entries of t are those of s: at k is the one that was at f[k].
Reordered(s, t, f) ==
  /\ Len(t) = Len(s)
  /\ Bijective(f, Len(s))
  /\ \A k \in 1..Len(s) : t[k].e = s[f[k]].e
Keyed(items, order) == \A k \in 1..Len(items) : items[k].key = KeyOf(order, items[k].e)

\* The items of a phonebook, with the keys of another order.
Rekeyed(p, order) == [k \in DOMAIN p.items |-> Item(order, p.items[k].e)]

\* The items with the keys of another order have the same entries.
LEMMA RekeyedFacts ==
  ASSUME NEW p \in BookType, NEW order \in Orders
  PROVE  /\ Rekeyed(p, order) \in Seq(ItemType)
         /\ Len(Rekeyed(p, order)) = Len(p.items)
         /\ \A k \in 1..Len(p.items) : /\ Rekeyed(p, order)[k].e = p.items[k].e
                                       /\ Rekeyed(p, order)[k].key = KeyOf(order, p.items[k].e)
<1> DEFINE s == p.items
           n == Len(s)
           t == Rekeyed(p, order)
<1>1. s \in Seq(ItemType)
  BY DEF BookType
<1>2. n \in Nat /\ DOMAIN s = 1..n
  BY <1>1, LenProperties
<1>3. \A k \in 1..n : s[k].e \in EntryType
  <2>1. \A k \in 1..n : s[k] \in ItemType
    BY <1>1, ElementOfSeq
  <2> QED
    BY <2>1 DEF ItemType
<1>4. t = [k \in 1..n |-> Item(order, s[k].e)]
  BY <1>2 DEF Rekeyed
<1> HIDE DEF s, n, t
<1>5. \A k \in 1..n : t[k] = Item(order, s[k].e) /\ t[k] \in ItemType
                      /\ t[k].e = s[k].e /\ t[k].key = KeyOf(order, s[k].e)
  BY <1>3, <1>4, KeyFacts
<1>6. t \in Seq(ItemType) /\ Len(t) = n
  <2>1. [k \in 1..n |-> t[k]] \in Seq(ItemType)
    BY <1>2, <1>5
  <2>2. t = [k \in 1..n |-> t[k]] /\ DOMAIN t = 1..n
    BY <1>4
  <2>3. t \in Seq(ItemType)
    BY <2>1, <2>2, Zenon
  <2> QED
    BY <1>2, <2>2, <2>3
<1> QED
  BY <1>5, <1>6 DEF s, n, t

\* What setSortOrder() leaves alone.
SameMembers(p, q) ==
  /\ q.open = p.open /\ q.closing = p.closing /\ q.useIndices = p.useIndices
  /\ q.changed = p.changed /\ q.madeBackup = p.madeBackup

\* setSortOrder(): sorted by the new keys, with the entries that were there.
LEMMA SortFacts ==
  ASSUME NEW p \in BookType, InKeyOrder(p.items), NEW order \in Orders,
         NEW q, q = SetSortOrder(p, order)
  PROVE  /\ q \in BookType /\ InKeyOrder(q.items)
         /\ q.order = order /\ SameMembers(p, q)
         /\ \E f : Reordered(p.items, q.items, f)
         /\ order # p.order => Keyed(q.items, order)
         /\ order = p.order => q = p
<1>0. p.items \in Seq(ItemType) /\ Len(p.items) \in Nat
  BY LenProperties DEF BookType
<1>1. CASE order = p.order
  <2>1. q = p
    BY <1>1 DEF SetSortOrder
  <2> DEFINE f == [k \in 1..Len(p.items) |-> k]
  <2>2. Reordered(p.items, p.items, f)
    BY <1>0 DEF Reordered, Bijective
  <2> HIDE DEF f
  <2> QED
    BY <1>1, <2>1, <2>2 DEF SameMembers
<1>2. CASE order # p.order
  <2> DEFINE s == Rekeyed(p, order)
             t == PutAll(<<>>, s)
  <2>0. SetSortOrder(p, order) = IF order = p.order THEN p ELSE [p EXCEPT !.order = order, !.items = t]
    BY Zenon DEF SetSortOrder, PutAll, Rekeyed
  <2>1. q = [p EXCEPT !.order = order, !.items = t]
    BY <1>2, <2>0
  <2>2. /\ s \in Seq(ItemType) /\ Len(s) = Len(p.items)
        /\ \A k \in 1..Len(p.items) : s[k].e = p.items[k].e /\ s[k].key = KeyOf(order, p.items[k].e)
    BY RekeyedFacts
  <2> HIDE DEF s
  <2>3. t \in Seq(ItemType) /\ InKeyOrder(t) /\ \E f : Shuffled(s, t, f)
    BY <2>2, SortingFold
  <2> HIDE DEF t
  <2>4. PICK f : Shuffled(s, t, f)
    BY <2>3
  <2>5. /\ Len(t) = Len(p.items) /\ Bijective(f, Len(p.items))
        /\ \A k \in 1..Len(p.items) : f[k] \in 1..Len(p.items) /\ t[k] = s[f[k]]
    BY <2>2, <2>4 DEF Shuffled, Bijective
  <2>6. Reordered(p.items, t, f)
    BY <2>2, <2>5 DEF Reordered
  <2>7. Keyed(t, order)
    BY <2>2, <2>5 DEF Keyed
  <2>8. q \in BookType
    BY <2>1, <2>3 DEF BookType
  <2>9. q.items = t /\ q.order = order /\ SameMembers(p, q)
    BY <2>1 DEF BookType, SameMembers
  <2> QED
    BY <1>2, <2>3, <2>6, <2>7, <2>8, <2>9
<1> QED
  BY <1>1, <1>2
-----------------------------------------------------------------------------
(* Dropping items. *)

\* t has the first n items of s but those at S: at j the one that was at g[j].
Selected(s, n, S, t, g) ==
  /\ g \in [1..Len(t) -> 1..n]
  /\ \A i, j \in 1..Len(t) : i < j => g[i] < g[j]
  /\ \A j \in 1..Len(t) : t[j] = s[g[j]] /\ g[j] \notin S
  /\ \A k \in 1..n : k \notin S => \E j \in 1..Len(t) : g[j] = k

WithLast(g, m, k) == [j \in 1..(m + 1) |-> IF j <= m THEN g[j] ELSE k]

\* One more item looked at: it is kept, or it is one of those at S.
LEMMA SelectedNext ==
  ASSUME NEW s \in Seq(ItemType), NEW n \in Nat, n + 1 \in 1..Len(s), NEW S,
         NEW t \in Seq(ItemType), NEW g, Selected(s, n, S, t, g)
  PROVE  /\ n + 1 \in S => Selected(s, n + 1, S, t, g)
         /\ n + 1 \notin S =>
              Selected(s, n + 1, S, Append(t, s[n + 1]), WithLast(g, Len(t), n + 1))
<1> DEFINE m == Len(t)
<1>0. m \in Nat /\ Len(s) \in Nat
  BY LenProperties
<1>1. /\ g \in [1..m -> 1..n]
      /\ \A i, j \in 1..m : i < j => g[i] < g[j]
      /\ \A j \in 1..m : t[j] = s[g[j]] /\ g[j] \notin S
      /\ \A k \in 1..n : k \notin S => \E j \in 1..m : g[j] = k
  BY DEF Selected
<1>2. ASSUME n + 1 \in S PROVE Selected(s, n + 1, S, t, g)
  <2>1. g \in [1..m -> 1..(n + 1)]
    BY <1>0, <1>1
  <2>2. \A k \in 1..(n + 1) : k \notin S => k \in 1..n
    BY <1>2
  <2> QED
    BY <1>1, <2>1, <2>2 DEF Selected
<1>3. ASSUME n + 1 \notin S
      PROVE  Selected(s, n + 1, S, Append(t, s[n + 1]), WithLast(g, m, n + 1))
  <2> DEFINE u == Append(t, s[n + 1])
             h == WithLast(g, m, n + 1)
  <2>1. s[n + 1] \in ItemType
    BY ElementOfSeq
  <2>2. Len(u) = m + 1 /\ (\A j \in 1..m : u[j] = t[j]) /\ u[m + 1] = s[n + 1]
    BY <2>1, AppendProperties
  <2>3. h \in [1..(m + 1) -> 1..(n + 1)]
    BY <1>0, <1>1 DEF WithLast
  <2>4. (\A j \in 1..m : h[j] = g[j]) /\ h[m + 1] = n + 1
    BY <1>0 DEF WithLast
  <2> HIDE DEF u, h
  <2>5. ASSUME NEW i \in 1..(m + 1), NEW j \in 1..(m + 1), i < j PROVE h[i] < h[j]
    <3>1. i \in 1..m /\ h[i] = g[i] /\ g[i] \in 1..n
      BY <1>0, <1>1, <2>4, <2>5
    <3>2. CASE j = m + 1
      BY <2>4, <3>1, <3>2
    <3>3. CASE j # m + 1
      <4>1. j \in 1..m
        BY <1>0, <3>3
      <4> QED
        BY <1>1, <2>4, <2>5, <3>1, <4>1
    <3> QED
      BY <3>2, <3>3
  <2>6. ASSUME NEW j \in 1..(m + 1) PROVE u[j] = s[h[j]] /\ h[j] \notin S
    <3>1. CASE j = m + 1
      BY <1>3, <2>2, <2>4, <3>1
    <3>2. CASE j # m + 1
      <4>1. j \in 1..m
        BY <1>0, <3>2
      <4> QED
        BY <1>1, <2>2, <2>4, <4>1
    <3> QED
      BY <3>1, <3>2
  <2>7. ASSUME NEW k \in 1..(n + 1), k \notin S PROVE \E j \in 1..(m + 1) : h[j] = k
    <3>1. CASE k = n + 1
      BY <1>0, <2>4, <3>1
    <3>2. CASE k # n + 1
      <4>1. PICK j \in 1..m : g[j] = k
        BY <1>1, <2>7, <3>2
      <4> QED
        BY <1>0, <2>4, <4>1
    <3> QED
      BY <3>1, <3>2
  <2>8. Selected(s, n + 1, S, u, h)
    BY <2>2, <2>3, <2>5, <2>6, <2>7 DEF Selected
  <2> QED
    BY <2>8 DEF u, h
<1> QED
  BY <1>2, <1>3

KeepAll(items, s) == FoldLeft(Keep, items, s)
IsKeepFold(base, seq, n, acc) ==
  /\ acc[0] = base
  /\ \A k \in 1..n : acc[k] = Keep(acc[k - 1], seq[k])
  /\ KeepAll(base, seq) = acc[n]

\* The fold that keeps items, as iterates.
LEMMA KeepFold ==
  ASSUME NEW base, NEW seq, NEW n \in Nat, DOMAIN seq = 1..n
  PROVE  \E acc : IsKeepFold(base, seq, n, acc)
<1>1. \E acc : Keeps!Iterates(base, seq, n, acc)
  BY Keeps!FoldLeftIterates
<1>2. Keeps!Fold(base, seq) = KeepAll(base, seq)
  BY Zenon DEF KeepAll, FoldLeft, MapThenFoldSet, Keeps!Fold, Keeps!FoldLeft, Keeps!MapThenFoldSet, Max, Keeps!Max
<1> QED
  BY <1>1, <1>2 DEF IsKeepFold, Keeps!Iterates

Marked(items, S) == [k \in DOMAIN items |-> <<k \notin S, items[k]>>]

\* Items dropped from a map: those not at S stay, in their order.
LEMMA DropFacts ==
  ASSUME NEW s \in Seq(ItemType), NEW S, NEW t, t = Drop(s, S)
  PROVE  /\ t \in Seq(ItemType)
         /\ \E g : Selected(s, Len(s), S, t, g)
<1> DEFINE n == Len(s)
           seq == Marked(s, S)
<1>1. n \in Nat /\ DOMAIN s = 1..n
  BY LenProperties
<1>2. DOMAIN seq = 1..n /\ \A k \in 1..n : seq[k] = <<k \notin S, s[k]>>
  BY <1>1 DEF Marked
<1>3. t = KeepAll(<<>>, seq)
  BY Zenon DEF Drop, KeepAll, Marked
<1> HIDE DEF n, seq
<1>4. PICK acc : IsKeepFold(<<>>, seq, n, acc)
  BY <1>1, <1>2, KeepFold, Zenon
<1>5. /\ acc[0] = <<>>
      /\ \A k \in 1..n : acc[k] = Keep(acc[k - 1], seq[k])
      /\ t = acc[n]
  BY <1>3, <1>4, Zenon DEF IsKeepFold
<1> DEFINE Good(k) == acc[k] \in Seq(ItemType) /\ \E g : Selected(s, k, S, acc[k], g)
           I == {k \in Nat : k <= n => Good(k)}
<1>6. 0 \in I
  <2>1. Selected(s, 0, S, <<>>, [j \in 1..0 |-> j])
    BY EmptySeq DEF Selected
  <2>2. <<>> \in Seq(ItemType)
    BY EmptySeq
  <2> QED
    BY <1>5, <2>1, <2>2
<1>7. ASSUME NEW k \in Nat, k \in I PROVE k + 1 \in I
  <2>1. SUFFICES ASSUME k + 1 <= n PROVE Good(k + 1)
    OBVIOUS
  <2> DEFINE a == acc[k]
  <2>2. a \in Seq(ItemType) /\ \E g : Selected(s, k, S, a, g)
    BY <1>1, <1>7, <2>1
  <2>3. PICK g : Selected(s, k, S, a, g)
    BY <2>2
  <2>4. k + 1 \in 1..n /\ (k + 1) - 1 = k
    BY <1>1, <2>1
  <2>5. acc[k + 1] = IF k + 1 \notin S THEN Append(a, s[k + 1]) ELSE a
    <3>1. acc[k + 1] = Keep(a, <<k + 1 \notin S, s[k + 1]>>)
      <4>1. acc[k + 1] = Keep(acc[(k + 1) - 1], seq[k + 1])
        BY <1>5, <2>4
      <4> QED
        BY <1>2, <2>4, <4>1
    <3> QED
      BY <3>1, Zenon DEF Keep
  <2>6. k + 1 \in 1..Len(s) /\ s[k + 1] \in ItemType
    BY <2>4, ElementOfSeq DEF n
  <2> HIDE DEF a
  <2>7. CASE k + 1 \in S
    <3>1. Selected(s, k + 1, S, a, g)
      BY <2>2, <2>3, <2>6, <2>7, SelectedNext
    <3> QED
      BY <2>2, <2>5, <2>7, <3>1
  <2>8. CASE k + 1 \notin S
    <3>1. Selected(s, k + 1, S, Append(a, s[k + 1]), WithLast(g, Len(a), k + 1))
      BY <2>2, <2>3, <2>6, <2>8, SelectedNext
    <3>2. Append(a, s[k + 1]) \in Seq(ItemType)
      BY <2>2, <2>6, AppendProperties
    <3> QED
      BY <2>5, <2>8, <3>1, <3>2
  <2> QED
    BY <2>7, <2>8
<1> HIDE DEF Good
<1>8. n \in I
  BY <1>1, <1>6, <1>7, Keeps!Induction
<1>9. Good(n)
  BY <1>1, <1>8
<1> QED
  BY <1>5, <1>9 DEF Good, n

\* Nothing dropped.
LEMMA DropNone ==
  ASSUME NEW s \in Seq(ItemType)
  PROVE  Drop(s, {}) = s
<1> DEFINE t == Drop(s, {})
           n == Len(s)
           seq == Marked(s, {})
<1>1. n \in Nat /\ DOMAIN s = 1..n
  BY LenProperties
<1>2. DOMAIN seq = 1..n /\ \A k \in 1..n : seq[k] = <<k \notin {}, s[k]>>
  BY <1>1 DEF Marked
<1>3. t = KeepAll(<<>>, seq)
  BY Zenon DEF Drop, KeepAll, Marked
<1> HIDE DEF n, seq, t
<1>4. PICK acc : IsKeepFold(<<>>, seq, n, acc)
  BY <1>1, <1>2, KeepFold, Zenon
<1>5. /\ acc[0] = <<>>
      /\ \A k \in 1..n : acc[k] = Keep(acc[k - 1], seq[k])
      /\ t = acc[n]
  BY <1>3, <1>4, Zenon DEF IsKeepFold
<1> DEFINE Good(k) == /\ acc[k] \in Seq(ItemType) /\ Len(acc[k]) = k
                      /\ \A j \in 1..k : acc[k][j] = s[j]
           I == {k \in Nat : k <= n => Good(k)}
<1>6. 0 \in I
  <2> DEFINE e == acc[0]
  <2>1. e = <<>>
    BY <1>5
  <2> HIDE DEF e
  <2>2. e \in Seq(ItemType) /\ Len(e) = 0 /\ \A j \in 1..0 : e[j] = s[j]
    BY <2>1, EmptySeq
  <2> QED
    BY <2>2 DEF e
<1>7. ASSUME NEW k \in Nat, k \in I PROVE k + 1 \in I
  <2>1. SUFFICES ASSUME k + 1 <= n PROVE Good(k + 1)
    OBVIOUS
  <2> DEFINE a == acc[k]
  <2>2. a \in Seq(ItemType) /\ Len(a) = k /\ \A j \in 1..k : a[j] = s[j]
    BY <1>1, <1>7, <2>1
  <2>4. k + 1 \in 1..n /\ (k + 1) - 1 = k
    BY <1>1, <2>1
  <2>5. acc[k + 1] = Append(a, s[k + 1])
    <3>1. acc[k + 1] = Keep(a, <<k + 1 \notin {}, s[k + 1]>>)
      <4>1. acc[k + 1] = Keep(acc[(k + 1) - 1], seq[k + 1])
        BY <1>5, <2>4
      <4> QED
        BY <1>2, <2>4, <4>1
    <3> QED
      BY <3>1, Zenon DEF Keep
  <2>6. s[k + 1] \in ItemType
    BY <2>4, ElementOfSeq DEF n
  <2> HIDE DEF a
  <2> DEFINE u == Append(a, s[k + 1])
  <2>7. /\ u \in Seq(ItemType) /\ Len(u) = k + 1
        /\ (\A j \in 1..k : u[j] = a[j]) /\ u[k + 1] = s[k + 1]
    BY <2>2, <2>6, AppendProperties
  <2> HIDE DEF u
  <2>8. ASSUME NEW j \in 1..(k + 1) PROVE u[j] = s[j]
    <3>1. j \in 1..k \/ j = k + 1
      OBVIOUS
    <3> QED
      BY <2>2, <2>7, <3>1
  <2> QED
    BY <2>5, <2>7, <2>8 DEF u
<1> HIDE DEF Good
<1>8. n \in I
  BY <1>1, <1>6, <1>7, Keeps!Induction
<1>9. Good(n)
  BY <1>1, <1>8
<1>10. t \in Seq(ItemType) /\ Len(t) = Len(s) /\ \A j \in 1..Len(s) : t[j] = s[j]
  BY <1>5, <1>9 DEF Good, n
<1>11. t = s
  BY <1>10, SeqEqual
<1> QED
  BY <1>11 DEF t
-----------------------------------------------------------------------------
(* Numbered phonebooks. *)

Shape(p) == p \in BookType /\ InKeyOrder(p.items)

Distinct(items)    == \A j, k \in 1..Len(items) : j # k => items[j].e.index # items[k].e.index
NonNegative(items) == \A k \in 1..Len(items) : items[k].e.index >= 0
ByIndexKeyed(items) == \A k \in 1..Len(items) : items[k].key[1] = items[k].e.index

\* A phonebook of a file with indices.
WellNumbered(p) ==
  /\ p.useIndices
  /\ NonNegative(p.items) /\ Distinct(p.items)
  /\ p.order = "ByIndex" => ByIndexKeyed(p.items)

\* Another order has the same indices.
LEMMA ReorderedIndices ==
  ASSUME NEW s, Len(s) \in Nat, NEW t, NEW f, Reordered(s, t, f)
  PROVE  /\ Distinct(s) => Distinct(t)
         /\ NonNegative(s) => NonNegative(t)
         /\ \A k \in 1..Len(s) : \E j \in 1..Len(s) : t[j].e = s[k].e
<1>1. /\ Len(t) = Len(s) /\ \A k \in 1..Len(s) : f[k] \in 1..Len(s) /\ t[k].e = s[f[k]].e
      /\ \A j, k \in 1..Len(s) : f[j] = f[k] => j = k
      /\ \A m \in 1..Len(s) : \E k \in 1..Len(s) : f[k] = m
  BY DEF Reordered, Bijective
<1>2. Distinct(s) => Distinct(t)
  <2>1. SUFFICES ASSUME Distinct(s), NEW j \in 1..Len(s), NEW k \in 1..Len(s), j # k
                PROVE  t[j].e.index # t[k].e.index
    BY <1>1 DEF Distinct
  <2>2. f[j] \in 1..Len(s) /\ f[k] \in 1..Len(s) /\ f[j] # f[k]
    BY <1>1, <2>1
  <2>3. s[f[j]].e.index # s[f[k]].e.index
    BY <2>1, <2>2 DEF Distinct
  <2> QED
    BY <1>1, <2>3
<1>3. NonNegative(s) => NonNegative(t)
  BY <1>1 DEF NonNegative
<1>4. \A k \in 1..Len(s) : \E j \in 1..Len(s) : t[j].e = s[k].e
  <2>1. ASSUME NEW k \in 1..Len(s) PROVE \E j \in 1..Len(s) : t[j].e = s[k].e
    <3>1. PICK j \in 1..Len(s) : f[j] = k
      BY <1>1
    <3>2. t[j].e = s[f[j]].e
      BY <1>1
    <3> QED
      BY <3>1, <3>2
  <2> QED
    BY <2>1
<1> QED
  BY <1>2, <1>3, <1>4

\* setSortOrder() keeps the numbering of a phonebook with indices.
LEMMA SortNumbered ==
  ASSUME NEW p, Shape(p), WellNumbered(p), NEW order \in Orders
  PROVE  WellNumbered(SetSortOrder(p, order))
<1> DEFINE q == SetSortOrder(p, order)
<1>1. /\ q.order = order /\ SameMembers(p, q)
      /\ \E f : Reordered(p.items, q.items, f)
      /\ order # p.order => Keyed(q.items, order)
      /\ order = p.order => q = p
      /\ q \in BookType
  BY SortFacts DEF Shape
<1>2. p.items \in Seq(ItemType) /\ q.items \in Seq(ItemType)
  BY <1>1 DEF Shape, BookType
<1> HIDE DEF q
<1>3. PICK f : Reordered(p.items, q.items, f)
  BY <1>1
<1>4. Distinct(q.items) /\ NonNegative(q.items)
  <2>1. Len(p.items) \in Nat
    BY <1>2, LenProperties
  <2> QED
    BY <1>3, <2>1, ReorderedIndices DEF WellNumbered
<1>5. ASSUME order = "ByIndex" PROVE ByIndexKeyed(q.items)
  <2>1. CASE order = p.order
    BY <1>1, <1>5, <2>1 DEF WellNumbered
  <2>2. CASE order # p.order
    <3>1. \A k \in 1..Len(q.items) : q.items[k].e \in EntryType
      <4>1. \A k \in 1..Len(q.items) : q.items[k] \in ItemType
        BY <1>2, ElementOfSeq
      <4> QED
        BY <4>1 DEF ItemType
    <3>2. \A k \in 1..Len(q.items) : KeyOf(order, q.items[k].e)[1] = q.items[k].e.index
      BY <1>5, <3>1, KeyFacts
    <3> QED
      BY <1>1, <2>2, <3>2 DEF Keyed, ByIndexKeyed
  <2> QED
    BY <2>1, <2>2
<1>6. q.useIndices
  BY <1>1 DEF SameMembers, WellNumbered
<1> QED
  BY <1>1, <1>4, <1>5, <1>6 DEF WellNumbered, q

\* The first place of t whose entry does not have its number as index.
Gaps(t) == {n \in 0..Len(t) : n = Len(t) \/ t[n + 1].e.index # n}

\* The first number that is not the index at its place is no index of a sorted map.
LEMMA FirstGap ==
  ASSUME NEW t \in Seq(ItemType)
  PROVE  LET n == CHOOSE n \in Gaps(t) : \A m \in Gaps(t) : n <= m
         IN  /\ n \in Nat
             /\ NonNegative(t) /\ Distinct(t) /\ ByIndexKeyed(t) /\ InKeyOrder(t) =>
                  \A k \in 1..Len(t) : t[k].e.index # n
<1> DEFINE n == CHOOSE n \in Gaps(t) : \A m \in Gaps(t) : n <= m
<1>0. Len(t) \in Nat
  BY LenProperties
<1>1. Gaps(t) \in SUBSET Nat /\ Gaps(t) # {}
  <2>1. Len(t) \in Gaps(t)
    BY <1>0 DEF Gaps
  <2> QED
    BY <1>0, <2>1 DEF Gaps
<1>2. n \in Gaps(t) /\ \A m \in Gaps(t) : n <= m
  BY <1>1, Puts!LeastNumber
<1> HIDE DEF n
<1>3. n \in Nat /\ n <= Len(t)
  BY <1>0, <1>2 DEF Gaps
<1>4. ASSUME NonNegative(t), Distinct(t), ByIndexKeyed(t), InKeyOrder(t),
             NEW k \in 1..Len(t)
      PROVE  t[k].e.index # n
  <2>0. \A j \in 1..Len(t) : t[j].e.index \in Int /\ t[j].e.index >= 0
    <3>1. \A j \in 1..Len(t) : t[j] \in ItemType
      BY ElementOfSeq
    <3> QED
      BY <1>4, <3>1 DEF ItemType, EntryType, NonNegative
  <2>1. \A i, j \in 1..Len(t) : i < j => t[i].e.index <= t[j].e.index
    BY <1>4 DEF InKeyOrder, ByIndexKeyed
  <2>2. \A i, j \in 1..Len(t) : i # j => t[i].e.index # t[j].e.index
    BY <1>4 DEF Distinct
  <2>3. \A m \in 0..(n - 1) : t[m + 1].e.index = m
    <3>1. \A m \in 0..(n - 1) : m \in 0..Len(t) /\ m # Len(t) /\ ~(n <= m)
      BY <1>0, <1>3
    <3>2. \A m \in 0..(n - 1) : m \notin Gaps(t)
      BY <1>2, <3>1
    <3> QED
      BY <3>1, <3>2 DEF Gaps
  <2>4. CASE k <= n
    <3>1. k - 1 \in 0..(n - 1) /\ (k - 1) + 1 = k
      BY <1>3, <2>4
    <3>2. t[(k - 1) + 1].e.index = k - 1
      BY <2>3, <3>1
    <3>3. t[k].e.index = k - 1
      BY <3>1, <3>2
    <3> QED
      BY <1>0, <1>3, <2>4, <3>3
  <2>5. CASE k > n
    <3>1. n + 1 \in 1..Len(t) /\ n # Len(t)
      <4>1. k \in Nat /\ k <= Len(t)
        BY <1>0
      <4> QED
        BY <1>0, <1>3, <2>5, <4>1
    <3>2. t[n + 1].e.index # n
      BY <1>2, <3>1 DEF Gaps
    <3>3. t[n + 1].e.index > n
      <4>1. CASE n = 0
        BY <2>0, <3>1, <3>2, <4>1
      <4>2. CASE n > 0
        <5>1. n \in 1..Len(t) /\ n - 1 \in 0..(n - 1) /\ (n - 1) + 1 = n
          BY <1>3, <4>2
        <5>2. t[n].e.index = n - 1
          <6>1. t[(n - 1) + 1].e.index = n - 1
            BY <2>3, <5>1
          <6> QED
            BY <5>1, <6>1
        <5>3. t[n].e.index <= t[n + 1].e.index /\ t[n].e.index # t[n + 1].e.index
          BY <1>3, <2>1, <2>2, <3>1, <5>1
        <5> QED
          BY <1>3, <2>0, <3>1, <3>2, <5>2, <5>3
      <4> QED
        BY <1>3, <4>1, <4>2
    <3>4. k = n + 1 \/ t[n + 1].e.index <= t[k].e.index
      BY <1>3, <2>1, <2>5, <3>1
    <3> QED
      BY <1>3, <2>0, <3>1, <3>3, <3>4
  <2> QED
    BY <1>3, <2>4, <2>5
<1> QED
  BY <1>3, <1>4 DEF n

\* The index that insert() takes is not used by an entry.
LEMMA FreeIndexFacts ==
  ASSUME NEW p, Shape(p)
  PROVE  /\ FreeIndex(p) \in Nat
         /\ WellNumbered(p) => \A k \in 1..Len(p.items) : p.items[k].e.index # FreeIndex(p)
<1> DEFINE q == SetSortOrder(p, "ByIndex")
           t == q.items
<1>0. "ByIndex" \in Orders
  BY DEF Orders
<1>1. /\ q \in BookType /\ InKeyOrder(t) /\ q.order = "ByIndex"
      /\ \E f : Reordered(p.items, t, f)
  BY <1>0, SortFacts DEF Shape
<1>2. p.items \in Seq(ItemType) /\ t \in Seq(ItemType)
  BY <1>1 DEF Shape, BookType
<1>3. FreeIndex(p) = CHOOSE n \in Gaps(t) : \A m \in Gaps(t) : n <= m
  BY SMTT(60) DEF FreeIndex, Gaps
<1>4. WellNumbered(p) => WellNumbered(q)
  BY <1>0, SortNumbered
<1> HIDE DEF q
<1>5. PICK f : Reordered(p.items, t, f)
  BY <1>1
<1>6. \A k \in 1..Len(p.items) : \E j \in 1..Len(p.items) : t[j].e = p.items[k].e
  <2> DEFINE s == p.items
  <2>1. Len(s) \in Nat /\ Reordered(s, t, f)
    BY <1>2, <1>5, LenProperties
  <2> HIDE DEF s, t
  <2>2. \A k \in 1..Len(s) : \E j \in 1..Len(s) : t[j].e = s[k].e
    BY <2>1, ReorderedIndices
  <2> QED
    BY <2>2 DEF s
<1>7. Len(t) = Len(p.items)
  BY <1>5 DEF Reordered
<1>8. WellNumbered(q) => NonNegative(t) /\ Distinct(t) /\ ByIndexKeyed(t)
  BY <1>1 DEF WellNumbered
<1> HIDE DEF t
<1>9. /\ FreeIndex(p) \in Nat
      /\ NonNegative(t) /\ Distinct(t) /\ ByIndexKeyed(t) =>
           \A k \in 1..Len(t) : t[k].e.index # FreeIndex(p)
  BY <1>1, <1>2, <1>3, FirstGap
<1> QED
  BY <1>4, <1>6, <1>7, <1>8, <1>9
-----------------------------------------------------------------------------
(* Entries put into a phonebook. *)

\* What a program inserts: an entry, or a line of a file.
EntryLike(x) == x.index \in Int /\ x.text \in Text \cup {0} /\ x.tel \in Tel \cup {0}

SlotOf(e) == [text |-> e.text, tel |-> e.tel]
NonBlank(items) == \A k \in 1..Len(items) : SlotOf(items[k].e) # Blank

NewIndex(items, e) == \A k \in 1..Len(items) : items[k].e.index # e.index

\* The items of a phonebook are a sequence of entries with their keys.
LEMMA ShapeFacts ==
  ASSUME NEW p, Shape(p)
  PROVE  /\ p.items \in Seq(ItemType) /\ Len(p.items) \in Nat /\ DOMAIN p.items = 1..Len(p.items)
         /\ \A k \in 1..Len(p.items) : p.items[k].e \in EntryType
         /\ ItemsOf(p) = {p.items[k].e : k \in 1..Len(p.items)}
<1>1. p.items \in Seq(ItemType)
  BY DEF Shape, BookType
<1>2. Len(p.items) \in Nat /\ DOMAIN p.items = 1..Len(p.items)
  BY <1>1, LenProperties
<1>3. \A k \in 1..Len(p.items) : p.items[k] \in ItemType
  BY <1>1, ElementOfSeq
<1>4. \A k \in 1..Len(p.items) : p.items[k].e \in EntryType
  BY <1>3 DEF ItemType
<1>5. ItemsOf(p) = {p.items[k].e : k \in 1..Len(p.items)}
  BY <1>2 DEF ItemsOf
<1> QED
  BY <1>1, <1>2, <1>4, <1>5

\* setSortOrder() keeps every entry and adds none.
LEMMA SortEntries ==
  ASSUME NEW p, Shape(p), NEW order \in Orders
  PROVE  LET q == SetSortOrder(p, order)
         IN  /\ Shape(q) /\ q.order = order /\ SameMembers(p, q)
             /\ Len(q.items) = Len(p.items)
             /\ \A k \in 1..Len(p.items) : \E j \in 1..Len(p.items) : q.items[k].e = p.items[j].e
             /\ \A j \in 1..Len(p.items) : \E k \in 1..Len(p.items) : q.items[k].e = p.items[j].e
             /\ Distinct(p.items) => Distinct(q.items)
<1> DEFINE q == SetSortOrder(p, order)
<1>1. /\ q \in BookType /\ InKeyOrder(q.items) /\ q.order = order /\ SameMembers(p, q)
      /\ \E f : Reordered(p.items, q.items, f)
  BY SortFacts DEF Shape
<1> HIDE DEF q
<1>2. PICK f : Reordered(p.items, q.items, f)
  BY <1>1
<1>3. Len(p.items) \in Nat
  BY ShapeFacts
<1>4. /\ Distinct(p.items) => Distinct(q.items)
      /\ \A j \in 1..Len(p.items) : \E k \in 1..Len(p.items) : q.items[k].e = p.items[j].e
  <2> DEFINE s == p.items
             t == q.items
  <2>1. Len(s) \in Nat /\ Reordered(s, t, f)
    BY <1>2, <1>3
  <2> HIDE DEF s, t
  <2>2. /\ Distinct(s) => Distinct(t)
        /\ \A k \in 1..Len(s) : \E j \in 1..Len(s) : t[j].e = s[k].e
    BY <2>1, ReorderedIndices
  <2> QED
    BY <2>2 DEF s, t
<1>5. /\ Len(q.items) = Len(p.items)
      /\ \A k \in 1..Len(p.items) : \E j \in 1..Len(p.items) : q.items[k].e = p.items[j].e
  BY <1>2 DEF Reordered, Bijective
<1> QED
  BY <1>1, <1>4, <1>5 DEF Shape, q

\* An entry e put into the map.
EntryPut(p, e, q) ==
  /\ Shape(q) /\ q.order = p.order /\ SameMembers(p, q)
  /\ \E n \in 1..(Len(p.items) + 1) : Inserted(p.items, q.items, n, Item(p.order, e))
  /\ WellNumbered(p) /\ e.index >= 0 /\ NewIndex(p.items, e) => WellNumbered(q)
  /\ NonBlank(p.items) /\ SlotOf(e) # Blank => NonBlank(q.items)

\* An entry put into the map of a phonebook.
LEMMA PutEntry ==
  ASSUME NEW p, Shape(p), NEW e \in EntryType
  PROVE  EntryPut(p, e, [p EXCEPT !.items = Put(@, Item(p.order, e))])
<1> SUFFICES ASSUME NEW q, q = [p EXCEPT !.items = Put(@, Item(p.order, e))]
             PROVE  EntryPut(p, e, q)
  OBVIOUS
<1> DEFINE s == p.items
           it == Item(p.order, e)
           t == Put(s, it)
           n == Len(s)
<1>0. s \in Seq(ItemType) /\ n \in Nat
  BY ShapeFacts
<1>1. p.order \in Orders
  BY DEF Shape, BookType
<1>2. /\ it \in ItemType /\ it.e = e
      /\ p.order = "ByIndex" => it.key[1] = e.index
  BY <1>1, KeyFacts
<1> HIDE DEF it
<1>3. /\ t \in Seq(ItemType)
      /\ \E m \in 1..(n + 1) : Inserted(s, t, m, it)
      /\ InKeyOrder(t)
  BY <1>0, <1>2, PutFacts, PutSorted DEF Shape
<1>4. q = [p EXCEPT !.items = t]
  BY DEF it
<1> HIDE DEF t
<1>5. /\ Shape(q) /\ q.order = p.order /\ q.items = t /\ SameMembers(p, q)
  BY <1>3, <1>4 DEF Shape, BookType, SameMembers
<1>6. PICK m \in 1..(n + 1) : Inserted(s, t, m, it)
  BY <1>3
<1>7. /\ Len(t) = n + 1
      /\ \A k \in 1..(n + 1) : t[k] = IF k < m THEN s[k] ELSE IF k = m THEN it ELSE s[k - 1]
  BY <1>6 DEF Inserted
<1>8. ASSUME WellNumbered(p), e.index >= 0, \A k \in 1..n : s[k].e.index # e.index
      PROVE  WellNumbered(q)
  <2> DEFINE h(k) == IF k < m THEN k ELSE k - 1
  <2>1. \A k \in 1..(n + 1) : k # m => h(k) \in 1..n /\ t[k] = s[h(k)]
    BY <1>0, <1>6, <1>7
  <2>2. t[m] = it
    BY <1>7
  <2>3. NonNegative(t)
    <3>1. \A k \in 1..(n + 1) : t[k].e.index >= 0
      BY <1>2, <1>8, <2>1, <2>2 DEF WellNumbered, NonNegative
    <3> QED
      BY <1>7, <3>1 DEF NonNegative
  <2>4. Distinct(t)
    <3>1. SUFFICES ASSUME NEW j \in 1..(n + 1), NEW k \in 1..(n + 1), j # k
                   PROVE  t[j].e.index # t[k].e.index
      BY <1>7 DEF Distinct
    <3>2. CASE j # m /\ k # m
      <4>1. h(j) \in 1..n /\ h(k) \in 1..n /\ h(j) # h(k)
        BY <1>6, <2>1, <3>1, <3>2
      <4>2. s[h(j)].e.index # s[h(k)].e.index
        BY <1>8, <4>1 DEF WellNumbered, Distinct
      <4> QED
        BY <2>1, <3>2, <4>2
    <3>3. CASE j = m
      <4>1. t[j].e.index = e.index /\ k # m
        BY <1>2, <2>2, <3>1, <3>3
      <4>2. t[k] = s[h(k)] /\ h(k) \in 1..n
        BY <2>1, <4>1
      <4> QED
        BY <1>8, <4>1, <4>2
    <3>4. CASE k = m
      <4>1. t[k].e.index = e.index /\ j # m
        BY <1>2, <2>2, <3>1, <3>4
      <4>2. t[j] = s[h(j)] /\ h(j) \in 1..n
        BY <2>1, <4>1
      <4> QED
        BY <1>8, <4>1, <4>2
    <3> QED
      BY <3>2, <3>3, <3>4
  <2>5. ASSUME q.order = "ByIndex" PROVE ByIndexKeyed(t)
    <3>1. p.order = "ByIndex" /\ \A k \in 1..n : s[k].key[1] = s[k].e.index
      BY <1>5, <1>8, <2>5 DEF WellNumbered, ByIndexKeyed
    <3>2. \A k \in 1..(n + 1) : t[k].key[1] = t[k].e.index
      BY <1>2, <2>1, <2>2, <3>1
    <3> QED
      BY <1>7, <3>2 DEF ByIndexKeyed
  <2>6. q.useIndices
    BY <1>5, <1>8 DEF SameMembers, WellNumbered
  <2> QED
    BY <1>5, <2>3, <2>4, <2>5, <2>6 DEF WellNumbered
<1>9. ASSUME NonBlank(s), SlotOf(e) # Blank PROVE NonBlank(t)
  <2>1. \A k \in 1..(n + 1) : t[k] = it \/ \E j \in 1..n : t[k] = s[j]
    BY <1>0, <1>6, <1>7
  <2>2. \A k \in 1..(n + 1) : SlotOf(t[k].e) # Blank
    BY <1>2, <1>9, <2>1 DEF NonBlank
  <2> QED
    BY <1>7, <2>2 DEF NonBlank
<1> QED
  BY <1>5, <1>6, <1>8, <1>9 DEF it, NewIndex, EntryPut
-----------------------------------------------------------------------------
(* insert() of a file. *)

\* What every operation on an open phonebook leaves alone.
Kept(p, q) ==
  q.open = p.open /\ q.closing = p.closing /\ q.useIndices = p.useIndices /\ q.madeBackup = p.madeBackup

\* Setting the flag changes nothing else.
LEMMA ChangedFacts ==
  ASSUME NEW p, Shape(p), NEW q, q = [p EXCEPT !.changed = TRUE]
  PROVE  /\ Shape(q) /\ q.items = p.items /\ q.order = p.order /\ q.changed = TRUE /\ Kept(p, q)
         /\ WellNumbered(p) => WellNumbered(q)
  BY DEF Shape, BookType, Kept, WellNumbered

\* What insert() makes of the phonebook p of a file.
InsertsIntoFile(p, storage, x, r) ==
  /\ Shape(r.pb) /\ Kept(p, r.pb) /\ r.pb.changed = TRUE /\ r.pb.order = p.order
  /\ r.disk = storage /\ r.how \in {"ok", "throw"}
  /\ r = Result(r.pb, r.disk, r.how)
  /\ WellNumbered(p) /\ (x.index = NoIndex \/ x.index >= 0) => WellNumbered(r.pb)
  /\ NonBlank(p.items) /\ SlotOf(x) # Blank => NonBlank(r.pb.items)

\* insert() of a phonebook of a file, for any entry.
LEMMA InsertIntoFileFacts ==
  ASSUME NEW p, Shape(p), NEW x, EntryLike(x), NEW garbage \in Int, NEW storage
  PROVE  InsertsIntoFile(p, storage, x, InsertIntoFile(p, storage, x, garbage))
<1> SUFFICES ASSUME NEW r, r = InsertIntoFile(p, storage, x, garbage)
             PROVE  InsertsIntoFile(p, storage, x, r)
  OBVIOUS
<1> DEFINE q == [p EXCEPT !.changed = TRUE]
           s == IF p.useIndices /\ x.index = NoIndex
                THEN SetSortOrder(SetSortOrder(q, "ByIndex"), p.order) ELSE q
           i == IF x.index # NoIndex THEN x.index ELSE IF p.useIndices THEN FreeIndex(p) ELSE garbage
           e == Entry(i, x.text, x.tel, TRUE)
           t == [s EXCEPT !.items = Put(@, Item(p.order, e))]
<1>1. r = IF Taken(p, x) THEN Result(q, storage, "throw") ELSE Result(t, storage, "ok")
  BY Zenon DEF InsertIntoFile
<1>2. /\ Shape(q) /\ q.items = p.items /\ q.order = p.order /\ q.changed = TRUE /\ Kept(p, q)
      /\ WellNumbered(p) => WellNumbered(q)
  BY ChangedFacts
<1> HIDE DEF q
<1>3. p.order \in Orders /\ "ByIndex" \in Orders
  BY DEF Shape, BookType, Orders
<1>4. /\ Shape(s) /\ s.order = p.order /\ SameMembers(q, s)
      /\ \A k \in 1..Len(s.items) : \E j \in 1..Len(p.items) : s.items[k].e = p.items[j].e
      /\ WellNumbered(q) => WellNumbered(s)
  <2>1. CASE p.useIndices /\ x.index = NoIndex
    <3> DEFINE u == SetSortOrder(q, "ByIndex")
               v == SetSortOrder(u, p.order)
    <3>1. /\ Shape(u) /\ SameMembers(q, u) /\ Len(u.items) = Len(q.items)
          /\ \A k \in 1..Len(q.items) : \E j \in 1..Len(q.items) : u.items[k].e = q.items[j].e
      BY <1>2, <1>3, SortEntries
    <3>2. WellNumbered(q) => WellNumbered(u)
      BY <1>2, <1>3, SortNumbered
    <3> HIDE DEF u
    <3>3. /\ Shape(v) /\ v.order = p.order /\ SameMembers(u, v) /\ Len(v.items) = Len(u.items)
          /\ \A k \in 1..Len(u.items) : \E j \in 1..Len(u.items) : v.items[k].e = u.items[j].e
      BY <1>3, <3>1, SortEntries
    <3>4. WellNumbered(u) => WellNumbered(v)
      BY <1>3, <3>1, SortNumbered
    <3>5. s = v
      BY <2>1 DEF u
    <3> HIDE DEF v
    <3>6. ASSUME NEW k \in 1..Len(v.items) PROVE \E j \in 1..Len(p.items) : v.items[k].e = p.items[j].e
      <4>1. k \in 1..Len(u.items) /\ Len(u.items) = Len(q.items)
        BY <3>1, <3>3, <3>6
      <4>2. PICK j \in 1..Len(u.items) : v.items[k].e = u.items[j].e
        BY <3>3, <4>1
      <4>3. PICK m \in 1..Len(q.items) : u.items[j].e = q.items[m].e
        BY <3>1, <4>1, <4>2
      <4> QED
        BY <1>2, <4>2, <4>3
    <3>7. SameMembers(q, v)
      BY <3>1, <3>3 DEF SameMembers
    <3> HIDE DEF s
    <3> QED
      BY <3>2, <3>3, <3>4, <3>5, <3>6, <3>7
  <2>2. CASE ~(p.useIndices /\ x.index = NoIndex)
    <3>1. s = q
      BY <2>2
    <3> HIDE DEF s
    <3> QED
      BY <1>2, <3>1 DEF SameMembers
  <2> QED
    BY <2>1, <2>2
<1> HIDE DEF s
<1>5. /\ FreeIndex(p) \in Nat
      /\ WellNumbered(p) => \A k \in 1..Len(p.items) : p.items[k].e.index # FreeIndex(p)
  BY FreeIndexFacts
<1>6. i \in Int
  BY <1>5 DEF EntryLike
<1>7. WellNumbered(p) /\ (x.index = NoIndex \/ x.index >= 0) => i >= 0
  BY <1>5 DEF WellNumbered, NoIndex
<1>8. WellNumbered(p) /\ ~Taken(p, x) => \A k \in 1..Len(p.items) : p.items[k].e.index # i
  <2>1. CASE x.index = NoIndex
    BY <1>5, <2>1 DEF WellNumbered
  <2>2. CASE x.index # NoIndex
    <3>1. ItemsOf(p) = {p.items[k].e : k \in 1..Len(p.items)}
      BY ShapeFacts
    <3> QED
      BY <2>2, <3>1 DEF WellNumbered, Taken
  <2> QED
    BY <2>1, <2>2
<1> HIDE DEF i
<1>9. e \in EntryType /\ e.index = i /\ SlotOf(e) = SlotOf(x)
  BY <1>6 DEF Entry, EntryType, EntryLike, SlotOf
<1> HIDE DEF e
<1>10. /\ Shape(t) /\ t.order = p.order /\ SameMembers(s, t)
       /\ WellNumbered(s) /\ e.index >= 0 /\ NewIndex(s.items, e) => WellNumbered(t)
       /\ NonBlank(s.items) /\ SlotOf(e) # Blank => NonBlank(t.items)
  <2>1. t = [s EXCEPT !.items = Put(@, Item(s.order, e))]
    BY <1>4
  <2> HIDE DEF t
  <2> QED
    <3>1. Shape(s) /\ e \in EntryType
      BY <1>4, <1>9
    <3>2. /\ Shape(t) /\ t.order = s.order /\ SameMembers(s, t)
          /\ WellNumbered(s) /\ e.index >= 0 /\ NewIndex(s.items, e) => WellNumbered(t)
          /\ NonBlank(s.items) /\ SlotOf(e) # Blank => NonBlank(t.items)
      <4>1. EntryPut(s, e, t)
        BY <2>1, <3>1, PutEntry
      <4> QED
        BY <4>1 DEF EntryPut
    <3> QED
      BY <1>4, <3>2
<1>10a. NonBlank(p.items) => NonBlank(s.items)
  BY <1>4 DEF NonBlank
<1> HIDE DEF t
<1>11. CASE Taken(p, x)
  <2>1. r = Result(q, storage, "throw")
    BY <1>1, <1>11
  <2>2. r.pb = q /\ r.disk = storage /\ r.how = "throw"
    BY <2>1 DEF Result
  <2> QED
    BY <1>2, <2>1, <2>2 DEF InsertsIntoFile, NonBlank
<1>12. CASE ~Taken(p, x)
  <2>1. r = Result(t, storage, "ok")
    BY <1>1, <1>12
  <2>2. r.pb = t /\ r.disk = storage /\ r.how = "ok"
    BY <2>1 DEF Result
  <2>3. Kept(p, t) /\ t.changed = TRUE
    BY <1>2, <1>4, <1>10 DEF Kept, SameMembers
  <2>4. ASSUME WellNumbered(p), x.index = NoIndex \/ x.index >= 0 PROVE WellNumbered(t)
    <3>1. WellNumbered(s) /\ e.index >= 0
      BY <1>2, <1>4, <1>7, <1>9, <2>4
    <3>2. NewIndex(s.items, e)
      BY <1>4, <1>8, <1>9, <1>12, <2>4 DEF NewIndex
    <3> QED
      BY <1>10, <3>1, <3>2
  <2> QED
    BY <1>9, <1>10, <1>10a, <2>1, <2>2, <2>3, <2>4 DEF InsertsIntoFile
<1> QED
  BY <1>11, <1>12
-----------------------------------------------------------------------------
(* Reading a file. *)

LineType == [index : Int, text : Text \cup {0}, tel : Tel \cup {0}]

\* A phonebook after n lines of its file were read.
Read(r, lines, u, n) ==
  /\ r = Result(r.pb, r.disk, r.how)
  /\ Shape(r.pb) /\ r.pb.open = TRUE /\ r.pb.closing = FALSE /\ r.pb.madeBackup = FALSE
  /\ r.pb.order = "ByIndex"
  /\ r.disk = lines /\ r.how \in {"ok", "throw"}
  /\ r.how = "ok" /\ u => WellNumbered(r.pb)
  /\ n # 0 /\ r.how = "ok" => r.pb.changed = TRUE
  /\ n = 0 => r.pb.items = <<>>
  /\ (\A k \in 1..Len(lines) : SlotOf(lines[k]) # Blank) => NonBlank(r.pb.items)

\* A phonebook before its file is read.
LEMMA FreshFacts ==
  ASSUME NEW u \in BOOLEAN
  PROVE  /\ Shape(Fresh(u)) /\ Fresh(u).open = TRUE /\ Fresh(u).closing = FALSE
         /\ Fresh(u).madeBackup = FALSE /\ Fresh(u).items = <<>> /\ Fresh(u).changed = FALSE
         /\ Fresh(u).useIndices = u /\ Fresh(u).order = "ByIndex"
         /\ u => WellNumbered(Fresh(u))
<1> DEFINE p == Fresh(u)
<1>2. <<>> \in Seq(ItemType) /\ Len(<<>>) = 0
  BY EmptySeq
<1>1. /\ p \in BookType /\ p.open = TRUE /\ p.closing = FALSE /\ p.madeBackup = FALSE
      /\ p.items = <<>> /\ p.changed = FALSE /\ p.useIndices = u /\ p.order = "ByIndex"
  <2>1. /\ Closed \in BookType /\ Closed.closing = FALSE /\ Closed.madeBackup = FALSE
        /\ Closed.items = <<>> /\ Closed.changed = FALSE /\ Closed.order = "ByIndex"
    BY <1>2 DEF Closed, BookType, Orders
  <2>2. p = [Closed EXCEPT !.open = TRUE, !.useIndices = u]
    BY DEF Fresh
  <2> HIDE DEF p
  <2>3. p \in BookType
    BY <2>1, <2>2 DEF BookType
  <2> QED
    BY <2>1, <2>2, <2>3 DEF BookType
<1> HIDE DEF p
<1>4. InKeyOrder(p.items) /\ Distinct(p.items) /\ NonNegative(p.items) /\ ByIndexKeyed(p.items)
  BY <1>1, <1>2 DEF InKeyOrder, Distinct, NonNegative, ByIndexKeyed
<1>5. Shape(p)
  BY <1>1, <1>4 DEF Shape
<1>6. u => WellNumbered(p)
  BY <1>1, <1>4 DEF WellNumbered
<1> QED
  BY <1>1, <1>5, <1>6 DEF p

\* One more line of the file is read.
LEMMA ReadLineFacts ==
  ASSUME NEW r, NEW lines, NEW u \in BOOLEAN, NEW n \in Nat, Read(r, lines, u, n),
         NEW l, l.line \in LineType, l.garbage \in Int,
         \E k \in 1..Len(lines) : l.line = lines[k]
  PROVE  Read(ReadLine(r, l), lines, u, n + 1)
<1> DEFINE x == l.line
           p == [r.pb EXCEPT !.useIndices = @ \/ x.index # NoIndex]
           s == InsertIntoFile(p, r.disk, x, l.garbage)
           refused == r.how = "throw" \/ (r.pb.useIndices /\ x.index = NoIndex)
                      \/ (x.index # NoIndex /\ x.index < 0)
<1>1. ReadLine(r, l) = IF refused THEN [r EXCEPT !.how = "throw"] ELSE s
  BY Zenon DEF ReadLine
<1>2. CASE refused
  <2>1. ReadLine(r, l) = [r EXCEPT !.how = "throw"]
    BY <1>1, <1>2
  <2> DEFINE t == [r EXCEPT !.how = "throw"]
  <2>2. t.pb = r.pb /\ t.disk = r.disk /\ t.how = "throw" /\ t = Result(t.pb, t.disk, t.how)
    BY DEF Read, Result
  <2> HIDE DEF t
  <2>3. n + 1 # 0
    OBVIOUS
  <2> QED
    BY <2>1, <2>2, <2>3 DEF Read, t
<1>3. CASE ~refused
  <2>0. /\ Shape(r.pb) /\ r.pb.open = TRUE /\ r.pb.closing = FALSE /\ r.pb.madeBackup = FALSE
        /\ r.disk = lines /\ r.how = "ok" /\ (u => WellNumbered(r.pb))
        /\ (x.index = NoIndex \/ x.index >= 0) /\ r.pb.order = "ByIndex"
    BY <1>3 DEF Read, LineType
  <2>1. EntryLike(x)
    BY DEF EntryLike, LineType
  <2>2. /\ Shape(p) /\ p.open = TRUE /\ p.closing = FALSE /\ p.madeBackup = FALSE
        /\ (u => WellNumbered(p)) /\ p.items = r.pb.items /\ p.order = "ByIndex"
    BY <2>0 DEF Shape, BookType, WellNumbered
  <2>a. /\ (\A k \in 1..Len(lines) : SlotOf(lines[k]) # Blank) => NonBlank(r.pb.items)
        /\ (\A k \in 1..Len(lines) : SlotOf(lines[k]) # Blank) => SlotOf(x) # Blank
    BY DEF Read
  <2> HIDE DEF p, x
  <2>3. /\ Shape(s.pb) /\ Kept(p, s.pb) /\ s.pb.changed = TRUE /\ s.pb.order = p.order
        /\ s.disk = r.disk /\ s.how \in {"ok", "throw"}
        /\ s = Result(s.pb, s.disk, s.how)
        /\ WellNumbered(p) /\ (x.index = NoIndex \/ x.index >= 0) => WellNumbered(s.pb)
        /\ NonBlank(p.items) /\ SlotOf(x) # Blank => NonBlank(s.pb.items)
    <3>1. InsertsIntoFile(p, r.disk, x, s)
      BY <2>1, <2>2, InsertIntoFileFacts
    <3> QED
      BY <3>1 DEF InsertsIntoFile
  <2> HIDE DEF s
  <2>4. ReadLine(r, l) = s
    BY <1>1, <1>3
  <2>5. n + 1 # 0
    OBVIOUS
  <2>6. Read(s, lines, u, n + 1)
    <3>1. (\A k \in 1..Len(lines) : SlotOf(lines[k]) # Blank) => NonBlank(s.pb.items)
      BY <2>2, <2>3, <2>a
    <3> QED
      BY <2>0, <2>2, <2>3, <2>5, <3>1 DEF Read, Kept
  <2> QED
    BY <2>4, <2>6
<1> QED
  BY <1>2, <1>3

ReadAll(r, s) == FoldLeft(ReadLine, r, s)
IsReadFold(base, seq, n, acc) ==
  /\ acc[0] = base
  /\ \A k \in 1..n : acc[k] = ReadLine(acc[k - 1], seq[k])
  /\ ReadAll(base, seq) = acc[n]

\* The fold that reads the lines of a file, as iterates.
LEMMA ReadFold ==
  ASSUME NEW base, NEW seq, NEW n \in Nat, DOMAIN seq = 1..n
  PROVE  \E acc : IsReadFold(base, seq, n, acc)
<1>1. \E acc : Reads!Iterates(base, seq, n, acc)
  BY Reads!FoldLeftIterates
<1>2. Reads!Fold(base, seq) = ReadAll(base, seq)
  BY Zenon DEF ReadAll, FoldLeft, MapThenFoldSet, Reads!Fold, Reads!FoldLeft, Reads!MapThenFoldSet, Max, Reads!Max
<1> QED
  BY <1>1, <1>2 DEF IsReadFold, Reads!Iterates

\* The lines of a file, each with what an index may hold that is not initialised.
WithGarbage(lines, g) == [k \in DOMAIN lines |-> [line |-> lines[k], garbage |-> g[k]]]

\* readPhonebookFile(), for a file of any length.
LEMMA ReadFacts ==
  ASSUME NEW lines \in Seq(LineType), NEW u \in BOOLEAN, NEW r \in ReadPhonebookFile(lines, u)
  PROVE  /\ Read(r, lines, u, Len(lines))
         /\ lines = <<>> => r = Result(Fresh(u), <<>>, "ok")
<1> DEFINE n == Len(lines)
           base == Result(Fresh(u), lines, "ok")
<1>1. n \in Nat /\ DOMAIN lines = 1..n
  BY LenProperties
<1>2. \A k \in 1..n : lines[k] \in LineType
  BY ElementOfSeq
<1>3. ReadPhonebookFile(lines, u) = {ReadAll(base, WithGarbage(lines, g)) : g \in [DOMAIN lines -> Garbage]}
  BY Zenon DEF ReadPhonebookFile, ReadAll, WithGarbage
<1>4. PICK g \in [1..n -> Garbage] : r = ReadAll(base, WithGarbage(lines, g))
  BY <1>1, <1>3
<1> DEFINE seq == WithGarbage(lines, g)
<1>5. DOMAIN seq = 1..n /\ \A k \in 1..n : /\ seq[k].line \in LineType /\ seq[k].garbage \in Int
                                         /\ seq[k].line = lines[k]
  <2>1. Garbage \subseteq Int
    BY SortedPhonebookAssumption, Zenon
  <2>2. \A k \in 1..n : g[k] \in Int
    BY <2>1
  <2> QED
    BY <1>1, <1>2, <2>2 DEF WithGarbage
<1>6. Read(base, lines, u, 0) /\ base = Result(Fresh(u), lines, "ok")
  <2>1. base.pb = Fresh(u) /\ base.disk = lines /\ base.how = "ok" /\ base = Result(base.pb, base.disk, base.how)
    BY DEF Result
  <2> HIDE DEF base
  <2>3. Fresh(u).items = <<>> /\ Len(<<>>) = 0
    BY FreshFacts, EmptySeq
  <2>4. NonBlank(Fresh(u).items)
    BY <2>3 DEF NonBlank
  <2>2. Read(base, lines, u, 0)
    BY <2>1, <2>4, FreshFacts DEF Read
  <2> QED
    BY <2>2 DEF base
<1> HIDE DEF n, base, seq
<1>7. PICK acc : IsReadFold(base, seq, n, acc)
  BY <1>1, <1>5, ReadFold, Zenon
<1>8. /\ acc[0] = base
      /\ \A k \in 1..n : acc[k] = ReadLine(acc[k - 1], seq[k])
      /\ r = acc[n]
  <2>1. r = ReadAll(base, seq)
    BY <1>4 DEF seq
  <2> QED
    BY <1>7, <2>1, Zenon DEF IsReadFold
<1> DEFINE I == {k \in Nat : k <= n => Read(acc[k], lines, u, k)}
<1>9. 0 \in I
  BY <1>6, <1>8
<1>10. ASSUME NEW k \in Nat, k \in I PROVE k + 1 \in I
  <2>1. SUFFICES ASSUME k + 1 <= n PROVE Read(acc[k + 1], lines, u, k + 1)
    OBVIOUS
  <2>2. k + 1 \in 1..n /\ (k + 1) - 1 = k /\ k <= n
    BY <1>1, <2>1
  <2>3. acc[(k + 1)] = ReadLine(acc[(k + 1) - 1], seq[k + 1])
    BY <1>8, <2>2
  <2>4. Read(acc[k], lines, u, k) /\ acc[k + 1] = ReadLine(acc[k], seq[k + 1])
    BY <1>10, <2>2, <2>3
  <2>5. /\ seq[k + 1].line \in LineType /\ seq[k + 1].garbage \in Int
        /\ \E j \in 1..Len(lines) : seq[k + 1].line = lines[j]
    BY <1>5, <2>2 DEF n
  <2>6. Read(ReadLine(acc[k], seq[k + 1]), lines, u, k + 1)
    BY <2>4, <2>5, ReadLineFacts
  <2> QED
    BY <2>4, <2>6
<1>11. n \in I
  BY <1>1, <1>9, <1>10, Reads!Induction
<1>12. Read(r, lines, u, n)
  BY <1>1, <1>8, <1>11
<1>13. lines = <<>> => r = base
  BY <1>8, EmptySeq DEF n
<1> QED
  BY <1>6, <1>12, <1>13 DEF n
-----------------------------------------------------------------------------
(* The phonebook of a mobile. *)

METype == [1..Slots -> [text : Text \cup {0}, tel : Tel \cup {0}]]

\* The items have what the mobile has in the slots of D, and nothing else.
Mirrors(items, ME, D) ==
  /\ Distinct(items)
  /\ \A k \in 1..Len(items) : /\ items[k].e.index \in D
                              /\ ME[items[k].e.index] = SlotOf(items[k].e)
                              /\ ME[items[k].e.index] # Blank
  /\ \A i \in D : ME[i] # Blank => \E k \in 1..Len(items) : items[k].e.index = i

\* An entry put into the map of the mobile whose slot it was written to.
LEMMA PutMirrors ==
  ASSUME NEW s, Len(s) \in Nat, NEW t, NEW n, NEW it, Inserted(s, t, n, it),
         NEW D, NEW ME, Mirrors(s, ME, D),
         NEW i, i = it.e.index, i \notin D \/ ME[i] = Blank,
         NEW ME2, ME2[i] = SlotOf(it.e), ME2[i] # Blank, \A j \in D : j # i => ME2[j] = ME[j]
  PROVE  Mirrors(t, ME2, D \cup {i})
<1> DEFINE m == Len(s)
<1>1. /\ n \in 1..(m + 1) /\ Len(t) = m + 1
      /\ \A k \in 1..(m + 1) : t[k] = IF k < n THEN s[k] ELSE IF k = n THEN it ELSE s[k - 1]
  BY DEF Inserted
<1> DEFINE h(k) == IF k < n THEN k ELSE k - 1
<1>2. \A k \in 1..(m + 1) : k # n => h(k) \in 1..m /\ t[k] = s[h(k)]
  BY <1>1
<1>3. t[n] = it
  BY <1>1
<1>4. \A j, k \in 1..(m + 1) : j # n /\ k # n /\ j # k => h(j) # h(k)
  BY <1>1
<1>5. \A k \in 1..m : \E j \in 1..(m + 1) : j # n /\ t[j] = s[k]
  <2>1. ASSUME NEW k \in 1..m PROVE \E j \in 1..(m + 1) : j # n /\ t[j] = s[k]
    <3>1. CASE k < n
      BY <1>1, <3>1
    <3>2. CASE k >= n
      <4>1. k + 1 \in 1..(m + 1) /\ k + 1 # n /\ ~(k + 1 < n) /\ (k + 1) - 1 = k
        BY <1>1, <3>2
      <4>2. t[k + 1] = s[(k + 1) - 1]
        BY <1>1, <4>1
      <4> QED
        BY <4>1, <4>2
    <3> QED
      BY <1>1, <3>1, <3>2
  <2> QED
    BY <2>1
<1> HIDE DEF h
<1>6. /\ \A k \in 1..m : /\ s[k].e.index \in D
                         /\ ME[s[k].e.index] = SlotOf(s[k].e)
                         /\ ME[s[k].e.index] # Blank
      /\ \A j \in D : ME[j] # Blank => \E k \in 1..m : s[k].e.index = j
      /\ \A j, k \in 1..m : j # k => s[j].e.index # s[k].e.index
  BY DEF Mirrors, Distinct
<1>7. \A k \in 1..m : s[k].e.index # i
  BY <1>6
<1>8. ASSUME NEW j \in 1..(m + 1), NEW k \in 1..(m + 1), j # k PROVE t[j].e.index # t[k].e.index
  <2>1. CASE j # n /\ k # n
    <3>1. h(j) \in 1..m /\ h(k) \in 1..m /\ h(j) # h(k) /\ t[j] = s[h(j)] /\ t[k] = s[h(k)]
      BY <1>2, <1>4, <1>8, <2>1
    <3> QED
      BY <1>6, <3>1
  <2>2. CASE j = n
    <3>1. t[k] = s[h(k)] /\ h(k) \in 1..m
      BY <1>2, <1>8, <2>2
    <3> QED
      BY <1>3, <1>7, <2>2, <3>1
  <2>3. CASE k = n
    <3>1. t[j] = s[h(j)] /\ h(j) \in 1..m
      BY <1>2, <1>8, <2>3
    <3> QED
      BY <1>3, <1>7, <2>3, <3>1
  <2> QED
    BY <2>1, <2>2, <2>3
<1>9. ASSUME NEW k \in 1..(m + 1)
      PROVE  /\ t[k].e.index \in D \cup {i}
             /\ ME2[t[k].e.index] = SlotOf(t[k].e)
             /\ ME2[t[k].e.index] # Blank
  <2>1. CASE k = n
    BY <1>3, <2>1
  <2>2. CASE k # n
    <3>1. h(k) \in 1..m /\ t[k] = s[h(k)]
      BY <1>2, <2>2
    <3>2. /\ t[k].e.index \in D /\ t[k].e.index # i
          /\ ME[t[k].e.index] = SlotOf(t[k].e) /\ ME[t[k].e.index] # Blank
      BY <1>6, <1>7, <3>1
    <3> QED
      BY <3>2
  <2> QED
    BY <2>1, <2>2
<1>10. ASSUME NEW j \in D \cup {i}, ME2[j] # Blank PROVE \E k \in 1..(m + 1) : t[k].e.index = j
  <2>1. CASE j = i
    BY <1>1, <1>3, <2>1
  <2>2. CASE j # i
    <3>1. j \in D /\ ME[j] # Blank
      BY <1>10, <2>2
    <3>2. PICK k \in 1..m : s[k].e.index = j
      BY <1>6, <3>1
    <3> QED
      BY <1>5, <3>2
  <2> QED
    BY <2>1, <2>2
<1>11. Distinct(t)
  BY <1>1, <1>8 DEF Distinct
<1> QED
  BY <1>1, <1>9, <1>10, <1>11 DEF Mirrors

\* An unused slot of the mobile has no entry.
LEMMA BlankMirrors ==
  ASSUME NEW s, NEW D, NEW ME, Mirrors(s, ME, D), NEW i, ME[i] = Blank
  PROVE  Mirrors(s, ME, D \cup {i})
  BY DEF Mirrors

LoadAll(items, s) == FoldLeft(PutUsed, items, s)
IsLoadFold(base, seq, n, acc) ==
  /\ acc[0] = base
  /\ \A k \in 1..n : acc[k] = PutUsed(acc[k - 1], seq[k])
  /\ LoadAll(base, seq) = acc[n]

\* The fold that loads the used slots of the mobile, as iterates.
LEMMA LoadFold ==
  ASSUME NEW base, NEW seq, NEW n \in Nat, DOMAIN seq = 1..n
  PROVE  \E acc : IsLoadFold(base, seq, n, acc)
<1>1. \E acc : Loads!Iterates(base, seq, n, acc)
  BY Loads!FoldLeftIterates
<1>2. Loads!Fold(base, seq) = LoadAll(base, seq)
  BY Zenon DEF LoadAll, FoldLeft, MapThenFoldSet, Loads!Fold, Loads!FoldLeft, Loads!MapThenFoldSet, Max, Loads!Max
<1> QED
  BY <1>1, <1>2 DEF IsLoadFold, Loads!Iterates

\* The entries of the mobile, each with the key that was never initialised.
SlotItems(ME, g) ==
  [i \in DOMAIN ME |-> [key |-> <<g[i], g[i]>>, e |-> Entry(i, ME[i].text, ME[i].tel, FALSE)]]

\* The phonebook made of a mobile has the entries of its used slots.
LEMMA OfMEFacts ==
  ASSUME NEW ME \in METype, NEW r \in OfME(ME)
  PROVE  /\ Shape(r.pb) /\ r.pb.open = TRUE /\ r.pb.closing = FALSE /\ r.pb.madeBackup = FALSE
         /\ r.disk = ME /\ r.how = "ok" /\ r.pb.order = "ByIndex"
         /\ Mirrors(r.pb.items, ME, 1..Slots)
<1> DEFINE n == Slots
<1>0. n \in Nat /\ Garbage \subseteq Int
  BY SortedPhonebookAssumption, Zenon
<1>1. DOMAIN ME = 1..n /\ \A k \in 1..n : ME[k] \in [text : Text \cup {0}, tel : Tel \cup {0}]
  BY DEF METype
<1> DEFINE p(g) == [Fresh(FALSE) EXCEPT !.items = LoadAll(<<>>, SlotItems(ME, g))]
<1>2. OfME(ME) = {Result(p(g), ME, "ok") : g \in [DOMAIN ME -> Garbage]}
  BY Zenon DEF OfME, LoadAll, SlotItems
<1>3. PICK g \in [1..n -> Garbage] : r = Result(p(g), ME, "ok")
  BY <1>1, <1>2
<1> DEFINE seq == SlotItems(ME, g)
           items == LoadAll(<<>>, seq)
<1>4. r.pb = [Fresh(FALSE) EXCEPT !.items = items] /\ r.disk = ME /\ r.how = "ok"
  BY <1>3 DEF Result
<1>5. DOMAIN seq = 1..n
      /\ \A k \in 1..n : /\ seq[k].e = Entry(k, ME[k].text, ME[k].tel, FALSE)
                         /\ seq[k].key = <<g[k], g[k]>>
                         /\ seq[k] = [key |-> seq[k].key, e |-> seq[k].e]
  BY <1>1 DEF SlotItems
<1>6. \A k \in 1..n : /\ seq[k] \in ItemType /\ seq[k].e.index = k
                      /\ seq[k].e.text = ME[k].text /\ seq[k].e.tel = ME[k].tel
                      /\ SlotOf(seq[k].e) = ME[k]
  <2> SUFFICES ASSUME NEW k \in 1..n
               PROVE  /\ seq[k] \in ItemType /\ seq[k].e.index = k
                      /\ seq[k].e.text = ME[k].text /\ seq[k].e.tel = ME[k].tel
                      /\ SlotOf(seq[k].e) = ME[k]
    OBVIOUS
  <2> HIDE DEF seq
  <2> DEFINE a == ME[k].text
             b == ME[k].tel
             key == <<g[k], g[k]>>
             e == Entry(k, a, b, FALSE)
  <2>1. seq[k] = [key |-> key, e |-> e]
    BY <1>5
  <2>a. k \in Int /\ a \in Text \cup {0} /\ b \in Tel \cup {0} /\ key \in Int \X Int
    BY <1>0, <1>1
  <2>m. ME[k] = [text |-> a, tel |-> b]
    BY <1>1
  <2> HIDE DEF a, b, key
  <2>b. e \in EntryType /\ e.index = k /\ e.text = a /\ e.tel = b
    BY <2>a DEF EntryType, Entry
  <2>c. SlotOf(e) = ME[k]
    BY <2>b, <2>m DEF SlotOf
  <2> HIDE DEF e
  <2>3. seq[k] \in ItemType /\ seq[k].e = e
    BY <2>1, <2>a, <2>b DEF ItemType
  <2>2. seq[k].e.text = ME[k].text /\ seq[k].e.tel = ME[k].tel
    BY <2>3, <2>b DEF a, b
  <2> QED
    BY <2>2, <2>3, <2>b, <2>c
<1> HIDE DEF n, seq, items, p
<1>7. PICK acc : IsLoadFold(<<>>, seq, n, acc)
  BY <1>0, <1>5, LoadFold, Zenon
<1>8. /\ acc[0] = <<>>
      /\ \A k \in 1..n : acc[k] = PutUsed(acc[k - 1], seq[k])
      /\ items = acc[n]
  BY <1>7, Zenon DEF IsLoadFold, items
<1> DEFINE Good(k) == acc[k] \in Seq(ItemType) /\ InKeyOrder(acc[k]) /\ Mirrors(acc[k], ME, 1..k)
           I == {k \in Nat : k <= n => Good(k)}
<1>9. 0 \in I
  <2>1. <<>> \in Seq(ItemType) /\ Len(<<>>) = 0
    BY EmptySeq
  <2>2. InKeyOrder(<<>>) /\ Mirrors(<<>>, ME, 1..0)
    BY <2>1 DEF InKeyOrder, Mirrors, Distinct
  <2> QED
    BY <1>8, <2>1, <2>2
<1>10. ASSUME NEW k \in Nat, k \in I PROVE k + 1 \in I
  <2>1. SUFFICES ASSUME k + 1 <= n PROVE Good(k + 1)
    OBVIOUS
  <2> DEFINE s == acc[k]
             it == seq[k + 1]
  <2>2. k + 1 \in 1..n /\ (k + 1) - 1 = k /\ k <= n
    BY <1>0, <2>1
  <2>3. s \in Seq(ItemType) /\ InKeyOrder(s) /\ Mirrors(s, ME, 1..k)
    BY <1>10, <2>2
  <2>4. acc[k + 1] = PutUsed(s, it)
    <3>1. acc[k + 1] = PutUsed(acc[(k + 1) - 1], seq[k + 1])
      BY <1>8, <2>2
    <3> QED
      BY <2>2, <3>1
  <2>5. it \in ItemType /\ it.e.index = k + 1 /\ SlotOf(it.e) = ME[k + 1]
    BY <1>6, <2>2
  <2>6. (1..k) \cup {k + 1} = 1..(k + 1) /\ k + 1 \notin 1..k
    OBVIOUS
  <2> HIDE DEF s, it, Good
  <2>7. PutUsed(s, it) = IF ME[k + 1] = Blank THEN s ELSE Put(s, it)
    BY <2>5 DEF PutUsed, SlotOf
  <2>8. CASE ME[k + 1] = Blank
    <3>1. Mirrors(s, ME, (1..k) \cup {k + 1})
      BY <2>3, <2>8, BlankMirrors
    <3> QED
      BY <2>3, <2>4, <2>6, <2>7, <2>8, <3>1 DEF Good
  <2>9. CASE ME[k + 1] # Blank
    <3>1. Put(s, it) \in Seq(ItemType) /\ InKeyOrder(Put(s, it))
      BY <2>3, <2>5, PutFacts, PutSorted
    <3>2. PICK m \in 1..(Len(s) + 1) : Inserted(s, Put(s, it), m, it)
      BY <2>3, <2>5, PutFacts
    <3>3. Len(s) \in Nat
      BY <2>3, LenProperties
    <3>4. Mirrors(Put(s, it), ME, (1..k) \cup {k + 1})
      BY <2>3, <2>5, <2>6, <2>9, <3>2, <3>3, PutMirrors
    <3> QED
      BY <2>4, <2>6, <2>7, <2>9, <3>1, <3>4 DEF Good
  <2> QED
    BY <2>8, <2>9
<1> HIDE DEF Good
<1>11. n \in I
  BY <1>0, <1>9, <1>10, Loads!Induction
<1>12. items \in Seq(ItemType) /\ InKeyOrder(items) /\ Mirrors(items, ME, 1..n)
  BY <1>0, <1>8, <1>11 DEF Good
<1>13. /\ Fresh(FALSE) \in BookType /\ Fresh(FALSE).open = TRUE /\ Fresh(FALSE).closing = FALSE
       /\ Fresh(FALSE).madeBackup = FALSE /\ Fresh(FALSE).order = "ByIndex"
  BY FreshFacts DEF Shape
<1> DEFINE f == Fresh(FALSE)
<1> HIDE DEF f
<1>14. /\ r.pb \in BookType /\ r.pb.items = items
       /\ r.pb.open = TRUE /\ r.pb.closing = FALSE /\ r.pb.madeBackup = FALSE
       /\ r.pb.order = "ByIndex"
  BY <1>4, <1>12, <1>13 DEF BookType
<1> QED
  BY <1>4, <1>12, <1>14 DEF Shape, n
-----------------------------------------------------------------------------
(* insert() of a mobile. *)

InSlots(items) == \A k \in 1..Len(items) : items[k].e.index \in 1..Slots

\* What every call on the phonebook p, kept in d, has for a result.
Effect(k, p, d, r) ==
  /\ Shape(r.pb) /\ Kept(p, r.pb) /\ r.pb.order = p.order
  /\ k # "ME" => r.disk = d
  /\ k = "ME" => r.disk \in METype /\ (InSlots(p.items) => InSlots(r.pb.items))
Call(k, p, d, r) ==
  /\ Shape(r.pb) /\ Kept(p, r.pb) /\ r.pb.order = p.order
  /\ k # "ME" => r.disk = d
  /\ k \in {"file", "stdout"} => Dirty(r.pb)
  /\ k = "ME" => r.disk \in METype /\ (InSlots(p.items) => InSlots(r.pb.items))
StaysNumbered(k, p, r) == k # "ME" /\ WellNumbered(p) => WellNumbered(r.pb)
StaysMirror(k, p, d, r) ==
  k = "ME" /\ Mirrors(p.items, d, 1..Slots) => Mirrors(r.pb.items, r.disk, 1..Slots)

\* The entries of a mobile are in its slots.
LEMMA MirrorsInSlots ==
  ASSUME NEW items, NEW ME, Mirrors(items, ME, 1..Slots)
  PROVE  InSlots(items)
  BY DEF Mirrors, InSlots

\* insert() of a phonebook of the mobile: a full memory, a used slot and a fault included.
LEMMA InsertIntoMEFacts ==
  ASSUME NEW p, Shape(p), NEW ME \in METype, NEW x, EntryLike(x), NEW useIndex,
         NEW r \in InsertIntoME(p, ME, x, useIndex)
  PROVE  Call("ME", p, ME, r) /\ (SlotOf(x) # Blank => StaysMirror("ME", p, ME, r))
<1> DEFINE slot == SlotFor(ME, x, useIndex)
           e(i) == Entry(i, x.text, x.tel, TRUE)
           crash == Result(p, ME, "crash")
           throw == Result([p EXCEPT !.changed = TRUE], ME, "throw")
           ok(i) == Result([p EXCEPT !.items = Put(@, Item(p.order, e(i))), !.changed = TRUE],
                           [ME EXCEPT ![i] = [text |-> x.text, tel |-> x.tel]], "ok")
<1>0. Slots \in Nat
  BY SortedPhonebookAssumption, Zenon
<1>1. r = crash \/ r = throw \/ \E i \in slot \ Used(ME) : r = ok(i)
  BY DEF InsertIntoME
<1>2. ASSUME r = crash PROVE Call("ME", p, ME, r) /\ StaysMirror("ME", p, ME, r)
  <2>1. r.pb = p /\ r.disk = ME
    BY <1>2 DEF Result
  <2> HIDE DEF crash
  <2> QED
    BY <2>1 DEF Call, Kept, StaysMirror
<1>3. ASSUME r = throw PROVE Call("ME", p, ME, r) /\ StaysMirror("ME", p, ME, r)
  <2> DEFINE q == [p EXCEPT !.changed = TRUE]
  <2>1. r.pb = q /\ r.disk = ME
    BY <1>3 DEF Result
  <2>2. Shape(q) /\ q.items = p.items /\ q.order = p.order /\ Kept(p, q)
    BY ChangedFacts
  <2> HIDE DEF throw, q
  <2> QED
    BY <2>1, <2>2 DEF Call, StaysMirror
<1>4. ASSUME NEW i \in slot \ Used(ME), r = ok(i)
      PROVE  Call("ME", p, ME, r) /\ (SlotOf(x) # Blank => StaysMirror("ME", p, ME, r))
  <2>1. i \in 1..Slots /\ ME[i] = Blank
    <3>1. DOMAIN ME = 1..Slots
      BY DEF METype
    <3>2. i \in DOMAIN ME
      BY <1>4 DEF SlotFor
    <3> QED
      BY <1>4, <3>1, <3>2 DEF Used
  <2> DEFINE f == e(i)
             q == [p EXCEPT !.items = Put(@, Item(p.order, f))]
             u == [q EXCEPT !.changed = TRUE]
             it == Item(p.order, f)
             M == [ME EXCEPT ![i] = [text |-> x.text, tel |-> x.tel]]
  <2>2. r.pb = u /\ r.disk = M
    BY <1>4 DEF Result
  <2>3. f \in EntryType /\ f.index = i /\ SlotOf(f) = SlotOf(x)
    BY <1>0, <2>1 DEF Entry, EntryType, EntryLike, SlotOf
  <2>4. M \in METype /\ M[i] = SlotOf(x) /\ \A j \in 1..Slots : j # i => M[j] = ME[j]
    <3>1. SlotOf(x) \in [text : Text \cup {0}, tel : Tel \cup {0}]
      BY DEF EntryLike, SlotOf
    <3>2. M = [ME EXCEPT ![i] = SlotOf(x)]
      BY DEF SlotOf
    <3> HIDE DEF M
    <3> QED
      BY <2>1, <3>1, <3>2 DEF METype
  <2> HIDE DEF slot, f, M, e
  <2>5. p.order \in Orders
    BY DEF Shape, BookType
  <2>6. it.e = f
    BY <2>3, <2>5, KeyFacts
  <2>7. /\ Shape(q) /\ q.order = p.order /\ SameMembers(p, q)
        /\ \E n \in 1..(Len(p.items) + 1) : Inserted(p.items, q.items, n, it)
    BY <2>3, PutEntry DEF EntryPut
  <2> HIDE DEF q, it
  <2>8. Shape(u) /\ u.items = q.items /\ u.order = q.order /\ Kept(q, u)
    BY <2>7, ChangedFacts
  <2> HIDE DEF u
  <2>9. PICK n \in 1..(Len(p.items) + 1) : Inserted(p.items, q.items, n, it)
    BY <2>7
  <2>10. Len(p.items) \in Nat
    BY ShapeFacts
  <2>11. ASSUME InSlots(p.items) PROVE InSlots(u.items)
    <3>1. \A k \in 1..Len(q.items) : q.items[k] = it \/ \E j \in 1..Len(p.items) : q.items[k] = p.items[j]
      <4>1. /\ Len(q.items) = Len(p.items) + 1
            /\ \A k \in 1..Len(q.items) :
                 q.items[k] = IF k < n THEN p.items[k] ELSE IF k = n THEN it ELSE p.items[k - 1]
        BY <2>9 DEF Inserted
      <4> QED
        BY <2>9, <2>10, <4>1
    <3> QED
      BY <2>1, <2>3, <2>6, <2>8, <2>11, <3>1 DEF InSlots
  <2>12. ASSUME SlotOf(x) # Blank, Mirrors(p.items, ME, 1..Slots) PROVE Mirrors(u.items, M, 1..Slots)
    <3>1. Mirrors(q.items, M, (1..Slots) \cup {i})
      <4>1. i = it.e.index /\ M[i] = SlotOf(it.e) /\ M[i] # Blank
        BY <2>3, <2>4, <2>6, <2>12
      <4> DEFINE s == p.items
                 t == q.items
                 D == 1..Slots
      <4>2. /\ Len(s) \in Nat /\ Inserted(s, t, n, it) /\ Mirrors(s, ME, D)
            /\ \A j \in D : j # i => M[j] = ME[j]
        BY <2>4, <2>9, <2>10, <2>12
      <4> HIDE DEF s, t, D
      <4>3. Mirrors(t, M, D \cup {i})
        BY <2>1, <4>1, <4>2, PutMirrors
      <4> QED
        BY <4>3 DEF t, D
    <3>2. (1..Slots) \cup {i} = 1..Slots
      BY <2>1
    <3> QED
      BY <2>8, <3>1, <3>2
  <2>13. Kept(p, u) /\ u.order = p.order
    BY <2>7, <2>8 DEF Kept, SameMembers
  <2> QED
    BY <2>2, <2>4, <2>8, <2>11, <2>12, <2>13 DEF Call, StaysMirror
<1> QED
  BY <1>1, <1>2, <1>3, <1>4
-----------------------------------------------------------------------------
(* erase() of a file. *)

\* t has the items of s that are not at S.
Rest(s, S, t) ==
  /\ \A j \in 1..Len(t) : \E k \in 1..Len(s) : k \notin S /\ t[j] = s[k]
  /\ \A k \in 1..Len(s) : k \notin S => \E j \in 1..Len(t) : t[j] = s[k]

\* Dropping items keeps what holds of all of them.
LEMMA DropKeeps ==
  ASSUME NEW s \in Seq(ItemType), NEW S, NEW t, t = Drop(s, S)
  PROVE  /\ t \in Seq(ItemType)
         /\ InKeyOrder(s) => InKeyOrder(t)
         /\ Distinct(s) => Distinct(t)
         /\ NonNegative(s) => NonNegative(t)
         /\ ByIndexKeyed(s) => ByIndexKeyed(t)
         /\ InSlots(s) => InSlots(t)
         /\ Rest(s, S, t)
<1>1. t \in Seq(ItemType) /\ \E g : Selected(s, Len(s), S, t, g)
  BY DropFacts
<1>2. PICK g : Selected(s, Len(s), S, t, g)
  BY <1>1
<1> DEFINE n == Len(s)
           m == Len(t)
<1>0. n \in Nat /\ m \in Nat
  BY <1>1, LenProperties
<1>3. /\ \A j \in 1..m : g[j] \in 1..n /\ t[j] = s[g[j]] /\ g[j] \notin S
      /\ \A i, j \in 1..m : i < j => g[i] < g[j]
      /\ \A k \in 1..n : k \notin S => \E j \in 1..m : g[j] = k
  BY <1>2 DEF Selected
<1> HIDE DEF n, m
<1>4. \A i, j \in 1..m : i # j => g[i] # g[j]
  <2>1. \A i, j \in 1..m : i # j => i < j \/ j < i
    BY <1>0
  <2>2. \A i \in 1..m : g[i] \in Int
    BY <1>3
  <2>3. ASSUME NEW i \in 1..m, NEW j \in 1..m, i # j PROVE g[i] # g[j]
    <3>1. g[i] < g[j] \/ g[j] < g[i]
      BY <1>3, <2>1, <2>3
    <3> QED
      BY <2>2, <3>1
  <2> QED
    BY <2>3
<1>5. ASSUME InKeyOrder(s) PROVE InKeyOrder(t)
  <2>1. ASSUME NEW i \in 1..m, NEW j \in 1..m, i < j PROVE t[i].key[1] <= t[j].key[1]
    <3>1. g[i] \in 1..n /\ g[j] \in 1..n /\ g[i] < g[j]
      BY <1>3, <2>1
    <3>2. s[g[i]].key[1] <= s[g[j]].key[1]
      BY <1>5, <3>1 DEF InKeyOrder, n
    <3> QED
      BY <1>3, <3>2
  <2> QED
    BY <2>1 DEF InKeyOrder, m
<1>6. ASSUME Distinct(s) PROVE Distinct(t)
  <2>1. ASSUME NEW i \in 1..m, NEW j \in 1..m, i # j PROVE t[i].e.index # t[j].e.index
    <3>1. g[i] \in 1..n /\ g[j] \in 1..n /\ g[i] # g[j]
      BY <1>3, <1>4, <2>1
    <3>2. s[g[i]].e.index # s[g[j]].e.index
      BY <1>6, <3>1 DEF Distinct, n
    <3> QED
      BY <1>3, <3>2
  <2> QED
    BY <2>1 DEF Distinct, m
<1>7. NonNegative(s) => NonNegative(t)
  BY <1>3 DEF NonNegative, n, m
<1>8. ByIndexKeyed(s) => ByIndexKeyed(t)
  BY <1>3 DEF ByIndexKeyed, n, m
<1>9. InSlots(s) => InSlots(t)
  BY <1>3 DEF InSlots, n, m
<1>10. \A j \in 1..m : \E k \in 1..n : k \notin S /\ t[j] = s[k]
  BY <1>3
<1>11. ASSUME NEW k \in 1..n, k \notin S PROVE \E j \in 1..m : t[j] = s[k]
  <2>1. PICK j \in 1..m : g[j] = k
    BY <1>3, <1>11
  <2> QED
    BY <1>3, <2>1
<1>12. Rest(s, S, t)
  BY <1>10, <1>11 DEF Rest, n, m
<1> QED
  BY <1>1, <1>5, <1>6, <1>7, <1>8, <1>9, <1>12

\* The phonebook after entries at S were erased, each of which sets the flag, and
\* the phonebook without the items at T.
Flagged(p, S) == [p EXCEPT !.changed = @ \/ S # {}]
Off(p, T)     == [p EXCEPT !.items = Drop(@, T)]

\* Erasing entries sets the flag, and nothing else.
LEMMA FlaggedFacts ==
  ASSUME NEW p, Shape(p), NEW S
  PROVE  LET q == Flagged(p, S)
         IN  /\ Shape(q) /\ q.items = p.items /\ q.order = p.order /\ Kept(p, q)
             /\ IF S = {} THEN q = p ELSE q.changed = TRUE
             /\ WellNumbered(p) => WellNumbered(q)
<1>1. CASE S = {}
  <2>1. p \in BookType /\ p.changed \in BOOLEAN
    BY DEF Shape, BookType
  <2>2. (p.changed \/ S # {}) = p.changed
    BY <1>1, <2>1
  <2>3. Flagged(p, S) = [p EXCEPT !.changed = p.changed]
    BY <2>2 DEF Flagged
  <2>4. Flagged(p, S) = p
    BY <2>1, <2>3 DEF BookType
  <2> QED
    BY <1>1, <2>4 DEF Kept
<1>2. CASE S # {}
  <2>1. (p.changed \/ S # {}) = TRUE
    BY <1>2
  <2>2. Flagged(p, S) = [p EXCEPT !.changed = TRUE]
    BY <2>1 DEF Flagged
  <2> QED
    BY <1>2, <2>2, ChangedFacts
<1> QED
  BY <1>1, <1>2

\* Items are dropped.
LEMMA OffFacts ==
  ASSUME NEW p, Shape(p), NEW T
  PROVE  LET q == Off(p, T)
         IN  /\ Shape(q) /\ Kept(p, q) /\ q.order = p.order /\ q.changed = p.changed
             /\ q.items = Drop(p.items, T)
             /\ WellNumbered(p) => WellNumbered(q)
<1> DEFINE q == Off(p, T)
           t == Drop(p.items, T)
<1>2. p.items \in Seq(ItemType)
  BY ShapeFacts
<1>3. /\ t \in Seq(ItemType) /\ (InKeyOrder(p.items) => InKeyOrder(t))
      /\ (Distinct(p.items) => Distinct(t)) /\ (NonNegative(p.items) => NonNegative(t))
      /\ (ByIndexKeyed(p.items) => ByIndexKeyed(t))
  BY <1>2, DropKeeps
<1>4. q = [p EXCEPT !.items = t]
  BY DEF Off
<1> HIDE DEF q, t
<1>6. /\ q \in BookType /\ q.items = t /\ q.order = p.order /\ q.changed = p.changed /\ Kept(p, q)
  BY <1>3, <1>4 DEF Shape, BookType, Kept
<1>7. Shape(q)
  BY <1>3, <1>6 DEF Shape
<1>8. WellNumbered(p) => WellNumbered(q)
  BY <1>3, <1>6, <1>7 DEF WellNumbered, Kept
<1> QED
  BY <1>6, <1>7, <1>8 DEF q, t

\* Entries that were emptied in the mobile and are still in the map.
LEMMA BlankedFacts ==
  ASSUME NEW p, Shape(p), NEW R
  PROVE  LET q == Blanked(p, R)
         IN  /\ Shape(q) /\ Kept(p, q) /\ q.order = p.order
             /\ Len(q.items) = Len(p.items)
             /\ \A k \in 1..Len(p.items) :
                  q.items[k].e.index = p.items[k].e.index
                  /\ (k \notin R => q.items[k] = p.items[k])
<1> DEFINE q == Blanked(p, R)
           s == p.items
           n == Len(s)
           b(it) == [it EXCEPT !.e.text = 0, !.e.tel = 0, !.e.changed = TRUE]
           t == [k \in DOMAIN s |-> IF k \in R THEN b(s[k]) ELSE s[k]]
<1>2. s \in Seq(ItemType) /\ n \in Nat /\ DOMAIN s = 1..n
  BY ShapeFacts
<1>3. \A k \in 1..n : s[k] \in ItemType
  BY <1>2, ElementOfSeq
<1>4. ASSUME NEW it \in ItemType
      PROVE  b(it) \in ItemType /\ b(it).e.index = it.e.index /\ b(it).key = it.key
  BY DEF ItemType, EntryType
<1>5. q = [p EXCEPT !.items = t]
  BY DEF Blanked
<1>6. \A k \in 1..n : /\ t[k] \in ItemType /\ t[k].e.index = s[k].e.index /\ t[k].key = s[k].key
                      /\ k \notin R => t[k] = s[k]
  <2> SUFFICES ASSUME NEW k \in 1..n
               PROVE  /\ t[k] \in ItemType /\ t[k].e.index = s[k].e.index /\ t[k].key = s[k].key
                      /\ k \notin R => t[k] = s[k]
    OBVIOUS
  <2> HIDE DEF s
  <2>1. t[k] = IF k \in R THEN b(s[k]) ELSE s[k]
    BY <1>2
  <2> HIDE DEF t
  <2>2. b(s[k]) \in ItemType /\ b(s[k]).e.index = s[k].e.index /\ b(s[k]).key = s[k].key
    BY <1>3, <1>4
  <2> HIDE DEF b
  <2> QED
    BY <1>3, <2>1, <2>2
<1>7. t = [k \in 1..n |-> t[k]] /\ DOMAIN t = 1..n
  BY <1>2
<1> HIDE DEF t, n, s
<1>8. t \in Seq(ItemType) /\ Len(t) = n
  <2>1. [k \in 1..n |-> t[k]] \in Seq(ItemType)
    BY <1>2, <1>6
  <2>2. t \in Seq(ItemType)
    BY <1>7, <2>1, Zenon
  <2> QED
    BY <1>2, <1>7, <2>2
<1> HIDE DEF q
<1>9. q \in BookType /\ q.items = t /\ q.order = p.order /\ Kept(p, q)
  BY <1>5, <1>8 DEF Shape, BookType, Kept
<1>10. InKeyOrder(t)
  BY <1>6, <1>8 DEF InKeyOrder, Shape, n, s
<1> QED
  BY <1>6, <1>8, <1>9, <1>10 DEF Shape, Kept, q, n, s

\* When none was emptied, the entries are what they were.
LEMMA NoneBlanked ==
  ASSUME NEW p, Shape(p)
  PROVE  Blanked(p, {}).items = p.items
<1> DEFINE s == p.items
           q == Blanked(p, {})
<1>1. s \in Seq(ItemType)
  BY ShapeFacts
<1>2. Shape(q) /\ Len(q.items) = Len(s) /\ \A k \in 1..Len(s) : q.items[k] = s[k]
  BY BlankedFacts
<1> DEFINE t == q.items
<1>3. t \in Seq(ItemType)
  BY <1>2, ShapeFacts
<1> HIDE DEF q, s, t
<1>4. t \in Seq(ItemType) /\ s \in Seq(ItemType) /\ Len(t) = Len(s) /\ \A k \in 1..Len(s) : t[k] = s[k]
  BY <1>1, <1>2, <1>3 DEF t
<1>5. t = s
  BY <1>4, SeqEqual
<1> QED
  BY <1>5 DEF t, q, s
-----------------------------------------------------------------------------
(* erase() of a mobile. *)

\* M is the memory ME with the slots of the entries at S emptied.
Emptying(items, ME, S, M) ==
  /\ M \in METype
  /\ \A i \in 1..Slots : (\E k \in S : items[k].e.index = i) => M[i] = Blank
  /\ \A i \in 1..Slots : (\A k \in S : items[k].e.index # i) => M[i] = ME[i]

\* The memory after the slots of some entries were emptied is Emptied().
LEMMA EmptiedFacts ==
  ASSUME NEW p, Shape(p), NEW ME \in METype, NEW S \in SUBSET (1..Len(p.items))
  PROVE  Emptying(p.items, ME, S, Emptied(p, ME, S))
<1> DEFINE slots == {p.items[k].e.index : k \in S}
           M == Emptied(p, ME, S)
<1>1. M = [i \in 1..Slots |-> IF i \in slots THEN Blank ELSE ME[i]]
  BY DEF Emptied, METype
<1>2. \A i \in 1..Slots : (\E k \in S : p.items[k].e.index = i) <=> i \in slots
  OBVIOUS
<1> HIDE DEF slots, M
<1>3. \A i \in 1..Slots : M[i] = IF i \in slots THEN Blank ELSE ME[i]
  BY <1>1
<1>4. Blank \in [text : Text \cup {0}, tel : Tel \cup {0}]
  BY DEF Blank
<1>5. M \in METype
  BY <1>1, <1>4 DEF METype
<1> QED
  BY <1>2, <1>3, <1>5 DEF M, Emptying

\* Emptying the slots of some entries and dropping their items keeps the mirror.
LEMMA DropMirrors ==
  ASSUME NEW p, Shape(p), NEW ME \in METype, Mirrors(p.items, ME, 1..Slots),
         NEW S \in SUBSET (1..Len(p.items))
  PROVE  Mirrors(Drop(p.items, S), Emptied(p, ME, S), 1..Slots)
<1> DEFINE s == p.items
           t == Drop(s, S)
           M == Emptied(p, ME, S)
<1>1. s \in Seq(ItemType)
  BY ShapeFacts
<1>2. /\ Distinct(s) => Distinct(t)
      /\ \A j \in 1..Len(t) : \E k \in 1..Len(s) : k \notin S /\ t[j] = s[k]
      /\ \A k \in 1..Len(s) : k \notin S => \E j \in 1..Len(t) : t[j] = s[k]
  <2>1. (Distinct(s) => Distinct(t)) /\ Rest(s, S, t)
    BY <1>1, DropKeeps
  <2> HIDE DEF s, t
  <2> QED
    BY <2>1 DEF Rest
<1>3. Emptying(s, ME, S, M)
  BY EmptiedFacts, Zenon
<1> HIDE DEF s, t, M
<1>e. /\ \A i \in 1..Slots : (\E k \in S : s[k].e.index = i) => M[i] = Blank
      /\ \A i \in 1..Slots : (\A k \in S : s[k].e.index # i) => M[i] = ME[i]
  BY <1>3 DEF Emptying
<1>4. /\ \A j, k \in 1..Len(s) : j # k => s[j].e.index # s[k].e.index
      /\ \A k \in 1..Len(s) : /\ s[k].e.index \in 1..Slots
                              /\ ME[s[k].e.index] = SlotOf(s[k].e)
                              /\ ME[s[k].e.index] # Blank
      /\ \A i \in 1..Slots : ME[i] # Blank => \E k \in 1..Len(s) : s[k].e.index = i
  BY DEF Mirrors, Distinct, s
<1>5. Distinct(t)
  BY <1>2 DEF Mirrors, s
<1>6. ASSUME NEW j \in 1..Len(t)
      PROVE  /\ t[j].e.index \in 1..Slots
             /\ M[t[j].e.index] = SlotOf(t[j].e)
             /\ M[t[j].e.index] # Blank
  <2>1. PICK k \in 1..Len(s) : k \notin S /\ t[j] = s[k]
    BY <1>2
  <2>2. \A m \in S : m \in 1..Len(s) /\ m # k
    BY <2>1 DEF s
  <2>3. \A m \in S : s[m].e.index # s[k].e.index
    BY <1>4, <2>2
  <2>4. M[s[k].e.index] = ME[s[k].e.index]
    BY <1>e, <1>4, <2>3
  <2> QED
    BY <1>4, <2>1, <2>4
<1>7. ASSUME NEW i \in 1..Slots, M[i] # Blank PROVE \E j \in 1..Len(t) : t[j].e.index = i
  <2>1. \A k \in S : s[k].e.index # i
    BY <1>e, <1>7
  <2>2. ME[i] # Blank
    BY <1>e, <1>7, <2>1
  <2>3. PICK k \in 1..Len(s) : s[k].e.index = i
    BY <1>4, <2>2
  <2>4. k \notin S
    BY <2>1, <2>3
  <2> QED
    BY <1>2, <2>3, <2>4
<1>8. Mirrors(t, M, 1..Slots)
  BY <1>5, <1>6, <1>7 DEF Mirrors
<1> QED
  BY <1>8 DEF s, t, M

\* erase(), of one entry or of several, in a file or the mobile, a fault included.
LEMMA EraseFacts ==
  ASSUME NEW k, NEW p, Shape(p), NEW d, k = "ME" => d \in METype,
         NEW S \in SUBSET (1..Len(p.items)), NEW T, NEW r \in Erase(k, p, d, S, T)
  PROVE  /\ Effect(k, p, d, r) /\ StaysNumbered(k, p, r) /\ r.how \in {"ok", "throw"}
         /\ S # {} => Call(k, p, d, r)
         /\ r = Result(r.pb, r.disk, r.how)
         /\ S = T /\ (r.how = "ok" \/ \E n \in S : S = {n}) => StaysMirror(k, p, d, r)
<1> DEFINE u == Flagged(p, S)
           w == Blanked(u, S \ T)
           q == Off(u, T)
           g == Off(w, T)
           Refused(R) == Result(Blanked(u, R), Emptied(p, d, R), "throw")
<1>u. /\ Shape(u) /\ u.items = p.items /\ u.order = p.order /\ Kept(p, u)
      /\ S # {} => u.changed = TRUE
      /\ WellNumbered(p) => WellNumbered(u)
  BY FlaggedFacts
<1>2. p.items \in Seq(ItemType) /\ Len(p.items) \in Nat
  BY ShapeFacts
<1>3. IF k # "ME" THEN r = Result(q, d, "ok")
      ELSE \/ r = Result(g, Emptied(p, d, S), "ok")
           \/ \E n \in S : r = Refused({j \in S : j < n})
  BY Zenon DEF Erase, Flagged, Off
<1> HIDE DEF u
<1>1. /\ Shape(q) /\ Kept(u, q) /\ q.order = u.order /\ q.changed = u.changed
      /\ q.items = Drop(u.items, T)
      /\ WellNumbered(u) => WellNumbered(q)
  BY <1>u, OffFacts
<1>w. /\ Shape(w) /\ Kept(u, w) /\ w.order = u.order
      /\ Len(w.items) = Len(p.items)
      /\ \A m \in 1..Len(p.items) : w.items[m].e.index = p.items[m].e.index
      /\ S = T => w.items = p.items
  <2>1. /\ Shape(w) /\ Kept(u, w) /\ w.order = u.order
        /\ Len(w.items) = Len(u.items)
        /\ \A m \in 1..Len(u.items) : w.items[m].e.index = u.items[m].e.index
    BY <1>u, BlankedFacts
  <2>2. S = T => w.items = p.items
    <3> SUFFICES ASSUME S = T PROVE w.items = p.items
      OBVIOUS
    <3>1. S \ T = {}
      OBVIOUS
    <3>2. Blanked(u, {}).items = u.items
      BY <1>u, NoneBlanked
    <3> QED
      BY <1>u, <3>1, <3>2
  <2> QED
    BY <1>u, <2>1, <2>2
<1> HIDE DEF w
<1>g. /\ Shape(g) /\ Kept(w, g) /\ g.order = w.order /\ g.items = Drop(w.items, T)
  BY <1>w, OffFacts
<1> HIDE DEF q, g
<1>4. CASE k # "ME"
  <2>1. r = Result(q, d, "ok")
    BY <1>3, <1>4
  <2>2. r.pb = q /\ r.disk = d /\ r.how = "ok"
    BY <2>1 DEF Result
  <2>3. S # {} => Dirty(q)
    BY <1>u, <1>1 DEF Dirty
  <2>4. Effect(k, p, d, r) /\ (S # {} => Call(k, p, d, r)) /\ StaysNumbered(k, p, r)
    BY <1>u, <1>1, <1>4, <2>2, <2>3 DEF Effect, Call, StaysNumbered, Kept
  <2> QED
    BY <1>4, <2>1, <2>2, <2>4 DEF StaysMirror
<1>5. CASE k = "ME" /\ r = Result(g, Emptied(p, d, S), "ok")
  <2>1. r.pb = g /\ r.disk = Emptied(p, d, S) /\ r.how = "ok"
    BY <1>5 DEF Result
  <2>2. r.disk \in METype
    BY <1>5, <2>1, EmptiedFacts DEF Emptying
  <2>3. InSlots(p.items) => InSlots(g.items)
    <3>1. w.items \in Seq(ItemType)
      BY <1>w, ShapeFacts
    <3>2. InSlots(p.items) => InSlots(w.items)
      BY <1>w DEF InSlots
    <3> QED
      BY <1>g, <3>1, <3>2, DropKeeps
  <2>4. S = T /\ Mirrors(p.items, d, 1..Slots) => Mirrors(g.items, r.disk, 1..Slots)
    BY <1>w, <1>g, <1>5, <2>1, DropMirrors
  <2>5. Call(k, p, d, r) /\ Effect(k, p, d, r)
    BY <1>u, <1>w, <1>g, <1>5, <2>1, <2>2, <2>3 DEF Call, Effect, Kept
  <2> QED
    BY <1>5, <2>1, <2>4, <2>5 DEF StaysNumbered, StaysMirror
<1>6. ASSUME NEW n \in S, k = "ME", r = Refused({j \in S : j < n})
      PROVE  /\ Effect(k, p, d, r) /\ StaysNumbered(k, p, r) /\ r.how \in {"ok", "throw"}
             /\ S # {} => Call(k, p, d, r)
             /\ r = Result(r.pb, r.disk, r.how)
             /\ S = T /\ (r.how = "ok" \/ \E m \in S : S = {m}) => StaysMirror(k, p, d, r)
  <2> DEFINE R == {j \in S : j < n}
             v == Blanked(u, R)
             M == Emptied(p, d, R)
  <2>1. r = Result(v, M, "throw")
    BY <1>6
  <2>2. r.pb = v /\ r.disk = M /\ r.how = "throw"
    BY <2>1 DEF Result
  <2>3. /\ Shape(v) /\ Kept(p, v) /\ v.order = p.order
        /\ Len(v.items) = Len(p.items)
        /\ \A m \in 1..Len(p.items) : v.items[m].e.index = p.items[m].e.index
                                      /\ (m \notin R => v.items[m] = p.items[m])
    BY <1>u, BlankedFacts DEF Kept
  <2>4. R \in SUBSET (1..Len(p.items)) /\ d \in METype
    BY <1>6
  <2>5. /\ M \in METype
        /\ \A i \in 1..Slots : (\A m \in R : p.items[m].e.index # i) => M[i] = d[i]
    BY <2>4, EmptiedFacts DEF Emptying
  <2>6. (\E m \in S : S = {m}) => R = {}
    BY <1>2
  <2> HIDE DEF v, M, R
  <2>7. InSlots(p.items) => InSlots(v.items)
    BY <2>3 DEF InSlots
  <2>8. ASSUME \E m \in S : S = {m}, Mirrors(p.items, d, 1..Slots)
        PROVE  Mirrors(v.items, M, 1..Slots)
    <3>1. R = {}
      BY <2>6, <2>8
    <3>2. \A m \in 1..Len(p.items) : v.items[m] = p.items[m]
      BY <2>3, <3>1
    <3>3. \A i \in 1..Slots : M[i] = d[i]
      BY <2>5, <3>1
    <3>4. Distinct(v.items)
      BY <2>3, <2>8, <3>2 DEF Mirrors, Distinct
    <3> DEFINE s == p.items
               t == v.items
               D == 1..Slots
    <3>5. Len(t) = Len(s) /\ \A m \in 1..Len(s) : t[m] = s[m]
      BY <2>3, <3>2
    <3>6. Mirrors(s, d, D) /\ Distinct(t) /\ \A i \in D : M[i] = d[i]
      BY <2>8, <3>3, <3>4
    <3> HIDE DEF s, t, D
    <3>7. \A m \in 1..Len(t) : /\ t[m].e.index \in D
                                /\ M[t[m].e.index] = SlotOf(t[m].e)
                                /\ M[t[m].e.index] # Blank
      BY <3>5, <3>6 DEF Mirrors
    <3>8. \A i \in D : M[i] # Blank => \E m \in 1..Len(t) : t[m].e.index = i
      BY <3>5, <3>6 DEF Mirrors
    <3>9. Mirrors(t, M, D)
      BY <3>6, <3>7, <3>8 DEF Mirrors
    <3> QED
      BY <3>9 DEF t, D
  <2>9. Call(k, p, d, r) /\ Effect(k, p, d, r)
    BY <1>6, <2>2, <2>3, <2>5, <2>7 DEF Call, Effect
  <2> QED
    BY <1>6, <2>1, <2>2, <2>8, <2>9 DEF StaysNumbered, StaysMirror
<1> QED
  BY <1>3, <1>4, <1>5, <1>6
-----------------------------------------------------------------------------
(* Overwriting entries. *)

\* Another entry at place n of the items, with the key it had.
Replaced(s, t, n, e) ==
  /\ Len(t) = Len(s)
  /\ t[n].e = e /\ t[n].key = s[n].key
  /\ \A k \in 1..Len(s) : k # n => t[k] = s[k]

\* erase() that finds nothing in a file.
LEMMA EraseNothing ==
  ASSUME NEW p, Shape(p), NEW d, NEW S, S = {}, NEW r \in Erase("file", p, d, S, S)
  PROVE  r.pb = p /\ r.disk = d
<1> DEFINE u == Flagged(p, S)
           q == Off(u, S)
<1>1. r = Result(q, d, "ok")
  BY Zenon DEF Erase, Flagged, Off
<1>2. u = p
  BY FlaggedFacts
<1>3. p \in BookType /\ p.items \in Seq(ItemType)
  BY ShapeFacts DEF Shape
<1>4. Drop(p.items, S) = p.items
  BY <1>3, DropNone
<1> HIDE DEF u
<1>5. q = [p EXCEPT !.items = p.items]
  BY <1>2, <1>4 DEF Off
<1>6. q = p
  BY <1>3, <1>5 DEF BookType
<1> QED
  BY <1>1, <1>6 DEF Result

\* Another entry at a place of the items.
LEMMA ReplaceFacts ==
  ASSUME NEW p, Shape(p), NEW n \in 1..Len(p.items), NEW e \in EntryType,
         NEW q, q = [p EXCEPT !.items[n].e = e]
  PROVE  /\ Shape(q) /\ q.order = p.order /\ SameMembers(p, q)
         /\ Replaced(p.items, q.items, n, e)
<1> DEFINE s == p.items
           t == [s EXCEPT ![n].e = e]
<1>1. s \in Seq(ItemType) /\ Len(s) \in Nat /\ DOMAIN s = 1..Len(s)
  BY ShapeFacts
<1>2. s[n] \in ItemType
  BY <1>1, ElementOfSeq
<1>3. [s[n] EXCEPT !.e = e] \in ItemType /\ [s[n] EXCEPT !.e = e].e = e
      /\ [s[n] EXCEPT !.e = e].key = s[n].key
  BY <1>2 DEF ItemType
<1> DEFINE it == [s[n] EXCEPT !.e = e]
<1>4. t = [s EXCEPT ![n] = it]
  BY <1>1
<1>5. q = [p EXCEPT !.items = t]
  BY DEF Shape, BookType
<1> HIDE DEF s, t, it
<1>6. /\ t \in Seq(ItemType) /\ Len(t) = Len(s)
      /\ \A j \in 1..Len(s) : t[j] = IF j = n THEN it ELSE s[j]
  BY <1>1, <1>3, <1>4, ExceptSeq DEF s, it
<1>7. q \in BookType /\ q.items = t /\ q.order = p.order /\ SameMembers(p, q)
  BY <1>5, <1>6 DEF Shape, BookType, SameMembers
<1>8. Replaced(s, t, n, e)
  BY <1>3, <1>6 DEF Replaced, s, it
<1>9. \A j \in 1..Len(s) : t[j].key = s[j].key
  BY <1>8 DEF Replaced
<1>10. InKeyOrder(t)
  BY <1>6, <1>9 DEF Shape, InKeyOrder, s
<1> QED
  BY <1>7, <1>8, <1>10 DEF Shape, s

\* An entry overwritten with one of its index keeps the numbering.
LEMMA ReplaceNumbered ==
  ASSUME NEW p, WellNumbered(p), NEW n \in 1..Len(p.items), NEW e, e.index = p.items[n].e.index,
         NEW q, SameMembers(p, q), q.order = p.order, Replaced(p.items, q.items, n, e)
  PROVE  WellNumbered(q)
<1> DEFINE s == p.items
           t == q.items
<1>1. /\ Len(t) = Len(s) /\ \A k \in 1..Len(s) : t[k].e.index = s[k].e.index
      /\ \A k \in 1..Len(s) : t[k].key = s[k].key
  BY DEF Replaced
<1> HIDE DEF s, t
<1>2. /\ Distinct(s) => Distinct(t)
      /\ NonNegative(s) => NonNegative(t)
      /\ ByIndexKeyed(s) => ByIndexKeyed(t)
  BY <1>1 DEF Distinct, NonNegative, ByIndexKeyed
<1> QED
  BY <1>2 DEF WellNumbered, SameMembers, s, t

\* An entry overwritten in the map and in the mobile keeps the mirror.
LEMMA ReplaceMirrors ==
  ASSUME NEW s, NEW ME \in METype, Mirrors(s, ME, 1..Slots), NEW n \in 1..Len(s),
         NEW e, e.index = s[n].e.index, SlotOf(e) # Blank,
         NEW t, Replaced(s, t, n, e),
         NEW M, M = [ME EXCEPT ![e.index] = SlotOf(e)]
  PROVE  Mirrors(t, M, 1..Slots)
<1>1. /\ Len(t) = Len(s) /\ t[n].e = e /\ \A k \in 1..Len(s) : k # n => t[k] = s[k]
  BY DEF Replaced
<1>2. /\ \A j, k \in 1..Len(s) : j # k => s[j].e.index # s[k].e.index
      /\ \A k \in 1..Len(s) : /\ s[k].e.index \in 1..Slots
                              /\ ME[s[k].e.index] = SlotOf(s[k].e)
                              /\ ME[s[k].e.index] # Blank
      /\ \A i \in 1..Slots : ME[i] # Blank => \E k \in 1..Len(s) : s[k].e.index = i
  BY DEF Mirrors, Distinct
<1>3. e.index \in 1..Slots
  BY <1>2
<1>4. \A i \in 1..Slots : M[i] = IF i = e.index THEN SlotOf(e) ELSE ME[i]
  BY <1>3 DEF METype
<1>5. \A k \in 1..Len(s) : t[k].e.index = s[k].e.index
  BY <1>1
<1>6. Distinct(t)
  BY <1>1, <1>2, <1>5 DEF Distinct
<1>7. ASSUME NEW k \in 1..Len(t)
      PROVE  /\ t[k].e.index \in 1..Slots
             /\ M[t[k].e.index] = SlotOf(t[k].e)
             /\ M[t[k].e.index] # Blank
  <2>1. CASE k = n
    BY <1>1, <1>3, <1>4, <2>1
  <2>2. CASE k # n
    <3>1. t[k] = s[k] /\ k \in 1..Len(s) /\ s[k].e.index # e.index
      BY <1>1, <1>2, <2>2
    <3> QED
      BY <1>2, <1>4, <3>1
  <2> QED
    BY <2>1, <2>2
<1>8. ASSUME NEW i \in 1..Slots, M[i] # Blank PROVE \E k \in 1..Len(t) : t[k].e.index = i
  <2>1. CASE i = e.index
    BY <1>1, <1>5, <2>1
  <2>2. CASE i # e.index
    <3>1. ME[i] # Blank
      BY <1>4, <1>8, <2>2
    <3> QED
      BY <1>1, <1>2, <1>5, <3>1
  <2> QED
    BY <2>1, <2>2
<1> QED
  BY <1>6, <1>7, <1>8 DEF Mirrors

\* operator= of an entry of the phonebook.
LEMMA SetFacts ==
  ASSUME NEW k, NEW p, Shape(p), NEW d, k = "ME" => d \in METype,
         NEW n \in 1..Len(p.items), NEW x, EntryLike(x), NEW r \in Set(k, p, d, n, x)
  PROVE  /\ Call(k, p, d, r) /\ r.how \in {"ok", "throw"}
         /\ (x.index = NoIndex \/ x.index = p.items[n].e.index) => StaysNumbered(k, p, r)
         /\ SlotOf(x) # Blank => StaysMirror(k, p, d, r)
<1> DEFINE i == IF k = "ME" \/ x.index = NoIndex THEN p.items[n].e.index ELSE x.index
           e == Entry(i, x.text, x.tel, TRUE)
           q == [p EXCEPT !.items[n].e = e]
           M == [d EXCEPT ![e.index] = [text |-> x.text, tel |-> x.tel]]
<1>1. IF k # "ME" THEN r = Result(q, d, "ok")
      ELSE r = Result(q, M, "ok") \/ r = Result(p, d, "throw")
  BY Zenon DEF Set
<1>2. p.items[n].e \in EntryType
  BY ShapeFacts
<1>3. i \in Int
  BY <1>2 DEF EntryType, EntryLike
<1>4. k = "ME" => i = p.items[n].e.index
  OBVIOUS
<1>5. (x.index = NoIndex \/ x.index = p.items[n].e.index) => i = p.items[n].e.index
  OBVIOUS
<1> HIDE DEF i
<1>6. e \in EntryType /\ e.index = i /\ SlotOf(e) = SlotOf(x) /\ e.changed = TRUE
  BY <1>3 DEF Entry, EntryType, EntryLike, SlotOf
<1>7. M = [d EXCEPT ![e.index] = SlotOf(e)]
  BY <1>6 DEF SlotOf
<1> HIDE DEF e, M
<1>8. /\ Shape(q) /\ q.order = p.order /\ SameMembers(p, q)
      /\ Replaced(p.items, q.items, n, e)
  BY <1>6, ReplaceFacts
<1>8a. Kept(p, q)
  BY <1>8 DEF Kept, SameMembers
<1> HIDE DEF q
<1>9. CASE k # "ME"
  <2>1. r.pb = q /\ r.disk = d /\ r.how = "ok"
    BY <1>1, <1>9 DEF Result
  <2>2. q.items[n].e.changed = TRUE /\ n \in 1..Len(q.items)
    BY <1>6, <1>8 DEF Replaced
  <2>3. ItemsOf(q) = {q.items[j].e : j \in 1..Len(q.items)}
    BY <1>8, ShapeFacts
  <2>4. Dirty(q)
    BY <2>2, <2>3 DEF Dirty
  <2>5. Call(k, p, d, r)
    BY <1>8, <1>8a, <1>9, <2>1, <2>4 DEF Call
  <2>6. i = p.items[n].e.index /\ WellNumbered(p) => WellNumbered(q)
    BY <1>6, <1>8, ReplaceNumbered
  <2> QED
    BY <1>5, <1>9, <2>1, <2>5, <2>6 DEF StaysNumbered, StaysMirror
<1>10. CASE k = "ME" /\ r = Result(q, M, "ok")
  <2>1. r.pb = q /\ r.disk = M /\ r.how = "ok"
    BY <1>10 DEF Result
  <2>2. M \in METype
    <3>1. SlotOf(e) \in [text : Text \cup {0}, tel : Tel \cup {0}]
      BY <1>6 DEF EntryType, SlotOf
    <3> QED
      BY <1>7, <1>10, <3>1 DEF METype
  <2>3. InSlots(p.items) => InSlots(q.items)
    <3>1. \A j \in 1..Len(p.items) : q.items[j].e.index = p.items[j].e.index
      BY <1>4, <1>6, <1>8, <1>10 DEF Replaced
    <3>2. Len(q.items) = Len(p.items)
      BY <1>8 DEF Replaced
    <3> QED
      BY <3>1, <3>2 DEF InSlots
  <2>4. Call(k, p, d, r)
    BY <1>8, <1>8a, <1>10, <2>1, <2>2, <2>3 DEF Call
  <2>5. ASSUME SlotOf(x) # Blank, Mirrors(p.items, d, 1..Slots) PROVE Mirrors(q.items, M, 1..Slots)
    BY <1>4, <1>6, <1>7, <1>8, <1>10, <2>5, ReplaceMirrors
  <2> QED
    BY <1>10, <2>1, <2>4, <2>5 DEF StaysNumbered, StaysMirror
<1>11. CASE k = "ME" /\ r = Result(p, d, "throw")
  <2>1. r.pb = p /\ r.disk = d /\ r.how = "throw"
    BY <1>11 DEF Result
  <2> QED
    BY <1>11, <2>1 DEF Call, Kept, StaysNumbered, StaysMirror
<1> QED
  BY <1>1, <1>9, <1>10, <1>11

\* insert(), for every kind of phonebook.
LEMMA InsertFacts ==
  ASSUME NEW k \in {"file", "stdin", "stdout", "ME"}, NEW p, Shape(p), NEW d, k = "ME" => d \in METype,
         NEW x, EntryLike(x), NEW useIndex, NEW r \in Insert(k, p, d, x, useIndex)
  PROVE  /\ Call(k, p, d, r)
         /\ (x.index = NoIndex \/ x.index >= 0) => StaysNumbered(k, p, r)
         /\ SlotOf(x) # Blank => StaysMirror(k, p, d, r)
<1>1. CASE k = "stdin"
  <2>1. r = Result(p, d, "throw")
    BY <1>1 DEF Insert
  <2>2. r.pb = p /\ r.disk = d
    BY <2>1 DEF Result
  <2> QED
    BY <1>1, <2>2 DEF Call, Kept, StaysNumbered, StaysMirror
<1>2. CASE k = "ME"
  <2>1. r \in InsertIntoME(p, d, x, useIndex)
    BY <1>2 DEF Insert
  <2> QED
    BY <1>2, <2>1, InsertIntoMEFacts DEF StaysNumbered
<1>3. CASE k \in {"file", "stdout"}
  <2>1. r \in {InsertIntoFile(p, d, x, g) : g \in Garbage}
    BY <1>3 DEF Insert
  <2>2. PICK g \in Garbage : r = InsertIntoFile(p, d, x, g)
    BY <2>1, Zenon
  <2>3. g \in Int
    BY SortedPhonebookAssumption
  <2>4. InsertsIntoFile(p, d, x, r)
    BY <2>2, <2>3, InsertIntoFileFacts
  <2>5. Dirty(r.pb)
    BY <2>4 DEF InsertsIntoFile, Dirty
  <2> QED
    BY <1>3, <2>4, <2>5 DEF InsertsIntoFile, Call, StaysNumbered, StaysMirror
<1> QED
  BY <1>1, <1>2, <1>3
-----------------------------------------------------------------------------
(* The invariant of one phonebook. *)

AllKinds == {"file", "stdin", "stdout", "ME"}
Intact   == {"read", "written"}

\* The lines that sync() has written so far.
WrittenLines(p, d, w) ==
  /\ d \in Seq(LineType) /\ Len(d) = w
  /\ \A j \in 1..w : d[j] = LineOf(p, p.items[j].e)
\* The file has the entries of the phonebook, in some order.
HasLines(p, d) ==
  /\ d \in Seq(LineType) /\ Len(d) = Len(p.items)
  /\ \E f : /\ Bijective(f, Len(p.items))
            /\ \A j \in 1..Len(p.items) : LineOf(p, p.items[j].e) = d[f[j]]
UniqueIndices(d) ==
  /\ d \in Seq(LineType)
  /\ \A j, k \in 1..Len(d) : d[j].index >= 0 /\ (j # k => d[j].index # d[k].index)
NoBlankLines == \A c \in Contents : \A k \in DOMAIN c : SlotOf(c[k]) # Blank

\* The parts of the invariant, for a phonebook p of kind k that is kept in d:
\* content c, backup bk, saving s, written w, excused x.
Typed(k, p, d, c, bk, s, w, x) ==
  /\ k \in AllKinds /\ Shape(p)
  /\ k = "ME" => d \in METype /\ InSlots(p.items)
  /\ k # "ME" => d \in Seq(LineType) \/ d = NoFile
  /\ c \in {"read", "written", "part", "renamed"}
  /\ bk \in {"none", "older", "read", "written", "part", "renamed"}
  /\ s \in {"no", "unlink", "rename", "open", "write", "lost"}
  /\ w \in Nat /\ x \in SUBSET Excuses
Backed(k, p, c, bk, s) ==
  k = "file" =>
    /\ p.open /\ ~p.madeBackup => c \in Intact /\ s \in {"no", "unlink", "rename"}
    /\ p.madeBackup => bk \in Intact /\ s \notin {"unlink", "rename"}
    /\ c \in Intact \/ bk \in Intact
Saving(k, p, d, c, s, w) ==
  /\ ~p.open => p = Closed /\ s = "no"
  /\ s # "no" => p.changed /\ k \in {"file", "stdout"}
  /\ s \in {"unlink", "rename"} => k = "file"
  /\ s \in {"no", "unlink", "rename", "open"} => w = 0
  /\ w <= Len(p.items)
  /\ s = "write" => c = "part" /\ WrittenLines(p, d, w)
Saved(k, p, d, s, x) ==
  k = "file" /\ p.open /\ s = "no" /\ ~Dirty(p) /\ "unsaved" \notin x => HasLines(p, d)
Ordered(indexed, k, p, d, c) ==
  indexed => /\ k # "ME" /\ p.open => WellNumbered(p)
             /\ k = "file" /\ c = "written" => UniqueIndices(d)
Mirrored1(k, p, d, x) ==
  NoBlankLines /\ k = "ME" /\ p.open /\ x = {} => Mirrors(p.items, d, 1..Slots)
Inv1(indexed, k, p, d, c, bk, s, w, x) ==
  /\ Typed(k, p, d, c, bk, s, w, x) /\ Backed(k, p, c, bk, s) /\ Saving(k, p, d, c, s, w)
  /\ Saved(k, p, d, s, x) /\ Ordered(indexed, k, p, d, c) /\ Mirrored1(k, p, d, x)

\* A phonebook that is not there.
LEMMA ClosedFacts ==
  /\ Shape(Closed) /\ Closed.open = FALSE /\ Closed.closing = FALSE
  /\ Closed.madeBackup = FALSE /\ Closed.items = <<>> /\ Len(Closed.items) = 0
<1>1. <<>> \in Seq(ItemType) /\ Len(<<>>) = 0
  BY EmptySeq
<1>2. /\ Closed \in BookType /\ Closed.open = FALSE /\ Closed.closing = FALSE
      /\ Closed.madeBackup = FALSE /\ Closed.items = <<>>
  BY <1>1 DEF Closed, BookType, Orders
<1> QED
  BY <1>1, <1>2 DEF Shape, InKeyOrder

\* The process ends: what the files and the mobile have stays.
LEMMA Dies1 ==
  ASSUME NEW indexed, NEW k, NEW p, NEW d, NEW c, NEW bk, NEW s, NEW w, NEW x,
         Inv1(indexed, k, p, d, c, bk, s, w, x)
  PROVE  Inv1(indexed, k, Closed, d, c, bk, "no", 0, x)
<1>1. Typed(k, Closed, d, c, bk, "no", 0, x)
  BY ClosedFacts DEF Inv1, Typed, InSlots
<1>2. Backed(k, Closed, c, bk, "no")
  BY ClosedFacts DEF Inv1, Backed
<1>3. Saving(k, Closed, d, c, "no", 0)
  BY ClosedFacts DEF Saving
<1>4. Saved(k, Closed, d, "no", x) /\ Ordered(indexed, k, Closed, d, c) /\ Mirrored1(k, Closed, d, x)
  BY ClosedFacts DEF Inv1, Saved, Ordered, Mirrored1
<1> QED
  BY <1>1, <1>2, <1>3, <1>4 DEF Inv1

\* One bijection after the other.
LEMMA Composed ==
  ASSUME NEW n, NEW f, Bijective(f, n), NEW g, Bijective(g, n)
  PROVE  Bijective([k \in 1..n |-> g[f[k]]], n)
<1> DEFINE h == [k \in 1..n |-> g[f[k]]]
<1>1. /\ \A k \in 1..n : f[k] \in 1..n /\ g[k] \in 1..n
      /\ \A j, k \in 1..n : (f[j] = f[k] => j = k) /\ (g[j] = g[k] => j = k)
      /\ \A m \in 1..n : (\E k \in 1..n : f[k] = m) /\ (\E k \in 1..n : g[k] = m)
  BY DEF Bijective
<1>2. \A k \in 1..n : h[k] = g[f[k]]
  OBVIOUS
<1>3. h \in [1..n -> 1..n]
  BY <1>1
<1> HIDE DEF h
<1>4. ASSUME NEW j \in 1..n, NEW k \in 1..n, h[j] = h[k] PROVE j = k
  <2>1. f[j] \in 1..n /\ f[k] \in 1..n /\ g[f[j]] = g[f[k]]
    BY <1>1, <1>2, <1>4
  <2>2. f[j] = f[k]
    BY <1>1, <2>1
  <2> QED
    BY <1>1, <2>2
<1>5. ASSUME NEW m \in 1..n PROVE \E k \in 1..n : h[k] = m
  <2>1. PICK i \in 1..n : g[i] = m
    BY <1>1
  <2>2. PICK k \in 1..n : f[k] = i
    BY <1>1
  <2> QED
    BY <1>2, <2>1, <2>2
<1>6. Bijective(h, n)
  BY <1>3, <1>4, <1>5 DEF Bijective
<1> QED
  BY <1>6 DEF h

\* Another order of the entries has the lines of the file, in another order.
LEMMA SortHasLines ==
  ASSUME NEW p, Shape(p), NEW d, HasLines(p, d), NEW q, NEW f, Reordered(p.items, q.items, f),
         SameMembers(p, q)
  PROVE  HasLines(q, d)
<1> DEFINE n == Len(p.items)
<1>1. PICK g : Bijective(g, n) /\ \A j \in 1..n : LineOf(p, p.items[j].e) = d[g[j]]
  BY DEF HasLines
<1>2. /\ Len(q.items) = n /\ Bijective(f, n)
      /\ \A k \in 1..n : f[k] \in 1..n /\ q.items[k].e = p.items[f[k]].e
  BY DEF Reordered, Bijective
<1> HIDE DEF n
<1> DEFINE h == [k \in 1..n |-> g[f[k]]]
<1>3. Bijective(h, n)
  BY <1>1, <1>2, Composed
<1>4. \A k \in 1..n : LineOf(q, q.items[k].e) = LineOf(p, p.items[f[k]].e)
  BY <1>2 DEF LineOf, SameMembers
<1>5. \A k \in 1..n : LineOf(q, q.items[k].e) = d[h[k]]
  BY <1>1, <1>2, <1>4
<1> HIDE DEF h
<1>6. d \in Seq(LineType) /\ Len(d) = n
  BY DEF HasLines, n
<1> QED
  BY <1>2, <1>3, <1>5, <1>6 DEF HasLines

\* Another order of the entries mirrors the mobile as before.
LEMMA ReorderedMirrors ==
  ASSUME NEW s, Len(s) \in Nat, NEW t, NEW f, Reordered(s, t, f), NEW ME, NEW D, Mirrors(s, ME, D)
  PROVE  Mirrors(t, ME, D)
<1>1. /\ Len(t) = Len(s) /\ \A k \in 1..Len(s) : f[k] \in 1..Len(s) /\ t[k].e = s[f[k]].e
      /\ \A m \in 1..Len(s) : \E k \in 1..Len(s) : f[k] = m
  BY DEF Reordered, Bijective
<1>2. Distinct(t)
  BY ReorderedIndices DEF Mirrors
<1>3. /\ \A k \in 1..Len(s) : /\ s[k].e.index \in D
                              /\ ME[s[k].e.index] = SlotOf(s[k].e)
                              /\ ME[s[k].e.index] # Blank
      /\ \A i \in D : ME[i] # Blank => \E k \in 1..Len(s) : s[k].e.index = i
  BY DEF Mirrors
<1>4. ASSUME NEW i \in D, ME[i] # Blank PROVE \E k \in 1..Len(t) : t[k].e.index = i
  <2>1. PICK m \in 1..Len(s) : s[m].e.index = i
    BY <1>3, <1>4
  <2>2. PICK k \in 1..Len(s) : f[k] = m
    BY <1>1
  <2>3. t[k].e = s[m].e
    BY <1>1, <2>2
  <2> QED
    BY <1>1, <2>1, <2>3
<1>5. ASSUME NEW k \in 1..Len(t)
      PROVE  /\ t[k].e.index \in D
             /\ ME[t[k].e.index] = SlotOf(t[k].e)
             /\ ME[t[k].e.index] # Blank
  <2>1. f[k] \in 1..Len(s) /\ t[k].e = s[f[k]].e
    BY <1>1
  <2> QED
    BY <1>3, <2>1
<1> QED
  BY <1>2, <1>4, <1>5 DEF Mirrors

\* setSortOrder() between two calls.
LEMMA Sort1 ==
  ASSUME NEW indexed, NEW k, NEW p, NEW d, NEW c, NEW bk, NEW x,
         Inv1(indexed, k, p, d, c, bk, "no", 0, x), NEW order \in Orders,
         p.open
  PROVE  Inv1(indexed, k, SetSortOrder(p, order), d, c, bk, "no", 0, x)
<1> DEFINE q == SetSortOrder(p, order)
<1>1. Shape(p)
  BY DEF Inv1, Typed
<1>2. /\ Shape(q) /\ q.order = order /\ SameMembers(p, q)
      /\ \E f : Reordered(p.items, q.items, f)
  BY <1>1, SortFacts DEF Shape
<1>3. WellNumbered(p) => WellNumbered(q)
  BY <1>1, SortNumbered
<1> HIDE DEF q
<1>4. PICK f : Reordered(p.items, q.items, f)
  BY <1>2
<1>5. Len(p.items) \in Nat
  BY <1>1, ShapeFacts
<1>6. /\ Len(q.items) = Len(p.items)
      /\ \A j \in 1..Len(p.items) : f[j] \in 1..Len(p.items) /\ q.items[j].e = p.items[f[j]].e
  BY <1>4 DEF Reordered, Bijective
<1>7. InSlots(p.items) => InSlots(q.items)
  BY <1>6 DEF InSlots
<1>8. ASSUME ~Dirty(q) PROVE ~Dirty(p)
  <2>1. \A j \in 1..Len(p.items) : \E i \in 1..Len(p.items) : q.items[i].e = p.items[j].e
    <3> DEFINE s == p.items
               t == q.items
    <3>1. Reordered(s, t, f) /\ Len(s) \in Nat
      BY <1>4, <1>5
    <3> HIDE DEF s, t
    <3>2. \A j \in 1..Len(s) : \E i \in 1..Len(s) : t[i].e = s[j].e
      BY <3>1, ReorderedIndices
    <3> QED
      BY <3>2 DEF s, t
  <2>2. /\ ItemsOf(p) = {p.items[i].e : i \in 1..Len(p.items)}
        /\ ItemsOf(q) = {q.items[i].e : i \in 1..Len(q.items)}
    BY <1>1, <1>2, ShapeFacts
  <2>3. \A e \in ItemsOf(p) : e \in ItemsOf(q)
    BY <1>6, <2>1, <2>2
  <2> QED
    BY <1>2, <1>8, <2>3 DEF Dirty, SameMembers
<1>9. Typed(k, q, d, c, bk, "no", 0, x)
  BY <1>2, <1>7 DEF Inv1, Typed
<1>10. Backed(k, q, c, bk, "no")
  BY <1>2 DEF Inv1, Backed, SameMembers
<1>11. Saving(k, q, d, c, "no", 0)
  BY <1>2, <1>5, <1>6 DEF Saving, SameMembers
<1>12. Saved(k, q, d, "no", x)
  BY <1>1, <1>2, <1>4, <1>8, SortHasLines DEF Inv1, Saved, SameMembers
<1>13. Ordered(indexed, k, q, d, c)
  BY <1>3 DEF Inv1, Ordered
<1>14. Mirrored1(k, q, d, x)
  <2> DEFINE s == p.items
             t == q.items
             D == 1..Slots
  <2>1. Reordered(s, t, f) /\ Len(s) \in Nat
    BY <1>4, <1>5
  <2> HIDE DEF s, t, D
  <2>2. Mirrors(s, d, D) => Mirrors(t, d, D)
    BY <2>1, ReorderedMirrors
  <2> QED
    BY <2>2 DEF Inv1, Mirrored1, s, t, D
<1> QED
  BY <1>9, <1>10, <1>11, <1>12, <1>13, <1>14 DEF Inv1, q
-----------------------------------------------------------------------------
(* Calls and constructors. *)

\* A call of a function of the phonebook.
LEMMA Effect1 ==
  ASSUME NEW indexed, NEW k, NEW p, NEW d, NEW c, NEW bk, NEW x,
         Inv1(indexed, k, p, d, c, bk, "no", 0, x), p.open,
         NEW r, Effect(k, p, d, r), indexed => StaysNumbered(k, p, r),
         NEW y \in SUBSET Excuses, x \subseteq y, Saved(k, r.pb, r.disk, "no", y),
         NoBlankLines /\ y = {} => StaysMirror(k, p, d, r)
  PROVE  Inv1(indexed, k, r.pb, r.disk, c, bk, "no", 0, y)
<1>1. /\ Typed(k, p, d, c, bk, "no", 0, x) /\ Backed(k, p, c, bk, "no")
      /\ Ordered(indexed, k, p, d, c) /\ Mirrored1(k, p, d, x)
  BY DEF Inv1
<1>2. /\ Shape(r.pb) /\ Kept(p, r.pb)
      /\ k # "ME" => r.disk = d
      /\ k = "ME" => r.disk \in METype /\ (InSlots(p.items) => InSlots(r.pb.items))
  BY DEF Effect
<1>3. Typed(k, r.pb, r.disk, c, bk, "no", 0, y)
  BY <1>1, <1>2 DEF Typed
<1>4. Backed(k, r.pb, c, bk, "no")
  BY <1>1, <1>2 DEF Backed, Kept
<1>5. Len(r.pb.items) \in Nat
  BY <1>2, ShapeFacts
<1>6. Saving(k, r.pb, r.disk, c, "no", 0)
  BY <1>2, <1>5 DEF Saving, Kept
<1>8. Ordered(indexed, k, r.pb, r.disk, c)
  BY <1>1, <1>2 DEF Ordered, StaysNumbered
<1>9. Mirrored1(k, r.pb, r.disk, y)
  <2>1. y = {} => x = {}
    OBVIOUS
  <2> QED
    BY <1>1, <1>2, <2>1 DEF Mirrored1, StaysMirror, Kept
<1> QED
  BY <1>3, <1>4, <1>6, <1>8, <1>9 DEF Inv1

\* What a constructor needs to find.
Storage(k, d) == (k = "ME" => d \in METype) /\ (k # "ME" => d \in Seq(LineType))

\* The phonebook r.pb that a constructor makes.
Made(indexed, k, d, r) ==
  /\ r.disk = d /\ Shape(r.pb) /\ r.pb.open = TRUE /\ r.pb.madeBackup = FALSE
  /\ r.pb.order = "ByIndex"
  /\ r.how \in {"ok", "throw"}
  /\ k = "ME" => Mirrors(r.pb.items, d, 1..Slots)
  /\ r.how = "ok" /\ indexed /\ k # "ME" => WellNumbered(r.pb)
  /\ r.how = "ok" /\ k = "file" /\ ~Dirty(r.pb) => HasLines(r.pb, d)
  /\ NoBlankLines /\ (k = "file" => d \in Contents) => NonBlank(r.pb.items)

\* A phonebook without entries and a file without lines.
LEMMA EmptyHasLines ==
  ASSUME NEW p, p.items = <<>>
  PROVE  HasLines(p, <<>>)
<1>1. Len(p.items) = 0 /\ 1..Len(p.items) = {} /\ Len(<<>>) = 0 /\ <<>> \in Seq(LineType)
  BY EmptySeq
<1> DEFINE f == [j \in {} |-> 0]
<1>2. Bijective([j \in 1..0 |-> j], 0)
  BY DEF Bijective
<1> QED
  BY <1>1, <1>2 DEF HasLines

\* The constructor that reads a file.
LEMMA MadeFromFile ==
  ASSUME NEW indexed \in BOOLEAN, NEW d \in Seq(LineType), NEW r \in ReadPhonebookFile(d, indexed)
  PROVE  Made(indexed, "file", d, r)
<1>1. Read(r, d, indexed, Len(d)) /\ (d = <<>> => r = Result(Fresh(indexed), <<>>, "ok"))
  BY ReadFacts
<1>2. /\ Shape(r.pb) /\ r.pb.open = TRUE /\ r.pb.madeBackup = FALSE
      /\ r.pb.order = "ByIndex"
      /\ r.disk = d /\ r.how \in {"ok", "throw"}
      /\ r.how = "ok" /\ indexed => WellNumbered(r.pb)
      /\ Len(d) # 0 /\ r.how = "ok" => r.pb.changed = TRUE
      /\ Len(d) = 0 => r.pb.items = <<>>
      /\ (\A k \in 1..Len(d) : SlotOf(d[k]) # Blank) => NonBlank(r.pb.items)
  BY <1>1 DEF Read
<1>3. ASSUME r.how = "ok", ~Dirty(r.pb) PROVE HasLines(r.pb, d)
  <2>1. Len(d) = 0
    BY <1>2, <1>3 DEF Dirty
  <2>2. d = <<>> /\ r.pb.items = <<>>
    BY <1>2, <2>1, EmptySeq
  <2> QED
    BY <2>2, EmptyHasLines
<1>4. ASSUME NoBlankLines, d \in Contents PROVE NonBlank(r.pb.items)
  BY <1>2, <1>4 DEF NoBlankLines
<1> QED
  BY <1>2, <1>3, <1>4 DEF Made

\* The constructor that reads no file or the standard input.
LEMMA MadeFresh ==
  ASSUME NEW indexed \in BOOLEAN, NEW k \in {"stdin", "stdout"}, NEW d, NEW how \in {"ok", "throw"},
         NEW r, r = Result(Fresh(indexed), d, how)
  PROVE  Made(indexed, k, d, r)
<1>1. r.pb = Fresh(indexed) /\ r.disk = d /\ r.how = how
  BY DEF Result
<1>2. /\ Shape(r.pb) /\ r.pb.open = TRUE /\ r.pb.madeBackup = FALSE /\ r.pb.items = <<>>
      /\ r.pb.order = "ByIndex"
      /\ indexed => WellNumbered(r.pb)
  BY <1>1, FreshFacts
<1>3. NonBlank(r.pb.items)
  BY <1>2 DEF NonBlank
<1> QED
  BY <1>1, <1>2, <1>3 DEF Made

\* The constructor that reads the mobile.
LEMMA MadeFromME ==
  ASSUME NEW indexed \in BOOLEAN, NEW d \in METype, NEW r \in OfME(d)
  PROVE  Made(indexed, "ME", d, r)
<1>1. /\ Shape(r.pb) /\ r.pb.open = TRUE /\ r.pb.closing = FALSE /\ r.pb.madeBackup = FALSE
      /\ r.disk = d /\ r.how = "ok" /\ r.pb.order = "ByIndex"
      /\ Mirrors(r.pb.items, d, 1..Slots)
  BY OfMEFacts
<1>2. NonBlank(r.pb.items)
  BY <1>1 DEF Mirrors, NonBlank
<1> QED
  BY <1>1, <1>2 DEF Made

\* Every constructor, for every kind of phonebook.
LEMMA ConstructedFacts ==
  ASSUME NEW indexed \in BOOLEAN, NEW k \in AllKinds, NEW d, Storage(k, d),
         NEW r \in Constructed(k, d, indexed)
  PROVE  Made(indexed, k, d, r)
<1>1. CASE k = "file"
  <2>1. r \in ReadPhonebookFile(d, indexed) /\ d \in Seq(LineType)
    BY <1>1 DEF Constructed, Storage
  <2> QED
    BY <1>1, <2>1, MadeFromFile
<1>2. CASE k = "stdin"
  <2>1. \E how \in {"ok", "throw"} : r = Result(Fresh(indexed), d, how)
    BY <1>2 DEF Constructed
  <2> QED
    BY <1>2, <2>1, MadeFresh
<1>3. CASE k = "stdout"
  <2>1. \E how \in {"ok", "throw"} : r = Result(Fresh(indexed), d, how)
    BY <1>3 DEF Constructed
  <2> QED
    BY <1>3, <2>1, MadeFresh
<1>4. CASE k = "ME"
  <2>1. r \in OfME(d) /\ d \in METype
    BY <1>4 DEF Constructed, Storage
  <2> QED
    BY <1>4, <2>1, MadeFromME
<1> QED
  BY <1>1, <1>2, <1>3, <1>4 DEF AllKinds

\* The invariant holds of the phonebook that a constructor made, or failed to make.
LEMMA Construct1 ==
  ASSUME NEW indexed, NEW k \in AllKinds, NEW d, Storage(k, d), NEW r, Made(indexed, k, d, r),
         NEW bk \in {"none", "older"},
         NEW p, p = IF r.how = "ok" THEN r.pb ELSE Closed
  PROVE  Inv1(indexed, k, p, d, "read", bk, "no", 0, {})
<1>1. /\ Shape(r.pb) /\ r.pb.open = TRUE /\ r.pb.madeBackup = FALSE
      /\ k = "ME" => Mirrors(r.pb.items, d, 1..Slots)
      /\ r.how = "ok" /\ indexed /\ k # "ME" => WellNumbered(r.pb)
      /\ r.how = "ok" /\ k = "file" /\ ~Dirty(r.pb) => HasLines(r.pb, d)
  BY DEF Made
<1>2. k = "ME" => InSlots(r.pb.items)
  BY <1>1, MirrorsInSlots
<1>3. Typed(k, p, d, "read", bk, "no", 0, {})
  BY <1>1, <1>2, ClosedFacts DEF Typed, Storage, InSlots
<1>4. Backed(k, p, "read", bk, "no")
  BY <1>1, ClosedFacts DEF Backed, Intact
<1>5. Len(r.pb.items) \in Nat
  BY <1>1, ShapeFacts
<1>6. Saving(k, p, d, "read", "no", 0)
  BY <1>1, <1>5, ClosedFacts DEF Saving
<1>7. Saved(k, p, d, "no", {}) /\ Ordered(indexed, k, p, d, "read") /\ Mirrored1(k, p, d, {})
  BY <1>1, ClosedFacts DEF Saved, Ordered, Mirrored1
<1> QED
  BY <1>3, <1>4, <1>6, <1>7 DEF Inv1
-----------------------------------------------------------------------------
(* sync(), step by step. *)

\* The members of p that sync() does not set.
Started(p, q) ==
  /\ Shape(q) /\ q.items = p.items /\ q.order = p.order /\ q.open = p.open
  /\ q.useIndices = p.useIndices /\ q.madeBackup = p.madeBackup /\ q.changed = TRUE

\* sync() sets the flag of the phonebook, which is set, before it writes.
LEMMA StartedFacts ==
  ASSUME NEW p, Shape(p), NEW closing \in BOOLEAN,
         NEW q, q = [p EXCEPT !.changed = TRUE, !.closing = closing]
  PROVE  Started(p, q)
  BY DEF Started, Shape, BookType

\* The numbering is a matter of the items and the order only.
LEMMA StartedNumbered ==
  ASSUME NEW p, NEW q, q.items = p.items, q.order = p.order, q.useIndices = p.useIndices
  PROVE  WellNumbered(p) => WellNumbered(q)
  BY DEF WellNumbered

\* sync() begins to write.
LEMMA Start1 ==
  ASSUME NEW indexed, NEW k, NEW p, NEW d, NEW c, NEW bk, NEW x,
         Inv1(indexed, k, p, d, c, bk, "no", 0, x), p.open, k \in {"file", "stdout"},
         NEW q, Started(p, q),
         NEW s, s = IF p.madeBackup \/ k = "stdout" THEN "open" ELSE "unlink"
  PROVE  Inv1(indexed, k, q, d, c, bk, s, 0, x)
<1>1. /\ Typed(k, p, d, c, bk, "no", 0, x) /\ Backed(k, p, c, bk, "no")
      /\ Ordered(indexed, k, p, d, c)
  BY DEF Inv1
<1>2. Typed(k, q, d, c, bk, s, 0, x)
  BY <1>1 DEF Typed, Started
<1>3. Backed(k, q, c, bk, s)
  BY <1>1 DEF Backed, Started
<1>4. Len(q.items) \in Nat
  BY ShapeFacts DEF Started
<1>5. Saving(k, q, d, c, s, 0)
  BY <1>4 DEF Saving, Started
<1>6. Saved(k, q, d, s, x) /\ Mirrored1(k, q, d, x)
  BY DEF Saved, Mirrored1
<1>7. Ordered(indexed, k, q, d, c)
  BY <1>1, StartedNumbered DEF Ordered, Started
<1> QED
  BY <1>2, <1>3, <1>5, <1>6, <1>7 DEF Inv1

\* An exception in the middle of sync() that the program survives.
LEMMA Throws1 ==
  ASSUME NEW indexed, NEW k, NEW p, NEW d, NEW c, NEW bk, NEW s, NEW w, NEW x,
         Inv1(indexed, k, p, d, c, bk, s, w, x), s # "no"
  PROVE  Inv1(indexed, k, p, d, c, bk, "no", 0, x)
<1>1. /\ Typed(k, p, d, c, bk, s, w, x) /\ Backed(k, p, c, bk, s) /\ Saving(k, p, d, c, s, w)
      /\ Ordered(indexed, k, p, d, c) /\ Mirrored1(k, p, d, x)
  BY DEF Inv1
<1>2. Typed(k, p, d, c, bk, "no", 0, x)
  BY <1>1 DEF Typed
<1>3. Backed(k, p, c, bk, "no")
  BY <1>1 DEF Backed
<1>4. p.changed
  BY <1>1 DEF Saving
<1>5. Len(p.items) \in Nat
  BY <1>1, ShapeFacts DEF Typed
<1>6. Saving(k, p, d, c, "no", 0)
  BY <1>1, <1>5 DEF Saving
<1>7. Saved(k, p, d, "no", x)
  BY <1>4 DEF Saved, Dirty
<1> QED
  BY <1>1, <1>2, <1>3, <1>6, <1>7 DEF Inv1

\* unlink() of the old backup.
LEMMA Unlink1 ==
  ASSUME NEW indexed, NEW k, NEW p, NEW d, NEW c, NEW bk, NEW w, NEW x,
         Inv1(indexed, k, p, d, c, bk, "unlink", w, x)
  PROVE  Inv1(indexed, k, p, d, c, "none", "rename", w, x)
<1>1. /\ Typed(k, p, d, c, bk, "unlink", w, x) /\ Backed(k, p, c, bk, "unlink")
      /\ Saving(k, p, d, c, "unlink", w)
      /\ Ordered(indexed, k, p, d, c) /\ Mirrored1(k, p, d, x)
  BY DEF Inv1
<1>2. Typed(k, p, d, c, "none", "rename", w, x)
  BY <1>1 DEF Typed
<1>3. p.open
  BY <1>1 DEF Saving
<1>4. Backed(k, p, c, "none", "rename")
  BY <1>1, <1>3 DEF Backed
<1>5. Saving(k, p, d, c, "rename", w)
  BY <1>1 DEF Saving
<1>6. Saved(k, p, d, "rename", x)
  BY DEF Saved
<1> QED
  BY <1>1, <1>2, <1>4, <1>5, <1>6 DEF Inv1

\* rename() of the file to the backup: now the backup has what the file had.
LEMMA Rename1 ==
  ASSUME NEW indexed, NEW k, NEW p, NEW d, NEW c, NEW bk, NEW w, NEW x,
         Inv1(indexed, k, p, d, c, bk, "rename", w, x),
         NEW q, q = [p EXCEPT !.madeBackup = TRUE]
  PROVE  Inv1(indexed, k, q, NoFile, "renamed", c, "open", w, x)
<1>1. /\ Typed(k, p, d, c, bk, "rename", w, x) /\ Backed(k, p, c, bk, "rename")
      /\ Saving(k, p, d, c, "rename", w)
      /\ Ordered(indexed, k, p, d, c)
  BY DEF Inv1
<1>2. /\ Shape(q) /\ q.items = p.items /\ q.order = p.order /\ q.open = p.open
      /\ q.useIndices = p.useIndices /\ q.madeBackup = TRUE /\ q.changed = p.changed
  BY <1>1 DEF Typed, Shape, BookType
<1>3. k = "file" /\ p.open /\ p.changed /\ w = 0
  BY <1>1 DEF Saving
<1>4. c \in Intact
  BY <1>1, <1>3 DEF Backed
<1>5. Typed(k, q, NoFile, "renamed", c, "open", w, x)
  BY <1>1, <1>2, <1>3, <1>4 DEF Typed, Intact
<1>6. Backed(k, q, "renamed", c, "open")
  BY <1>2, <1>4 DEF Backed
<1>7. Saving(k, q, NoFile, "renamed", "open", w)
  BY <1>1, <1>2, <1>3 DEF Saving
<1>8. Saved(k, q, NoFile, "open", x) /\ Mirrored1(k, q, NoFile, x)
  BY <1>3 DEF Saved, Mirrored1
<1>9. Ordered(indexed, k, q, NoFile, "renamed")
  BY <1>1, <1>2, StartedNumbered DEF Ordered
<1> QED
  BY <1>5, <1>6, <1>7, <1>8, <1>9 DEF Inv1

\* The file is opened for writing, or it cannot be.
LEMMA OpenFile1 ==
  ASSUME NEW indexed, NEW k, NEW p, NEW d, NEW c, NEW bk, NEW w, NEW x,
         Inv1(indexed, k, p, d, c, bk, "open", w, x)
  PROVE  /\ Inv1(indexed, k, p, <<>>, "part", bk, "write", w, x)
         /\ Inv1(indexed, k, p, d, c, bk, "lost", w, x)
<1>1. /\ Typed(k, p, d, c, bk, "open", w, x) /\ Backed(k, p, c, bk, "open")
      /\ Saving(k, p, d, c, "open", w)
      /\ Ordered(indexed, k, p, d, c) /\ Mirrored1(k, p, d, x)
  BY DEF Inv1
<1>2. k \in {"file", "stdout"} /\ p.open /\ p.changed /\ w = 0
  BY <1>1 DEF Saving
<1>3. k = "file" => p.madeBackup /\ bk \in Intact
  BY <1>1, <1>2 DEF Backed, Typed, Shape, BookType
<1>4. <<>> \in Seq(LineType) /\ Len(<<>>) = 0
  BY EmptySeq
<1>5. Typed(k, p, <<>>, "part", bk, "write", w, x) /\ Typed(k, p, d, c, bk, "lost", w, x)
  BY <1>1, <1>2, <1>4 DEF Typed
<1>6. Backed(k, p, "part", bk, "write") /\ Backed(k, p, c, bk, "lost")
  BY <1>1, <1>3 DEF Backed
<1>7. WrittenLines(p, <<>>, w)
  BY <1>2, <1>4 DEF WrittenLines
<1>8. Saving(k, p, <<>>, "part", "write", w) /\ Saving(k, p, d, c, "lost", w)
  BY <1>1, <1>2, <1>7 DEF Saving
<1>9. /\ Saved(k, p, <<>>, "write", x) /\ Saved(k, p, d, "lost", x)
      /\ Mirrored1(k, p, <<>>, x)
  BY <1>2 DEF Saved, Mirrored1
<1>10. Ordered(indexed, k, p, <<>>, "part")
  BY <1>1 DEF Ordered
<1> QED
  BY <1>1, <1>5, <1>6, <1>8, <1>9, <1>10 DEF Inv1

\* The line an entry is written as.
LEMMA LineOfType ==
  ASSUME NEW p, Shape(p), NEW e \in EntryType
  PROVE  LineOf(p, e) \in LineType
<1>1. NoIndex \in Int
  BY DEF NoIndex
<1> QED
  BY <1>1 DEF LineOf, LineType, EntryType

\* One more entry is written, or is lost because the stream is not open.
LEMMA WriteLine1 ==
  ASSUME NEW indexed, NEW k, NEW p, NEW d, NEW c, NEW bk, NEW s, NEW w, NEW x,
         Inv1(indexed, k, p, d, c, bk, s, w, x), s \in {"write", "lost"}, w < Len(p.items),
         NEW e, e = IF s = "lost" THEN d ELSE Append(d, LineOf(p, p.items[w + 1].e))
  PROVE  Inv1(indexed, k, p, e, c, bk, s, w + 1, x)
<1>1. /\ Typed(k, p, d, c, bk, s, w, x) /\ Backed(k, p, c, bk, s) /\ Saving(k, p, d, c, s, w)
      /\ Ordered(indexed, k, p, d, c)
  BY DEF Inv1
<1>2. k \in {"file", "stdout"} /\ w \in Nat /\ Shape(p)
  BY <1>1 DEF Saving, Typed
<1>3. Len(p.items) \in Nat /\ \A j \in 1..Len(p.items) : p.items[j].e \in EntryType
  BY <1>2, ShapeFacts
<1>4. ASSUME s = "write" PROVE WrittenLines(p, e, w + 1) /\ c = "part"
  <2>1. d \in Seq(LineType) /\ Len(d) = w /\ \A j \in 1..w : d[j] = LineOf(p, p.items[j].e)
    BY <1>1, <1>4 DEF Saving, WrittenLines
  <2> DEFINE l == LineOf(p, p.items[w + 1].e)
  <2>2. l \in LineType
    BY <1>2, <1>3, LineOfType
  <2>3. e = Append(d, l)
    BY <1>4
  <2> HIDE DEF l
  <2>4. /\ e \in Seq(LineType) /\ Len(e) = w + 1 /\ e[w + 1] = l
        /\ \A j \in 1..w : e[j] = d[j]
    BY <2>1, <2>2, <2>3, AppendProperties
  <2>5. \A j \in 1..(w + 1) : e[j] = LineOf(p, p.items[j].e)
    <3> TAKE j \in 1..(w + 1)
    <3>1. CASE j = w + 1
      BY <2>4, <3>1 DEF l
    <3>2. CASE j \in 1..w
      BY <2>1, <2>4, <3>2
    <3>3. w \in Nat
      BY <1>2
    <3>4. j = w + 1 \/ j \in 1..w
      BY <3>3
    <3> QED
      BY <3>1, <3>2, <3>4
  <2> QED
    BY <1>1, <1>4, <2>4, <2>5 DEF Saving, WrittenLines
<1>5. s = "lost" => e = d
  OBVIOUS
<1>6. Typed(k, p, e, c, bk, s, w + 1, x)
  BY <1>1, <1>2, <1>4, <1>5 DEF Typed, WrittenLines
<1>7. w + 1 \in Nat /\ w + 1 <= Len(p.items)
  BY <1>2, <1>3
<1>8. Saving(k, p, e, c, s, w + 1)
  BY <1>1, <1>4, <1>5, <1>7 DEF Saving
<1>9. Saved(k, p, e, s, x) /\ Mirrored1(k, p, e, x)
  BY <1>2 DEF Saved, Mirrored1
<1>10. Ordered(indexed, k, p, e, c)
  BY <1>1, <1>4, <1>5 DEF Ordered
<1> QED
  BY <1>1, <1>6, <1>8, <1>9, <1>10 DEF Inv1
-----------------------------------------------------------------------------
(* The end of sync(). *)

\* Clearing the flags of the phonebook and its entries changes no index, key or line.
LEMMA UnchangedFacts ==
  ASSUME NEW p, Shape(p), NEW q, q = Unchanged(p)
  PROVE  /\ Shape(q) /\ q.order = p.order /\ q.open = p.open
         /\ q.useIndices = p.useIndices /\ q.madeBackup = p.madeBackup
         /\ Len(q.items) = Len(p.items)
         /\ \A j \in 1..Len(p.items) : /\ q.items[j].key = p.items[j].key
                                       /\ q.items[j].e.index = p.items[j].e.index
                                       /\ LineOf(q, q.items[j].e) = LineOf(p, p.items[j].e)
<1> DEFINE s == p.items
           n == Len(s)
           b(it) == [it EXCEPT !.e.changed = FALSE]
           t == [k \in DOMAIN s |-> b(s[k])]
<1>1. s \in Seq(ItemType) /\ n \in Nat /\ DOMAIN s = 1..n /\ InKeyOrder(s)
  BY ShapeFacts DEF Shape
<1>2. \A k \in 1..n : s[k] \in ItemType
  BY <1>1, ElementOfSeq
<1>3. ASSUME NEW it \in ItemType
      PROVE  /\ b(it) \in ItemType /\ b(it).key = it.key
             /\ b(it).e.index = it.e.index /\ b(it).e.text = it.e.text /\ b(it).e.tel = it.e.tel
  BY DEF ItemType, EntryType
<1>4. ASSUME NEW k \in 1..n
      PROVE  /\ t[k] \in ItemType /\ t[k].key = s[k].key
             /\ t[k].e.index = s[k].e.index /\ t[k].e.text = s[k].e.text /\ t[k].e.tel = s[k].e.tel
  <2> HIDE DEF s
  <2>1. t[k] = b(s[k])
    BY <1>1
  <2> HIDE DEF t
  <2>2. /\ b(s[k]) \in ItemType /\ b(s[k]).key = s[k].key
        /\ b(s[k]).e.index = s[k].e.index /\ b(s[k]).e.text = s[k].e.text /\ b(s[k]).e.tel = s[k].e.tel
    BY <1>2, <1>3
  <2> HIDE DEF b
  <2> QED
    BY <2>1, <2>2
<1>5. t = [k \in 1..n |-> t[k]] /\ DOMAIN t = 1..n
  BY <1>1
<1>6. /\ q = [p EXCEPT !.changed = FALSE, !.items = t] /\ p \in BookType
  BY DEF Unchanged, Shape
<1> HIDE DEF t, n
<1>7. t \in Seq(ItemType) /\ Len(t) = n
  <2>1. [k \in 1..n |-> t[k]] \in Seq(ItemType)
    BY <1>1, <1>4
  <2>2. t \in Seq(ItemType)
    BY <1>5, <2>1, Zenon
  <2> QED
    BY <1>1, <1>5, <2>2
<1>8. /\ q \in BookType /\ q.items = t /\ q.order = p.order /\ q.open = p.open
      /\ q.useIndices = p.useIndices /\ q.madeBackup = p.madeBackup
  BY <1>6, <1>7 DEF BookType
<1>9. InKeyOrder(t)
  <2> HIDE DEF s
  <2> QED
    BY <1>1, <1>4, <1>7 DEF InKeyOrder, n
<1>10. ASSUME NEW k \in 1..n PROVE LineOf(q, t[k].e) = LineOf(p, s[k].e)
  BY <1>4, <1>8 DEF LineOf
<1> QED
  BY <1>4, <1>7, <1>8, <1>9, <1>10 DEF Shape, n

\* Clearing the flags keeps the numbering.
LEMMA UnchangedNumbered ==
  ASSUME NEW p, Shape(p), WellNumbered(p), NEW q, q = Unchanged(p)
  PROVE  WellNumbered(q)
<1>1. /\ q.order = p.order /\ q.useIndices = p.useIndices /\ Len(q.items) = Len(p.items)
      /\ \A j \in 1..Len(p.items) : /\ q.items[j].key = p.items[j].key
                                    /\ q.items[j].e.index = p.items[j].e.index
  BY UnchangedFacts
<1> QED
  BY <1>1 DEF WellNumbered, NonNegative, Distinct, ByIndexKeyed

\* All entries were written: the file has the lines of the phonebook.
LEMMA WrittenHasLines ==
  ASSUME NEW p, Shape(p), NEW d, NEW w, WrittenLines(p, d, w), w = Len(p.items),
         NEW q, q = Unchanged(p)
  PROVE  HasLines(q, d)
<1>1. /\ Len(q.items) = Len(p.items)
      /\ \A j \in 1..Len(p.items) : LineOf(q, q.items[j].e) = LineOf(p, p.items[j].e)
  BY UnchangedFacts
<1>2. d \in Seq(LineType) /\ Len(d) = w /\ \A j \in 1..w : d[j] = LineOf(p, p.items[j].e)
  BY DEF WrittenLines
<1> DEFINE f == [j \in 1..w |-> j]
<1>3. Bijective(f, w)
  BY DEF Bijective
<1>4. \A j \in 1..w : f[j] = j
  OBVIOUS
<1> HIDE DEF f
<1>5. \A j \in 1..w : LineOf(q, q.items[j].e) = d[f[j]]
  BY <1>1, <1>2, <1>4
<1> QED
  BY <1>1, <1>2, <1>3, <1>5 DEF HasLines

\* All entries of a numbered phonebook were written: the file has each index once.
LEMMA WrittenUnique ==
  ASSUME NEW p, WellNumbered(p), NEW d, NEW w, WrittenLines(p, d, w), w = Len(p.items)
  PROVE  UniqueIndices(d)
<1>1. d \in Seq(LineType) /\ Len(d) = w /\ \A j \in 1..w : d[j] = LineOf(p, p.items[j].e)
  BY DEF WrittenLines
<1>2. /\ p.useIndices
      /\ \A k \in 1..w : p.items[k].e.index >= 0
      /\ \A j, k \in 1..w : j # k => p.items[j].e.index # p.items[k].e.index
  BY DEF WellNumbered, NonNegative, Distinct
<1>3. ASSUME NEW j \in 1..w PROVE d[j].index = p.items[j].e.index
  <2>1. LineOf(p, p.items[j].e).index = p.items[j].e.index
    BY <1>2 DEF LineOf
  <2> QED
    BY <1>1, <2>1
<1> QED
  BY <1>1, <1>2, <1>3 DEF UniqueIndices

\* The stream is closed: the file is the phonebook now, unless it was never open.
LEMMA CloseFile1 ==
  ASSUME NEW indexed, NEW k, NEW p, NEW d, NEW c, NEW bk, NEW s, NEW w, NEW x,
         Inv1(indexed, k, p, d, c, bk, s, w, x), s \in {"write", "lost"}, w = Len(p.items),
         NEW q, q = IF p.closing THEN Closed ELSE Unchanged(p)
  PROVE  /\ s = "write" => Inv1(indexed, k, q, d, "written", bk, "no", 0, x \ {"unsaved"})
         /\ s = "lost"  => Inv1(indexed, k, q, d, c, bk, "no", 0, x \cup {"unsaved"})
<1>1. /\ Typed(k, p, d, c, bk, s, w, x) /\ Backed(k, p, c, bk, s) /\ Saving(k, p, d, c, s, w)
      /\ Ordered(indexed, k, p, d, c)
  BY DEF Inv1
<1>2. k \in {"file", "stdout"} /\ Shape(p) /\ p.open
  BY <1>1 DEF Saving, Typed
<1>3. /\ Shape(Unchanged(p)) /\ Unchanged(p).open = p.open
      /\ Unchanged(p).madeBackup = p.madeBackup
      /\ WellNumbered(p) => WellNumbered(Unchanged(p))
  BY <1>2, UnchangedFacts, UnchangedNumbered
<1>4. CASE q = Closed
  <2>1. /\ Shape(q) /\ q.open = FALSE /\ q.madeBackup = FALSE /\ q.items = <<>> /\ Len(q.items) = 0
    BY <1>4, ClosedFacts
  <2> QED
    <3>1. /\ Typed(k, q, d, "written", bk, "no", 0, x \ {"unsaved"})
          /\ Typed(k, q, d, c, bk, "no", 0, x \cup {"unsaved"})
      BY <1>1, <1>2, <2>1 DEF Typed, Excuses
    <3>2. Backed(k, q, "written", bk, "no") /\ Backed(k, q, c, bk, "no")
      BY <1>1, <2>1 DEF Backed, Intact
    <3>3. Saving(k, q, d, "written", "no", 0) /\ Saving(k, q, d, c, "no", 0)
      BY <1>4, <2>1 DEF Saving
    <3>4. /\ Saved(k, q, d, "no", x \ {"unsaved"}) /\ Saved(k, q, d, "no", x \cup {"unsaved"})
          /\ Mirrored1(k, q, d, x \ {"unsaved"}) /\ Mirrored1(k, q, d, x \cup {"unsaved"})
      BY <2>1 DEF Saved, Mirrored1
    <3>5. s = "write" => Ordered(indexed, k, q, d, "written")
      BY <1>1, <1>2, <2>1, WrittenUnique DEF Ordered, Saving
    <3>6. Ordered(indexed, k, q, d, c)
      BY <1>1, <2>1 DEF Ordered
    <3> QED
      BY <3>1, <3>2, <3>3, <3>4, <3>5, <3>6 DEF Inv1
<1>5. CASE q = Unchanged(p)
  <2>1. /\ Shape(q) /\ q.open = p.open /\ q.madeBackup = p.madeBackup
        /\ WellNumbered(p) => WellNumbered(q)
    BY <1>3, <1>5
  <2>2. s = "write" => HasLines(q, d)
    BY <1>1, <1>2, <1>5, WrittenHasLines DEF Saving
  <2>3. Len(q.items) \in Nat
    BY <2>1, ShapeFacts
  <2>4. /\ Typed(k, q, d, "written", bk, "no", 0, x \ {"unsaved"})
        /\ Typed(k, q, d, c, bk, "no", 0, x \cup {"unsaved"})
    BY <1>1, <1>2, <2>1 DEF Typed, Excuses
  <2>5. k = "file" => p.madeBackup /\ bk \in Intact
    BY <1>1, <1>2 DEF Backed, Shape, BookType
  <2>6. Backed(k, q, "written", bk, "no") /\ Backed(k, q, c, bk, "no")
    BY <2>1, <2>5 DEF Backed, Intact
  <2>7. Saving(k, q, d, "written", "no", 0) /\ Saving(k, q, d, c, "no", 0)
    <3>1. q.open
      BY <1>2, <2>1, Zenon
    <3>2. 0 <= Len(q.items)
      BY <2>3
    <3> QED
      BY <3>1, <3>2 DEF Saving
  <2>8. /\ s = "write" => Saved(k, q, d, "no", x \ {"unsaved"})
        /\ Saved(k, q, d, "no", x \cup {"unsaved"})
        /\ Mirrored1(k, q, d, x \ {"unsaved"}) /\ Mirrored1(k, q, d, x \cup {"unsaved"})
    BY <1>2, <2>2 DEF Saved, Mirrored1
  <2>9. s = "write" => Ordered(indexed, k, q, d, "written")
    BY <1>1, <1>2, <2>1, WrittenUnique DEF Ordered, Saving
  <2>10. Ordered(indexed, k, q, d, c)
    BY <1>1, <2>1, <1>2 DEF Ordered
  <2> QED
    BY <2>4, <2>6, <2>7, <2>8, <2>9, <2>10 DEF Inv1
<1> QED
  BY <1>4, <1>5
-----------------------------------------------------------------------------
(* From one phonebook to the state. *)

\* g is f with v at b.
IsFun(f) == f = [e \in Book |-> f[e]]
Upd(f, g, b, v) == IsFun(g) /\ \A e \in Book : g[e] = IF e = b THEN v ELSE f[e]

\* EXCEPT on a function of the phonebooks, point by point.
LEMMA UpdExcept ==
  ASSUME NEW f, IsFun(f), NEW b \in Book, NEW v
  PROVE  Upd(f, [f EXCEPT ![b] = v], b, v)
<1> DEFINE g == [f EXCEPT ![b] = v]
<1>1. DOMAIN f = Book
  BY Zenon DEF IsFun
<1>2. \A e \in Book : g[e] = IF e = b THEN v ELSE f[e]
  BY <1>1
<1>3. g = [e \in Book |-> g[e]]
  BY <1>1
<1> QED
  BY <1>2, <1>3 DEF Upd, IsFun

\* UNCHANGED on a function of the phonebooks, point by point.
LEMMA UpdSame ==
  ASSUME NEW f, IsFun(f), NEW b
  PROVE  Upd(f, f, b, f[b])
  BY DEF Upd

\* The invariant: what holds of every phonebook.
At(b) == Inv1(opt.indexed, kind[b], pb[b], disk[b], content[b], backup[b], saving[b], written[b],
              excused[b])
Functions8 == IsFun(kind) /\ IsFun(pb) /\ IsFun(disk) /\ IsFun(content) /\ IsFun(backup)
              /\ IsFun(saving) /\ IsFun(written) /\ IsFun(excused)
BooksInv == Functions8 /\ \A b \in Book : At(b)

\* A step of the phonebook b.
Moves(b, p, d, c, bk, s, w, x) ==
  /\ kind' = kind /\ opt' = opt
  /\ Upd(pb, pb', b, p) /\ Upd(disk, disk', b, d) /\ Upd(content, content', b, c)
  /\ Upd(backup, backup', b, bk) /\ Upd(saving, saving', b, s) /\ Upd(written, written', b, w)
  /\ Upd(excused, excused', b, x)

\* A step of one phonebook keeps the invariant when its new values do.
LEMMA MovesKeep ==
  ASSUME BooksInv, NEW b \in Book, NEW p, NEW d, NEW c, NEW bk, NEW s, NEW w, NEW x,
         Moves(b, p, d, c, bk, s, w, x), Inv1(opt.indexed, kind[b], p, d, c, bk, s, w, x)
  PROVE  BooksInv'
<1>1. Functions8'
  BY DEF BooksInv, Functions8, Moves, Upd
<1>2. ASSUME NEW e \in Book PROVE At(e)'
  <2>1. CASE e = b
    <3>1. /\ pb'[e] = p /\ disk'[e] = d /\ content'[e] = c /\ backup'[e] = bk /\ saving'[e] = s
          /\ written'[e] = w /\ excused'[e] = x /\ kind' = kind /\ opt' = opt
      BY <2>1, Zenon DEF Moves, Upd
    <3> QED
      BY <2>1, <3>1, Zenon DEF At
  <2>2. CASE e # b
    <3>1. /\ pb'[e] = pb[e] /\ disk'[e] = disk[e] /\ content'[e] = content[e]
          /\ backup'[e] = backup[e] /\ saving'[e] = saving[e]
          /\ written'[e] = written[e] /\ excused'[e] = excused[e] /\ kind' = kind /\ opt' = opt
      BY <2>2, Zenon DEF Moves, Upd
    <3> QED
      BY <3>1, Zenon DEF At, BooksInv
  <2> QED
    BY <2>1, <2>2
<1> QED
  BY <1>1, <1>2 DEF BooksInv

\* The program dies.
LEMMA DiesKeeps ==
  ASSUME Functions8, Dies, kind' = kind, opt' = opt,
         IsFun(disk'), IsFun(content'), IsFun(backup'), IsFun(excused'),
         \A b \in Book : \E p, s, w :
           Inv1(opt.indexed, kind[b], p, disk'[b], content'[b], backup'[b], s, w, excused'[b])
  PROVE  BooksInv'
<1>1. /\ pb' = [b \in Book |-> Closed]
      /\ saving' = [b \in Book |-> "no"]
      /\ written' = [b \in Book |-> 0]
  BY DEF Dies
<1>2. Functions8'
  BY <1>1 DEF Functions8, IsFun
<1>3. ASSUME NEW b \in Book PROVE At(b)'
  <2>1. PICK p, s, w :
          Inv1(opt.indexed, kind[b], p, disk'[b], content'[b], backup'[b], s, w, excused'[b])
    OBVIOUS
  <2>2. Inv1(opt.indexed, kind[b], Closed, disk'[b], content'[b], backup'[b], "no", 0, excused'[b])
    BY <2>1, Dies1
  <2>3. pb'[b] = Closed /\ saving'[b] = "no" /\ written'[b] = 0
    BY <1>1
  <2> QED
    BY <2>2, <2>3, Zenon DEF At
<1> QED
  BY <1>2, <1>3 DEF BooksInv

\* The process ends between two steps of the storage.
LEMMA DiesOnly ==
  ASSUME BooksInv, Dies, UNCHANGED <<kind, disk, content, backup, excused>>, opt' = opt
  PROVE  BooksInv'
<1>1. Functions8 /\ \A b \in Book : At(b)
  BY DEF BooksInv
<1>2. kind' = kind /\ disk' = disk /\ content' = content /\ backup' = backup /\ excused' = excused
  OBVIOUS
<1>3. /\ IsFun(disk') /\ IsFun(content') /\ IsFun(backup') /\ IsFun(excused')
  BY <1>1, <1>2 DEF Functions8
<1>4. ASSUME NEW b \in Book
      PROVE \E p, s, w :
           Inv1(opt.indexed, kind[b], p, disk'[b], content'[b], backup'[b], s, w, excused'[b])
  BY <1>1, <1>2, Zenon DEF At
<1> QED
  BY <1>1, <1>2, <1>3, <1>4, DiesKeeps

\* The phonebook b takes over what a call made.
LEMMA TakesKeeps ==
  ASSUME BooksInv, NEW b \in Book, saving[b] = "no", NEW r, Takes(b, r), opt' = opt,
         NEW y, Upd(excused, excused', b, y),
         Inv1(opt.indexed, kind[b], r.pb, r.disk, content[b], backup[b], "no", 0, y)
  PROVE  BooksInv'
<1>1. Functions8 /\ \A e \in Book : At(e)
  BY DEF BooksInv
<1>2. kind' = kind /\ content' = content /\ backup' = backup /\ disk' = [disk EXCEPT ![b] = r.disk]
  BY DEF Takes
<1>3. /\ Upd(disk, disk', b, r.disk) /\ Upd(content, content', b, content[b])
      /\ Upd(backup, backup', b, backup[b])
  BY <1>1, <1>2, UpdExcept, UpdSame DEF Functions8
<1>4. CASE r.how = "crash"
  <2>1. Dies
    BY <1>4 DEF Takes
  <2>2. ASSUME NEW e \in Book
        PROVE \E p, s, w :
           Inv1(opt.indexed, kind[e], p, disk'[e], content'[e], backup'[e], s, w, excused'[e])
    <3>1. CASE e = b
      <4>1. disk'[e] = r.disk /\ content'[e] = content[b] /\ backup'[e] = backup[b] /\ excused'[e] = y
        BY <1>3, <3>1, Zenon DEF Upd
      <4> QED
        BY <3>1, <4>1, Zenon
    <3>2. CASE e # b
      <4>1. /\ disk'[e] = disk[e] /\ content'[e] = content[e] /\ backup'[e] = backup[e]
            /\ excused'[e] = excused[e]
        BY <1>3, <3>2, Zenon DEF Upd
      <4> QED
        BY <1>1, <4>1, Zenon DEF At
    <3> QED
      BY <3>1, <3>2
  <2>3. IsFun(disk') /\ IsFun(content') /\ IsFun(backup') /\ IsFun(excused')
    BY <1>3, Zenon DEF Upd
  <2> QED
    BY <1>1, <1>2, <2>1, <2>2, <2>3, DiesKeeps
<1>5. CASE r.how # "crash"
  <2>1. pb' = [pb EXCEPT ![b] = r.pb] /\ saving' = saving /\ written' = written
    BY <1>5 DEF Takes
  <2>2. written[b] = 0
    BY <1>1 DEF At, Inv1, Saving
  <2>3. /\ Upd(pb, pb', b, r.pb) /\ Upd(saving, saving', b, saving[b])
        /\ Upd(written, written', b, written[b])
    BY <1>1, <2>1, UpdExcept, UpdSame DEF Functions8
  <2>4. Moves(b, r.pb, r.disk, content[b], backup[b], "no", 0, y)
    BY <1>2, <1>3, <2>2, <2>3 DEF Moves
  <2> QED
    BY <2>4, MovesKeep
<1> QED
  BY <1>4, <1>5

\* A phonebook is constructed.
LEMMA ConstructKeeps ==
  ASSUME BooksInv, NEW b \in Book, ~pb[b].open, Storage(kind[b], disk[b]),
         NEW r \in Constructed(kind[b], disk[b], opt.indexed), Construct(b, r),
         opt' = opt, opt.indexed \in BOOLEAN
  PROVE  /\ BooksInv'
         /\ Upd(pb, pb', b, IF r.how = "ok" THEN r.pb ELSE Closed)
         /\ kind[b] \in AllKinds
<1> DEFINE p == IF r.how = "ok" THEN r.pb ELSE Closed
           bk == IF backup[b] = "none" THEN "none" ELSE "older"
<1>1. Functions8 /\ At(b)
  BY DEF BooksInv
<1>2. kind[b] \in AllKinds /\ saving[b] = "no" /\ written[b] = 0
  BY <1>1 DEF At, Inv1, Typed, Saving
<1>3. Made(opt.indexed, kind[b], disk[b], r)
  BY <1>2, ConstructedFacts
<1>4. bk \in {"none", "older"}
  OBVIOUS
<1>5. /\ pb' = [pb EXCEPT ![b] = p] /\ content' = [content EXCEPT ![b] = "read"]
      /\ backup' = [backup EXCEPT ![b] = bk] /\ excused' = [excused EXCEPT ![b] = {}]
      /\ kind' = kind /\ disk' = disk /\ saving' = saving /\ written' = written
  BY DEF Construct
<1> HIDE DEF bk
<1>6. Inv1(opt.indexed, kind[b], p, disk[b], "read", bk, "no", 0, {})
  BY <1>2, <1>3, <1>4, Construct1
<1> HIDE DEF p
<1>7. /\ Upd(pb, pb', b, p) /\ Upd(disk, disk', b, disk[b]) /\ Upd(content, content', b, "read")
      /\ Upd(backup, backup', b, bk) /\ Upd(saving, saving', b, "no") /\ Upd(written, written', b, 0)
      /\ Upd(excused, excused', b, {})
  BY <1>1, <1>2, <1>5, UpdExcept, UpdSame DEF Functions8
<1>8. Moves(b, p, disk[b], "read", bk, "no", 0, {})
  BY <1>5, <1>7 DEF Moves
<1> QED
  BY <1>2, <1>6, <1>7, <1>8, MovesKeep DEF p
-----------------------------------------------------------------------------
(* The actions of sync(). *)

\* sync() is called, by the program or the destructor.
LEMMA SyncKeeps ==
  ASSUME BooksInv, NEW b \in Book, NEW closing \in BOOLEAN, Sync(b, closing), opt' = opt
  PROVE  BooksInv'
<1>1. Functions8 /\ At(b)
  BY DEF BooksInv
<1>2. /\ pb[b].open /\ saving[b] = "no"
      /\ kind' = kind /\ disk' = disk /\ backup' = backup /\ written' = written
      /\ content' = content /\ excused' = excused
  BY DEF Sync
<1>3. /\ Upd(disk, disk', b, disk[b]) /\ Upd(content, content', b, content[b])
      /\ Upd(backup, backup', b, backup[b]) /\ Upd(written, written', b, written[b])
      /\ Upd(excused, excused', b, excused[b])
  BY <1>1, <1>2, UpdSame DEF Functions8
<1>4. written[b] = 0 /\ Shape(pb[b]) /\ kind[b] \in AllKinds
  BY <1>1, <1>2 DEF At, Inv1, Saving, Typed
<1>5. Inv1(opt.indexed, kind[b], pb[b], disk[b], content[b], backup[b], "no", 0, excused[b])
  BY <1>1, <1>2, <1>4 DEF At
<1>6. CASE Writes(b, closing) /\ Dirty(pb[b])
  <2> DEFINE q == [pb[b] EXCEPT !.changed = TRUE, !.closing = closing]
             s == IF pb[b].madeBackup \/ kind[b] = "stdout" THEN "open" ELSE "unlink"
  <2>1. saving' = [saving EXCEPT ![b] = s]
    BY <1>6 DEF Sync, FirstStep
  <2>2. pb' = [pb EXCEPT ![b] = q]
    BY <1>6 DEF Sync
  <2>3. kind[b] \in {"file", "stdout"}
    BY <1>6 DEF Writes
  <2>4. Started(pb[b], q)
    BY <1>4, StartedFacts
  <2> HIDE DEF q
  <2>5. Inv1(opt.indexed, kind[b], q, disk[b], content[b], backup[b], s, 0, excused[b])
    BY <1>2, <1>5, <2>3, <2>4, Start1
  <2> HIDE DEF s
  <2>6. Upd(pb, pb', b, q) /\ Upd(saving, saving', b, s)
    BY <1>1, <2>1, <2>2, UpdExcept DEF Functions8
  <2>7. Moves(b, q, disk[b], content[b], backup[b], s, 0, excused[b])
    BY <1>2, <1>3, <1>4, <2>6 DEF Moves
  <2> QED
    BY <2>5, <2>7, MovesKeep
<1>7. CASE ~(Writes(b, closing) /\ Dirty(pb[b])) /\ closing
  <2>1. pb' = [pb EXCEPT ![b] = Closed] /\ saving' = saving
    BY <1>7 DEF Sync
  <2>2. Inv1(opt.indexed, kind[b], Closed, disk[b], content[b], backup[b], "no", 0, excused[b])
    BY <1>5, Dies1
  <2>3. Upd(pb, pb', b, Closed) /\ Upd(saving, saving', b, saving[b])
    BY <1>1, <2>1, UpdExcept, UpdSame DEF Functions8
  <2>4. Moves(b, Closed, disk[b], content[b], backup[b], "no", 0, excused[b])
    BY <1>2, <1>3, <1>4, <2>3 DEF Moves
  <2> QED
    BY <2>2, <2>4, MovesKeep
<1>8. CASE ~(Writes(b, closing) /\ Dirty(pb[b])) /\ ~closing
  <2>1. pb' = pb /\ saving' = saving
    BY <1>8 DEF Sync
  <2>2. Upd(pb, pb', b, pb[b]) /\ Upd(saving, saving', b, saving[b])
    BY <1>1, <2>1, UpdSame DEF Functions8
  <2>3. Moves(b, pb[b], disk[b], content[b], backup[b], "no", 0, excused[b])
    BY <1>2, <1>3, <1>4, <2>2 DEF Moves
  <2> QED
    BY <1>5, <2>3, MovesKeep
<1> QED
  BY <1>6, <1>7, <1>8

\* A system call of sync() fails.
LEMMA ThrowsKeeps ==
  ASSUME BooksInv, NEW b \in Book, SyncThrows(b), saving[b] # "no",
         UNCHANGED <<kind, disk, content, backup, excused>>, opt' = opt
  PROVE  BooksInv'
<1>1. CASE pb[b].closing
  BY <1>1, DiesOnly DEF SyncThrows
<1>2. CASE ~pb[b].closing
  <2>1. /\ saving' = [saving EXCEPT ![b] = "no"] /\ written' = [written EXCEPT ![b] = 0]
        /\ pb' = pb
    BY <1>2 DEF SyncThrows
  <2>2. /\ kind' = kind /\ disk' = disk /\ backup' = backup /\ content' = content
        /\ excused' = excused
    OBVIOUS
  <2>3. Functions8 /\ At(b)
    BY DEF BooksInv
  <2>4. Inv1(opt.indexed, kind[b], pb[b], disk[b], content[b], backup[b], "no", 0, excused[b])
    BY <2>3, Throws1 DEF At
  <2>5. /\ Upd(disk, disk', b, disk[b]) /\ Upd(content, content', b, content[b])
        /\ Upd(backup, backup', b, backup[b]) /\ Upd(excused, excused', b, excused[b])
        /\ Upd(pb, pb', b, pb[b]) /\ Upd(saving, saving', b, "no") /\ Upd(written, written', b, 0)
    BY <2>1, <2>2, <2>3, UpdExcept, UpdSame DEF Functions8
  <2>6. Moves(b, pb[b], disk[b], content[b], backup[b], "no", 0, excused[b])
    BY <2>2, <2>5 DEF Moves
  <2> QED
    BY <2>4, <2>6, MovesKeep
<1> QED
  BY <1>1, <1>2

\* sync(): the old backup is removed.
LEMMA UnlinkKeeps ==
  ASSUME BooksInv, NEW b \in Book, Unlink(b), opt' = opt
  PROVE  BooksInv'
<1>1. /\ saving[b] = "unlink" /\ saving' = [saving EXCEPT ![b] = "rename"]
      /\ backup' = [backup EXCEPT ![b] = "none"]
      /\ kind' = kind /\ pb' = pb /\ disk' = disk /\ content' = content /\ written' = written
      /\ excused' = excused
  BY DEF Unlink
<1>2. Functions8 /\ At(b)
  BY DEF BooksInv
<1>3. Inv1(opt.indexed, kind[b], pb[b], disk[b], content[b], "none", "rename", written[b], excused[b])
  BY <1>1, <1>2, Unlink1 DEF At
<1>4. /\ Upd(disk, disk', b, disk[b]) /\ Upd(content, content', b, content[b])
      /\ Upd(backup, backup', b, "none") /\ Upd(excused, excused', b, excused[b])
      /\ Upd(pb, pb', b, pb[b]) /\ Upd(saving, saving', b, "rename")
      /\ Upd(written, written', b, written[b])
  BY <1>1, <1>2, UpdExcept, UpdSame DEF Functions8
<1>5. Moves(b, pb[b], disk[b], content[b], "none", "rename", written[b], excused[b])
  BY <1>1, <1>4 DEF Moves
<1> QED
  BY <1>3, <1>5, MovesKeep

\* sync(): the file becomes the backup.
LEMMA RenameKeeps ==
  ASSUME BooksInv, NEW b \in Book, Rename(b), opt' = opt
  PROVE  BooksInv'
<1> DEFINE q == [pb[b] EXCEPT !.madeBackup = TRUE]
<1>1. /\ saving[b] = "rename" /\ saving' = [saving EXCEPT ![b] = "open"]
      /\ backup' = [backup EXCEPT ![b] = content[b]]
      /\ content' = [content EXCEPT ![b] = "renamed"]
      /\ disk' = [disk EXCEPT ![b] = NoFile]
      /\ pb' = [pb EXCEPT ![b] = q]
      /\ kind' = kind /\ written' = written /\ excused' = excused
  BY DEF Rename
<1>2. Functions8 /\ At(b)
  BY DEF BooksInv
<1>3. Inv1(opt.indexed, kind[b], q, NoFile, "renamed", content[b], "open", written[b], excused[b])
  BY <1>1, <1>2, Rename1 DEF At
<1> HIDE DEF q
<1>4. /\ Upd(disk, disk', b, NoFile) /\ Upd(content, content', b, "renamed")
      /\ Upd(backup, backup', b, content[b]) /\ Upd(excused, excused', b, excused[b])
      /\ Upd(pb, pb', b, q) /\ Upd(saving, saving', b, "open")
      /\ Upd(written, written', b, written[b])
  BY <1>1, <1>2, UpdExcept, UpdSame DEF Functions8
<1>5. Moves(b, q, NoFile, "renamed", content[b], "open", written[b], excused[b])
  BY <1>1, <1>4 DEF Moves
<1> QED
  BY <1>3, <1>5, MovesKeep

\* sync(): the file is opened.
LEMMA OpenFileKeeps ==
  ASSUME BooksInv, NEW b \in Book, OpenFile(b), opt' = opt
  PROVE  BooksInv'
<1>1. /\ saving[b] = "open"
      /\ kind' = kind /\ pb' = pb /\ backup' = backup /\ written' = written /\ excused' = excused
  BY DEF OpenFile
<1>2. Functions8 /\ At(b)
  BY DEF BooksInv
<1>3. /\ Inv1(opt.indexed, kind[b], pb[b], <<>>, "part", backup[b], "write", written[b], excused[b])
      /\ Inv1(opt.indexed, kind[b], pb[b], disk[b], content[b], backup[b], "lost", written[b],
              excused[b])
  BY <1>1, <1>2, OpenFile1 DEF At
<1>4. /\ Upd(backup, backup', b, backup[b]) /\ Upd(excused, excused', b, excused[b])
      /\ Upd(pb, pb', b, pb[b]) /\ Upd(written, written', b, written[b])
  BY <1>1, <1>2, UpdSame DEF Functions8
<1>5. CASE /\ saving' = [saving EXCEPT ![b] = "write"]
           /\ disk' = [disk EXCEPT ![b] = <<>>]
           /\ content' = [content EXCEPT ![b] = "part"]
  <2>1. /\ Upd(disk, disk', b, <<>>) /\ Upd(content, content', b, "part")
        /\ Upd(saving, saving', b, "write")
    BY <1>2, <1>5, UpdExcept DEF Functions8
  <2>2. Moves(b, pb[b], <<>>, "part", backup[b], "write", written[b], excused[b])
    BY <1>1, <1>4, <2>1 DEF Moves
  <2> QED
    BY <1>3, <2>2, MovesKeep
<1>6. CASE saving' = [saving EXCEPT ![b] = "lost"] /\ disk' = disk /\ content' = content
  <2>1. /\ Upd(disk, disk', b, disk[b]) /\ Upd(content, content', b, content[b])
        /\ Upd(saving, saving', b, "lost")
    BY <1>2, <1>6, UpdExcept, UpdSame DEF Functions8
  <2>2. Moves(b, pb[b], disk[b], content[b], backup[b], "lost", written[b], excused[b])
    BY <1>1, <1>4, <2>1 DEF Moves
  <2> QED
    BY <1>3, <2>2, MovesKeep
<1> QED
  BY <1>5, <1>6 DEF OpenFile

\* sync(): an entry is written.
LEMMA WriteLineKeeps ==
  ASSUME BooksInv, NEW b \in Book, WriteLine(b), opt' = opt
  PROVE  BooksInv'
<1> DEFINE n == written[b]
           p == pb[b]
           e == IF saving[b] = "lost" THEN disk[b] ELSE Append(disk[b], LineOf(p, p.items[n + 1].e))
<1>1. /\ saving[b] \in {"write", "lost"} /\ n < Len(p.items)
      /\ kind' = kind /\ content' = content /\ backup' = backup /\ excused' = excused
  BY DEF WriteLine
<1>2. Functions8 /\ At(b)
  BY DEF BooksInv
<1>3. /\ Upd(backup, backup', b, backup[b]) /\ Upd(excused, excused', b, excused[b])
      /\ Upd(content, content', b, content[b])
  BY <1>1, <1>2, UpdSame DEF Functions8
<1>4. CASE /\ written' = [written EXCEPT ![b] = @ + 1]
           /\ disk' = IF saving[b] = "lost" THEN disk
                      ELSE [disk EXCEPT ![b] = Append(@, Lines(p)[n + 1])]
           /\ pb' = pb /\ saving' = saving
  <2>1. Shape(p) /\ n \in Nat
    BY <1>2 DEF At, Inv1, Typed
  <2>2. DOMAIN p.items = 1..Len(p.items) /\ Len(p.items) \in Nat
    BY <2>1, ShapeFacts
  <2>3. n + 1 \in DOMAIN p.items
    BY <1>1, <2>1, <2>2
  <2>4. Lines(p)[n + 1] = LineOf(p, p.items[n + 1].e)
    BY <2>3 DEF Lines
  <2>5. saving[b] # "lost" => disk' = [disk EXCEPT ![b] = e]
    BY <1>4, <2>4
  <2>6. saving[b] = "lost" => disk' = disk /\ e = disk[b]
    BY <1>4
  <2>7. Inv1(opt.indexed, kind[b], p, e, content[b], backup[b], saving[b], n + 1, excused[b])
    BY <1>1, <1>2, WriteLine1 DEF At
  <2> HIDE DEF e
  <2>8. Upd(disk, disk', b, e)
    BY <1>2, <2>5, <2>6, UpdExcept, UpdSame DEF Functions8
  <2>9. Upd(written, written', b, n + 1)
    BY <1>2, <1>4, UpdExcept DEF Functions8
  <2>10. Upd(pb, pb', b, p) /\ Upd(saving, saving', b, saving[b])
    BY <1>2, <1>4, UpdSame DEF Functions8
  <2>11. Moves(b, p, e, content[b], backup[b], saving[b], n + 1, excused[b])
    BY <1>1, <1>3, <2>8, <2>9, <2>10 DEF Moves
  <2> QED
    BY <2>7, <2>11, MovesKeep
<1>5. CASE saving[b] = "write" /\ SyncThrows(b) /\ disk' = disk
  BY <1>1, <1>5, ThrowsKeeps
<1> QED
  BY <1>4, <1>5 DEF WriteLine

\* sync(): the file is closed.
LEMMA CloseFileKeeps ==
  ASSUME BooksInv, NEW b \in Book, CloseFile(b), opt' = opt
  PROVE  BooksInv'
<1> DEFINE q == IF pb[b].closing THEN Closed ELSE Unchanged(pb[b])
<1>1. /\ saving[b] \in {"write", "lost"} /\ written[b] = Len(pb[b].items)
      /\ pb' = [pb EXCEPT ![b] = q]
      /\ saving' = [saving EXCEPT ![b] = "no"] /\ written' = [written EXCEPT ![b] = 0]
      /\ content' = IF saving[b] = "write" THEN [content EXCEPT ![b] = "written"] ELSE content
      /\ excused' = IF saving[b] = "lost" THEN [excused EXCEPT ![b] = excused[b] \cup {"unsaved"}]
                    ELSE [excused EXCEPT ![b] = excused[b] \ {"unsaved"}]
      /\ kind' = kind /\ disk' = disk /\ backup' = backup
  BY DEF CloseFile
<1>2. Functions8 /\ At(b)
  BY DEF BooksInv
<1>3. /\ saving[b] = "write" =>
           Inv1(opt.indexed, kind[b], q, disk[b], "written", backup[b], "no", 0, excused[b] \ {"unsaved"})
      /\ saving[b] = "lost" =>
           Inv1(opt.indexed, kind[b], q, disk[b], content[b], backup[b], "no", 0,
                excused[b] \cup {"unsaved"})
  BY <1>1, <1>2, CloseFile1 DEF At
<1> HIDE DEF q
<1>4. /\ Upd(pb, pb', b, q) /\ Upd(disk, disk', b, disk[b]) /\ Upd(backup, backup', b, backup[b])
      /\ Upd(saving, saving', b, "no") /\ Upd(written, written', b, 0)
  BY <1>1, <1>2, UpdExcept, UpdSame DEF Functions8
<1>5. CASE saving[b] = "write"
  <2>1. Upd(content, content', b, "written") /\ Upd(excused, excused', b, excused[b] \ {"unsaved"})
    BY <1>1, <1>2, <1>5, UpdExcept DEF Functions8
  <2>2. Moves(b, q, disk[b], "written", backup[b], "no", 0, excused[b] \ {"unsaved"})
    BY <1>1, <1>4, <2>1 DEF Moves
  <2> QED
    BY <1>3, <1>5, <2>2, MovesKeep
<1>6. CASE saving[b] = "lost"
  <2>1. Upd(content, content', b, content[b]) /\ Upd(excused, excused', b, excused[b] \cup {"unsaved"})
    BY <1>1, <1>2, <1>6, UpdExcept, UpdSame DEF Functions8
  <2>2. Moves(b, q, disk[b], content[b], backup[b], "no", 0, excused[b] \cup {"unsaved"})
    BY <1>1, <1>4, <2>1 DEF Moves
  <2> QED
    BY <1>3, <1>6, <2>2, MovesKeep
<1> QED
  BY <1>1, <1>5, <1>6

\* Any step of sync().
LEMMA SyncStepKeeps ==
  ASSUME BooksInv, NEW b \in Book, SyncStep(b), opt' = opt
  PROVE  BooksInv'
<1>1. CASE RenameFails(b)
  <2>1. /\ SyncThrows(b) /\ saving[b] # "no"
        /\ UNCHANGED <<kind, disk, content, backup, excused>>
    BY <1>1 DEF RenameFails
  <2> QED
    BY <2>1, ThrowsKeeps
<1> QED
  BY <1>1, UnlinkKeeps, RenameKeeps, OpenFileKeeps, WriteLineKeeps, CloseFileKeeps DEF SyncStep
-----------------------------------------------------------------------------
(* The actions of a program of the library. *)

\* The phonebook b calls a function of its own that the program survives or not.
LEMMA EffectKeeps ==
  ASSUME BooksInv, NEW b \in Book, Idle(b), NEW r, Takes(b, r), opt' = opt,
         Effect(kind[b], pb[b], disk[b], r), StaysNumbered(kind[b], pb[b], r) \/ ~opt.indexed,
         NEW y \in SUBSET Excuses, excused[b] \subseteq y, Upd(excused, excused', b, y),
         Saved(kind[b], r.pb, r.disk, "no", y),
         NoBlankLines /\ y = {} => StaysMirror(kind[b], pb[b], disk[b], r)
  PROVE  BooksInv'
<1>1. At(b) /\ pb[b].open /\ saving[b] = "no"
  BY DEF BooksInv, Idle
<1>2. written[b] = 0
  BY <1>1 DEF At, Inv1, Saving
<1>3. Inv1(opt.indexed, kind[b], pb[b], disk[b], content[b], backup[b], "no", 0, excused[b])
  BY <1>1, <1>2 DEF At
<1>4. Inv1(opt.indexed, kind[b], r.pb, r.disk, content[b], backup[b], "no", 0, y)
  BY <1>1, <1>3, Effect1
<1> QED
  BY <1>1, <1>4, TakesKeeps

\* A call that changes the entries.
LEMMA CallKeeps ==
  ASSUME BooksInv, NEW b \in Book, Idle(b), NEW r, Takes(b, r), opt' = opt,
         Call(kind[b], pb[b], disk[b], r), StaysNumbered(kind[b], pb[b], r) \/ ~opt.indexed,
         NEW y \in SUBSET Excuses, excused[b] \subseteq y, Upd(excused, excused', b, y),
         NoBlankLines /\ y = {} => StaysMirror(kind[b], pb[b], disk[b], r)
  PROVE  BooksInv'
<1>1. Effect(kind[b], pb[b], disk[b], r)
  BY DEF Call, Effect
<1>2. Saved(kind[b], r.pb, r.disk, "no", y)
  BY DEF Call, Saved
<1> QED
  BY <1>1, <1>2, EffectKeeps

\* What the invariant says of an idle phonebook, for the lemmas about calls.
LEMMA IdleFacts ==
  ASSUME BooksInv, NEW b \in Book, Idle(b)
  PROVE  /\ Functions8 /\ kind[b] \in AllKinds /\ Shape(pb[b])
         /\ kind[b] = "ME" => disk[b] \in METype
         /\ excused[b] \in SUBSET Excuses
         /\ DOMAIN pb[b].items = 1..Len(pb[b].items) /\ Len(pb[b].items) \in Nat
         /\ opt.indexed /\ kind[b] # "ME" => WellNumbered(pb[b])
         /\ Upd(excused, excused, b, excused[b])
<1>1. Functions8 /\ At(b) /\ pb[b].open
  BY DEF BooksInv, Idle
<1>2. Shape(pb[b])
  BY <1>1 DEF At, Inv1, Typed
<1> QED
  BY <1>1, <1>2, ShapeFacts, UpdSame DEF At, Inv1, Typed, Ordered, Functions8

\* The entries that a program of the library gives to the phonebook.
LEMMA GivenFacts ==
  ASSUME NEW x \in Given
  PROVE  /\ EntryLike(x) /\ SlotOf(x) # Blank /\ (x.index = NoIndex \/ x.index >= 0)
         /\ LET u == [x EXCEPT !.index = NoIndex]
            IN  EntryLike(u) /\ SlotOf(u) # Blank /\ u.index = NoIndex
<1>1. /\ Given \subseteq {l \in Line : l.index \in Index \cup {NoIndex} /\ (l.text # 0 \/ l.tel # 0)}
      /\ Index \subseteq Nat
  BY SortedPhonebookAssumption, Zenon
<1>2. x \in Line /\ x.index \in Index \cup {NoIndex} /\ (x.text # 0 \/ x.tel # 0)
  BY <1>1
<1>3. /\ x.index \in Int /\ x.text \in Text \cup {0} /\ x.tel \in Tel \cup {0} /\ NoIndex \in Int
      /\ (x.index = NoIndex \/ x.index >= 0)
  <2>1. x.text \in Text \cup {0} /\ x.tel \in Tel \cup {0}
    BY <1>2 DEF Line
  <2>2. NoIndex \in Int
    BY DEF NoIndex
  <2>3. x.index = NoIndex \/ x.index \in Nat
    BY <1>1, <1>2
  <2> QED
    BY <2>1, <2>2, <2>3
<1> DEFINE u == [x EXCEPT !.index = NoIndex]
<1>4. u.index = NoIndex /\ u.text = x.text /\ u.tel = x.tel
  BY <1>2 DEF Line
<1>5. SlotOf(x) # Blank /\ SlotOf(u) # Blank
  BY <1>2, <1>4 DEF SlotOf, Blank
<1> QED
  BY <1>3, <1>4, <1>5 DEF EntryLike

\* insert() by a program of the library.
LEMMA AddKeeps ==
  ASSUME BooksInv, NEW b \in Book, Add(b), opt' = opt
  PROVE  BooksInv'
<1>1. Idle(b) /\ excused' = excused
  BY DEF Add
<1>2. PICK x \in Given, useIndex \in BOOLEAN :
        \E r \in Insert(kind[b], pb[b], disk[b], x, useIndex) : Takes(b, r)
  BY DEF Add
<1>3. PICK r \in Insert(kind[b], pb[b], disk[b], x, useIndex) : Takes(b, r)
  BY <1>2
<1>4. EntryLike(x) /\ SlotOf(x) # Blank /\ (x.index = NoIndex \/ x.index >= 0)
  BY GivenFacts
<1>5. /\ kind[b] \in AllKinds /\ Shape(pb[b]) /\ (kind[b] = "ME" => disk[b] \in METype)
      /\ excused[b] \in SUBSET Excuses /\ Upd(excused, excused, b, excused[b])
  BY <1>1, IdleFacts
<1>6. /\ Call(kind[b], pb[b], disk[b], r) /\ StaysNumbered(kind[b], pb[b], r)
      /\ StaysMirror(kind[b], pb[b], disk[b], r)
  BY <1>4, <1>5, InsertFacts DEF AllKinds
<1> QED
  BY <1>1, <1>3, <1>5, <1>6, CallKeeps

\* operator= by a program of the library.
LEMMA ChangeKeeps ==
  ASSUME BooksInv, NEW b \in Book, Change(b), opt' = opt
  PROVE  BooksInv'
<1>1. Idle(b) /\ excused' = excused
  BY DEF Change
<1>2. PICK n \in DOMAIN pb[b].items, x \in Given :
        \E r \in Set(kind[b], pb[b], disk[b], n, [x EXCEPT !.index = NoIndex]) : Takes(b, r)
  BY DEF Change
<1> DEFINE u == [x EXCEPT !.index = NoIndex]
<1>3. PICK r \in Set(kind[b], pb[b], disk[b], n, u) : Takes(b, r)
  BY <1>2
<1>4. EntryLike(u) /\ SlotOf(u) # Blank /\ u.index = NoIndex
  BY GivenFacts
<1> HIDE DEF u
<1>5. /\ kind[b] \in AllKinds /\ Shape(pb[b]) /\ (kind[b] = "ME" => disk[b] \in METype)
      /\ excused[b] \in SUBSET Excuses /\ Upd(excused, excused, b, excused[b])
      /\ DOMAIN pb[b].items = 1..Len(pb[b].items)
  BY <1>1, IdleFacts
<1>6. /\ Call(kind[b], pb[b], disk[b], r) /\ StaysNumbered(kind[b], pb[b], r)
      /\ StaysMirror(kind[b], pb[b], disk[b], r)
  BY <1>4, <1>5, SetFacts
<1> QED
  BY <1>1, <1>3, <1>5, <1>6, CallKeeps

\* erase() of a range by a program of the library.
LEMMA EraseRangeKeeps ==
  ASSUME BooksInv, NEW b \in Book, EraseRange(b), opt' = opt
  PROVE  BooksInv'
<1>1. Idle(b)
  BY DEF EraseRange
<1>2. PICK m \in DOMAIN pb[b].items, n \in DOMAIN pb[b].items :
        \E r \in Erase(kind[b], pb[b], disk[b], m..n, m..n) :
          /\ m <= n
          /\ Takes(b, r)
          /\ excused' = IF r.how = "throw" /\ m # n
                        THEN [excused EXCEPT ![b] = @ \cup {"torn"}] ELSE excused
  BY DEF EraseRange
<1> DEFINE S == m..n
<1>3. PICK r \in Erase(kind[b], pb[b], disk[b], S, S) :
          /\ m <= n
          /\ Takes(b, r)
          /\ excused' = IF r.how = "throw" /\ m # n
                        THEN [excused EXCEPT ![b] = excused[b] \cup {"torn"}] ELSE excused
  BY <1>2
<1>4. /\ kind[b] \in AllKinds /\ Shape(pb[b]) /\ (kind[b] = "ME" => disk[b] \in METype)
      /\ excused[b] \in SUBSET Excuses /\ Upd(excused, excused, b, excused[b])
      /\ DOMAIN pb[b].items = 1..Len(pb[b].items) /\ Len(pb[b].items) \in Nat
      /\ Functions8
  BY <1>1, IdleFacts
<1>5. S \in SUBSET (1..Len(pb[b].items)) /\ S # {} /\ (m = n => S = {m} /\ m \in S)
  BY <1>3, <1>4
<1> HIDE DEF S
<1>6. /\ Call(kind[b], pb[b], disk[b], r) /\ StaysNumbered(kind[b], pb[b], r)
      /\ r.how \in {"ok", "throw"}
      /\ r.how = "ok" \/ m = n => StaysMirror(kind[b], pb[b], disk[b], r)
  BY <1>4, <1>5, EraseFacts
<1>7. CASE r.how = "throw" /\ m # n
  <2> DEFINE y == excused[b] \cup {"torn"}
  <2>1. y \in SUBSET Excuses /\ excused[b] \subseteq y /\ y # {}
    BY <1>4 DEF Excuses
  <2>2. excused' = [excused EXCEPT ![b] = y]
    BY <1>3, <1>7
  <2> HIDE DEF y
  <2>3. Upd(excused, excused', b, y)
    BY <1>4, <2>2, UpdExcept DEF Functions8
  <2> QED
    BY <1>1, <1>3, <1>6, <2>1, <2>3, CallKeeps
<1>8. CASE ~(r.how = "throw" /\ m # n)
  BY <1>1, <1>3, <1>4, <1>6, <1>8, CallKeeps
<1> QED
  BY <1>7, <1>8

\* erase() of a key by a program of the library.
LEMMA EraseKeyKeeps ==
  ASSUME BooksInv, NEW b \in Book, EraseKey(b), opt' = opt
  PROVE  BooksInv'
<1>1. Idle(b)
  BY DEF EraseKey
<1>2. PICK n \in DOMAIN pb[b].items :
        LET key == KeyOf(pb[b].order, pb[b].items[n].e)
            S   == Leading(pb[b].items, key)
            T   == EqualRange(pb[b].items, key)
        IN  \E r \in Erase(kind[b], pb[b], disk[b], S, T) :
              /\ Takes(b, r)
              /\ excused' = [excused EXCEPT ![b] = @
                   \cup (IF r.how = "throw" THEN {"torn"} ELSE {})
                   \cup (IF r.how = "ok" /\ S # T THEN {"key"} ELSE {})
                   \cup (IF S = {} /\ T # {} THEN {"unsaved"} ELSE {})
                   \cup (IF kind[b] # "ME" /\ ~(S \subseteq T) THEN {"freed"} ELSE {})]
  BY DEF EraseKey
<1> DEFINE key == KeyOf(pb[b].order, pb[b].items[n].e)
           S   == Leading(pb[b].items, key)
           T   == EqualRange(pb[b].items, key)
<1>3. S \subseteq DOMAIN pb[b].items
  BY DEF Leading
<1>4. PICK r \in Erase(kind[b], pb[b], disk[b], S, T) :
        /\ Takes(b, r)
        /\ excused' = [excused EXCEPT ![b] = excused[b]
             \cup (IF r.how = "throw" THEN {"torn"} ELSE {})
             \cup (IF r.how = "ok" /\ S # T THEN {"key"} ELSE {})
             \cup (IF S = {} /\ T # {} THEN {"unsaved"} ELSE {})
             \cup (IF kind[b] # "ME" /\ ~(S \subseteq T) THEN {"freed"} ELSE {})]
  BY <1>2
<1> HIDE DEF S, T, key
<1> DEFINE y == excused[b] \cup (IF r.how = "throw" THEN {"torn"} ELSE {})
                           \cup (IF r.how = "ok" /\ S # T THEN {"key"} ELSE {})
                           \cup (IF S = {} /\ T # {} THEN {"unsaved"} ELSE {})
                           \cup (IF kind[b] # "ME" /\ ~(S \subseteq T) THEN {"freed"} ELSE {})
<1>5. /\ kind[b] \in AllKinds /\ Shape(pb[b]) /\ (kind[b] = "ME" => disk[b] \in METype)
      /\ excused[b] \in SUBSET Excuses
      /\ DOMAIN pb[b].items = 1..Len(pb[b].items) /\ Len(pb[b].items) \in Nat
      /\ Functions8
  BY <1>1, IdleFacts
<1>6. S \in SUBSET (1..Len(pb[b].items))
  BY <1>3, <1>5
<1>7. /\ Effect(kind[b], pb[b], disk[b], r) /\ StaysNumbered(kind[b], pb[b], r)
      /\ r.how \in {"ok", "throw"}
      /\ S # {} => Call(kind[b], pb[b], disk[b], r)
      /\ S = T /\ r.how = "ok" => StaysMirror(kind[b], pb[b], disk[b], r)
  BY <1>5, <1>6, EraseFacts
<1>8. /\ y \in SUBSET Excuses /\ excused[b] \subseteq y /\ (y = {} => S = T /\ r.how = "ok")
      /\ S = {} /\ T # {} => "unsaved" \in y
  BY <1>5, <1>7 DEF Excuses
<1>9. excused' = [excused EXCEPT ![b] = y]
  BY <1>4
<1> HIDE DEF y
<1>10. Upd(excused, excused', b, y)
  BY <1>5, <1>9, UpdExcept DEF Functions8
<1>11. Saved(kind[b], r.pb, r.disk, "no", y)
  <2>1. CASE S # {}
    BY <1>7, <2>1 DEF Call, Saved
  <2>2. CASE S = {} /\ T # {}
    BY <1>8, <2>2 DEF Saved
  <2>3. CASE S = {} /\ T = {} /\ kind[b] = "file"
    <3>1. r \in Erase("file", pb[b], disk[b], S, S)
      BY <1>4, <2>3
    <3>2. r.pb = pb[b] /\ r.disk = disk[b]
      BY <1>5, <2>3, <3>1, EraseNothing
    <3>3. Saved(kind[b], pb[b], disk[b], "no", excused[b])
      BY <1>1 DEF BooksInv, At, Inv1, Idle
    <3> QED
      BY <1>8, <3>2, <3>3 DEF Saved
  <2>4. CASE kind[b] # "file"
    BY <2>4 DEF Saved
  <2> QED
    BY <2>1, <2>2, <2>3, <2>4
<1> QED
  BY <1>1, <1>4, <1>7, <1>8, <1>10, <1>11, EffectKeeps

\* setSortOrder() by a program of the library.
LEMMA SortKeeps ==
  ASSUME BooksInv, NEW b \in Book, Sort(b), opt' = opt
  PROVE  BooksInv'
<1>1. PICK order \in Orders : pb' = [pb EXCEPT ![b] = SetSortOrder(pb[b], order)]
  BY DEF Sort
<1>2. /\ Idle(b) /\ kind' = kind /\ disk' = disk /\ backup' = backup /\ saving' = saving
      /\ written' = written /\ content' = content /\ excused' = excused
  BY DEF Sort
<1>3. Functions8 /\ At(b) /\ pb[b].open /\ saving[b] = "no"
  BY <1>2 DEF BooksInv, Idle
<1> DEFINE q == SetSortOrder(pb[b], order)
<1>4. written[b] = 0
  BY <1>3 DEF At, Inv1, Saving
<1>5. Inv1(opt.indexed, kind[b], q, disk[b], content[b], backup[b], "no", 0, excused[b])
  BY <1>3, <1>4, Sort1 DEF At
<1>6. pb' = [pb EXCEPT ![b] = q]
  BY <1>1
<1> HIDE DEF q
<1>7. /\ Upd(pb, pb', b, q) /\ Upd(disk, disk', b, disk[b]) /\ Upd(content, content', b, content[b])
      /\ Upd(backup, backup', b, backup[b]) /\ Upd(saving, saving', b, "no")
      /\ Upd(written, written', b, 0) /\ Upd(excused, excused', b, excused[b])
  BY <1>2, <1>3, <1>4, <1>6, UpdExcept, UpdSame DEF Functions8
<1>8. Moves(b, q, disk[b], content[b], backup[b], "no", 0, excused[b])
  BY <1>2, <1>7 DEF Moves
<1> QED
  BY <1>5, <1>8, MovesKeep

\* A program of the library opens a phonebook.
LEMMA OpenKeeps ==
  ASSUME BooksInv, NEW b \in Book, Open(b, opt.indexed), opt' = opt, opt.indexed \in BOOLEAN
  PROVE  BooksInv'
<1>1. ~pb[b].open /\ disk[b] # NoFile
  BY DEF Open
<1>2. PICK r \in Constructed(kind[b], disk[b], opt.indexed) : Construct(b, r)
  BY DEF Open
<1>3. Storage(kind[b], disk[b])
  BY <1>1 DEF BooksInv, At, Inv1, Typed, Storage
<1> QED
  BY <1>1, <1>2, <1>3, ConstructKeeps

\* Any call by a program of the library.
LEMMA UsesKeeps ==
  ASSUME BooksInv, NEW b \in Book, Uses(b, opt.indexed), opt' = opt, opt.indexed \in BOOLEAN
  PROVE  BooksInv'
<1>1. CASE \E closing \in BOOLEAN : Sync(b, closing)
  BY <1>1, SyncKeeps
<1> QED
  BY <1>1, OpenKeeps, SortKeeps, AddKeeps, ChangeKeeps, EraseRangeKeeps, EraseKeyKeeps,
     SyncStepKeeps DEF Uses

\* The process is killed, in the middle of sync() or not.
LEMMA KilledKeeps ==
  ASSUME BooksInv, Killed, opt' = opt
  PROVE  BooksInv'
<1>1. Dies /\ UNCHANGED <<kind, disk, content, backup, excused>>
  BY DEF Killed
<1> QED
  BY <1>1, DiesOnly
-----------------------------------------------------------------------------
(* The invariant of gsmpb. *)

\* The loops of gsmpb, in which both phonebooks are open.
WithBoth == {"sort", "update", "delete", "insert", "clear", "copy"}
Labels   == WithBoth \cup {"source", "dest", "close", "end", "library"}

Unopened(b) == ~pb[b].open /\ disk[b] \in InitialStorage(kind[b])
GoodItems(indexed, items) ==
  (NoBlankLines => NonBlank(items)) /\ (indexed => NonNegative(items))

MainInv ==
  /\ opt \in [sync : BOOLEAN, indexed : BOOLEAN]
  /\ pc \in Labels /\ pos \in Nat \ {0}
  /\ pc = "source" => Unopened(Source)
  /\ pc \in {"source", "dest"} => Unopened(Dest)
  /\ pc \in {"dest"} \cup WithBoth => Idle(Source) /\ GoodItems(opt.indexed, src.items)
  /\ pc \in WithBoth => Idle(Dest)
  /\ pc = "update" /\ opt.indexed => dst.order = "ByIndex"

IInv == BooksInv /\ MainInv

\* The two phonebooks of gsmpb.
LEMMA BookFacts ==
  Book = {Source, Dest} /\ Source \in Book /\ Dest \in Book /\ Source # Dest
<1>1. Book = {Source, Dest}
  BY GsmpbAssumption, Zenon
<1> QED
  BY <1>1 DEF Source, Dest

\* What the constructors of gsmpb find.
LEMMA InitialStorageFacts ==
  ASSUME NEW k \in AllKinds, NEW d \in InitialStorage(k)
  PROVE  Storage(k, d) /\ (k = "file" => d \in Contents)
<1>1. CASE k = "ME"
  <2>1. d \in [1..Slots -> {Blank} \cup {[text |-> l.text, tel |-> l.tel] : l \in Given}]
    BY <1>1 DEF InitialStorage
  <2>2. Blank \in [text : Text \cup {0}, tel : Tel \cup {0}]
    BY DEF Blank
  <2>3. ASSUME NEW l \in Given
        PROVE  [text |-> l.text, tel |-> l.tel] \in [text : Text \cup {0}, tel : Tel \cup {0}]
    BY GivenFacts DEF EntryLike
  <2>4. {Blank} \cup {[text |-> l.text, tel |-> l.tel] : l \in Given}
          \subseteq [text : Text \cup {0}, tel : Tel \cup {0}]
    BY <2>2, <2>3
  <2>5. d \in METype
    BY <2>1, <2>4 DEF METype
  <2> QED
    BY <1>1, <2>5 DEF Storage
<1>2. CASE k = "stdout"
  BY <1>2, EmptySeq DEF InitialStorage, Storage
<1>3. CASE k \in {"file", "stdin"}
  <2>1. d \in Contents
    BY <1>3 DEF InitialStorage
  <2>2. /\ Contents \subseteq Seq(Line) /\ Index \subseteq Nat /\ Garbage \subseteq Int \ {NoIndex}
    BY SortedPhonebookAssumption, Zenon
  <2>3. Line \subseteq LineType
    <3>1. Index \cup Garbage \cup {NoIndex} \subseteq Int
      BY <2>2 DEF NoIndex
    <3> QED
      BY <3>1 DEF Line, LineType
  <2>4. d \in Seq(LineType)
    BY <2>1, <2>2, <2>3
  <2> QED
    BY <1>3, <2>1, <2>4 DEF Storage
<1> QED
  BY <1>1, <1>2, <1>3 DEF AllKinds

\* The invariant holds when gsmpb starts.
LEMMA Initially ==
  ASSUME GsmpbInit
  PROVE  IInv
<1>1. /\ kind \in [Book -> Kinds]
      /\ disk \in {d \in [Book -> UNION {InitialStorage(k) : k \in Kinds}] :
                   \A b \in Book : d[b] \in InitialStorage(kind[b])}
      /\ pb = [b \in Book |-> Closed] /\ backup = [b \in Book |-> "none"]
      /\ saving = [b \in Book |-> "no"] /\ written = [b \in Book |-> 0]
      /\ content = [b \in Book |-> "read"] /\ excused = [b \in Book |-> {}]
  BY DEF GsmpbInit, Init
<1>2. Kinds \subseteq AllKinds
  BY SortedPhonebookAssumption, Zenon DEF AllKinds
<1>3. Functions8
  BY <1>1 DEF Functions8, IsFun
<1>4. ASSUME NEW b \in Book PROVE At(b) /\ Unopened(b)
  <2>1. /\ kind[b] \in AllKinds /\ disk[b] \in InitialStorage(kind[b])
        /\ pb[b] = Closed /\ backup[b] = "none" /\ saving[b] = "no" /\ written[b] = 0
        /\ content[b] = "read" /\ excused[b] = {}
    BY <1>1, <1>2
  <2>2. Storage(kind[b], disk[b])
    BY <2>1, InitialStorageFacts
  <2>3. Typed(kind[b], Closed, disk[b], "read", "none", "no", 0, {})
    BY <2>1, <2>2, ClosedFacts DEF Typed, Storage, InSlots
  <2>4. Backed(kind[b], Closed, "read", "none", "no")
    BY ClosedFacts DEF Backed, Intact
  <2>5. Saving(kind[b], Closed, disk[b], "read", "no", 0)
    BY ClosedFacts DEF Saving
  <2>6. /\ Saved(kind[b], Closed, disk[b], "no", {})
        /\ Ordered(opt.indexed, kind[b], Closed, disk[b], "read")
        /\ Mirrored1(kind[b], Closed, disk[b], {})
    BY ClosedFacts DEF Saved, Ordered, Mirrored1
  <2>7. ~pb[b].open
    BY <2>1, ClosedFacts
  <2> QED
    BY <2>1, <2>3, <2>4, <2>5, <2>6, <2>7 DEF At, Inv1, Unopened
<1>5. opt \in [sync : BOOLEAN, indexed : BOOLEAN] /\ pos = 1 /\ pc \in {"source", "library"}
  BY DEF GsmpbInit
<1>6. MainInv
  BY <1>4, <1>5, BookFacts DEF MainInv, Labels, WithBoth
<1> QED
  BY <1>3, <1>4, <1>6 DEF IInv, BooksInv

\* A call on the destination in one of the loops.
LEMMA CallStep ==
  ASSUME IInv, pc \in WithBoth, NEW r, Takes(Dest, r), UNCHANGED <<excused, opt>>,
         Call(kind[Dest], dst, disk[Dest], r),
         opt.indexed => StaysNumbered(kind[Dest], dst, r),
         NoBlankLines => StaysMirror(kind[Dest], dst, disk[Dest], r),
         \/ r.how # "crash" /\ pc' = pc /\ pos' \in {pos, pos + 1}
         \/ pc' \in {"close", "end"} /\ pos' = 1
  PROVE  IInv'
<1>1. /\ BooksInv /\ Idle(Dest) /\ Idle(Source) /\ GoodItems(opt.indexed, src.items)
      /\ opt \in [sync : BOOLEAN, indexed : BOOLEAN] /\ pc \in Labels /\ pos \in Nat \ {0}
      /\ pc = "update" /\ opt.indexed => dst.order = "ByIndex"
  BY DEF IInv, MainInv
<1>2. /\ excused[Dest] \in SUBSET Excuses /\ Upd(excused, excused, Dest, excused[Dest])
      /\ Functions8
  BY <1>1, BookFacts, IdleFacts
<1>3. BooksInv'
  BY <1>1, <1>2, BookFacts, CallKeeps DEF dst
<1>4. opt' = opt
  OBVIOUS
<1>5. CASE r.how # "crash" /\ pc' = pc /\ pos' \in {pos, pos + 1}
  <2>1. pb' = [pb EXCEPT ![Dest] = r.pb] /\ saving' = saving
    BY <1>5 DEF Takes
  <2>2. Upd(pb, pb', Dest, r.pb)
    BY <1>2, <2>1, BookFacts, UpdExcept DEF Functions8
  <2>3. pb'[Dest] = r.pb /\ pb'[Source] = pb[Source]
    BY <2>2, BookFacts DEF Upd
  <2>4. r.pb.open = dst.open /\ r.pb.order = dst.order
    BY DEF Call, Kept
  <2>5. Idle(Dest)' /\ Idle(Source)' /\ src' = src /\ dst' = r.pb
    BY <1>1, <2>1, <2>3, <2>4 DEF Idle, src, dst
  <2>6. pos' \in Nat \ {0}
    BY <1>1, <1>5
  <2>7. pc' \notin {"source", "dest"}
    BY <1>5 DEF WithBoth
  <2>8. GoodItems(opt'.indexed, src'.items)
    BY <1>1, <1>4, <2>5
  <2>9. pc' = "update" /\ opt'.indexed => dst'.order = "ByIndex"
    BY <1>1, <1>4, <1>5, <2>4, <2>5
  <2>10. MainInv'
    BY <1>1, <1>4, <1>5, <2>5, <2>6, <2>7, <2>8, <2>9 DEF MainInv
  <2> QED
    BY <1>3, <2>10 DEF IInv
<1>6. CASE pc' \in {"close", "end"} /\ pos' = 1
  <2>1. MainInv'
    BY <1>1, <1>4, <1>6 DEF MainInv, Labels, WithBoth
  <2> QED
    BY <1>3, <2>1 DEF IInv
<1> QED
  BY <1>5, <1>6

\* A step that leaves the phonebooks alone.
LEMMA SkipStep ==
  ASSUME IInv, pc \in WithBoth, UNCHANGED <<bookVars, opt>>,
         \/ pc' = pc /\ pos' \in {pos, pos + 1}
         \/ pc' \in {"close", "end"} \cup (WithBoth \ {"update"}) /\ pos' = 1
  PROVE  IInv'
<1>1. /\ BooksInv /\ Idle(Dest) /\ Idle(Source) /\ GoodItems(opt.indexed, src.items)
      /\ opt \in [sync : BOOLEAN, indexed : BOOLEAN] /\ pc \in Labels /\ pos \in Nat \ {0}
      /\ pc = "update" /\ opt.indexed => dst.order = "ByIndex"
  BY DEF IInv, MainInv
<1>2. /\ kind' = kind /\ pb' = pb /\ disk' = disk /\ content' = content /\ backup' = backup
      /\ saving' = saving /\ written' = written /\ excused' = excused /\ opt' = opt
  BY DEF bookVars
<1>3. BooksInv'
  BY <1>1, <1>2 DEF BooksInv, Functions8, At
<1>4. Idle(Dest)' /\ Idle(Source)' /\ src' = src /\ dst' = dst
  BY <1>1, <1>2 DEF Idle, src, dst
<1>5. pos' \in Nat \ {0} /\ pc' \in Labels /\ pc' \notin {"source", "dest"}
  BY <1>1 DEF WithBoth, Labels
<1>6. pc' = "update" => pc = "update"
  BY DEF WithBoth
<1>7. MainInv'
  BY <1>1, <1>2, <1>4, <1>5, <1>6 DEF MainInv
<1> QED
  BY <1>3, <1>7 DEF IInv
-----------------------------------------------------------------------------
(* gsmpb opens its phonebooks. *)

\* The entries a constructor made are as the loops need them.
LEMMA MadeItems ==
  ASSUME NEW indexed, NEW k, NEW d, NEW r, Made(indexed, k, d, r), r.how = "ok",
         k = "file" => d \in Contents
  PROVE  GoodItems(indexed, r.pb.items)
<1>1. NoBlankLines => NonBlank(r.pb.items)
  BY DEF Made
<1>2. ASSUME indexed PROVE NonNegative(r.pb.items)
  <2>1. CASE k = "ME"
    <3>1. InSlots(r.pb.items)
      BY <2>1, MirrorsInSlots DEF Made
    <3>2. Slots \in Nat
      BY SortedPhonebookAssumption, Zenon
    <3> QED
      BY <3>1, <3>2 DEF InSlots, NonNegative
  <2>2. CASE k # "ME"
    BY <1>2, <2>2 DEF Made, WellNumbered
  <2> QED
    BY <2>1, <2>2
<1> QED
  BY <1>1, <1>2 DEF GoodItems

\* A phonebook of gsmpb is constructed.
LEMMA UnopenedFacts ==
  ASSUME IInv, NEW b \in Book, Unopened(b),
         NEW r \in Constructed(kind[b], disk[b], opt.indexed), Construct(b, r), opt' = opt
  PROVE  /\ BooksInv'
         /\ \A e \in Book : e # b => (Idle(e)' <=> Idle(e)) /\ (Unopened(e) => Unopened(e)')
                                     /\ pb'[e] = pb[e]
         /\ r.how = "ok" => Idle(b)' /\ pb'[b] = r.pb /\ GoodItems(opt.indexed, r.pb.items)
<1>1. BooksInv /\ opt.indexed \in BOOLEAN
  BY DEF IInv, MainInv
<1>2. kind[b] \in AllKinds /\ saving[b] = "no" /\ ~pb[b].open
  BY <1>1 DEF BooksInv, At, Inv1, Typed, Saving, Unopened
<1>3. Storage(kind[b], disk[b]) /\ (kind[b] = "file" => disk[b] \in Contents)
  BY <1>2, InitialStorageFacts DEF Unopened
<1>4. BooksInv' /\ Upd(pb, pb', b, IF r.how = "ok" THEN r.pb ELSE Closed)
  BY <1>1, <1>2, <1>3, ConstructKeeps
<1>5. kind' = kind /\ disk' = disk /\ saving' = saving
  BY DEF Construct
<1>6. ASSUME NEW e \in Book, e # b
      PROVE  (Idle(e)' <=> Idle(e)) /\ (Unopened(e) => Unopened(e)') /\ pb'[e] = pb[e]
  BY <1>4, <1>5, <1>6 DEF Upd, Idle, Unopened
<1>7. ASSUME r.how = "ok"
      PROVE  Idle(b)' /\ pb'[b] = r.pb /\ GoodItems(opt.indexed, r.pb.items)
  <2>1. Made(opt.indexed, kind[b], disk[b], r)
    BY <1>1, <1>2, <1>3, ConstructedFacts
  <2>2. pb'[b] = r.pb
    BY <1>4, <1>7 DEF Upd
  <2>3. r.pb.open = TRUE
    BY <2>1 DEF Made
  <2> QED
    BY <1>2, <1>3, <1>5, <1>7, <2>1, <2>2, <2>3, MadeItems DEF Idle
<1> QED
  BY <1>4, <1>6, <1>7

\* gsmpb opens the source.
LEMMA OpenSourceStep ==
  ASSUME IInv, OpenSource
  PROVE  IInv'
<1>1. PICK r \in Constructed(kind[Source], disk[Source], opt.indexed) :
        /\ Construct(Source, r)
        /\ IF r.how = "ok" THEN Goto("dest") /\ UNCHANGED outcome ELSE Fail
  BY DEF OpenSource
<1>2. pc = "source" /\ opt' = opt
  BY DEF OpenSource
<1>3. Unopened(Source) /\ Unopened(Dest) /\ opt \in [sync : BOOLEAN, indexed : BOOLEAN]
  BY <1>2 DEF IInv, MainInv
<1>4. /\ BooksInv' /\ Unopened(Dest)'
      /\ r.how = "ok" => Idle(Source)' /\ pb'[Source] = r.pb /\ GoodItems(opt.indexed, r.pb.items)
  BY <1>1, <1>2, <1>3, BookFacts, UnopenedFacts
<1>5. CASE r.how = "ok"
  <2>1. pc' = "dest" /\ pos' = 1
    BY <1>1, <1>5 DEF Goto
  <2>2. src' = r.pb
    BY <1>4, <1>5 DEF src
  <2>3. GoodItems(opt'.indexed, src'.items)
    BY <1>2, <1>4, <1>5, <2>2
  <2>4. MainInv'
    BY <1>2, <1>3, <1>4, <1>5, <2>1, <2>3 DEF MainInv, Labels, WithBoth
  <2> QED
    BY <1>4, <2>4 DEF IInv
<1>6. CASE r.how # "ok"
  <2>1. pc' = "close" /\ pos' = 1
    BY <1>1, <1>6 DEF Fail, Goto
  <2>2. MainInv'
    BY <1>2, <1>3, <2>1 DEF MainInv, Labels, WithBoth
  <2> QED
    BY <1>4, <2>2 DEF IInv
<1> QED
  BY <1>5, <1>6

\* gsmpb opens the destination.
LEMMA OpenDestStep ==
  ASSUME IInv, OpenDest
  PROVE  IInv'
<1>1. pc = "dest" /\ opt' = opt
  BY DEF OpenDest
<1>2. /\ BooksInv /\ Unopened(Dest) /\ opt \in [sync : BOOLEAN, indexed : BOOLEAN]
      /\ Idle(Source) /\ GoodItems(opt.indexed, src.items)
  BY <1>1 DEF IInv, MainInv
<1>3. CASE \E r \in Constructed(kind[Dest], disk[Dest], opt.indexed) :
             /\ Construct(Dest, r)
             /\ IF r.how = "ok" THEN Goto(IF opt.sync THEN "sort" ELSE "clear") /\ UNCHANGED outcome
                ELSE Fail
  <2>1. PICK r \in Constructed(kind[Dest], disk[Dest], opt.indexed) :
             /\ Construct(Dest, r)
             /\ IF r.how = "ok" THEN Goto(IF opt.sync THEN "sort" ELSE "clear") /\ UNCHANGED outcome
                ELSE Fail
    BY <1>3
  <2>2. /\ BooksInv' /\ Idle(Source)' /\ pb'[Source] = pb[Source]
        /\ r.how = "ok" => Idle(Dest)'
    BY <1>1, <1>2, <2>1, BookFacts, UnopenedFacts
  <2>3. src' = src
    BY <2>2 DEF src
  <2>4. pos' = 1 /\ (pc' = "close" \/ (r.how = "ok" /\ pc' \in {"sort", "clear"}))
    BY <2>1 DEF Fail, Goto
  <2>5. GoodItems(opt'.indexed, src'.items)
    BY <1>1, <1>2, <2>3
  <2>6. MainInv'
    BY <1>1, <1>2, <2>2, <2>4, <2>5 DEF MainInv, Labels, WithBoth
  <2> QED
    BY <2>2, <2>6 DEF IInv
<1>4. CASE Fail /\ UNCHANGED bookVars
  <2>1. /\ kind' = kind /\ pb' = pb /\ disk' = disk /\ content' = content /\ backup' = backup
        /\ saving' = saving /\ written' = written /\ excused' = excused
    BY <1>4 DEF bookVars
  <2>2. BooksInv'
    BY <1>1, <1>2, <2>1 DEF BooksInv, Functions8, At
  <2>3. pc' = "close" /\ pos' = 1
    BY <1>4 DEF Fail, Goto
  <2>4. MainInv'
    BY <1>1, <1>2, <2>3 DEF MainInv, Labels, WithBoth
  <2> QED
    BY <2>2, <2>4 DEF IInv
<1> QED
  BY <1>3, <1>4 DEF OpenDest

\* gsmpb sorts both phonebooks for --synchronize.
LEMMA SortBothStep ==
  ASSUME IInv, SortBoth
  PROVE  IInv'
<1> DEFINE order == IF opt.indexed THEN "ByIndex" ELSE "ByText"
<1>1. /\ pc = "sort" /\ opt' = opt /\ pc' = "update" /\ pos' = 1
      /\ pb' = [b \in Book |-> SetSortOrder(pb[b], order)]
      /\ kind' = kind /\ disk' = disk /\ backup' = backup /\ saving' = saving
      /\ written' = written /\ content' = content /\ excused' = excused
  BY DEF SortBoth, Goto
<1>2. /\ BooksInv /\ Idle(Source) /\ Idle(Dest) /\ GoodItems(opt.indexed, src.items)
      /\ opt \in [sync : BOOLEAN, indexed : BOOLEAN]
  BY <1>1 DEF IInv, MainInv, WithBoth
<1>3. order \in Orders /\ (opt.indexed => order = "ByIndex")
  BY DEF Orders
<1> HIDE DEF order
<1>4. Functions8'
  BY <1>1, <1>2 DEF BooksInv, Functions8, IsFun
<1>5. ASSUME NEW b \in Book PROVE At(b)' /\ Idle(b)' /\ pb'[b].order = order
  <2> DEFINE q == SetSortOrder(pb[b], order)
  <2>1. At(b) /\ pb[b].open /\ saving[b] = "no"
    BY <1>2, BookFacts DEF BooksInv, Idle
  <2>2. written[b] = 0 /\ Shape(pb[b])
    BY <2>1 DEF At, Inv1, Saving, Typed
  <2>3. Inv1(opt.indexed, kind[b], q, disk[b], content[b], backup[b], "no", 0, excused[b])
    BY <1>3, <2>1, <2>2, Sort1 DEF At
  <2>4. q.order = order /\ q.open = pb[b].open
    BY <1>3, <2>2, SortEntries DEF SameMembers
  <2>5. pb'[b] = q
    BY <1>1
  <2> HIDE DEF q
  <2>6. At(b)'
    BY <1>1, <2>1, <2>2, <2>3, <2>5 DEF At
  <2> QED
    BY <1>1, <2>1, <2>4, <2>5, <2>6 DEF Idle
<1>6. GoodItems(opt'.indexed, src'.items)
  <2> DEFINE q == SetSortOrder(src, order)
  <2>1. Shape(src)
    BY <1>2, BookFacts DEF BooksInv, At, Inv1, Typed, src
  <2>2. /\ Len(q.items) = Len(src.items)
        /\ \A k \in 1..Len(src.items) : \E j \in 1..Len(src.items) : q.items[k].e = src.items[j].e
    BY <1>3, <2>1, SortEntries
  <2>3. src' = q
    BY <1>1, BookFacts DEF src
  <2> HIDE DEF q
  <2>4. GoodItems(opt.indexed, q.items)
    BY <1>2, <2>2 DEF GoodItems, NonBlank, NonNegative
  <2> QED
    BY <1>1, <2>3, <2>4
<1>7. dst'.order = order
  BY <1>5, BookFacts DEF dst
<1>8. MainInv'
  BY <1>1, <1>2, <1>3, <1>5, <1>6, <1>7, BookFacts DEF MainInv, Labels, WithBoth
<1> QED
  BY <1>4, <1>5, <1>8 DEF IInv, BooksInv
-----------------------------------------------------------------------------
(* The loops of gsmpb. *)

\* What holds in every loop.
LEMMA LoopFacts ==
  ASSUME IInv, pc \in WithBoth
  PROVE  /\ kind[Dest] \in AllKinds /\ Shape(dst) /\ (kind[Dest] = "ME" => disk[Dest] \in METype)
         /\ DOMAIN dst.items = 1..Len(dst.items) /\ Len(dst.items) \in Nat
         /\ opt.indexed /\ kind[Dest] # "ME" => WellNumbered(dst)
         /\ Len(src.items) \in Nat /\ pos \in Nat \ {0}
         /\ \A k \in 1..Len(src.items) : EntryLike(src.items[k].e)
         /\ NoBlankLines => NonBlank(src.items)
         /\ opt.indexed => NonNegative(src.items)
<1>1. BooksInv /\ Idle(Dest) /\ Idle(Source) /\ GoodItems(opt.indexed, src.items) /\ pos \in Nat \ {0}
  BY DEF IInv, MainInv
<1>2. /\ kind[Dest] \in AllKinds /\ Shape(dst) /\ (kind[Dest] = "ME" => disk[Dest] \in METype)
      /\ DOMAIN dst.items = 1..Len(dst.items) /\ Len(dst.items) \in Nat
      /\ opt.indexed /\ kind[Dest] # "ME" => WellNumbered(dst)
  BY <1>1, BookFacts, IdleFacts DEF dst
<1>3. Shape(src)
  BY <1>1, BookFacts, IdleFacts DEF src
<1>4. Len(src.items) \in Nat /\ \A k \in 1..Len(src.items) : src.items[k].e \in EntryType
  BY <1>3, ShapeFacts
<1>5. \A k \in 1..Len(src.items) : EntryLike(src.items[k].e)
  BY <1>4 DEF EntryType, EntryLike
<1> QED
  BY <1>1, <1>2, <1>4, <1>5 DEF GoodItems

\* The entry of the source that a loop looks at.
LEMMA CurrentFacts ==
  ASSUME IInv, pc \in WithBoth, pos <= Len(src.items)
  PROVE  /\ EntryLike(Current)
         /\ NoBlankLines => SlotOf(Current) # Blank
         /\ opt.indexed => Current.index >= 0
<1>1. /\ Len(src.items) \in Nat /\ pos \in Nat \ {0}
      /\ \A k \in 1..Len(src.items) : EntryLike(src.items[k].e)
      /\ NoBlankLines => NonBlank(src.items)
      /\ opt.indexed => NonNegative(src.items)
  BY LoopFacts
<1>2. pos \in 1..Len(src.items)
  BY <1>1
<1> QED
  BY <1>1, <1>2 DEF Current, NonBlank, NonNegative

\* An entry of the destination is overwritten.
LEMMA SetStep ==
  ASSUME IInv, pc = "update", pos <= Len(src.items), NEW n \in DOMAIN dst.items,
         opt.indexed /\ kind[Dest] # "ME" => Current.index = dst.items[n].e.index,
         Calls(Set(kind[Dest], dst, disk[Dest], n, Current), pos' = pos + 1 /\ UNCHANGED pc),
         opt' = opt
  PROVE  IInv'
<1>1. PICK r \in Set(kind[Dest], dst, disk[Dest], n, Current) :
        /\ Takes(Dest, r) /\ excused' = excused
        /\ CASE r.how = "ok"    -> pos' = pos + 1 /\ pc' = pc /\ UNCHANGED outcome
             [] r.how = "throw" -> Fail
             [] r.how = "crash" -> outcome' = "dead" /\ Goto("end")
  BY DEF Calls
<1>2. pc \in WithBoth
  BY DEF WithBoth
<1>3. /\ Shape(dst) /\ (kind[Dest] = "ME" => disk[Dest] \in METype)
      /\ DOMAIN dst.items = 1..Len(dst.items)
  BY <1>2, LoopFacts
<1>4. EntryLike(Current) /\ (NoBlankLines => SlotOf(Current) # Blank)
  BY <1>2, CurrentFacts
<1>5. /\ Call(kind[Dest], dst, disk[Dest], r) /\ r.how \in {"ok", "throw"}
      /\ Current.index = dst.items[n].e.index => StaysNumbered(kind[Dest], dst, r)
      /\ SlotOf(Current) # Blank => StaysMirror(kind[Dest], dst, disk[Dest], r)
  BY <1>3, <1>4, SetFacts
<1>6. opt.indexed => StaysNumbered(kind[Dest], dst, r)
  BY <1>5 DEF StaysNumbered
<1>7. \/ r.how # "crash" /\ pc' = pc /\ pos' \in {pos, pos + 1}
      \/ pc' \in {"close", "end"} /\ pos' = 1
  BY <1>1, <1>5 DEF Fail, Goto
<1> QED
  BY <1>1, <1>2, <1>4, <1>5, <1>6, <1>7, CallStep

\* updateEntries() without --index.
LEMMA UpdateEntriesStep ==
  ASSUME IInv, UpdateEntries
  PROVE  IInv'
<1>1. pc = "update" /\ ~opt.indexed /\ pos <= Len(src.items) /\ opt' = opt
  BY DEF UpdateEntries
<1>2. CASE \E n \in InDest(Current) :
             Calls(Set(kind[Dest], dst, disk[Dest], n, Current), pos' = pos + 1 /\ UNCHANGED pc)
  <2>1. PICK n \in InDest(Current) :
             Calls(Set(kind[Dest], dst, disk[Dest], n, Current), pos' = pos + 1 /\ UNCHANGED pc)
    BY <1>2
  <2>2. n \in DOMAIN dst.items
    BY DEF InDest, EqualRange
  <2> QED
    BY <1>1, <2>1, <2>2, SetStep
<1>3. CASE Skips /\ pos' = pos + 1 /\ pc' = pc
  <2>1. pc \in WithBoth
    BY <1>1 DEF WithBoth
  <2> QED
    BY <1>1, <1>3, <2>1, SkipStep DEF Skips
<1> QED
  BY <1>2, <1>3 DEF UpdateEntries

\* updateEntries() with --index.
LEMMA UpdateEntriesIndexedStep ==
  ASSUME IInv, UpdateEntriesIndexed
  PROVE  IInv'
<1>1. pc = "update" /\ opt.indexed /\ pos <= Len(src.items) /\ opt' = opt /\ pc \in WithBoth
  BY DEF UpdateEntriesIndexed, WithBoth
<1>2. CASE \E n \in InDest(Current) :
             Calls(Set(kind[Dest], dst, disk[Dest], n, Current), pos' = pos + 1 /\ UNCHANGED pc)
  <2>1. PICK n \in InDest(Current) :
             Calls(Set(kind[Dest], dst, disk[Dest], n, Current), pos' = pos + 1 /\ UNCHANGED pc)
    BY <1>2
  <2>2. dst.order = "ByIndex"
    BY <1>1 DEF IInv, MainInv
  <2>3. n \in DOMAIN dst.items /\ dst.items[n].key[1] = KeyOf("ByIndex", Current)[1]
    BY <2>2 DEF InDest, EqualRange
  <2>4. KeyOf("ByIndex", Current)[1] = Current.index
    BY DEF KeyOf
  <2>5. /\ DOMAIN dst.items = 1..Len(dst.items)
        /\ kind[Dest] # "ME" => WellNumbered(dst)
    BY <1>1, LoopFacts
  <2>6. kind[Dest] # "ME" => Current.index = dst.items[n].e.index
    BY <2>2, <2>3, <2>4, <2>5 DEF WellNumbered, ByIndexKeyed
  <2> QED
    BY <1>1, <2>1, <2>3, <2>6, SetStep
<1>3. CASE Skips /\ pos' = pos + 1 /\ pc' = pc
  BY <1>1, <1>3, SkipStep DEF Skips
<1> QED
  BY <1>2, <1>3 DEF UpdateEntriesIndexed

IsResult(r) == r = Result(r.pb, r.disk, r.how)

\* erase() of one entry.
LEMMA EraseOne ==
  ASSUME NEW k, NEW p, Shape(p), NEW d, k = "ME" => d \in METype, NEW m \in 1..Len(p.items),
         NEW r \in Erase(k, p, d, {m}, {m})
  PROVE  /\ Call(k, p, d, r) /\ StaysNumbered(k, p, r) /\ StaysMirror(k, p, d, r)
         /\ r.how \in {"ok", "throw"} /\ IsResult(r)
<1> DEFINE S == {m}
<1>1. S \in SUBSET (1..Len(p.items)) /\ r \in Erase(k, p, d, S, S)
  OBVIOUS
<1>2. S # {} /\ \E n \in S : S = {n}
  OBVIOUS
<1> HIDE DEF S
<1> QED
  BY <1>1, <1>2, EraseFacts DEF IsResult

\* deleteNotPresent().
LEMMA DeleteNotPresentStep ==
  ASSUME IInv, DeleteNotPresent
  PROVE  IInv'
<1>1. pc = "delete" /\ pos <= Len(dst.items) /\ opt' = opt /\ pc \in WithBoth
  BY DEF DeleteNotPresent, WithBoth
<1>2. CASE Calls(Erase(kind[Dest], dst, disk[Dest], {pos}, {pos}), Stay)
  <2>1. PICK r \in Erase(kind[Dest], dst, disk[Dest], {pos}, {pos}) :
        /\ Takes(Dest, r) /\ excused' = excused
        /\ CASE r.how = "ok"    -> Stay /\ UNCHANGED outcome
             [] r.how = "throw" -> Fail
             [] r.how = "crash" -> outcome' = "dead" /\ Goto("end")
    BY <1>2 DEF Calls
  <2>2. /\ Shape(dst) /\ (kind[Dest] = "ME" => disk[Dest] \in METype)
        /\ Len(dst.items) \in Nat /\ pos \in Nat \ {0}
    BY <1>1, LoopFacts
  <2>3. pos \in 1..Len(dst.items)
    BY <1>1, <2>2
  <2>5. /\ Call(kind[Dest], dst, disk[Dest], r) /\ StaysNumbered(kind[Dest], dst, r)
        /\ r.how \in {"ok", "throw"} /\ StaysMirror(kind[Dest], dst, disk[Dest], r)
    BY <2>1, <2>2, <2>3, EraseOne
  <2>6. \/ r.how # "crash" /\ pc' = pc /\ pos' \in {pos, pos + 1}
        \/ pc' \in {"close", "end"} /\ pos' = 1
    BY <2>1, <2>5 DEF Fail, Goto, Stay
  <2> QED
    BY <1>1, <2>1, <2>5, <2>6, CallStep
<1>3. CASE Skips /\ pos' = pos + 1 /\ pc' = pc
  BY <1>1, <1>3, SkipStep DEF Skips
<1> QED
  BY <1>2, <1>3 DEF DeleteNotPresent

\* The ways insert() can end.
LEMMA InsertEnds ==
  ASSUME NEW k \in AllKinds, NEW p, NEW d, NEW x, NEW useIndex, NEW r \in Insert(k, p, d, x, useIndex)
  PROVE  r.how \in {"ok", "throw", "crash"}
<1>1. CASE k = "stdin"
  BY <1>1 DEF Insert, Result
<1>2. CASE k = "ME"
  <2>1. r \in InsertIntoME(p, d, x, useIndex)
    BY <1>2 DEF Insert
  <2>2. \E q, e : \E how \in {"ok", "throw", "crash"} : r = Result(q, e, how)
    BY <2>1 DEF InsertIntoME
  <2> QED
    BY <2>2 DEF Result
<1>3. CASE k \in {"file", "stdout"}
  <2>1. PICK g \in Garbage : r = InsertIntoFile(p, d, x, g)
    BY <1>3 DEF Insert
  <2>2. \E q : \E how \in {"ok", "throw"} : r = Result(q, d, how)
    BY <2>1 DEF InsertIntoFile
  <2> QED
    BY <2>2 DEF Result
<1> QED
  BY <1>1, <1>2, <1>3 DEF AllKinds

\* An entry of the source is inserted into the destination.
LEMMA InsertStep ==
  ASSUME IInv, pc \in WithBoth, pos <= Len(src.items), NEW useIndex,
         Calls(Insert(kind[Dest], dst, disk[Dest], Current, useIndex), pos' = pos + 1 /\ UNCHANGED pc),
         opt' = opt
  PROVE  IInv'
<1>1. PICK r \in Insert(kind[Dest], dst, disk[Dest], Current, useIndex) :
        /\ Takes(Dest, r) /\ excused' = excused
        /\ CASE r.how = "ok"    -> pos' = pos + 1 /\ pc' = pc /\ UNCHANGED outcome
             [] r.how = "throw" -> Fail
             [] r.how = "crash" -> outcome' = "dead" /\ Goto("end")
  BY DEF Calls
<1>2. kind[Dest] \in AllKinds /\ Shape(dst) /\ (kind[Dest] = "ME" => disk[Dest] \in METype)
  BY LoopFacts
<1>3. /\ EntryLike(Current) /\ (NoBlankLines => SlotOf(Current) # Blank)
      /\ opt.indexed => Current.index >= 0
  BY CurrentFacts
<1>4. /\ Call(kind[Dest], dst, disk[Dest], r)
      /\ Current.index >= 0 => StaysNumbered(kind[Dest], dst, r)
      /\ SlotOf(Current) # Blank => StaysMirror(kind[Dest], dst, disk[Dest], r)
  BY <1>2, <1>3, InsertFacts DEF AllKinds
<1>5. r.how \in {"ok", "throw", "crash"}
  BY <1>2, InsertEnds
<1>6. \/ r.how # "crash" /\ pc' = pc /\ pos' \in {pos, pos + 1}
      \/ pc' \in {"close", "end"} /\ pos' = 1
  BY <1>1, <1>5 DEF Fail, Goto
<1> QED
  BY <1>1, <1>3, <1>4, <1>6, CallStep

\* insertNotPresent().
LEMMA InsertNotPresentStep ==
  ASSUME IInv, InsertNotPresent
  PROVE  IInv'
<1>1. pc = "insert" /\ pos <= Len(src.items) /\ opt' = opt /\ pc \in WithBoth
  BY DEF InsertNotPresent, WithBoth
<1>2. CASE Calls(Insert(kind[Dest], dst, disk[Dest], Current, opt.indexed),
                 pos' = pos + 1 /\ UNCHANGED pc)
  BY <1>1, <1>2, InsertStep
<1>3. CASE Skips /\ pos' = pos + 1 /\ pc' = pc
  BY <1>1, <1>3, SkipStep DEF Skips
<1> QED
  BY <1>2, <1>3 DEF InsertNotPresent

\* The loop that copies every entry.
LEMMA CopyStep ==
  ASSUME IInv, Copy
  PROVE  IInv'
<1>1. pc = "copy" /\ pos <= Len(src.items) /\ opt' = opt /\ pc \in WithBoth
  BY DEF Copy, WithBoth
<1>2. Calls(Insert(kind[Dest], dst, disk[Dest], Current, FALSE), pos' = pos + 1 /\ UNCHANGED pc)
  BY DEF Copy
<1> QED
  BY <1>1, <1>2, InsertStep

\* erase() of the first entry.
LEMMA EraseFirst ==
  ASSUME IInv, pc \in WithBoth, dst.items # <<>>,
         NEW t \in Erase(kind[Dest], dst, disk[Dest], {1}, {1})
  PROVE  /\ Call(kind[Dest], dst, disk[Dest], t) /\ StaysNumbered(kind[Dest], dst, t)
         /\ t.how \in {"ok", "throw"} /\ StaysMirror(kind[Dest], dst, disk[Dest], t)
         /\ IsResult(t)
<1>1. Shape(dst) /\ (kind[Dest] = "ME" => disk[Dest] \in METype)
  BY LoopFacts
<1>2. Len(dst.items) \in Nat /\ dst.items \in Seq(ItemType)
  BY <1>1, ShapeFacts
<1>3. Len(dst.items) # 0
  BY <1>2, EmptySeq
<1> DEFINE m == 1
<1>4. m \in 1..Len(dst.items)
  BY <1>2, <1>3
<1>5. t \in Erase(kind[Dest], dst, disk[Dest], {m}, {m})
  OBVIOUS
<1> HIDE DEF m
<1>6. Call(kind[Dest], dst, disk[Dest], t) /\ StaysNumbered(kind[Dest], dst, t)
  BY <1>1, <1>4, <1>5, EraseOne
<1>7. t.how \in {"ok", "throw"} /\ StaysMirror(kind[Dest], dst, disk[Dest], t)
  BY <1>1, <1>4, <1>5, EraseOne
<1>8. IsResult(t)
  BY <1>1, <1>4, <1>5, EraseOne
<1> QED
  BY <1>6, <1>7, <1>8

\* The loop that empties the destination.
LEMMA ClearStep ==
  ASSUME IInv, Clear
  PROVE  IInv'
<1> DEFINE results == Erase(kind[Dest], dst, disk[Dest], {1}, {1})
<1>1. pc = "clear" /\ dst.items # <<>> /\ opt' = opt /\ pc \in WithBoth
  BY DEF Clear, WithBoth
<1>2. PICK r \in results \cup {[r EXCEPT !.how = "crash"] : r \in results} :
        /\ Takes(Dest, r) /\ excused' = excused
        /\ CASE r.how = "ok"    -> Stay /\ UNCHANGED outcome
             [] r.how = "throw" -> Fail
             [] r.how = "crash" -> outcome' = "dead" /\ Goto("end")
  BY DEF Clear, Calls
<1>6. ASSUME NEW t \in results
      PROVE  /\ Call(kind[Dest], dst, disk[Dest], t) /\ StaysNumbered(kind[Dest], dst, t)
             /\ t.how \in {"ok", "throw"} /\ StaysMirror(kind[Dest], dst, disk[Dest], t)
             /\ IsResult(t)
  BY <1>1, EraseFirst
<1> HIDE DEF results
<1>7. PICK t \in results : r = t \/ r = [t EXCEPT !.how = "crash"]
  BY <1>2
<1>8. r.pb = t.pb /\ r.disk = t.disk /\ r.how \in {"ok", "throw", "crash"}
  <2>1. t = Result(t.pb, t.disk, t.how) /\ t.how \in {"ok", "throw"}
    BY <1>6 DEF IsResult
  <2>2. CASE r = t
    BY <2>1, <2>2
  <2>3. CASE r = [t EXCEPT !.how = "crash"]
    <3>1. r = [Result(t.pb, t.disk, t.how) EXCEPT !.how = "crash"]
      BY <2>1, <2>3
    <3> QED
      BY <3>1 DEF Result
  <2> QED
    BY <1>7, <2>2, <2>3
<1>9. /\ Call(kind[Dest], dst, disk[Dest], r) /\ StaysNumbered(kind[Dest], dst, r)
      /\ StaysMirror(kind[Dest], dst, disk[Dest], r)
  BY <1>6, <1>8 DEF Call, StaysNumbered, StaysMirror
<1>10. \/ r.how # "crash" /\ pc' = pc /\ pos' \in {pos, pos + 1}
       \/ pc' \in {"close", "end"} /\ pos' = 1
  BY <1>2, <1>8 DEF Fail, Goto, Stay
<1> QED
  BY <1>1, <1>2, <1>9, <1>10, CallStep

\* A loop is done and the next begins.
LEMMA LoopEndsStep ==
  ASSUME IInv, LoopEnds
  PROVE  IInv'
<1>1. pc \in WithBoth /\ UNCHANGED <<bookVars, opt>>
  BY DEF LoopEnds, WithBoth
<1>2. pc' \in {"close", "end"} \cup (WithBoth \ {"update"}) /\ pos' = 1
  BY DEF LoopEnds, Goto, WithBoth
<1> QED
  BY <1>1, <1>2, SkipStep

\* The end of gsmpb: the destructors, and what may happen at any time.
LEMMA ClosingStep ==
  ASSUME IInv, Close \/ Saves \/ End \/ Kill \/ Library
  PROVE  IInv'
<1>1. BooksInv /\ opt \in [sync : BOOLEAN, indexed : BOOLEAN] /\ pos \in Nat \ {0}
  BY DEF IInv, MainInv
<1>2. opt.indexed \in BOOLEAN
  BY <1>1
<1>3. opt' = opt /\ pc' \in {"close", "end", "library"} /\ pos' \in {1, pos}
  BY DEF Close, Saves, End, Kill, Library, mainVars, Goto
<1>4. MainInv'
  BY <1>1, <1>3 DEF MainInv, Labels, WithBoth
<1>5. BooksInv'
  <2>1. CASE Close
    <3>1. PICK b \in Book : Sync(b, TRUE)
      BY <2>1 DEF Close
    <3> QED
      BY <1>1, <1>3, <3>1, SyncKeeps
  <2>2. CASE Saves
    <3>1. PICK b \in Book : SyncStep(b)
      BY <2>2 DEF Saves
    <3> QED
      BY <1>1, <1>3, <3>1, SyncStepKeeps
  <2>3. CASE End
    <3>1. /\ kind' = kind /\ pb' = pb /\ disk' = disk /\ content' = content /\ backup' = backup
          /\ saving' = saving /\ written' = written /\ excused' = excused
      BY <2>3 DEF End, bookVars
    <3> QED
      BY <1>1, <1>3, <3>1 DEF BooksInv, Functions8, At
  <2>4. CASE Kill
    BY <1>1, <1>3, <2>4, KilledKeeps DEF Kill
  <2>5. CASE Library
    BY <1>1, <1>2, <1>3, <2>5, KilledKeeps, UsesKeeps, BookFacts DEF Library
  <2> QED
    BY <2>1, <2>2, <2>3, <2>4, <2>5
<1> QED
  BY <1>4, <1>5 DEF IInv

\* Every step of gsmpb, of its library and of the storage keeps the invariant.
LEMMA Inductive ==
  ASSUME IInv, [GsmpbNext]_vars
  PROVE  IInv'
<1>1. CASE UNCHANGED vars
  BY <1>1 DEF IInv, BooksInv, MainInv, Functions8, At, vars, bookVars, mainVars, Idle, Unopened,
              src, dst
<1>2. CASE GsmpbNext
  BY <1>2, OpenSourceStep, OpenDestStep, SortBothStep, UpdateEntriesStep, UpdateEntriesIndexedStep,
     DeleteNotPresentStep, InsertNotPresentStep, ClearStep, CopyStep, LoopEndsStep, ClosingStep
     DEF GsmpbNext
<1> QED
  BY <1>1, <1>2

\* Every state of a run of gsmpb satisfies the invariant IInv: of each phonebook its
\* parts Typed, Backed, Saving, Saved, Ordered and Mirrored1, of the program MainInv.
THEOREM Invariance == GsmpbSpec => []IInv
  BY Initially, Inductive, PTL DEF GsmpbSpec
-----------------------------------------------------------------------------
(* The theorems. *)

\* A bijection from a finite set.
LEMMA SameSize ==
  ASSUME NEW S, IsFiniteSet(S), NEW T, NEW f \in [S -> T],
         \A a, b \in S : f[a] = f[b] => a = b,
         \A t \in T : \E s \in S : f[s] = t
  PROVE  IsFiniteSet(T) /\ Cardinality(T) = Cardinality(S)
<1>1. f \in Bijection(S, T)
  BY Fun_IsBij
<1>2. ExistsBijection(S, T)
  BY <1>1 DEF ExistsBijection
<1> QED
  BY <1>2, FS_Bijection

\* Sequences that are each other's permutation have every line equally often.
LEMMA BijectiveLines ==
  ASSUME NEW n \in Nat, NEW s, NEW t, Len(s) = n, Len(t) = n, DOMAIN s = 1..n, DOMAIN t = 1..n,
         NEW f, Bijective(f, n), \A j \in 1..n : s[j] = t[f[j]]
  PROVE  SameLines(s, t)
<1> SUFFICES ASSUME NEW x PROVE Occurrences(s, x) = Occurrences(t, x)
  BY DEF SameLines
<1> DEFINE S == {k \in 1..n : s[k] = x}
           T == {k \in 1..n : t[k] = x}
           g == [k \in S |-> f[k]]
<1>1. /\ \A k \in 1..n : f[k] \in 1..n
      /\ \A j, k \in 1..n : f[j] = f[k] => j = k
      /\ \A m \in 1..n : \E k \in 1..n : f[k] = m
  BY DEF Bijective
<1>2. IsFiniteSet(S)
  <2>1. S \subseteq 1..n /\ IsFiniteSet(1..n)
    BY FS_Interval
  <2> QED
    BY <2>1, FS_Subset
<1>3. g \in [S -> T]
  BY <1>1
<1>4. ASSUME NEW a \in S, NEW b \in S, g[a] = g[b] PROVE a = b
  <2>1. a \in 1..n /\ b \in 1..n /\ g[a] = f[a] /\ g[b] = f[b]
    OBVIOUS
  <2>2. f[a] = f[b]
    BY <1>4, <2>1
  <2> HIDE DEF g, S
  <2> QED
    BY <1>1, <2>1, <2>2
<1>5. ASSUME NEW m \in T PROVE \E k \in S : g[k] = m
  <2>1. PICK k \in 1..n : f[k] = m
    BY <1>1
  <2>2. k \in S
    BY <2>1
  <2>3. g[k] = m
    BY <2>1, <2>2
  <2> QED
    BY <2>2, <2>3
<1> HIDE DEF g, S, T
<1>6. Cardinality(T) = Cardinality(S)
  BY <1>2, <1>3, <1>4, <1>5, SameSize
<1>7. Occurrences(s, x) = Cardinality(S) /\ Occurrences(t, x) = Cardinality(T)
  BY DEF Occurrences, S, T
<1> QED
  BY <1>6, <1>7

\* A file that has the entries of the phonebook has its lines.
LEMMA HasLinesSame ==
  ASSUME NEW p, Shape(p), NEW d, HasLines(p, d)
  PROVE  SameLines(Lines(p), d)
<1> DEFINE n == Len(p.items)
           L == Lines(p)
<1>1. n \in Nat /\ DOMAIN p.items = 1..n /\ \A j \in 1..n : p.items[j].e \in EntryType
  BY ShapeFacts
<1>2. d \in Seq(LineType) /\ Len(d) = n
  BY DEF HasLines
<1>3. PICK f : Bijective(f, n) /\ \A j \in 1..n : LineOf(p, p.items[j].e) = d[f[j]]
  BY DEF HasLines
<1>4. L = [j \in 1..n |-> LineOf(p, p.items[j].e)]
  BY <1>1 DEF Lines
<1>5. DOMAIN L = 1..n /\ \A j \in 1..n : L[j] = LineOf(p, p.items[j].e)
  BY <1>4
<1>6. L \in Seq(LineType) /\ Len(L) = n
  <2>1. \A j \in 1..n : LineOf(p, p.items[j].e) \in LineType
    BY <1>1, LineOfType
  <2> QED
    BY <1>1, <1>4, <2>1
<1>7. DOMAIN d = 1..n
  BY <1>2
<1> HIDE DEF L, n
<1>8. \A j \in 1..n : L[j] = d[f[j]]
  BY <1>3, <1>5
<1> QED
  BY <1>1, <1>2, <1>3, <1>5, <1>6, <1>7, <1>8, BijectiveLines DEF L

\* The mirror in the words of the property.
LEMMA MirrorsFacts ==
  ASSUME NEW p, Shape(p), NEW ME \in METype, Mirrors(p.items, ME, 1..Slots)
  PROVE  /\ {<<e.index, e.text, e.tel>> : e \in ItemsOf(p)}
              = {<<i, ME[i].text, ME[i].tel>> : i \in Used(ME)}
         /\ Len(p.items) = Cardinality(Used(ME))
<1> DEFINE n == Len(p.items)
           s == p.items
           ix == [k \in 1..n |-> s[k].e.index]
<1>1. /\ n \in Nat /\ ItemsOf(p) = {s[k].e : k \in 1..n}
      /\ \A k \in 1..n : s[k].e \in EntryType
  BY ShapeFacts
<1>2. /\ \A j, k \in 1..n : j # k => s[j].e.index # s[k].e.index
      /\ \A k \in 1..n : /\ s[k].e.index \in 1..Slots
                         /\ ME[s[k].e.index] = SlotOf(s[k].e)
                         /\ ME[s[k].e.index] # Blank
      /\ \A i \in 1..Slots : ME[i] # Blank => \E k \in 1..n : s[k].e.index = i
  BY DEF Mirrors, Distinct
<1>3. Used(ME) = {i \in 1..Slots : ME[i] # Blank}
  BY DEF Used, METype
<1>4. \A e : e \in ItemsOf(p) <=> \E k \in 1..n : e = s[k].e
  BY <1>1
<1>5. ASSUME NEW k \in 1..n
      PROVE  /\ s[k].e.index \in Used(ME)
             /\ ME[s[k].e.index].text = s[k].e.text /\ ME[s[k].e.index].tel = s[k].e.tel
  <2> DEFINE e == s[k].e
  <2>1. e.index \in 1..Slots /\ ME[e.index] = SlotOf(e) /\ ME[e.index] # Blank
    BY <1>2
  <2> HIDE DEF e
  <2>2. e.index \in Used(ME)
    BY <1>3, <2>1
  <2>3. SlotOf(e).text = e.text /\ SlotOf(e).tel = e.tel
    BY DEF SlotOf
  <2>4. ME[e.index].text = e.text /\ ME[e.index].tel = e.tel
    BY <2>1, <2>3
  <2> QED
    BY <2>2, <2>4 DEF e
<1>6. ASSUME NEW i \in Used(ME) PROVE \E k \in 1..n : s[k].e.index = i
  BY <1>2, <1>3
<1>7. {<<e.index, e.text, e.tel>> : e \in ItemsOf(p)}
        = {<<i, ME[i].text, ME[i].tel>> : i \in Used(ME)}
  <2>1. ASSUME NEW e \in ItemsOf(p)
        PROVE  \E i \in Used(ME) : <<e.index, e.text, e.tel>> = <<i, ME[i].text, ME[i].tel>>
    <3>1. PICK k \in 1..n : e = s[k].e
      BY <1>4
    <3> QED
      BY <1>5, <3>1
  <2>2. ASSUME NEW i \in Used(ME)
        PROVE  \E e \in ItemsOf(p) : <<e.index, e.text, e.tel>> = <<i, ME[i].text, ME[i].tel>>
    <3>1. PICK k \in 1..n : s[k].e.index = i
      BY <1>6
    <3>2. s[k].e \in ItemsOf(p)
      BY <1>4
    <3> QED
      BY <1>5, <3>1, <3>2
  <2> QED
    BY <2>1, <2>2
<1>8. \A k \in 1..n : ix[k] = s[k].e.index
  OBVIOUS
<1>9. ix \in [1..n -> Used(ME)]
  BY <1>5
<1> HIDE DEF ix
<1>10. \A a, b \in 1..n : ix[a] = ix[b] => a = b
  BY <1>2, <1>8
<1>11. \A i \in Used(ME) : \E k \in 1..n : ix[k] = i
  BY <1>6, <1>8
<1>12. n \in Nat
  BY <1>1
<1> DEFINE S == 1..n
<1>13. /\ ix \in [S -> Used(ME)] /\ \A a, b \in S : ix[a] = ix[b] => a = b
       /\ \A i \in Used(ME) : \E k \in S : ix[k] = i
  BY <1>9, <1>10, <1>11
<1> HIDE DEF n
<1>14. IsFiniteSet(S) /\ Cardinality(S) = n
  BY <1>12, FS_Interval
<1> HIDE DEF S
<1>15. Cardinality(Used(ME)) = n
  BY <1>13, <1>14, SameSize
<1> QED
  BY <1>7, <1>15 DEF n

\* At every moment of sync(), and wherever the process is killed, the file of a
\* phonebook or its backup is complete: what was read or what was written, for any
\* contents, numbers of slots, bounds and faults (SortedPhonebook::sync()).
THEOREM FileOrBackup == GsmpbSpec => []ContentSafe
<1>1. IInv => ContentSafe
  BY DEF IInv, BooksInv, At, Inv1, Backed, Intact, ContentSafe
<1> QED
  BY <1>1, Invariance, PTL

\* With --index, a file that gsmpb wrote has no index twice and none below 0, so
\* readPhonebookFile() will read it again; a file in which erase(key) left entries
\* that it freed is left out, as in IndexedRereadable.
THEOREM WrittenCanBeRead == GsmpbSpec => []IndexedRereadable
<1>1. ASSUME IInv PROVE IndexedRereadable
  <2> SUFFICES ASSUME opt.indexed, NEW b \in Book, kind[b] = "file", content[b] = "written"
               PROVE  \A j, k \in DOMAIN disk[b] :
                        disk[b][k].index >= 0 /\ (j # k => disk[b][j].index # disk[b][k].index)
    BY DEF IndexedRereadable, Rereadable
  <2>1. UniqueIndices(disk[b])
    BY <1>1 DEF IInv, BooksInv, At, Inv1, Ordered
  <2>2. DOMAIN disk[b] = 1..Len(disk[b])
    BY <2>1 DEF UniqueIndices
  <2> QED
    BY <2>1, <2>2 DEF UniqueIndices
<1> QED
  BY <1>1, Invariance, PTL

\* A phonebook of a file whose flags say that it is not changed has the entries of
\* the file: sync() and the destructor may skip it.  Two cases are left out, by
\* CleanMeansSaved itself: a file whose open() failed unnoticed, and an erase() of a
\* telephone number whose == and < disagree (Address, "+12", "12" and "+120").
THEOREM CleanIsSaved == GsmpbSpec => []CleanMeansSaved
<1>1. ASSUME IInv PROVE CleanMeansSaved
  <2> SUFFICES ASSUME NEW b \in Book, Idle(b), kind[b] = "file", ~pb[b].changed,
                      \A e \in ItemsOf(pb[b]) : ~e.changed, "unsaved" \notin excused[b]
               PROVE  SameLines(Lines(pb[b]), disk[b])
    BY DEF CleanMeansSaved
  <2>1. Inv1(opt.indexed, kind[b], pb[b], disk[b], content[b], backup[b], saving[b], written[b],
             excused[b])
    BY <1>1 DEF IInv, BooksInv, At
  <2>2. Shape(pb[b]) /\ HasLines(pb[b], disk[b])
    BY <2>1 DEF Inv1, Typed, Saved, Idle, Dirty
  <2> QED
    BY <2>2, HasLinesSame
<1> QED
  BY <1>1, Invariance, PTL

\* The entries of the phonebook of a mobile are those of its used slots, whatever
\* calls were made: inserts, changes, erasures of ranges and of keys, in every order
\* of the map. Left out are, by Mirrored itself, an erasure of several entries that
\* failed half-way, and one by a telephone number for which == found other entries
\* than <: "+120" is taken off the map with "+12" and stays in the mobile, "12" next
\* to "+12" is emptied in the mobile and stays in the map. By assumption, blank lines
\* of a file: copied to the mobile, such an entry is in the map and in no used slot.
THEOREM MobileMirrored ==
  ASSUME NoBlankLines
  PROVE  GsmpbSpec => []Mirrored
<1>1. ASSUME IInv PROVE Mirrored
  <2> SUFFICES ASSUME NEW b \in Book, pb[b].open, kind[b] = "ME", excused[b] = {}
               PROVE  /\ {<<e.index, e.text, e.tel>> : e \in ItemsOf(pb[b])}
                           = {<<i, disk[b][i].text, disk[b][i].tel>> : i \in Used(disk[b])}
                      /\ Len(pb[b].items) = Cardinality(Used(disk[b]))
    BY DEF Mirrored
  <2>1. Inv1(opt.indexed, kind[b], pb[b], disk[b], content[b], backup[b], saving[b], written[b],
             excused[b])
    BY <1>1 DEF IInv, BooksInv, At
  <2>2. Shape(pb[b]) /\ disk[b] \in METype /\ Mirrors(pb[b].items, disk[b], 1..Slots)
    BY <2>1 DEF Inv1, Typed, Mirrored1
  <2> QED
    BY <2>2, MirrorsFacts
<1> QED
  BY <1>1, Invariance, PTL

-----------------------------------------------------------------------------
(* What gsmpb is asked for: what counts of an entry, and what is stored. *)

\* What of an entry the options make gsmpb compare: the entries of a copy are the
\* texts and numbers, those of a synchronization the names, or everything.
MarkOf(o, e) ==
  IF ~o.sync THEN <<e.text, e.tel>>
  ELSE IF o.indexed THEN <<e.index, e.text, e.tel>> ELSE <<Lower[e.text], e.tel>>
MarksOf(o, S) == {MarkOf(o, e) : e \in S}

StoredOf(k, d) ==
  IF k = "ME" THEN {Entry(i, d[i].text, d[i].tel, FALSE) : i \in Used(d)}
  ELSE {d[j] : j \in DOMAIN d}

\* The lines d are the entries of p, in any order.
LinesOf(p, d) ==
  /\ d \in Seq(LineType)
  /\ \A j \in 1..Len(p.items) : \E i \in 1..Len(d) : d[i] = LineOf(p, p.items[j].e)
  /\ \A i \in 1..Len(d) : \E j \in 1..Len(p.items) : d[i] = LineOf(p, p.items[j].e)

\* A file that has the entries, or all of whose lines were written, consists of them.
LEMMA LinesFacts ==
  ASSUME NEW p, NEW d, HasLines(p, d) \/ WrittenLines(p, d, Len(p.items))
  PROVE  LinesOf(p, d)
<1>1. CASE HasLines(p, d)
  <2> DEFINE n == Len(p.items)
  <2>1. d \in Seq(LineType) /\ Len(d) = n
    BY <1>1 DEF HasLines
  <2>2. PICK f : Bijective(f, n) /\ \A j \in 1..n : LineOf(p, p.items[j].e) = d[f[j]]
    BY <1>1 DEF HasLines
  <2> HIDE DEF n
  <2>3. /\ \A j \in 1..n : f[j] \in 1..n
        /\ \A i \in 1..n : \E j \in 1..n : f[j] = i
    BY <2>2 DEF Bijective
  <2>4. ASSUME NEW j \in 1..n PROVE \E i \in 1..n : d[i] = LineOf(p, p.items[j].e)
    BY <2>2, <2>3
  <2>5. ASSUME NEW i \in 1..n PROVE \E j \in 1..n : d[i] = LineOf(p, p.items[j].e)
    <3>1. PICK j \in 1..n : f[j] = i
      BY <2>3
    <3> QED
      BY <2>2, <3>1
  <2> QED
    BY <2>1, <2>4, <2>5 DEF LinesOf, n
<1>2. CASE WrittenLines(p, d, Len(p.items))
  BY <1>2 DEF WrittenLines, LinesOf
<1> QED
  BY <1>1, <1>2

\* A line shows of its entry what counts.
LEMMA LineMark ==
  ASSUME NEW o, NEW p, o.sync /\ o.indexed => p.useIndices, NEW e
  PROVE  MarkOf(o, LineOf(p, e)) = MarkOf(o, e)
<1>1. /\ LineOf(p, e).text = e.text /\ LineOf(p, e).tel = e.tel
      /\ p.useIndices => LineOf(p, e).index = e.index
  BY DEF LineOf
<1> QED
  BY <1>1 DEF MarkOf

\* What is stored of a phonebook is, as far as it counts, what is in its map.
LEMMA StoredMarks ==
  ASSUME NEW o, NEW k, NEW p, Shape(p), NEW d,
         \/ k = "ME" /\ d \in METype /\ Mirrors(p.items, d, 1..Slots)
         \/ k # "ME" /\ LinesOf(p, d) /\ (o.sync /\ o.indexed => p.useIndices)
  PROVE  MarksOf(o, StoredOf(k, d)) = MarksOf(o, ItemsOf(p))
<1>1. ItemsOf(p) = {p.items[j].e : j \in 1..Len(p.items)}
  BY ShapeFacts
<1> DEFINE E == ItemsOf(p)
           S == StoredOf(k, d)
<1>2. CASE k = "ME" /\ d \in METype /\ Mirrors(p.items, d, 1..Slots)
  <2>1. {<<e.index, e.text, e.tel>> : e \in E} = {<<i, d[i].text, d[i].tel>> : i \in Used(d)}
    BY <1>2, MirrorsFacts
  <2>2. S = {Entry(i, d[i].text, d[i].tel, FALSE) : i \in Used(d)}
    BY <1>2 DEF StoredOf
  <2> HIDE DEF E, S
  <2>3. ASSUME NEW e \in E
        PROVE  \E f \in S : f.index = e.index /\ f.text = e.text /\ f.tel = e.tel
    <3>1. PICK i \in Used(d) : <<e.index, e.text, e.tel>> = <<i, d[i].text, d[i].tel>>
      BY <2>1
    <3>2. Entry(i, d[i].text, d[i].tel, FALSE) \in S
      BY <2>2
    <3> QED
      BY <3>1, <3>2 DEF Entry
  <2>4. ASSUME NEW f \in S
        PROVE  \E e \in E : f.index = e.index /\ f.text = e.text /\ f.tel = e.tel
    <3>1. PICK i \in Used(d) : f = Entry(i, d[i].text, d[i].tel, FALSE)
      BY <2>2
    <3>2. PICK e \in E : <<e.index, e.text, e.tel>> = <<i, d[i].text, d[i].tel>>
      BY <2>1
    <3> QED
      BY <3>1, <3>2 DEF Entry
  <2>5. \A e, f : f.index = e.index /\ f.text = e.text /\ f.tel = e.tel => MarkOf(o, f) = MarkOf(o, e)
    BY DEF MarkOf
  <2>6. \A e \in E : \E f \in S : MarkOf(o, f) = MarkOf(o, e)
    BY <2>3, <2>5
  <2>7. \A f \in S : \E e \in E : MarkOf(o, f) = MarkOf(o, e)
    BY <2>4, <2>5
  <2>8. MarksOf(o, S) = MarksOf(o, E)
    BY <2>6, <2>7 DEF MarksOf
  <2> QED
    BY <2>8 DEF E, S
<1>3. CASE k # "ME" /\ LinesOf(p, d) /\ (o.sync /\ o.indexed => p.useIndices)
  <2>1. d \in Seq(LineType)
    BY <1>3 DEF LinesOf
  <2>2. DOMAIN d = 1..Len(d)
    BY <2>1
  <2>3. S = {d[i] : i \in 1..Len(d)}
    BY <1>3, <2>2 DEF StoredOf
  <2> HIDE DEF E, S
  <2>4. ASSUME NEW e \in E PROVE \E f \in S : MarkOf(o, f) = MarkOf(o, e)
    <3>1. PICK j \in 1..Len(p.items) : e = p.items[j].e
      BY <1>1 DEF E
    <3>2. PICK i \in 1..Len(d) : d[i] = LineOf(p, e)
      BY <1>3, <3>1 DEF LinesOf
    <3> QED
      BY <1>3, <2>3, <3>2, LineMark
  <2>5. ASSUME NEW f \in S PROVE \E e \in E : MarkOf(o, f) = MarkOf(o, e)
    <3>1. PICK i \in 1..Len(d) : f = d[i]
      BY <2>3
    <3>2. PICK j \in 1..Len(p.items) : d[i] = LineOf(p, p.items[j].e)
      BY <1>3 DEF LinesOf
    <3>3. p.items[j].e \in E
      BY <1>1 DEF E
    <3> QED
      BY <1>3, <3>1, <3>2, <3>3, LineMark
  <2>6. MarksOf(o, S) = MarksOf(o, E)
    BY <2>4, <2>5 DEF MarksOf
  <2> QED
    BY <2>6 DEF E, S
<1> QED
  BY <1>2, <1>3

\* Every entry of s before place n has its like among those of t.
Within(o, s, n, t) ==
  \A k \in 1..Len(s) : k < n => \E j \in 1..Len(t) : MarkOf(o, t[j].e) = MarkOf(o, s[k].e)
\* An entry of t with the index of an entry of s before place n is the same.
Agree(s, n, t) ==
  \A k \in 1..Len(s) : k < n =>
    \A j \in 1..Len(t) : t[j].e.index = s[k].e.index => Same(t[j].e, s[k].e)

SortKey(o) == IF o.indexed THEN "ByIndex" ELSE "ByText"
KeysRight(p, order) ==
  /\ p.order = order
  /\ \A k \in 1..Len(p.items) : p.items[k].key[1] = KeyOf(order, p.items[k].e)[1]

\* The loop called label is at the place n of q, the source, or p, the destination.
Loop(o, label, n, q, p) ==
  /\ label \in {"sort", "update", "delete", "insert"} => o.sync
  /\ label \in {"clear", "copy"} => ~o.sync
  /\ label = "sort" => q.order = "ByIndex" /\ p.order = "ByIndex"
  /\ label \in {"update", "delete", "insert"} => KeysRight(q, SortKey(o)) /\ KeysRight(p, SortKey(o))
  /\ label = "update" /\ o.indexed => Agree(q.items, n, p.items)
  /\ label = "delete" /\ o.indexed => Agree(q.items, Len(q.items) + 1, p.items)
  /\ label = "delete" => Within(o, p.items, n, q.items)
  /\ label \in {"insert", "copy"} => /\ Within(o, p.items, Len(p.items) + 1, q.items)
                                     /\ Within(o, q.items, n, p.items)

\* The keys of a mobile's entries are uninitialised: nothing is said of it then.
ByIndexOnME == opt.sync /\ opt.indexed /\ "ME" \in {kind[Source], kind[Dest]}
Right(S)    == ByIndexOnME \/ MarksOf(opt, S) = MarksOf(opt, wanted)

\* The destination until it is closed, as no operation of the loops disturbs it.
DestInv ==
  /\ kind[Dest] \in Kinds \ {"stdin"} /\ (kind[Dest] = "ME" => excused[Dest] = {})
  /\ dst.open => /\ content[Dest] # "written" /\ saving[Source] = "no"
                 /\ saving[Dest] # "no" => dst.closing
  /\ kind[Dest] = "stdout" /\ dst.open /\ saving[Dest] = "no" /\ ~Dirty(dst)
       => HasLines(dst, disk[Dest])
\* The loops, and what they have made of the destination.
LoopsInv ==
  /\ pc \in {"dest"} \cup WithBoth => wanted = ItemsOf(src)
  /\ pc = "dest" => src.order = "ByIndex"
  /\ pc \in WithBoth /\ ~ByIndexOnME => Loop(opt, pc, pos, src, dst)
DoneInv ==
  /\ pc \in {"close", "end"} =>
       /\ dst.open => Right(ItemsOf(dst))
       /\ ~dst.open /\ "unsaved" \notin excused[Dest] => Right(StoredOf(kind[Dest], disk[Dest]))
  /\ pc = "end" => ~dst.open
ResultInv == outcome = "ok" /\ pc # "library" => DestInv /\ LoopsInv /\ DoneInv
-----------------------------------------------------------------------------
(* What the operations on the destination make of its entries. *)

\* The entries of q are those of p and e.
Adds(p, q, e) ==
  /\ \A j \in 1..Len(p.items) : \E m \in 1..Len(q.items) : q.items[m].e = p.items[j].e
  /\ \E m \in 1..Len(q.items) : q.items[m].e = e
  /\ \A m \in 1..Len(q.items) : q.items[m].e = e \/ \E j \in 1..Len(p.items) : q.items[m].e = p.items[j].e
  /\ \A order : KeysRight(p, order) => KeysRight(q, order)

\* The entry that an insert of x made: an index is kept by a file only.
MadeOf(k, x, e) ==
  e.text = x.text /\ e.tel = x.tel /\ (k # "ME" /\ x.index # NoIndex => e.index = x.index)

\* setSortOrder() to another order makes all keys anew.
LEMMA SortKeys ==
  ASSUME NEW p, Shape(p), NEW order \in Orders, NEW q, q = SetSortOrder(p, order)
  PROVE  /\ order # p.order => KeysRight(q, order)
         /\ order = p.order => q = p
<1>1. /\ q.order = order /\ (order # p.order => Keyed(q.items, order))
      /\ order = p.order => q = p
  BY SortFacts DEF Shape
<1> QED
  BY <1>1 DEF KeysRight, Keyed

\* An entry put into the map of p, or of s, which has the entries of p.
LEMMA PutAdds ==
  ASSUME NEW p, Len(p.items) \in Nat, NEW s, Shape(s), s.order = p.order,
         \A k \in 1..Len(s.items) : \E j \in 1..Len(p.items) : s.items[k].e = p.items[j].e,
         \A j \in 1..Len(p.items) : \E k \in 1..Len(s.items) : s.items[k].e = p.items[j].e,
         \A order : KeysRight(p, order) => KeysRight(s, order),
         NEW e \in EntryType, NEW q, EntryPut(s, e, q),
         NEW u, u.items = q.items, u.order = q.order
  PROVE  Adds(p, u, e)
<1> DEFINE it == Item(s.order, e)
<1>1. Len(s.items) \in Nat /\ s.order \in Orders
  BY ShapeFacts DEF Shape, BookType
<1>2. it.e = e /\ it.key = KeyOf(s.order, e)
  BY <1>1, KeyFacts
<1> HIDE DEF it
<1>3. PICK n \in 1..(Len(s.items) + 1) : Inserted(s.items, q.items, n, it)
  BY DEF EntryPut, it
<1>4. /\ Len(u.items) = Len(s.items) + 1 /\ u.order = s.order
      /\ \A k \in 1..Len(u.items) :
           u.items[k] = IF k < n THEN s.items[k] ELSE IF k = n THEN it ELSE s.items[k - 1]
  BY <1>3 DEF Inserted, EntryPut
<1>5. ASSUME NEW m \in 1..Len(u.items)
      PROVE  u.items[m] = it \/ \E k \in 1..Len(s.items) : u.items[m] = s.items[k]
  <2>1. CASE m < n
    <3>1. m \in 1..Len(s.items) /\ u.items[m] = s.items[m]
      BY <1>1, <1>3, <1>4, <2>1
    <3> QED
      BY <3>1
  <2>2. CASE m = n
    BY <1>4, <2>2
  <2>3. CASE n < m
    <3>1. m - 1 \in 1..Len(s.items) /\ u.items[m] = s.items[m - 1]
      BY <1>1, <1>3, <1>4, <2>3
    <3> QED
      BY <3>1
  <2>4. m < n \/ m = n \/ n < m
    <3>1. n \in Int /\ m \in Int
      BY <1>1, <1>4
    <3> QED
      BY <3>1
  <2> QED
    BY <2>1, <2>2, <2>3, <2>4, Zenon
<1>6. n \in 1..Len(u.items) /\ u.items[n] = it
  BY <1>1, <1>3, <1>4
<1>7. ASSUME NEW k \in 1..Len(s.items) PROVE \E m \in 1..Len(u.items) : u.items[m] = s.items[k]
  <2>1. CASE k < n
    <3>1. k \in 1..Len(u.items) /\ u.items[k] = s.items[k]
      BY <1>1, <1>4, <2>1
    <3> QED
      BY <3>1
  <2>2. CASE ~(k < n)
    <3>1. k + 1 \in 1..Len(u.items) /\ ~(k + 1 < n) /\ k + 1 # n /\ (k + 1) - 1 = k
      BY <1>1, <1>3, <1>4, <2>2
    <3>2. u.items[k + 1] = s.items[(k + 1) - 1]
      BY <1>4, <3>1
    <3> QED
      BY <3>1, <3>2
  <2> QED
    BY <2>1, <2>2
<1>8. ASSUME NEW j \in 1..Len(p.items) PROVE \E m \in 1..Len(u.items) : u.items[m].e = p.items[j].e
  <2>1. PICK k \in 1..Len(s.items) : s.items[k].e = p.items[j].e
    OBVIOUS
  <2>2. PICK m \in 1..Len(u.items) : u.items[m] = s.items[k]
    BY <1>7
  <2> QED
    BY <2>1, <2>2
<1>9. ASSUME NEW m \in 1..Len(u.items)
      PROVE  u.items[m].e = e \/ \E j \in 1..Len(p.items) : u.items[m].e = p.items[j].e
  BY <1>2, <1>5
<1>10. ASSUME NEW order, KeysRight(p, order) PROVE KeysRight(u, order)
  <2>1. KeysRight(s, order)
    BY <1>10
  <2>2. s.order = order /\ \A k \in 1..Len(s.items) : s.items[k].key[1] = KeyOf(order, s.items[k].e)[1]
    BY <2>1 DEF KeysRight
  <2>3. it.key[1] = KeyOf(order, it.e)[1]
    BY <1>2, <2>2
  <2> QED
    BY <1>4, <1>5, <2>2, <2>3 DEF KeysRight
<1> QED
  BY <1>2, <1>6, <1>8, <1>9, <1>10 DEF Adds

\* insert() into a phonebook of a file that succeeds.
LEMMA FileAdds ==
  ASSUME NEW p, Shape(p), NEW x, EntryLike(x), NEW garbage \in Int, NEW storage,
         NEW r, r = InsertIntoFile(p, storage, x, garbage), r.how = "ok"
  PROVE  \E e : Adds(p, r.pb, e) /\ MadeOf("file", x, e)
<1> DEFINE q == [p EXCEPT !.changed = TRUE]
           s == IF p.useIndices /\ x.index = NoIndex
                THEN SetSortOrder(SetSortOrder(q, "ByIndex"), p.order) ELSE q
           i == IF x.index # NoIndex THEN x.index ELSE IF p.useIndices THEN FreeIndex(p) ELSE garbage
           e == Entry(i, x.text, x.tel, TRUE)
           t == [s EXCEPT !.items = Put(@, Item(p.order, e))]
<1>1. r = IF Taken(p, x) THEN Result(q, storage, "throw") ELSE Result(t, storage, "ok")
  BY Zenon DEF InsertIntoFile
<1>2. Shape(q) /\ q.items = p.items /\ q.order = p.order
  BY ChangedFacts
<1> HIDE DEF q
<1>3. p.order \in Orders /\ "ByIndex" \in Orders
  BY DEF Shape, BookType, Orders
<1>4. /\ Shape(s) /\ s.order = p.order
      /\ \A k \in 1..Len(s.items) : \E j \in 1..Len(p.items) : s.items[k].e = p.items[j].e
      /\ \A j \in 1..Len(p.items) : \E k \in 1..Len(s.items) : s.items[k].e = p.items[j].e
      /\ \A order : KeysRight(p, order) => KeysRight(s, order)
  <2>1. CASE p.useIndices /\ x.index = NoIndex
    <3> DEFINE u == SetSortOrder(q, "ByIndex")
               v == SetSortOrder(u, p.order)
    <3>1. /\ Shape(u) /\ Len(u.items) = Len(q.items) /\ u.order = "ByIndex"
          /\ \A k \in 1..Len(q.items) : \E j \in 1..Len(q.items) : u.items[k].e = q.items[j].e
          /\ \A j \in 1..Len(q.items) : \E k \in 1..Len(q.items) : u.items[k].e = q.items[j].e
      BY <1>2, <1>3, SortEntries
    <3>2. p.order = "ByIndex" => u = q
      BY <1>2, <1>3, SortKeys
    <3> HIDE DEF u
    <3>3. /\ Shape(v) /\ v.order = p.order /\ Len(v.items) = Len(u.items)
          /\ \A k \in 1..Len(u.items) : \E j \in 1..Len(u.items) : v.items[k].e = u.items[j].e
          /\ \A j \in 1..Len(u.items) : \E k \in 1..Len(u.items) : v.items[k].e = u.items[j].e
      BY <1>3, <3>1, SortEntries
    <3>4. /\ p.order # "ByIndex" => KeysRight(v, p.order)
          /\ p.order = "ByIndex" => v = q
      BY <1>3, <3>1, <3>2, SortKeys
    <3>5. s = v
      BY <2>1 DEF u
    <3> HIDE DEF v, s
    <3>6. ASSUME NEW order, KeysRight(p, order) PROVE KeysRight(v, order)
      <4>1. p.order = order
        BY <3>6 DEF KeysRight
      <4>2. KeysRight(q, order)
        BY <1>2, <3>6 DEF KeysRight
      <4> QED
        BY <3>4, <4>1, <4>2
    <3> DEFINE n == Len(p.items)
    <3>7. /\ Len(v.items) = n
          /\ \A k \in 1..n : \E j \in 1..n : u.items[k].e = p.items[j].e
          /\ \A j \in 1..n : \E k \in 1..n : u.items[k].e = p.items[j].e
          /\ \A k \in 1..n : \E j \in 1..n : v.items[k].e = u.items[j].e
          /\ \A j \in 1..n : \E k \in 1..n : v.items[k].e = u.items[j].e
      BY <1>2, <3>1, <3>3
    <3> HIDE DEF n
    <3>8. ASSUME NEW k \in 1..n PROVE \E j \in 1..n : v.items[k].e = p.items[j].e
      <4>1. PICK m \in 1..n : v.items[k].e = u.items[m].e
        BY <3>7
      <4>2. PICK j \in 1..n : u.items[m].e = p.items[j].e
        BY <3>7
      <4> QED
        BY <4>1, <4>2
    <3>9. ASSUME NEW j \in 1..n PROVE \E k \in 1..n : v.items[k].e = p.items[j].e
      <4>1. PICK m \in 1..n : u.items[m].e = p.items[j].e
        BY <3>7
      <4>2. PICK k \in 1..n : v.items[k].e = u.items[m].e
        BY <3>7
      <4> QED
        BY <4>1, <4>2
    <3>10. /\ \A k \in 1..Len(v.items) : \E j \in 1..n : v.items[k].e = p.items[j].e
           /\ \A j \in 1..n : \E k \in 1..Len(v.items) : v.items[k].e = p.items[j].e
      BY <3>7, <3>8, <3>9
    <3>11. Shape(v) /\ v.order = p.order
      BY <3>3
    <3> QED
      BY <3>5, <3>6, <3>10, <3>11, Zenon DEF n
  <2>2. CASE ~(p.useIndices /\ x.index = NoIndex)
    <3>1. s = q
      BY <2>2
    <3> HIDE DEF s
    <3> QED
      BY <1>2, <3>1 DEF KeysRight
  <2> QED
    BY <2>1, <2>2
<1> HIDE DEF s
<1>5. FreeIndex(p) \in Nat
  BY FreeIndexFacts
<1>6. i \in Int /\ (x.index # NoIndex => i = x.index)
  BY <1>5 DEF EntryLike
<1> HIDE DEF i
<1>7. e \in EntryType /\ MadeOf("file", x, e)
  BY <1>6 DEF Entry, EntryType, EntryLike, MadeOf
<1> HIDE DEF e
<1>8. EntryPut(s, e, t)
  <2>1. t = [s EXCEPT !.items = Put(@, Item(s.order, e))]
    BY <1>4
  <2> QED
    BY <1>4, <1>7, <2>1, PutEntry
<1> HIDE DEF t
<1>9. r = Result(t, storage, "ok") /\ r.pb = t
  BY <1>1 DEF Result
<1>10. Len(p.items) \in Nat
  BY ShapeFacts
<1>11. Adds(p, t, e)
  BY <1>4, <1>7, <1>8, <1>10, PutAdds
<1> QED
  BY <1>7, <1>9, <1>11

\* insert() into a mobile that succeeds.
LEMMA MEAdds ==
  ASSUME NEW p, Shape(p), NEW ME \in METype, NEW x, EntryLike(x), NEW useIndex,
         NEW r \in InsertIntoME(p, ME, x, useIndex), r.how = "ok"
  PROVE  \E e : Adds(p, r.pb, e) /\ MadeOf("ME", x, e)
<1> DEFINE slot == SlotFor(ME, x, useIndex)
           e(i) == Entry(i, x.text, x.tel, TRUE)
           crash == Result(p, ME, "crash")
           throw == Result([p EXCEPT !.changed = TRUE], ME, "throw")
           ok(i) == Result([p EXCEPT !.items = Put(@, Item(p.order, e(i))), !.changed = TRUE],
                           [ME EXCEPT ![i] = [text |-> x.text, tel |-> x.tel]], "ok")
<1>1. r = crash \/ r = throw \/ \E i \in slot \ Used(ME) : r = ok(i)
  BY DEF InsertIntoME
<1>2. r # crash /\ r # throw
  BY DEF Result
<1>3. PICK i \in slot \ Used(ME) : r = ok(i)
  BY <1>1, <1>2
<1>4. i \in 1..Slots
  <2>1. DOMAIN ME = 1..Slots
    BY DEF METype
  <2> QED
    BY <1>3, <2>1 DEF SlotFor
<1> DEFINE f == e(i)
           q == [p EXCEPT !.items = Put(@, Item(p.order, f))]
           u == [q EXCEPT !.changed = TRUE]
<1>5. r.pb = u
  BY <1>3 DEF Result
<1>6. f \in EntryType /\ MadeOf("ME", x, f)
  <2>1. Slots \in Nat
    BY SortedPhonebookAssumption, Zenon
  <2> QED
    BY <1>4, <2>1 DEF Entry, EntryType, EntryLike, MadeOf
<1> HIDE DEF slot, f, e
<1>7. EntryPut(p, f, q)
  BY <1>6, PutEntry
<1> HIDE DEF q
<1>8. u.items = q.items /\ u.order = q.order
  BY <1>7, ChangedFacts DEF EntryPut
<1> HIDE DEF u
<1>9. Len(p.items) \in Nat
  BY ShapeFacts
<1>10. Adds(p, u, f)
  BY <1>6, <1>7, <1>8, <1>9, PutAdds
<1> QED
  BY <1>5, <1>6, <1>10

\* insert() of every kind of phonebook that succeeds adds the entry, and no other.
LEMMA InsertAdds ==
  ASSUME NEW k \in AllKinds, NEW p, Shape(p), NEW d, k = "ME" => d \in METype,
         NEW x, EntryLike(x), NEW useIndex, NEW r \in Insert(k, p, d, x, useIndex), r.how = "ok"
  PROVE  \E e : Adds(p, r.pb, e) /\ MadeOf(k, x, e)
<1>1. CASE k = "stdin"
  <2>1. r = Result(p, d, "throw")
    BY <1>1 DEF Insert
  <2> QED
    BY <2>1 DEF Result
<1>2. CASE k = "ME"
  <2>1. r \in InsertIntoME(p, d, x, useIndex)
    BY <1>2 DEF Insert
  <2> QED
    BY <1>2, <2>1, MEAdds
<1>3. CASE k \in {"file", "stdout"}
  <2>1. r \in {InsertIntoFile(p, d, x, g) : g \in Garbage}
    BY <1>3 DEF Insert
  <2>2. PICK g \in Garbage : r = InsertIntoFile(p, d, x, g)
    BY <2>1, Zenon
  <2>3. g \in Int
    BY SortedPhonebookAssumption
  <2>4. PICK e : Adds(p, r.pb, e) /\ MadeOf("file", x, e)
    BY <2>2, <2>3, FileAdds
  <2>5. MadeOf(k, x, e)
    BY <1>3, <2>4 DEF MadeOf
  <2> QED
    BY <2>4, <2>5
<1> QED
  BY <1>1, <1>2, <1>3 DEF AllKinds

\* One item dropped: those before it stay where they are.
LEMMA DropOne ==
  ASSUME NEW s \in Seq(ItemType), NEW m \in 1..Len(s), NEW S, S = {m}, NEW t, t = Drop(s, S)
  PROVE  /\ t \in Seq(ItemType)
         /\ \A j \in 1..Len(t) : \E k \in 1..Len(s) : t[j] = s[k]
         /\ \A j \in 1..Len(t) : j < m => t[j] = s[j]
<1>1. t \in Seq(ItemType) /\ \E g : Selected(s, Len(s), S, t, g)
  BY DropFacts
<1>2. PICK g : Selected(s, Len(s), S, t, g)
  BY <1>1
<1> DEFINE n == Len(s)
           l == Len(t)
<1>3. n \in Nat /\ l \in Nat
  BY <1>1, LenProperties
<1>4. /\ \A j \in 1..l : g[j] \in 1..n
      /\ \A i, j \in 1..l : i < j => g[i] < g[j]
      /\ \A j \in 1..l : t[j] = s[g[j]]
      /\ \A k \in 1..n : k \notin {m} => \E j \in 1..l : g[j] = k
  BY <1>2 DEF Selected
<1> HIDE DEF n, l
<1> DEFINE I == {i \in Nat : \A j \in 1..l : j <= i /\ j < m => g[j] = j}
<1>5. 0 \in I
  OBVIOUS
<1>6. ASSUME NEW i \in Nat, i \in I PROVE i + 1 \in I
  <2> DEFINE h == i + 1
  <2>1. SUFFICES ASSUME h \in 1..l, h < m PROVE g[h] = h
    <3>1. ASSUME NEW j \in 1..l, j <= i + 1, j < m PROVE g[j] = j
      <4>1. CASE j <= i
        BY <1>6, <3>1, <4>1
      <4>2. CASE j = i + 1
        BY <2>1, <3>1, <4>2
      <4> QED
        BY <3>1, <4>1, <4>2
    <3> QED
      BY <3>1
  <2>2. h \in 1..n /\ h \notin {m}
    BY <1>3, <2>1 DEF n
  <2>3. PICK k \in 1..l : g[k] = h
    BY <1>4, <2>2
  <2>4. CASE k < h
    <3>1. g[k] = k
      BY <1>6, <2>1, <2>4
    <3> QED
      BY <2>3, <2>4, <3>1
  <2>5. CASE h < k
    <3>1. g[h] < h /\ g[h] \in 1..n
      BY <1>4, <2>1, <2>3, <2>5
    <3> DEFINE c == g[h]
    <3>2. c \in 1..l /\ c <= i /\ c < m /\ c < h
      BY <1>3, <2>1, <3>1
    <3>3. g[c] = c
      BY <1>6, <3>2
    <3>4. g[c] < g[h]
      BY <1>4, <2>1, <3>2
    <3> QED
      BY <3>1, <3>3, <3>4
  <2> QED
    BY <2>3, <2>4, <2>5
<1> HIDE DEF I
<1>7. ASSUME NEW j \in 1..l, j < m PROVE t[j] = s[j]
  <2>1. j \in Nat
    BY <1>3
  <2>2. j \in I
    BY <1>5, <1>6, <2>1, Keeps!Induction
  <2>3. g[j] = j
    BY <1>7, <2>1, <2>2 DEF I
  <2> QED
    BY <1>4, <2>3
<1>8. \A j \in 1..l : \E k \in 1..n : t[j] = s[k]
  BY <1>4
<1> QED
  BY <1>1, <1>7, <1>8 DEF n, l

\* Another order of the keys does not matter to items that are all from s.
LEMMA PartKeys ==
  ASSUME NEW p, NEW q, q.order = p.order,
         \A j \in 1..Len(q.items) : \E k \in 1..Len(p.items) : q.items[j] = p.items[k],
         NEW order, KeysRight(p, order)
  PROVE  KeysRight(q, order)
  BY DEF KeysRight

\* What an erasure at the place m leaves of s, as t.
DroppedAt(s, m, t) ==
  /\ \A j \in 1..Len(t) : \E i \in 1..Len(s) : t[j] = s[i]
  /\ \A j \in 1..Len(t) : j < m => t[j] = s[j]

\* erase() of one entry that succeeds.
LEMMA EraseDrops ==
  ASSUME NEW k, NEW p, Shape(p), NEW d, NEW m \in 1..Len(p.items), NEW S, S = {m},
         NEW r \in Erase(k, p, d, S, S), r.how = "ok"
  PROVE  r.pb.order = p.order /\ DroppedAt(p.items, m, r.pb.items)
<1> DEFINE u == Flagged(p, S)
           w == Blanked(u, S \ S)
           q == r.pb
           Refused(R) == Result(Blanked(u, R), Emptied(p, d, R), "throw")
<1>u. Shape(u) /\ u.items = p.items /\ u.order = p.order
  BY FlaggedFacts
<1>w. Shape(w) /\ w.items = p.items /\ w.order = p.order
  <2>1. S \ S = {}
    OBVIOUS
  <2> HIDE DEF u
  <2>2. Shape(Blanked(u, {})) /\ Blanked(u, {}).order = u.order
    BY <1>u, BlankedFacts
  <2>3. Blanked(u, {}).items = u.items
    BY <1>u, NoneBlanked
  <2> QED
    BY <1>u, <2>1, <2>2, <2>3
<1>1. IF k # "ME" THEN r = Result(Off(u, S), d, "ok")
      ELSE \/ r = Result(Off(w, S), Emptied(p, d, S), "ok")
           \/ \E n \in S : r = Refused({j \in S : j < n})
  BY Zenon DEF Erase, Flagged, Off
<1> HIDE DEF u, w
<1>2. q = Off(u, S) \/ q = Off(w, S)
  <2>1. \A R : Refused(R).how = "throw"
    BY DEF Result
  <2> HIDE DEF Refused
  <2>2. (\E e : r = Result(Off(u, S), e, "ok")) \/ (\E e : r = Result(Off(w, S), e, "ok"))
    BY <1>1, <2>1
  <2> QED
    BY <2>2 DEF Result
<1>3. q.order = p.order /\ q.items = Drop(p.items, S)
  <2>1. Off(u, S).order = p.order /\ Off(u, S).items = Drop(p.items, S)
    BY <1>u, OffFacts
  <2>2. Off(w, S).order = p.order /\ Off(w, S).items = Drop(p.items, S)
    BY <1>w, OffFacts
  <2> QED
    BY <1>2, <2>1, <2>2
<1> HIDE DEF q
<1>4. p.items \in Seq(ItemType)
  BY ShapeFacts
<1> DEFINE t == Drop(p.items, S)
           s == p.items
<1> HIDE DEF t, s
<1>5. /\ \A j \in 1..Len(t) : \E i \in 1..Len(s) : t[j] = s[i]
      /\ \A j \in 1..Len(t) : j < m => t[j] = s[j]
  <2>1. s \in Seq(ItemType) /\ m \in 1..Len(s) /\ S = {m} /\ t = Drop(s, S)
    BY <1>4 DEF s, t
  <2>2. \A j \in 1..Len(t) : \E i \in 1..Len(s) : t[j] = s[i]
    BY <2>1, DropOne
  <2>3. \A j \in 1..Len(t) : j < m => t[j] = s[j]
    BY <2>1, DropOne
  <2> QED
    BY <2>2, <2>3
<1>6. q.items = t
  BY <1>3 DEF t
<1> QED
  BY <1>3, <1>5, <1>6 DEF s, q, DroppedAt

\* set() of an entry that succeeds.
LEMMA SetReplaces ==
  ASSUME NEW k, NEW p, Shape(p), NEW d, NEW n \in 1..Len(p.items), NEW x, EntryLike(x),
         NEW r \in Set(k, p, d, n, x), r.how = "ok"
  PROVE  /\ r.pb.order = p.order
         /\ \E e : Replaced(p.items, r.pb.items, n, e) /\ MadeOf(k, x, e)
<1> DEFINE i == IF k = "ME" \/ x.index = NoIndex THEN p.items[n].e.index ELSE x.index
           e == Entry(i, x.text, x.tel, TRUE)
           q == [p EXCEPT !.items[n].e = e]
           M == [d EXCEPT ![e.index] = [text |-> x.text, tel |-> x.tel]]
<1>1. IF k # "ME" THEN r = Result(q, d, "ok")
      ELSE r = Result(q, M, "ok") \/ r = Result(p, d, "throw")
  BY Zenon DEF Set
<1> HIDE DEF q, M
<1>2. r.pb = q
  BY <1>1 DEF Result
<1> USE DEF q
<1>3. \A j \in 1..Len(p.items) : p.items[j].e \in EntryType
  BY ShapeFacts
<1>4. i \in Int
  BY <1>3 DEF EntryLike, EntryType
<1>5. k # "ME" /\ x.index # NoIndex => i = x.index
  OBVIOUS
<1> HIDE DEF i
<1>6. e \in EntryType /\ MadeOf(k, x, e)
  BY <1>4, <1>5 DEF Entry, EntryType, EntryLike, MadeOf
<1> HIDE DEF e
<1>7. /\ Shape(q) /\ q.order = p.order /\ SameMembers(p, q)
      /\ Replaced(p.items, q.items, n, e)
  BY <1>6, ReplaceFacts
<1> HIDE DEF q
<1> QED
  BY <1>2, <1>6, <1>7

-----------------------------------------------------------------------------
(* The loops, for the source q and the destination p. *)

\* What is looked at by deleteNotPresent() and insertNotPresent().
Alike(o, d, e) ==
  d.tel = e.tel /\ IF o.indexed THEN d.index = e.index ELSE Lower[d.text] = Lower[e.text]

\* The entry made by an insert has the mark of the one it was made from.
LEMMA MadeMark ==
  ASSUME NEW o, NEW k, NEW x, NEW e, MadeOf(k, x, e),
         o.sync /\ o.indexed => k # "ME" /\ x.index # NoIndex
  PROVE  MarkOf(o, e) = MarkOf(o, x)
  BY DEF MadeOf, MarkOf

\* What an entry that is present is like.
LEMMA PresentFacts ==
  ASSUME NEW o, NEW p, DOMAIN p.items = 1..Len(p.items), KeysRight(p, SortKey(o)), NEW e
  PROVE  Present(EqualRange(p.items, KeyOf(p.order, e)), p.items, e)
           <=> \E j \in 1..Len(p.items) : Alike(o, p.items[j].e, e)
<1> DEFINE R == EqualRange(p.items, KeyOf(p.order, e))
<1>1. /\ p.order = SortKey(o)
      /\ \A j \in 1..Len(p.items) : p.items[j].key[1] = KeyOf(SortKey(o), p.items[j].e)[1]
  BY DEF KeysRight
<1>2. \A j : j \in R <=> j \in 1..Len(p.items) /\ p.items[j].key[1] = KeyOf(SortKey(o), e)[1]
  BY <1>1 DEF EqualRange
<1>3. \A d : KeyOf(SortKey(o), d)[1] = IF o.indexed THEN d.index ELSE Lower[d.text]
  BY DEF KeyOf, SortKey
<1> HIDE DEF R
<1>4. Present(R, p.items, e) <=> \E j \in 1..Len(p.items) : j \in R /\ p.items[j].e.tel = e.tel
  BY <1>2 DEF Present
<1>5. ASSUME NEW j \in 1..Len(p.items)
      PROVE  j \in R /\ p.items[j].e.tel = e.tel <=> Alike(o, p.items[j].e, e)
  BY <1>1, <1>2, <1>3 DEF Alike
<1> QED
  BY <1>4, <1>5 DEF R

\* An entry of the source is inserted.
LEMMA LoopInserts ==
  ASSUME NEW o, NEW label \in {"insert", "copy"}, NEW q, Len(q.items) \in Nat, NEW n \in 1..Len(q.items),
         NEW p, Len(p.items) \in Nat, Loop(o, label, n, q, p),
         NEW r, Len(r.items) \in Nat, NEW e, Adds(p, r, e), MarkOf(o, e) = MarkOf(o, q.items[n].e)
  PROVE  Loop(o, label, n + 1, q, r)
<1>1. Within(o, p.items, Len(p.items) + 1, q.items) /\ Within(o, q.items, n, p.items)
  BY DEF Loop
<1>2. ASSUME NEW m \in 1..Len(r.items)
      PROVE  \E j \in 1..Len(q.items) : MarkOf(o, q.items[j].e) = MarkOf(o, r.items[m].e)
  <2>1. CASE r.items[m].e = e
    BY <2>1
  <2>2. CASE \E j \in 1..Len(p.items) : r.items[m].e = p.items[j].e
    <3>1. PICK j \in 1..Len(p.items) : r.items[m].e = p.items[j].e
      BY <2>2
    <3>2. j < Len(p.items) + 1
      OBVIOUS
    <3>3. \E i \in 1..Len(q.items) : MarkOf(o, q.items[i].e) = MarkOf(o, p.items[j].e)
      BY <1>1, <3>2 DEF Within
    <3> QED
      BY <3>1, <3>3
  <2> QED
    BY <2>1, <2>2 DEF Adds
<1>3. ASSUME NEW k \in 1..Len(q.items), k < n + 1
      PROVE  \E m \in 1..Len(r.items) : MarkOf(o, r.items[m].e) = MarkOf(o, q.items[k].e)
  <2>1. CASE k < n
    <3>1. PICK j \in 1..Len(p.items) : MarkOf(o, p.items[j].e) = MarkOf(o, q.items[k].e)
      BY <1>1, <2>1 DEF Within
    <3>2. PICK m \in 1..Len(r.items) : r.items[m].e = p.items[j].e
      BY DEF Adds
    <3> QED
      BY <3>1, <3>2
  <2>2. CASE k = n
    <3>1. PICK m \in 1..Len(r.items) : r.items[m].e = e
      BY DEF Adds
    <3> QED
      BY <2>2, <3>1
  <2> QED
    BY <1>3, <2>1, <2>2
<1>4. Within(o, r.items, Len(r.items) + 1, q.items)
  BY <1>2 DEF Within
<1>5. Within(o, q.items, n + 1, r.items)
  BY <1>3 DEF Within
<1>6. \A order : KeysRight(p, order) => KeysRight(r, order)
  BY DEF Adds
<1> QED
  BY <1>4, <1>5, <1>6 DEF Loop

\* An entry of the source is found in the destination.
LEMMA LoopFinds ==
  ASSUME NEW o, NEW q, Len(q.items) \in Nat, NEW n \in 1..Len(q.items),
         NEW p, Len(p.items) \in Nat, Loop(o, "insert", n, q, p),
         o.indexed => Distinct(q.items),
         \E j \in 1..Len(p.items) : Alike(o, p.items[j].e, q.items[n].e)
  PROVE  Loop(o, "insert", n + 1, q, p)
<1>1. Within(o, p.items, Len(p.items) + 1, q.items) /\ Within(o, q.items, n, p.items) /\ o.sync
  BY DEF Loop
<1>2. PICK j \in 1..Len(p.items) : Alike(o, p.items[j].e, q.items[n].e)
  OBVIOUS
<1>3. j < Len(p.items) + 1
  OBVIOUS
<1>4. PICK i \in 1..Len(q.items) : MarkOf(o, q.items[i].e) = MarkOf(o, p.items[j].e)
  BY <1>1, <1>3 DEF Within
<1>5. MarkOf(o, p.items[j].e) = MarkOf(o, q.items[n].e)
  <2>1. CASE o.indexed
    <3>1. q.items[i].e.index = p.items[j].e.index /\ p.items[j].e.index = q.items[n].e.index
      BY <1>1, <1>2, <1>4, <2>1 DEF MarkOf, Alike
    <3>2. i = n
      BY <2>1, <3>1 DEF Distinct
    <3> QED
      BY <1>4, <3>2
  <2>2. CASE ~o.indexed
    BY <1>1, <1>2, <2>2 DEF MarkOf, Alike
  <2> QED
    BY <2>1, <2>2
<1>6. ASSUME NEW k \in 1..Len(q.items), k < n + 1
      PROVE  \E m \in 1..Len(p.items) : MarkOf(o, p.items[m].e) = MarkOf(o, q.items[k].e)
  <2>1. CASE k < n
    BY <1>1, <2>1 DEF Within
  <2>2. CASE k = n
    BY <1>5, <2>2
  <2> QED
    BY <1>6, <2>1, <2>2
<1>7. Within(o, q.items, n + 1, p.items)
  BY <1>6 DEF Within
<1> QED
  BY <1>1, <1>7 DEF Loop

\* Entries u out of t differ from s no more than t does.
LEMMA AgreePart ==
  ASSUME NEW s, NEW n, NEW t, NEW u, Agree(s, n, t),
         \A j \in 1..Len(u) : \E i \in 1..Len(t) : u[j] = t[i]
  PROVE  Agree(s, n, u)
<1> SUFFICES ASSUME NEW k \in 1..Len(s), k < n, NEW j \in 1..Len(u), u[j].e.index = s[k].e.index
             PROVE  Same(u[j].e, s[k].e)
  BY DEF Agree
<1>1. PICK i \in 1..Len(t) : u[j] = t[i]
  OBVIOUS
<1>2. t[i].e.index = s[k].e.index => Same(t[i].e, s[k].e)
  BY DEF Agree
<1> QED
  BY <1>1, <1>2

\* What is to be shown of deleteNotPresent() at a place.
LEMMA LoopDelete ==
  ASSUME NEW o, NEW q, NEW n, NEW r, o.sync, KeysRight(q, SortKey(o)), KeysRight(r, SortKey(o)),
         Within(o, r.items, n, q.items), o.indexed => Agree(q.items, Len(q.items) + 1, r.items)
  PROVE  Loop(o, "delete", n, q, r)
  BY DEF Loop

\* An entry of the destination that is not in the source is erased.
LEMMA LoopErases ==
  ASSUME NEW o, NEW q, NEW n, NEW p, Len(p.items) \in Nat, Loop(o, "delete", n, q, p),
         NEW r, Len(r.items) \in Nat, r.order = p.order,
         \A j \in 1..Len(r.items) : \E i \in 1..Len(p.items) : r.items[j] = p.items[i],
         \A j \in 1..Len(r.items) : j < n => r.items[j] = p.items[j],
         \A j \in 1..Len(r.items) : j < n => j \in 1..Len(p.items)
  PROVE  Loop(o, "delete", n, q, r)
<1>1. /\ o.sync /\ KeysRight(q, SortKey(o)) /\ KeysRight(p, SortKey(o))
      /\ Within(o, p.items, n, q.items) /\ (o.indexed => Agree(q.items, Len(q.items) + 1, p.items))
  BY DEF Loop
<1>2. KeysRight(r, SortKey(o))
  BY <1>1, PartKeys
<1>3. Within(o, r.items, n, q.items)
  BY <1>1 DEF Within
<1>4. o.indexed => Agree(q.items, Len(q.items) + 1, r.items)
  BY <1>1, AgreePart
<1> QED
  BY <1>1, <1>2, <1>3, <1>4, LoopDelete

\* An entry of the destination stays.
LEMMA LoopLeaves ==
  ASSUME NEW o, NEW q, Len(q.items) \in Nat, NEW p, Len(p.items) \in Nat, NEW n \in 1..Len(p.items),
         Loop(o, "delete", n, q, p),
         \E j \in 1..Len(q.items) : Alike(o, q.items[j].e, p.items[n].e)
  PROVE  Loop(o, "delete", n + 1, q, p)
<1>1. /\ o.sync /\ KeysRight(q, SortKey(o)) /\ KeysRight(p, SortKey(o))
      /\ Within(o, p.items, n, q.items) /\ (o.indexed => Agree(q.items, Len(q.items) + 1, p.items))
  BY DEF Loop
<1>2. PICK j \in 1..Len(q.items) : Alike(o, q.items[j].e, p.items[n].e)
  OBVIOUS
<1>3. MarkOf(o, q.items[j].e) = MarkOf(o, p.items[n].e)
  <2>1. CASE o.indexed
    <3>1. p.items[n].e.index = q.items[j].e.index /\ j < Len(q.items) + 1
      BY <1>2, <2>1 DEF Alike
    <3>2. Same(p.items[n].e, q.items[j].e)
      BY <1>1, <2>1, <3>1 DEF Agree
    <3> QED
      BY <3>1, <3>2 DEF MarkOf, Same
  <2>2. CASE ~o.indexed
    BY <1>1, <1>2, <2>2 DEF MarkOf, Alike
  <2> QED
    BY <2>1, <2>2
<1>4. ASSUME NEW k \in 1..Len(p.items), k < n + 1
      PROVE  \E i \in 1..Len(q.items) : MarkOf(o, q.items[i].e) = MarkOf(o, p.items[k].e)
  <2>1. CASE k < n
    BY <1>1, <2>1 DEF Within
  <2>2. CASE k = n
    BY <1>3, <2>2
  <2> QED
    BY <1>4, <2>1, <2>2
<1>5. Within(o, p.items, n + 1, q.items)
  BY <1>4 DEF Within
<1> QED
  BY <1>1, <1>5 DEF Loop

\* An entry of the destination is overwritten by the entry of the source that has
\* its place in the order.
LEMMA LoopSets ==
  ASSUME NEW o, NEW q, Len(q.items) \in Nat, NEW n \in 1..Len(q.items),
         NEW p, Len(p.items) \in Nat, Loop(o, "update", n, q, p), NEW k,
         o.indexed => k # "ME" /\ Distinct(q.items) /\ Distinct(p.items) /\ q.items[n].e.index # NoIndex,
         NEW m \in 1..Len(p.items), p.items[m].key[1] = KeyOf(SortKey(o), q.items[n].e)[1],
         NEW r, r.order = p.order, NEW e, Replaced(p.items, r.items, m, e), MadeOf(k, q.items[n].e, e)
  PROVE  Loop(o, "update", n + 1, q, r)
<1> DEFINE x == q.items[n].e
<1>1. /\ o.sync /\ KeysRight(q, SortKey(o)) /\ KeysRight(p, SortKey(o))
      /\ o.indexed => Agree(q.items, n, p.items)
  BY DEF Loop
<1>2. /\ Len(r.items) = Len(p.items) /\ r.items[m].e = e /\ r.items[m].key = p.items[m].key
      /\ \A j \in 1..Len(p.items) : j # m => r.items[j] = p.items[j]
  BY DEF Replaced
<1>3. e.text = x.text /\ e.tel = x.tel /\ (o.indexed => e.index = x.index)
  BY DEF MadeOf
<1>4. \A d : KeyOf(SortKey(o), d)[1] = IF o.indexed THEN d.index ELSE Lower[d.text]
  BY DEF KeyOf, SortKey
<1> HIDE DEF x
<1>5. p.items[m].key[1] = KeyOf(SortKey(o), x)[1]
  BY DEF x
<1>6. r.items[m].key[1] = KeyOf(SortKey(o), r.items[m].e)[1]
  BY <1>2, <1>3, <1>4, <1>5
<1>7. KeysRight(r, SortKey(o))
  BY <1>1, <1>2, <1>6 DEF KeysRight
<1>8. ASSUME o.indexed PROVE Agree(q.items, n + 1, r.items)
  <2>1. /\ Agree(q.items, n, p.items) /\ e.index = x.index
        /\ p.items[m].e.index = x.index
    BY <1>1, <1>3, <1>4, <1>5, <1>8 DEF KeysRight
  <2>2. Distinct(q.items) /\ Distinct(p.items)
    BY <1>8
  <2>3. ASSUME NEW i \in 1..Len(q.items), i < n + 1, NEW j \in 1..Len(r.items),
               r.items[j].e.index = q.items[i].e.index
        PROVE  Same(r.items[j].e, q.items[i].e)
    <3>1. CASE i = n /\ j = m
      BY <1>2, <1>3, <3>1 DEF Same, x
    <3>2. CASE i = n /\ j # m
      <4>1. j \in 1..Len(p.items) /\ p.items[j].e.index = p.items[m].e.index
        BY <1>2, <2>1, <2>3, <3>2 DEF x
      <4> QED
        BY <2>2, <3>2, <4>1 DEF Distinct
    <3>3. CASE i # n /\ j = m
      <4>1. q.items[i].e.index = q.items[n].e.index
        BY <1>2, <2>1, <2>3, <3>3 DEF x
      <4> QED
        BY <2>2, <3>3, <4>1 DEF Distinct
    <3>4. CASE i # n /\ j # m
      <4>1. i < n /\ j \in 1..Len(p.items) /\ r.items[j] = p.items[j]
        BY <1>2, <2>3, <3>4
      <4> QED
        BY <2>1, <2>3, <4>1 DEF Agree
    <3> QED
      BY <3>1, <3>2, <3>3, <3>4
  <2> QED
    BY <2>3 DEF Agree
<1> QED
  BY <1>1, <1>7, <1>8 DEF Loop

\* An entry of the source that nothing is overwritten by.
LEMMA LoopAgrees ==
  ASSUME NEW o, NEW q, Len(q.items) \in Nat, NEW n \in 1..Len(q.items),
         NEW p, Loop(o, "update", n, q, p),
         o.indexed => \A j \in 1..Len(p.items) :
           p.items[j].e.index = q.items[n].e.index => Same(p.items[j].e, q.items[n].e)
  PROVE  Loop(o, "update", n + 1, q, p)
<1>1. /\ o.sync /\ KeysRight(q, SortKey(o)) /\ KeysRight(p, SortKey(o))
      /\ o.indexed => Agree(q.items, n, p.items)
  BY DEF Loop
<1>2. ASSUME o.indexed PROVE Agree(q.items, n + 1, p.items)
  <2>1. ASSUME NEW i \in 1..Len(q.items), i < n + 1, NEW j \in 1..Len(p.items),
               p.items[j].e.index = q.items[i].e.index
        PROVE  Same(p.items[j].e, q.items[i].e)
    <3>1. CASE i = n
      BY <1>2, <2>1, <3>1
    <3>2. CASE i # n
      <4>1. i < n
        BY <2>1, <3>2
      <4> QED
        BY <1>1, <1>2, <2>1, <4>1 DEF Agree
    <3> QED
      BY <3>1, <3>2
  <2> QED
    BY <2>1 DEF Agree
<1> QED
  BY <1>1, <1>2 DEF Loop

\* The loops follow each other.
LEMMA LoopFollows ==
  ASSUME NEW o, NEW n \in Nat, NEW q, Len(q.items) \in Nat, NEW p, Len(p.items) \in Nat
  PROVE  /\ Loop(o, "update", n, q, p) /\ n > Len(q.items) => Loop(o, "delete", 1, q, p)
         /\ Loop(o, "delete", n, q, p) /\ n > Len(p.items) => Loop(o, "insert", 1, q, p)
         /\ Loop(o, "clear", n, q, p) /\ p.items = <<>> => Loop(o, "copy", 1, q, p)
<1>1. \A s, t : Len(s) \in Nat => Within(o, s, 1, t)
  BY DEF Within
<1>2. ASSUME Loop(o, "update", n, q, p), n > Len(q.items) PROVE Loop(o, "delete", 1, q, p)
  <2>1. o.indexed => Agree(q.items, Len(q.items) + 1, p.items)
    BY <1>2 DEF Loop, Agree
  <2>2. Within(o, p.items, 1, q.items)
    BY <1>1
  <2> QED
    BY <1>2, <2>1, <2>2 DEF Loop
<1>3. ASSUME Loop(o, "delete", n, q, p), n > Len(p.items) PROVE Loop(o, "insert", 1, q, p)
  <2>1. Within(o, p.items, n, q.items)
    BY <1>3 DEF Loop
  <2>2. Within(o, p.items, Len(p.items) + 1, q.items)
    BY <1>3, <2>1 DEF Within
  <2>3. Within(o, q.items, 1, p.items)
    BY <1>1
  <2> QED
    BY <1>3, <2>2, <2>3 DEF Loop
<1>4. ASSUME Loop(o, "clear", n, q, p), p.items = <<>> PROVE Loop(o, "copy", 1, q, p)
  <2>1. Len(p.items) = 0
    BY <1>4, EmptySeq
  <2>2. Within(o, p.items, Len(p.items) + 1, q.items)
    BY <2>1 DEF Within
  <2>3. Within(o, q.items, 1, p.items)
    BY <1>1
  <2> QED
    BY <1>4, <2>2, <2>3 DEF Loop
<1> QED
  BY <1>2, <1>3, <1>4

\* The last loop has made the destination what the source is.
LEMMA LoopDone ==
  ASSUME NEW o, NEW n \in Nat, NEW q, Shape(q), NEW p, Shape(p), n > Len(q.items),
         Within(o, p.items, Len(p.items) + 1, q.items), Within(o, q.items, n, p.items)
  PROVE  MarksOf(o, ItemsOf(p)) = MarksOf(o, ItemsOf(q))
<1>1. /\ Len(p.items) \in Nat /\ Len(q.items) \in Nat
      /\ ItemsOf(p) = {p.items[k].e : k \in 1..Len(p.items)}
      /\ ItemsOf(q) = {q.items[k].e : k \in 1..Len(q.items)}
  BY ShapeFacts
<1>2. Within(o, p.items, Len(p.items) + 1, q.items) /\ Within(o, q.items, n, p.items)
  OBVIOUS
<1>3. ASSUME NEW k \in 1..Len(p.items)
      PROVE  \E j \in 1..Len(q.items) : MarkOf(o, q.items[j].e) = MarkOf(o, p.items[k].e)
  <2>1. k < Len(p.items) + 1
    BY <1>1
  <2> QED
    BY <1>2, <2>1 DEF Within
<1>4. ASSUME NEW k \in 1..Len(q.items)
      PROVE  \E j \in 1..Len(p.items) : MarkOf(o, p.items[j].e) = MarkOf(o, q.items[k].e)
  <2>1. k < n
    BY <1>1
  <2> QED
    BY <1>2, <2>1 DEF Within
<1>5. MarksOf(o, ItemsOf(p)) = {MarkOf(o, p.items[k].e) : k \in 1..Len(p.items)}
  BY <1>1 DEF MarksOf
<1>6. MarksOf(o, ItemsOf(q)) = {MarkOf(o, q.items[k].e) : k \in 1..Len(q.items)}
  BY <1>1 DEF MarksOf
<1> QED
  BY <1>3, <1>4, <1>5, <1>6

\* The phonebooks are sorted.
LEMMA LoopSorts ==
  ASSUME NEW o, o.indexed \in BOOLEAN, NEW n, NEW q, Shape(q), NEW p, Shape(p), Loop(o, "sort", n, q, p),
         NEW u, u = SetSortOrder(q, SortKey(o)), NEW v, v = SetSortOrder(p, SortKey(o)),
         o.indexed => WellNumbered(q) /\ WellNumbered(p)
  PROVE  Loop(o, "update", 1, u, v)
<1>1. o.sync /\ q.order = "ByIndex" /\ p.order = "ByIndex"
  BY DEF Loop
<1>2. SortKey(o) \in Orders
  BY DEF SortKey, Orders
<1>3. KeysRight(u, SortKey(o)) /\ KeysRight(v, SortKey(o))
  <2>1. CASE o.indexed
    <3>1. SortKey(o) = "ByIndex"
      BY <2>1 DEF SortKey
    <3>2. u = q /\ v = p
      BY <1>1, <1>2, <3>1, SortKeys
    <3>3. ByIndexKeyed(q.items) /\ ByIndexKeyed(p.items)
      BY <1>1, <2>1 DEF WellNumbered
    <3>4. \A e : KeyOf("ByIndex", e)[1] = e.index
      BY DEF KeyOf
    <3> QED
      BY <1>1, <3>1, <3>2, <3>3, <3>4 DEF KeysRight, ByIndexKeyed
  <2>2. CASE ~o.indexed
    <3>1. SortKey(o) = "ByText"
      BY <2>2 DEF SortKey
    <3> QED
      BY <1>1, <1>2, <3>1, SortKeys
  <2> QED
    BY <2>1, <2>2
<1>4. Agree(u.items, 1, v.items)
  <2>1. Len(u.items) \in Nat
    BY <1>2, SortEntries, ShapeFacts
  <2> QED
    BY <2>1 DEF Agree
<1> QED
  BY <1>1, <1>3, <1>4 DEF Loop

-----------------------------------------------------------------------------
(* The steps of gsmpb, and what they make of the destination. *)

\* In a loop, the phonebooks are idle; with indices, those that are not a
\* mobile's are numbered.
LEMMA Both ==
  ASSUME IInv, pc \in WithBoth
  PROVE  /\ Shape(src) /\ Shape(dst) /\ Len(src.items) \in Nat /\ Len(dst.items) \in Nat
         /\ DOMAIN src.items = 1..Len(src.items) /\ DOMAIN dst.items = 1..Len(dst.items)
         /\ dst.open /\ saving[Source] = "no" /\ saving[Dest] = "no" /\ pos \in Nat \ {0}
         /\ IsFun(pb) /\ IsFun(disk) /\ opt.indexed \in BOOLEAN
         /\ opt.indexed /\ kind[Source] # "ME" => WellNumbered(src)
         /\ opt.indexed /\ kind[Dest] # "ME" => WellNumbered(dst)
         /\ opt.indexed => NonNegative(src.items)
<1>1. /\ BooksInv /\ Idle(Dest) /\ Idle(Source) /\ pos \in Nat \ {0}
      /\ opt \in [sync : BOOLEAN, indexed : BOOLEAN] /\ GoodItems(opt.indexed, src.items)
  BY DEF IInv, MainInv
<1>2. /\ Shape(src) /\ (opt.indexed /\ kind[Source] # "ME" => WellNumbered(src))
      /\ DOMAIN src.items = 1..Len(src.items) /\ Len(src.items) \in Nat
  BY <1>1, BookFacts, IdleFacts DEF src
<1>3. /\ Shape(dst) /\ (opt.indexed /\ kind[Dest] # "ME" => WellNumbered(dst))
      /\ DOMAIN dst.items = 1..Len(dst.items) /\ Len(dst.items) \in Nat
  BY <1>1, BookFacts, IdleFacts DEF dst
<1>4. dst.open /\ saving[Source] = "no" /\ saving[Dest] = "no" /\ IsFun(pb) /\ IsFun(disk)
  BY <1>1 DEF Idle, dst, BooksInv, Functions8
<1>5. opt.indexed \in BOOLEAN /\ (opt.indexed => NonNegative(src.items))
  BY <1>1 DEF GoodItems
<1> QED
  BY <1>1, <1>2, <1>3, <1>4, <1>5

\* What is kept when neither kinds nor options change.
LEMMA SameOptions ==
  ASSUME opt' = opt, kind' = kind
  PROVE  ByIndexOnME' <=> ByIndexOnME
  BY DEF ByIndexOnME

\* A step from loop to loop.
LEMMA LoopStep ==
  ASSUME IInv, ResultInv, outcome = "ok", pc \in WithBoth, pc' \in WithBoth,
         UNCHANGED <<kind, content, saving, excused, opt, wanted>>,
         ItemsOf(src') = ItemsOf(src),
         kind[Dest] = "stdout" /\ ~Dirty(dst') => HasLines(dst', disk'[Dest]),
         ~ByIndexOnME => Loop(opt, pc', pos', src', dst')
  PROVE  ResultInv'
<1>1. /\ kind' = kind /\ content' = content /\ saving' = saving /\ excused' = excused
      /\ opt' = opt /\ wanted' = wanted /\ (ByIndexOnME' <=> ByIndexOnME)
  BY SameOptions
<1>2. /\ saving[Source] = "no" /\ saving[Dest] = "no" /\ dst.open
      /\ pc \notin {"library", "dest"} /\ pc' \notin {"close", "end", "dest", "library"}
  BY Both DEF WithBoth
<1>3. DestInv /\ wanted = ItemsOf(src)
  BY <1>2 DEF ResultInv, LoopsInv
<1>4. DestInv'
  BY <1>1, <1>2, <1>3 DEF DestInv
<1>5. LoopsInv'
  BY <1>1, <1>2, <1>3 DEF LoopsInv
<1>6. DoneInv'
  BY <1>2 DEF DoneInv
<1> QED
  BY <1>4, <1>5, <1>6 DEF ResultInv

\* A call of a loop that succeeds.
LEMMA LoopCalls ==
  ASSUME IInv, ResultInv, outcome = "ok", pc \in WithBoth, NEW r, Takes(Dest, r), r.how = "ok",
         UNCHANGED <<excused, opt, wanted, pc>>, Call(kind[Dest], dst, disk[Dest], r),
         ~ByIndexOnME => Loop(opt, pc, pos', src, r.pb)
  PROVE  ResultInv'
<1>1. /\ pb' = [pb EXCEPT ![Dest] = r.pb] /\ saving' = saving /\ kind' = kind /\ content' = content
  BY DEF Takes
<1>2. Upd(pb, pb', Dest, r.pb)
  BY <1>1, BookFacts, Both, UpdExcept
<1>3. src' = src /\ dst' = r.pb
  BY <1>2, BookFacts DEF Upd, src, dst
<1>4. kind[Dest] = "stdout" => Dirty(dst')
  BY <1>3 DEF Call
<1> QED
  BY <1>1, <1>3, <1>4, LoopStep

\* A step of a loop that calls nothing.
LEMMA LoopSkips ==
  ASSUME IInv, ResultInv, outcome = "ok", pc \in WithBoth, pc' \in WithBoth,
         UNCHANGED <<bookVars, opt, wanted>>,
         ~ByIndexOnME => Loop(opt, pc', pos', src, dst)
  PROVE  ResultInv'
<1>1. /\ kind' = kind /\ pb' = pb /\ disk' = disk /\ content' = content
      /\ saving' = saving /\ excused' = excused
  BY DEF bookVars
<1>2. src' = src /\ dst' = dst
  BY <1>1 DEF src, dst
<1>3. DestInv /\ dst.open /\ saving[Dest] = "no"
  BY Both DEF ResultInv, WithBoth
<1>4. kind[Dest] = "stdout" /\ ~Dirty(dst) => HasLines(dst, disk[Dest])
  BY <1>3 DEF DestInv
<1> QED
  BY <1>1, <1>2, <1>4, LoopStep

\* The loop of the place where gsmpb is.
LEMMA LoopHere ==
  ASSUME ResultInv, outcome = "ok", pc \in WithBoth, ~ByIndexOnME
  PROVE  Loop(opt, pc, pos, src, dst) /\ wanted = ItemsOf(src)
  BY DEF ResultInv, LoopsInv, WithBoth

\* With indices that count, no phonebook is a mobile's.
LEMMA Indexed ==
  ASSUME IInv, pc \in WithBoth, opt.sync, opt.indexed, ~ByIndexOnME
  PROVE  /\ kind[Source] # "ME" /\ kind[Dest] # "ME" /\ WellNumbered(src) /\ WellNumbered(dst)
         /\ Distinct(src.items) /\ Distinct(dst.items) /\ NonNegative(src.items)
<1>1. kind[Source] # "ME" /\ kind[Dest] # "ME"
  BY DEF ByIndexOnME
<1>2. WellNumbered(src) /\ WellNumbered(dst) /\ NonNegative(src.items)
  BY <1>1, Both
<1> QED
  BY <1>1, <1>2 DEF WellNumbered

\* An entry of the destination is overwritten.
LEMMA SetResult ==
  ASSUME IInv, ResultInv, outcome' = "ok", pc = "update", pos <= Len(src.items),
         NEW n \in InDest(Current),
         Calls(Set(kind[Dest], dst, disk[Dest], n, Current), pos' = pos + 1 /\ UNCHANGED pc),
         UNCHANGED <<opt, wanted>>
  PROVE  ResultInv'
<1>1. PICK r \in Set(kind[Dest], dst, disk[Dest], n, Current) :
        /\ Takes(Dest, r) /\ excused' = excused
        /\ CASE r.how = "ok"    -> pos' = pos + 1 /\ pc' = pc /\ UNCHANGED outcome
             [] r.how = "throw" -> Fail
             [] r.how = "crash" -> outcome' = "dead" /\ Goto("end")
  BY DEF Calls
<1>2. pc \in WithBoth
  BY DEF WithBoth
<1>3. /\ Shape(dst) /\ (kind[Dest] = "ME" => disk[Dest] \in METype)
      /\ DOMAIN dst.items = 1..Len(dst.items) /\ Len(dst.items) \in Nat
      /\ Len(src.items) \in Nat /\ pos \in Nat \ {0}
  BY <1>2, LoopFacts
<1>4. EntryLike(Current) /\ (opt.indexed => Current.index >= 0)
  BY <1>2, CurrentFacts
<1>5. n \in 1..Len(dst.items) /\ dst.items[n].key[1] = KeyOf(dst.order, Current)[1]
  BY <1>3 DEF InDest, EqualRange
<1>6. Call(kind[Dest], dst, disk[Dest], r) /\ r.how \in {"ok", "throw"}
  BY <1>3, <1>4, <1>5, SetFacts
<1>7. r.how = "ok" /\ pos' = pos + 1 /\ pc' = pc /\ outcome = "ok"
  BY <1>1, <1>6 DEF Fail
<1>8. /\ r.pb.order = dst.order
      /\ \E e : Replaced(dst.items, r.pb.items, n, e) /\ MadeOf(kind[Dest], Current, e)
  BY <1>3, <1>4, <1>5, <1>7, SetReplaces
<1>9. ASSUME ~ByIndexOnME PROVE Loop(opt, pc, pos', src, r.pb)
  <2>1. PICK e : Replaced(dst.items, r.pb.items, n, e) /\ MadeOf(kind[Dest], Current, e)
    BY <1>8
  <2>2. Loop(opt, "update", pos, src, dst)
    BY <1>2, <1>7, <1>9, LoopHere
  <2>3. opt.sync /\ dst.order = SortKey(opt)
    BY <2>2 DEF Loop, KeysRight
  <2>4. opt.indexed => /\ kind[Dest] # "ME" /\ Distinct(src.items) /\ Distinct(dst.items)
                       /\ Current.index # NoIndex
    BY <1>2, <1>4, <1>9, <2>3, Indexed DEF NoIndex
  <2>5. pos \in 1..Len(src.items)
    BY <1>3
  <2>6. Current = src.items[pos].e
    BY DEF Current
  <2>7. Loop(opt, "update", pos + 1, src, r.pb)
    BY <1>3, <1>5, <1>8, <2>1, <2>2, <2>3, <2>4, <2>5, <2>6, LoopSets
  <2> QED
    BY <1>7, <2>7
<1> QED
  BY <1>1, <1>2, <1>6, <1>7, <1>9, LoopCalls

\* updateEntries() without --index.
LEMMA UpdateEntriesResult ==
  ASSUME IInv, ResultInv, outcome' = "ok", UpdateEntries
  PROVE  ResultInv'
<1>1. /\ pc = "update" /\ ~opt.indexed /\ pos <= Len(src.items) /\ opt' = opt /\ wanted' = wanted
      /\ pc \in WithBoth
  BY DEF UpdateEntries, WithBoth
<1>2. CASE \E n \in InDest(Current) :
             Calls(Set(kind[Dest], dst, disk[Dest], n, Current), pos' = pos + 1 /\ UNCHANGED pc)
  <2>1. PICK n \in InDest(Current) :
             Calls(Set(kind[Dest], dst, disk[Dest], n, Current), pos' = pos + 1 /\ UNCHANGED pc)
    BY <1>2
  <2> QED
    BY <1>1, <2>1, SetResult
<1>3. CASE Skips /\ pos' = pos + 1 /\ pc' = pc
  <2>1. UNCHANGED bookVars /\ outcome = "ok"
    BY <1>3 DEF Skips
  <2>2. ASSUME ~ByIndexOnME PROVE Loop(opt, pc', pos', src, dst)
    <3>1. Loop(opt, "update", pos, src, dst)
      BY <1>1, <2>1, <2>2, LoopHere
    <3>2. pos \in 1..Len(src.items) /\ Len(src.items) \in Nat
      BY <1>1, Both
    <3>3. Loop(opt, "update", pos + 1, src, dst)
      BY <1>1, <3>1, <3>2, LoopAgrees
    <3> QED
      BY <1>1, <1>3, <3>3
  <2> QED
    BY <1>1, <1>3, <2>1, <2>2, LoopSkips
<1> QED
  BY <1>2, <1>3 DEF UpdateEntries

\* updateEntries() with --index.
LEMMA UpdateEntriesIndexedResult ==
  ASSUME IInv, ResultInv, outcome' = "ok", UpdateEntriesIndexed
  PROVE  ResultInv'
<1> DEFINE found == {n \in InDest(Current) : \A m \in InDest(Current) : n <= m}
<1>1. /\ pc = "update" /\ opt.indexed /\ pos <= Len(src.items) /\ opt' = opt /\ wanted' = wanted
      /\ pc \in WithBoth
  BY DEF UpdateEntriesIndexed, WithBoth
<1>2. CASE \E n \in InDest(Current) :
             Calls(Set(kind[Dest], dst, disk[Dest], n, Current), pos' = pos + 1 /\ UNCHANGED pc)
  <2>1. PICK n \in InDest(Current) :
             Calls(Set(kind[Dest], dst, disk[Dest], n, Current), pos' = pos + 1 /\ UNCHANGED pc)
    BY <1>2
  <2> QED
    BY <1>1, <2>1, SetResult
<1>3. CASE /\ ~ \E n \in found : ~Same(dst.items[n].e, Current)
           /\ Skips /\ pos' = pos + 1 /\ pc' = pc
  <2>1. UNCHANGED bookVars /\ outcome = "ok"
    BY <1>3 DEF Skips
  <2>2. ASSUME ~ByIndexOnME PROVE Loop(opt, pc', pos', src, dst)
    <3>1. Loop(opt, "update", pos, src, dst)
      BY <1>1, <2>1, <2>2, LoopHere
    <3>2. /\ pos \in 1..Len(src.items) /\ Len(src.items) \in Nat /\ Len(dst.items) \in Nat
          /\ DOMAIN dst.items = 1..Len(dst.items)
      BY <1>1, Both
    <3>3. KeysRight(dst, "ByIndex") /\ opt.sync
      BY <1>1, <3>1 DEF Loop, SortKey
    <3>4. Distinct(dst.items)
      BY <1>1, <2>2, <3>3, Indexed
    <3>5. \A j : j \in InDest(Current) <=> j \in 1..Len(dst.items) /\ dst.items[j].e.index = Current.index
      <4>1. \A e : KeyOf("ByIndex", e)[1] = e.index
        BY DEF KeyOf
      <4>2. \A j : j \in InDest(Current)
                     <=> j \in 1..Len(dst.items) /\ dst.items[j].key[1] = KeyOf("ByIndex", Current)[1]
        BY <3>2, <3>3 DEF InDest, EqualRange, KeysRight
      <4>3. \A j \in 1..Len(dst.items) : dst.items[j].key[1] = KeyOf("ByIndex", dst.items[j].e)[1]
        BY <3>3 DEF KeysRight
      <4> QED
        BY <4>1, <4>2, <4>3
    <3>6. ASSUME NEW j \in 1..Len(dst.items), dst.items[j].e.index = Current.index
          PROVE  Same(dst.items[j].e, Current)
      <4>1. j \in InDest(Current) /\ \A m \in InDest(Current) : m = j
        BY <3>4, <3>5, <3>6 DEF Distinct
      <4>2. j <= j
        BY <3>2
      <4>3. j \in found
        BY <4>1, <4>2
      <4> QED
        BY <1>3, <4>3
    <3>7. Current = src.items[pos].e
      BY DEF Current
    <3>8. Loop(opt, "update", pos + 1, src, dst)
      BY <3>1, <3>2, <3>6, <3>7, LoopAgrees
    <3> QED
      BY <1>1, <1>3, <3>8
  <2> QED
    BY <1>1, <1>3, <2>1, <2>2, LoopSkips
<1>4. \/ /\ ~ \E n \in found : ~Same(dst.items[n].e, Current)
         /\ Skips /\ pos' = pos + 1 /\ pc' = pc
      \/ \E n \in found :
           Calls(Set(kind[Dest], dst, disk[Dest], n, Current), pos' = pos + 1 /\ UNCHANGED pc)
  BY DEF UpdateEntriesIndexed
<1> QED
  BY <1>2, <1>3, <1>4

\* deleteNotPresent().
LEMMA DeleteNotPresentResult ==
  ASSUME IInv, ResultInv, outcome' = "ok", DeleteNotPresent
  PROVE  ResultInv'
<1> DEFINE e == dst.items[pos].e
<1>1. /\ pc = "delete" /\ pos <= Len(dst.items) /\ opt' = opt /\ wanted' = wanted /\ pc \in WithBoth
  BY DEF DeleteNotPresent, WithBoth
<1>2. /\ Shape(src) /\ Shape(dst) /\ Len(src.items) \in Nat /\ Len(dst.items) \in Nat
      /\ DOMAIN src.items = 1..Len(src.items) /\ pos \in 1..Len(dst.items)
  BY <1>1, Both
<1>3. CASE Calls(Erase(kind[Dest], dst, disk[Dest], {pos}, {pos}), Stay)
  <2>1. PICK r \in Erase(kind[Dest], dst, disk[Dest], {pos}, {pos}) :
        /\ Takes(Dest, r) /\ excused' = excused
        /\ CASE r.how = "ok"    -> Stay /\ UNCHANGED outcome
             [] r.how = "throw" -> Fail
             [] r.how = "crash" -> outcome' = "dead" /\ Goto("end")
    BY <1>3 DEF Calls
  <2>2. kind[Dest] = "ME" => disk[Dest] \in METype
    BY <1>1, LoopFacts
  <2>3. Call(kind[Dest], dst, disk[Dest], r) /\ r.how \in {"ok", "throw"}
    <3>1. Call(kind[Dest], dst, disk[Dest], r)
      BY <1>2, <2>1, <2>2, EraseOne
    <3>2. r.how \in {"ok", "throw"}
      BY <1>2, <2>1, <2>2, EraseOne
    <3> QED
      BY <3>1, <3>2
  <2>4. r.how = "ok" /\ outcome = "ok" /\ pc' = pc /\ pos' = pos
    BY <2>1, <2>3 DEF Fail, Stay
  <2>5. ASSUME ~ByIndexOnME PROVE Loop(opt, pc, pos', src, r.pb)
    <3>1. Loop(opt, "delete", pos, src, dst)
      BY <1>1, <2>4, <2>5, LoopHere
    <3>2. /\ r.pb.order = dst.order
          /\ \A j \in 1..Len(r.pb.items) : \E i \in 1..Len(dst.items) : r.pb.items[j] = dst.items[i]
          /\ \A j \in 1..Len(r.pb.items) : j < pos => r.pb.items[j] = dst.items[j]
      <4> DEFINE S == {pos}
      <4>1. S = {pos} /\ r \in Erase(kind[Dest], dst, disk[Dest], S, S)
        BY <2>1
      <4> HIDE DEF S
      <4>2. r.pb.order = dst.order /\ DroppedAt(dst.items, pos, r.pb.items)
        BY <1>2, <2>4, <4>1, EraseDrops
      <4> QED
        BY <4>2 DEF DroppedAt
    <3>3. Len(r.pb.items) \in Nat
      BY <2>3, ShapeFacts DEF Call
    <3>4. \A j \in 1..Len(r.pb.items) : j < pos => j \in 1..Len(dst.items)
      BY <1>2, <3>3
    <3>5. Loop(opt, "delete", pos, src, r.pb)
      BY <1>2, <3>1, <3>2, <3>3, <3>4, LoopErases
    <3> QED
      BY <1>1, <2>4, <3>5
  <2> QED
    BY <1>1, <2>1, <2>3, <2>4, <2>5, LoopCalls
<1>4. CASE Present(InSource(e), src.items, e) /\ Skips /\ pos' = pos + 1 /\ pc' = pc
  <2>1. UNCHANGED bookVars /\ outcome = "ok"
    BY <1>4 DEF Skips
  <2>2. ASSUME ~ByIndexOnME PROVE Loop(opt, pc', pos', src, dst)
    <3>1. Loop(opt, "delete", pos, src, dst)
      BY <1>1, <2>1, <2>2, LoopHere
    <3>2. KeysRight(src, SortKey(opt))
      BY <3>1 DEF Loop
    <3>3. \E j \in 1..Len(src.items) : Alike(opt, src.items[j].e, e)
      BY <1>2, <1>4, <3>2, PresentFacts DEF InSource
    <3>4. Loop(opt, "delete", pos + 1, src, dst)
      BY <1>2, <3>1, <3>3, LoopLeaves
    <3> QED
      BY <1>1, <1>4, <3>4
  <2> QED
    BY <1>1, <1>4, <2>1, <2>2, LoopSkips
<1> QED
  BY <1>3, <1>4 DEF DeleteNotPresent

\* An entry of the source is inserted.
LEMMA InsertResult ==
  ASSUME IInv, ResultInv, outcome' = "ok", pc \in {"insert", "copy"}, pos <= Len(src.items), NEW useIndex,
         Calls(Insert(kind[Dest], dst, disk[Dest], Current, useIndex), pos' = pos + 1 /\ UNCHANGED pc),
         UNCHANGED <<opt, wanted>>
  PROVE  ResultInv'
<1>1. PICK r \in Insert(kind[Dest], dst, disk[Dest], Current, useIndex) :
        /\ Takes(Dest, r) /\ excused' = excused
        /\ CASE r.how = "ok"    -> pos' = pos + 1 /\ pc' = pc /\ UNCHANGED outcome
             [] r.how = "throw" -> Fail
             [] r.how = "crash" -> outcome' = "dead" /\ Goto("end")
  BY DEF Calls
<1>2. pc \in WithBoth
  BY DEF WithBoth
<1>3. kind[Dest] \in AllKinds /\ Shape(dst) /\ (kind[Dest] = "ME" => disk[Dest] \in METype)
  BY <1>2, LoopFacts
<1>4. EntryLike(Current) /\ (opt.indexed => Current.index >= 0)
  BY <1>2, CurrentFacts
<1>5. r.how \in {"ok", "throw", "crash"}
  BY <1>3, InsertEnds
<1>6. r.how = "ok" /\ pos' = pos + 1 /\ pc' = pc /\ outcome = "ok"
  BY <1>1, <1>5 DEF Fail
<1>7. Call(kind[Dest], dst, disk[Dest], r)
  BY <1>3, <1>4, InsertFacts DEF AllKinds
<1>8. \E e : Adds(dst, r.pb, e) /\ MadeOf(kind[Dest], Current, e)
  BY <1>3, <1>4, <1>6, InsertAdds
<1>9. ASSUME ~ByIndexOnME PROVE Loop(opt, pc, pos', src, r.pb)
  <2>1. PICK e : Adds(dst, r.pb, e) /\ MadeOf(kind[Dest], Current, e)
    BY <1>8
  <2>2. Loop(opt, pc, pos, src, dst)
    BY <1>2, <1>6, <1>9, LoopHere
  <2>3. /\ Len(src.items) \in Nat /\ Len(dst.items) \in Nat /\ pos \in 1..Len(src.items)
    BY <1>2, Both
  <2>4. Len(r.pb.items) \in Nat
    BY <1>7, ShapeFacts DEF Call
  <2>5. opt.sync /\ opt.indexed => kind[Dest] # "ME" /\ Current.index # NoIndex
    BY <1>4, <1>9 DEF ByIndexOnME, NoIndex
  <2>6. MarkOf(opt, e) = MarkOf(opt, Current) /\ Current = src.items[pos].e
    BY <2>1, <2>5, MadeMark DEF Current
  <2>7. Loop(opt, pc, pos + 1, src, r.pb)
    BY <2>1, <2>2, <2>3, <2>4, <2>6, LoopInserts
  <2> QED
    BY <1>6, <2>7
<1> QED
  BY <1>1, <1>2, <1>6, <1>7, <1>9, LoopCalls

\* insertNotPresent().
LEMMA InsertNotPresentResult ==
  ASSUME IInv, ResultInv, outcome' = "ok", InsertNotPresent
  PROVE  ResultInv'
<1>1. /\ pc = "insert" /\ pos <= Len(src.items) /\ opt' = opt /\ wanted' = wanted /\ pc \in WithBoth
  BY DEF InsertNotPresent, WithBoth
<1>2. CASE Calls(Insert(kind[Dest], dst, disk[Dest], Current, opt.indexed),
                 pos' = pos + 1 /\ UNCHANGED pc)
  BY <1>1, <1>2, InsertResult
<1>3. CASE Present(InDest(Current), dst.items, Current) /\ Skips /\ pos' = pos + 1 /\ pc' = pc
  <2>1. UNCHANGED bookVars /\ outcome = "ok"
    BY <1>3 DEF Skips
  <2>2. ASSUME ~ByIndexOnME PROVE Loop(opt, pc', pos', src, dst)
    <3>1. Loop(opt, "insert", pos, src, dst)
      BY <1>1, <2>1, <2>2, LoopHere
    <3>2. KeysRight(dst, SortKey(opt)) /\ opt.sync
      BY <3>1 DEF Loop
    <3>3. /\ Len(src.items) \in Nat /\ Len(dst.items) \in Nat /\ pos \in 1..Len(src.items)
          /\ DOMAIN dst.items = 1..Len(dst.items)
      BY <1>1, Both
    <3>4. \E j \in 1..Len(dst.items) : Alike(opt, dst.items[j].e, Current)
      BY <1>3, <3>2, <3>3, PresentFacts DEF InDest
    <3>5. opt.indexed => Distinct(src.items)
      BY <1>1, <2>2, <3>2, Indexed
    <3>6. Current = src.items[pos].e
      BY DEF Current
    <3>7. Loop(opt, "insert", pos + 1, src, dst)
      BY <3>1, <3>3, <3>4, <3>5, <3>6, LoopFinds
    <3> QED
      BY <1>1, <1>3, <3>7
  <2> QED
    BY <1>1, <1>3, <2>1, <2>2, LoopSkips
<1> QED
  BY <1>2, <1>3 DEF InsertNotPresent

\* The loop that copies every entry.
LEMMA CopyResult ==
  ASSUME IInv, ResultInv, outcome' = "ok", Copy
  PROVE  ResultInv'
  BY InsertResult DEF Copy

\* The loop that empties the destination.
LEMMA ClearResult ==
  ASSUME IInv, ResultInv, outcome' = "ok", Clear
  PROVE  ResultInv'
<1> DEFINE results == Erase(kind[Dest], dst, disk[Dest], {1}, {1})
<1>1. /\ pc = "clear" /\ dst.items # <<>> /\ opt' = opt /\ wanted' = wanted /\ pc \in WithBoth
  BY DEF Clear, WithBoth
<1>2. PICK r \in results \cup {[r EXCEPT !.how = "crash"] : r \in results} :
        /\ Takes(Dest, r) /\ excused' = excused
        /\ CASE r.how = "ok"    -> Stay /\ UNCHANGED outcome
             [] r.how = "throw" -> Fail
             [] r.how = "crash" -> outcome' = "dead" /\ Goto("end")
  BY DEF Clear, Calls
<1>3. ASSUME NEW t \in results
      PROVE  Call(kind[Dest], dst, disk[Dest], t) /\ t.how \in {"ok", "throw"} /\ IsResult(t)
  BY <1>1, EraseFirst
<1> HIDE DEF results
<1>4. PICK t \in results : r = t \/ r = [t EXCEPT !.how = "crash"]
  BY <1>2
<1>5. r = [t EXCEPT !.how = "crash"] => r.how = "crash"
  <2>1. t = Result(t.pb, t.disk, t.how)
    BY <1>3 DEF IsResult
  <2>2. [Result(t.pb, t.disk, t.how) EXCEPT !.how = "crash"].how = "crash"
    BY DEF Result
  <2> QED
    BY <2>1, <2>2
<1>6. t.how \in {"ok", "throw"} /\ Call(kind[Dest], dst, disk[Dest], t)
  BY <1>3
<1>7. r.how = "ok" /\ r = t /\ outcome = "ok" /\ pc' = pc /\ pos' = pos
  BY <1>2, <1>4, <1>5, <1>6 DEF Fail, Stay
<1>8. ASSUME ~ByIndexOnME PROVE Loop(opt, pc, pos', src, r.pb)
  <2>1. Loop(opt, "clear", pos, src, dst)
    BY <1>1, <1>7, <1>8, LoopHere
  <2>2. Loop(opt, "clear", pos, src, r.pb)
    BY <2>1 DEF Loop
  <2> QED
    BY <1>1, <1>7, <2>2
<1> QED
  BY <1>1, <1>2, <1>6, <1>7, <1>8, LoopCalls

\* A loop is done and the next begins, or the destination is what was asked for.
LEMMA LoopEndsResult ==
  ASSUME IInv, ResultInv, outcome' = "ok", LoopEnds
  PROVE  ResultInv'
<1>1. /\ pc \in WithBoth /\ UNCHANGED <<bookVars, opt, wanted>> /\ outcome = "ok" /\ pos' = 1
      /\ opt' = opt /\ wanted' = wanted
  BY DEF LoopEnds, WithBoth, Goto
<1>2. /\ Shape(src) /\ Shape(dst) /\ Len(src.items) \in Nat /\ Len(dst.items) \in Nat /\ pos \in Nat
      /\ dst.open /\ saving[Dest] = "no"
  BY <1>1, Both
<1>3. CASE pc' \in WithBoth
  <2>1. ASSUME ~ByIndexOnME PROVE Loop(opt, pc', pos', src, dst)
    <3>1. Loop(opt, pc, pos, src, dst)
      BY <1>1, <2>1, LoopHere
    <3>2. \/ pc = "update" /\ pos > Len(src.items) /\ pc' = "delete"
          \/ pc = "delete" /\ pos > Len(dst.items) /\ pc' = "insert"
          \/ pc = "clear" /\ dst.items = <<>> /\ pc' = "copy"
      BY <1>3 DEF LoopEnds, Goto, WithBoth
    <3>3. CASE pc = "update" /\ pos > Len(src.items) /\ pc' = "delete"
      BY <1>1, <1>2, <3>1, <3>3, LoopFollows
    <3>4. CASE pc = "delete" /\ pos > Len(dst.items) /\ pc' = "insert"
      BY <1>1, <1>2, <3>1, <3>4, LoopFollows
    <3>5. CASE pc = "clear" /\ dst.items = <<>> /\ pc' = "copy"
      BY <1>1, <1>2, <3>1, <3>5, LoopFollows
    <3> QED
      BY <3>2, <3>3, <3>4, <3>5
  <2> QED
    BY <1>1, <1>3, <2>1, LoopSkips
<1>4. CASE pc' \notin WithBoth
  <2>1. pc \in {"insert", "copy"} /\ pos > Len(src.items) /\ pc' = "close"
    BY <1>4 DEF LoopEnds, Goto, WithBoth
  <2>2. /\ kind' = kind /\ pb' = pb /\ disk' = disk /\ content' = content /\ saving' = saving
        /\ excused' = excused
    BY <1>1 DEF bookVars
  <2>3. src' = src /\ dst' = dst /\ (ByIndexOnME' <=> ByIndexOnME)
    BY <1>1, <2>2, SameOptions DEF src, dst
  <2>4. DestInv /\ wanted = ItemsOf(src)
    BY <1>1 DEF ResultInv, LoopsInv, WithBoth
  <2>5. ASSUME ~ByIndexOnME PROVE MarksOf(opt, ItemsOf(dst)) = MarksOf(opt, wanted)
    <3>1. Loop(opt, pc, pos, src, dst)
      BY <1>1, <2>5, LoopHere
    <3>2. /\ Within(opt, dst.items, Len(dst.items) + 1, src.items)
          /\ Within(opt, src.items, pos, dst.items)
      BY <2>1, <3>1 DEF Loop
    <3>3. MarksOf(opt, ItemsOf(dst)) = MarksOf(opt, ItemsOf(src))
      BY <1>2, <2>1, <3>2, LoopDone
    <3> QED
      BY <2>4, <3>3
  <2>6. DestInv'
    BY <2>2, <2>3, <2>4 DEF DestInv
  <2>7. LoopsInv'
    BY <2>1 DEF LoopsInv, WithBoth
  <2>8. DoneInv'
    BY <1>1, <1>2, <2>1, <2>3, <2>5 DEF DoneInv, Right
  <2> QED
    BY <2>6, <2>7, <2>8 DEF ResultInv
<1> QED
  BY <1>3, <1>4

\* The phonebooks are sorted.
LEMMA SortedLines ==
  ASSUME NEW p, Shape(p), NEW order \in Orders, NEW q, q = SetSortOrder(p, order)
  PROVE  /\ ItemsOf(q) = ItemsOf(p)
         /\ ~Dirty(q) => ~Dirty(p)
         /\ \A d : HasLines(p, d) => HasLines(q, d)
<1>1. Shape(q) /\ SameMembers(p, q) /\ \E f : Reordered(p.items, q.items, f)
  BY SortFacts DEF Shape
<1>2. PICK f : Reordered(p.items, q.items, f)
  BY <1>1
<1>3. \A d : HasLines(p, d) => HasLines(q, d)
  BY <1>1, <1>2, SortHasLines
<1>4. /\ ItemsOf(p) = {p.items[i].e : i \in 1..Len(p.items)}
      /\ ItemsOf(q) = {q.items[i].e : i \in 1..Len(q.items)}
  BY <1>1, ShapeFacts
<1>5. /\ Len(q.items) = Len(p.items)
      /\ \A k \in 1..Len(p.items) : \E j \in 1..Len(p.items) : q.items[k].e = p.items[j].e
      /\ \A j \in 1..Len(p.items) : \E k \in 1..Len(p.items) : q.items[k].e = p.items[j].e
  <2>1. Len(q.items) = Len(p.items)
    BY SortEntries
  <2>2. \A k \in 1..Len(p.items) : \E j \in 1..Len(p.items) : q.items[k].e = p.items[j].e
    BY SortEntries
  <2>3. \A j \in 1..Len(p.items) : \E k \in 1..Len(p.items) : q.items[k].e = p.items[j].e
    BY SortEntries
  <2> QED
    BY <2>1, <2>2, <2>3
<1>6. ItemsOf(q) = ItemsOf(p)
  <2>1. \A e \in ItemsOf(q) : e \in ItemsOf(p)
    BY <1>4, <1>5
  <2>2. \A e \in ItemsOf(p) : e \in ItemsOf(q)
    BY <1>4, <1>5
  <2> QED
    BY <2>1, <2>2
<1>7. ~Dirty(q) => ~Dirty(p)
  BY <1>1, <1>6 DEF Dirty, SameMembers
<1> QED
  BY <1>3, <1>6, <1>7

\* setSortOrder() of both.
LEMMA SortBothResult ==
  ASSUME IInv, ResultInv, outcome' = "ok", SortBoth
  PROVE  ResultInv'
<1> DEFINE order == SortKey(opt)
<1>1. /\ pc = "sort" /\ opt' = opt /\ pc' = "update" /\ pos' = 1 /\ outcome = "ok"
      /\ pb' = [b \in Book |-> SetSortOrder(pb[b], order)]
      /\ kind' = kind /\ disk' = disk /\ saving' = saving
      /\ content' = content /\ excused' = excused /\ wanted' = wanted
  BY DEF SortBoth, Goto, SortKey
<1>2. pc \in WithBoth /\ pc' \in WithBoth /\ order \in Orders
  BY <1>1 DEF WithBoth, SortKey, Orders
<1>3. src' = SetSortOrder(src, order) /\ dst' = SetSortOrder(dst, order)
  BY <1>1, BookFacts DEF src, dst
<1>4. Shape(src) /\ Shape(dst) /\ dst.open /\ saving[Dest] = "no" /\ opt.indexed \in BOOLEAN
  BY <1>2, Both
<1>5. ASSUME ~ByIndexOnME PROVE Loop(opt, pc', pos', src', dst')
  <2>1. Loop(opt, "sort", pos, src, dst)
    BY <1>1, <1>2, <1>5, LoopHere
  <2>2. opt.sync
    BY <2>1 DEF Loop
  <2>3. opt.indexed => WellNumbered(src) /\ WellNumbered(dst)
    BY <1>2, <1>5, <2>2, Indexed
  <2> QED
    BY <1>1, <1>3, <1>4, <2>1, <2>3, LoopSorts
<1> HIDE DEF order
<1>6. ItemsOf(src') = ItemsOf(src)
  BY <1>2, <1>3, <1>4, SortedLines
<1>7. DestInv
  BY <1>1 DEF ResultInv
<1>8. kind[Dest] = "stdout" /\ ~Dirty(dst) => HasLines(dst, disk[Dest])
  BY <1>4, <1>7 DEF DestInv
<1>9. kind[Dest] = "stdout" /\ ~Dirty(dst') => HasLines(dst', disk'[Dest])
  BY <1>1, <1>2, <1>3, <1>4, <1>8, SortedLines
<1> QED
  BY <1>1, <1>2, <1>5, <1>6, <1>9, LoopStep

\* gsmpb starts.
LEMMA InitialResult ==
  ASSUME GsmpbInit
  PROVE  ResultInv
<1>1. /\ kind \in [Book -> Kinds] /\ pb = [b \in Book |-> Closed] /\ excused = [b \in Book |-> {}]
  BY DEF GsmpbInit, Init
<1>2. ASSUME pc # "library" PROVE pc = "source" /\ kind[Dest] # "stdin"
  BY <1>2 DEF GsmpbInit
<1>3. ~dst.open /\ kind[Dest] \in Kinds /\ excused[Dest] = {}
  BY <1>1, BookFacts, ClosedFacts DEF dst
<1>4. ASSUME pc # "library" PROVE DestInv /\ LoopsInv /\ DoneInv
  BY <1>2, <1>3, <1>4 DEF DestInv, LoopsInv, DoneInv, WithBoth
<1> QED
  BY <1>4 DEF ResultInv

\* What gsmpb makes of the first phonebook it finds under a name.
LEMMA UnopenedMade ==
  ASSUME IInv, NEW b \in Book, Unopened(b), NEW r \in Constructed(kind[b], disk[b], opt.indexed)
  PROVE  Made(opt.indexed, kind[b], disk[b], r) /\ kind[b] \in AllKinds /\ opt.indexed \in BOOLEAN
<1>1. BooksInv /\ opt.indexed \in BOOLEAN
  BY DEF IInv, MainInv
<1>2. kind[b] \in AllKinds
  BY <1>1 DEF BooksInv, At, Inv1, Typed
<1>3. Storage(kind[b], disk[b])
  BY <1>2, InitialStorageFacts DEF Unopened
<1> QED
  BY <1>1, <1>2, <1>3, ConstructedFacts

\* The source is opened.
LEMMA OpenSourceResult ==
  ASSUME IInv, ResultInv, outcome' = "ok", OpenSource
  PROVE  ResultInv'
<1>1. PICK r \in Constructed(kind[Source], disk[Source], opt.indexed) :
        /\ Construct(Source, r) /\ wanted' = ItemsOf(r.pb)
        /\ IF r.how = "ok" THEN Goto("dest") /\ UNCHANGED outcome ELSE Fail
  BY DEF OpenSource
<1>2. pc = "source" /\ opt' = opt
  BY DEF OpenSource
<1>3. r.how = "ok" /\ pc' = "dest" /\ outcome = "ok"
  BY <1>1 DEF Fail, Goto
<1>4. Unopened(Source) /\ Unopened(Dest)
  BY <1>2 DEF IInv, MainInv
<1>5. pb'[Source] = r.pb /\ pb'[Dest] = pb[Dest]
  BY <1>1, <1>2, <1>3, <1>4, BookFacts, UnopenedFacts
<1>6. r.pb.order = "ByIndex"
  BY <1>1, <1>4, BookFacts, UnopenedMade DEF Made
<1>7. kind' = kind /\ excused' = [excused EXCEPT ![Source] = {}]
  BY <1>1 DEF Construct
<1>8. Functions8
  BY DEF IInv, BooksInv
<1>9. excused'[Dest] = excused[Dest]
  BY <1>7, <1>8, BookFacts DEF Functions8, IsFun
<1>10. src' = r.pb /\ dst' = dst /\ ~dst.open
  BY <1>4, <1>5 DEF src, dst, Unopened
<1>11. DestInv
  BY <1>2, <1>3 DEF ResultInv
<1>12. DestInv'
  BY <1>7, <1>9, <1>10, <1>11 DEF DestInv
<1>13. LoopsInv'
  BY <1>1, <1>3, <1>6, <1>10 DEF LoopsInv, WithBoth
<1>14. DoneInv'
  BY <1>3 DEF DoneInv
<1> QED
  BY <1>12, <1>13, <1>14 DEF ResultInv

\* The destination is opened.
LEMMA OpenDestResult ==
  ASSUME IInv, ResultInv, outcome' = "ok", OpenDest
  PROVE  ResultInv'
<1>1. PICK r \in Constructed(kind[Dest], disk[Dest], opt.indexed) :
        /\ Construct(Dest, r)
        /\ IF r.how = "ok" THEN Goto(IF opt.sync THEN "sort" ELSE "clear") /\ UNCHANGED outcome
           ELSE Fail
  BY DEF OpenDest, Fail
<1>2. pc = "dest" /\ opt' = opt /\ wanted' = wanted
  BY DEF OpenDest
<1>3. /\ r.how = "ok" /\ pc' = (IF opt.sync THEN "sort" ELSE "clear") /\ outcome = "ok"
  BY <1>1 DEF Fail, Goto
<1>4. Unopened(Dest) /\ Idle(Source) /\ opt \in [sync : BOOLEAN, indexed : BOOLEAN] /\ BooksInv
  BY <1>2 DEF IInv, MainInv
<1>5. pb'[Source] = pb[Source] /\ pb'[Dest] = r.pb
  BY <1>1, <1>2, <1>3, <1>4, BookFacts, UnopenedFacts
<1>6. r.pb.order = "ByIndex"
  BY <1>1, <1>4, BookFacts, UnopenedMade DEF Made
<1>7. /\ kind' = kind /\ disk' = disk /\ saving' = saving
      /\ content' = [content EXCEPT ![Dest] = "read"] /\ excused' = [excused EXCEPT ![Dest] = {}]
  BY <1>1 DEF Construct
<1>8. Functions8 /\ saving[Dest] = "no"
  BY <1>4, BookFacts DEF BooksInv, At, Inv1, Saving, Unopened
<1>9. excused'[Dest] = {} /\ content'[Dest] = "read" /\ saving'[Source] = "no" /\ saving'[Dest] = "no"
  BY <1>4, <1>7, <1>8, BookFacts DEF Functions8, IsFun, Idle
<1>10. src' = src /\ dst' = r.pb
  BY <1>5 DEF src, dst
<1>11. DestInv /\ wanted = ItemsOf(src) /\ src.order = "ByIndex"
  BY <1>2, <1>3 DEF ResultInv, LoopsInv, WithBoth
<1>12. ASSUME kind[Dest] = "stdout" PROVE HasLines(dst', disk'[Dest])
  <2>1. disk[Dest] = <<>>
    BY <1>4, <1>12 DEF Unopened, InitialStorage
  <2>2. r = Result(Fresh(opt.indexed), disk[Dest], "ok")
    BY <1>1, <1>12 DEF Constructed
  <2>3. r.pb.items = <<>>
    BY <1>4, <2>2, FreshFacts DEF Result
  <2> QED
    BY <1>7, <1>10, <2>1, <2>3, EmptyHasLines
<1>13. DestInv'
  BY <1>7, <1>9, <1>11, <1>12 DEF DestInv
<1>14. Loop(opt, pc', pos', src, r.pb)
  BY <1>3, <1>4, <1>6, <1>11 DEF Loop
<1>15. LoopsInv'
  BY <1>2, <1>3, <1>10, <1>11, <1>14 DEF LoopsInv
<1>16. DoneInv'
  BY <1>3 DEF DoneInv
<1> QED
  BY <1>13, <1>15, <1>16 DEF ResultInv

-----------------------------------------------------------------------------
(* The destructors, and what is stored in the end. *)

\* A mobile stores what a phonebook holds only when no entry is empty.
NoBlankInMobile == "ME" \in Kinds => NoBlankLines

\* What the destination's file or mobile holds is right when it has what the
\* phonebook has, and the phonebook is right.
LEMMA StoresRight ==
  ASSUME BooksInv, dst.open, Right(ItemsOf(dst)),
         \/ kind[Dest] = "ME" /\ Mirrors(dst.items, disk[Dest], 1..Slots)
         \/ kind[Dest] # "ME" /\ LinesOf(dst, disk[Dest])
  PROVE  Right(StoredOf(kind[Dest], disk[Dest]))
<1>1. /\ Shape(dst) /\ (kind[Dest] = "ME" => disk[Dest] \in METype)
      /\ opt.indexed /\ kind[Dest] # "ME" => dst.useIndices
  BY BookFacts DEF BooksInv, At, Inv1, Typed, Ordered, WellNumbered, dst
<1>2. CASE ByIndexOnME
  BY <1>2 DEF Right
<1>3. CASE ~ByIndexOnME
  <2>1. MarksOf(opt, ItemsOf(dst)) = MarksOf(opt, wanted)
    BY <1>3 DEF Right
  <2>2. MarksOf(opt, StoredOf(kind[Dest], disk[Dest])) = MarksOf(opt, ItemsOf(dst))
    BY <1>1, StoredMarks
  <2> QED
    BY <2>1, <2>2 DEF Right
<1> QED
  BY <1>2, <1>3

\* A step of the end of gsmpb after which the destination is still open, or was
\* closed.
LEMMA ClosingResult ==
  ASSUME DestInv', pc' = "close", pc = "close", UNCHANGED <<opt, wanted, kind>>,
         dst'.open => Right(ItemsOf(dst')),
         ~dst'.open /\ "unsaved" \notin excused'[Dest] => Right(StoredOf(kind[Dest], disk'[Dest]))
  PROVE  ResultInv'
<1>1. opt' = opt /\ wanted' = wanted /\ kind' = kind /\ (ByIndexOnME' <=> ByIndexOnME)
  BY SameOptions
<1>2. LoopsInv'
  BY DEF LoopsInv, WithBoth
<1>3. DoneInv'
  BY <1>1 DEF DoneInv, Right
<1> QED
  BY <1>2, <1>3 DEF ResultInv

\* A destructor is called.
LEMMA CloseResult ==
  ASSUME NoBlankInMobile, IInv, ResultInv, outcome' = "ok", Close
  PROVE  ResultInv'
<1>1. PICK b \in Book : (b = Source => ~dst.open) /\ Sync(b, TRUE)
  BY DEF Close
<1>2. /\ pc = "close" /\ pc' = "close" /\ opt' = opt /\ wanted' = wanted /\ outcome = "ok"
  BY DEF Close, mainVars
<1>3. /\ DestInv /\ (dst.open => Right(ItemsOf(dst)))
      /\ ~dst.open /\ "unsaved" \notin excused[Dest] => Right(StoredOf(kind[Dest], disk[Dest]))
  BY <1>2 DEF ResultInv, DoneInv
<1>4. /\ kind' = kind /\ disk' = disk /\ content' = content /\ excused' = excused
      /\ pb[b].open /\ saving[b] = "no"
  BY <1>1 DEF Sync
<1>5. BooksInv /\ Functions8
  BY DEF IInv, BooksInv
<1>6. CASE b = Source
  <2>1. \E p : pb' = [pb EXCEPT ![b] = p] \/ pb' = pb
    BY <1>1 DEF Sync
  <2>2. pb'[Dest] = pb[Dest]
    BY <1>5, <1>6, <2>1, BookFacts DEF Functions8, IsFun
  <2>3. dst' = dst /\ ~dst.open
    BY <1>1, <1>6, <2>2 DEF dst
  <2>4. DestInv'
    BY <1>3, <1>4, <2>3 DEF DestInv
  <2> QED
    BY <1>2, <1>3, <1>4, <2>3, <2>4, ClosingResult
<1>7. CASE b = Dest /\ Writes(Dest, TRUE) /\ Dirty(dst)
  <2> DEFINE q == [dst EXCEPT !.changed = TRUE, !.closing = TRUE]
             s == FirstStep(Dest)
  <2>1. saving' = [saving EXCEPT ![Dest] = s] /\ pb' = [pb EXCEPT ![Dest] = q]
    BY <1>1, <1>7 DEF Sync, dst
  <2>2. Shape(dst)
    BY <1>5, BookFacts DEF BooksInv, At, Inv1, Typed, dst
  <2>3. Started(dst, q)
    BY <2>2, StartedFacts
  <2>4. q.closing = TRUE
    BY <2>2 DEF Shape, BookType
  <2>5. s # "no"
    BY DEF FirstStep
  <2> HIDE DEF q, s
  <2>6. dst' = q /\ saving'[Dest] = s /\ saving'[Source] = saving[Source]
    BY <1>5, <2>1, BookFacts DEF dst, Functions8, IsFun
  <2>7. dst.open /\ q.open /\ ItemsOf(q) = ItemsOf(dst)
    BY <1>4, <1>7, <2>3 DEF dst, Started, ItemsOf
  <2>8. DestInv'
    BY <1>3, <1>4, <2>4, <2>5, <2>6, <2>7 DEF DestInv
  <2> QED
    BY <1>2, <1>3, <1>4, <2>6, <2>7, <2>8, ClosingResult
<1>8. CASE b = Dest /\ ~(Writes(Dest, TRUE) /\ Dirty(dst))
  <2>1. saving' = saving /\ pb' = [pb EXCEPT ![Dest] = Closed]
    BY <1>1, <1>8 DEF Sync, dst
  <2>2. dst' = Closed /\ ~dst'.open
    BY <1>5, <2>1, BookFacts, ClosedFacts DEF dst, Functions8, IsFun
  <2>3. dst.open /\ saving[Dest] = "no"
    BY <1>4, <1>8 DEF dst
  <2>4. DestInv'
    BY <1>3, <1>4, <2>2 DEF DestInv
  <2>5. ASSUME "unsaved" \notin excused[Dest] PROVE Right(StoredOf(kind[Dest], disk[Dest]))
    <3>1. /\ kind[Dest] \in AllKinds /\ kind[Dest] \in Kinds /\ kind[Dest] # "stdin"
          /\ Saved(kind[Dest], dst, disk[Dest], "no", excused[Dest])
          /\ Mirrored1(kind[Dest], dst, disk[Dest], excused[Dest])
      BY <1>3, <1>5, <2>3, BookFacts DEF BooksInv, At, Inv1, Typed, dst, DestInv
    <3>2. CASE kind[Dest] = "ME"
      <4>1. NoBlankLines /\ excused[Dest] = {}
        BY <1>3, <3>1, <3>2 DEF NoBlankInMobile, DestInv
      <4>2. Mirrors(dst.items, disk[Dest], 1..Slots)
        BY <2>3, <3>1, <3>2, <4>1 DEF Mirrored1
      <4> QED
        BY <1>3, <1>5, <2>3, <3>2, <4>2, StoresRight
    <3>3. CASE kind[Dest] \in {"file", "stdout"}
      <4>1. ~Dirty(dst)
        BY <1>8, <3>3 DEF Writes
      <4>2. HasLines(dst, disk[Dest])
        BY <1>3, <2>3, <2>5, <3>1, <3>3, <4>1 DEF Saved, DestInv
      <4>3. LinesOf(dst, disk[Dest])
        BY <4>2, LinesFacts
      <4> QED
        BY <1>3, <1>5, <2>3, <3>3, <4>3, StoresRight
    <3> QED
      BY <3>1, <3>2, <3>3 DEF AllKinds
  <2> QED
    BY <1>2, <1>4, <2>2, <2>4, <2>5, ClosingResult
<1> QED
  BY <1>6, <1>7, <1>8, BookFacts

\* A value of a function changes in one place only.
LEMMA Elsewhere ==
  ASSUME NEW f, IsFun(f), NEW b \in Book, NEW e \in Book, e # b, NEW v,
         NEW g, g = f \/ g = [f EXCEPT ![b] = v]
  PROVE  g[e] = f[e]
<1>1. DOMAIN f = Book
  BY Zenon DEF IsFun
<1> QED
  BY <1>1

\* A step of sync() leaves the other phonebook alone, unless the program dies.
LEMMA OtherStays ==
  ASSUME Functions8, NEW b \in Book, NEW e \in Book, e # b, SyncStep(b)
  PROVE  /\ pb'[e] \in {pb[e], Closed} /\ disk'[e] = disk[e] /\ excused'[e] = excused[e]
         /\ kind' = kind
<1>1. IsFun(pb) /\ IsFun(disk) /\ IsFun(excused)
  BY DEF Functions8
<1>2. ASSUME SyncThrows(b) PROVE pb'[e] \in {pb[e], Closed}
  BY <1>2 DEF SyncThrows, Dies
<1>3. CASE Unlink(b)
  BY <1>3 DEF Unlink
<1>4. CASE Rename(b)
  <2>1. /\ disk' = [disk EXCEPT ![b] = NoFile] /\ pb' = [pb EXCEPT ![b].madeBackup = TRUE]
        /\ kind' = kind /\ excused' = excused
    BY <1>4 DEF Rename
  <2>2. pb' = [pb EXCEPT ![b] = [@ EXCEPT !.madeBackup = TRUE]]
    BY <2>1
  <2>3. pb'[e] = pb[e] /\ disk'[e] = disk[e]
    BY <1>1, <2>1, <2>2, Elsewhere
  <2> QED
    BY <2>1, <2>3
<1>5. CASE RenameFails(b)
  BY <1>2, <1>5 DEF RenameFails
<1>6. CASE OpenFile(b)
  <2>1. pb' = pb /\ kind' = kind /\ excused' = excused
        /\ (disk' = disk \/ disk' = [disk EXCEPT ![b] = <<>>])
    BY <1>6 DEF OpenFile
  <2> QED
    BY <1>1, <2>1, Elsewhere
<1>7. CASE WriteLine(b)
  <2>1. /\ kind' = kind /\ excused' = excused
        /\ \/ pb' = pb /\ \E v : disk' = disk \/ disk' = [disk EXCEPT ![b] = v]
           \/ SyncThrows(b) /\ disk' = disk
    BY <1>7 DEF WriteLine
  <2>2. CASE pb' = pb /\ \E v : disk' = disk \/ disk' = [disk EXCEPT ![b] = v]
    <3>1. PICK v : disk' = disk \/ disk' = [disk EXCEPT ![b] = v]
      BY <2>2
    <3>2. disk'[e] = disk[e]
      BY <1>1, <3>1, Elsewhere
    <3> QED
      BY <2>1, <2>2, <3>2
  <2>3. CASE SyncThrows(b) /\ disk' = disk
    BY <1>2, <2>1, <2>3
  <2> QED
    BY <2>1, <2>2, <2>3
<1>8. CASE CloseFile(b)
  <2>1. /\ kind' = kind /\ disk' = disk /\ \E v : pb' = [pb EXCEPT ![b] = v]
        /\ \E v : excused' = [excused EXCEPT ![b] = v]
    BY <1>8 DEF CloseFile
  <2>2. PICK u, v : pb' = [pb EXCEPT ![b] = u] /\ excused' = [excused EXCEPT ![b] = v]
    BY <2>1
  <2>3. pb'[e] = pb[e] /\ excused'[e] = excused[e]
    BY <1>1, <2>2, Elsewhere
  <2> QED
    BY <2>1, <2>3
<1> QED
  BY <1>3, <1>4, <1>5, <1>6, <1>7, <1>8 DEF SyncStep

\* The destructor of the source writes.
LEMMA SourceSaves ==
  ASSUME IInv, ResultInv, outcome' = "ok", Saves, SyncStep(Source)
  PROVE  ResultInv'
<1>1. /\ pc = "close" /\ pc' = "close" /\ opt' = opt /\ wanted' = wanted
      /\ outcome' \in {"dead", outcome}
  BY DEF Saves
<1>2. outcome = "ok"
  BY <1>1
<1>3. /\ DestInv /\ (~dst.open /\ "unsaved" \notin excused[Dest] => Right(StoredOf(kind[Dest], disk[Dest])))
  BY <1>1, <1>2 DEF ResultInv, DoneInv
<1>4. saving[Source] # "no"
  BY DEF SyncStep, Unlink, Rename, RenameFails, OpenFile, WriteLine, CloseFile
<1>5. ~dst.open
  BY <1>3, <1>4 DEF DestInv
<1>6. /\ pb'[Dest] \in {pb[Dest], Closed} /\ disk'[Dest] = disk[Dest]
      /\ excused'[Dest] = excused[Dest] /\ kind' = kind
  BY BookFacts, OtherStays DEF IInv, BooksInv
<1>7. ~dst'.open
  BY <1>5, <1>6, ClosedFacts DEF dst
<1>8. DestInv'
  BY <1>3, <1>6, <1>7 DEF DestInv
<1> QED
  BY <1>1, <1>3, <1>5, <1>6, <1>7, <1>8, ClosingResult

\* A step of the destructor of the destination after which it goes on.
LEMMA DestGoesOn ==
  ASSUME IInv, ResultInv, outcome = "ok", pc = "close", pc' = "close", UNCHANGED <<opt, wanted, kind>>,
         dst.open, dst.closing, dst'.open, dst'.closing, dst'.items = dst.items,
         saving'[Source] = saving[Source], saving'[Dest] # "no", content'[Dest] # "written",
         excused' = excused
  PROVE  ResultInv'
<1>1. DestInv /\ Right(ItemsOf(dst))
  BY DEF ResultInv, DoneInv
<1>2. ItemsOf(dst') = ItemsOf(dst)
  BY DEF ItemsOf
<1>3. DestInv'
  BY <1>1 DEF DestInv
<1> QED
  BY <1>1, <1>2, <1>3, ClosingResult

\* A step of the destructor of the destination that fails ends the program.
LEMMA DestFails ==
  ASSUME IInv, ResultInv, outcome = "ok", pc = "close", saving[Dest] \in {"rename", "write"},
         SyncThrows(Dest), content' = content,
         outcome' = IF saving'[Dest] = "no" /\ saving[Dest] # "lost" /\ content'[Dest] # "written"
                    THEN "dead" ELSE outcome
  PROVE  outcome' = "dead"
<1>1. DestInv /\ dst.open
  <2>1. Saving(kind[Dest], dst, disk[Dest], content[Dest], saving[Dest], written[Dest])
    BY BookFacts DEF IInv, BooksInv, At, Inv1, dst
  <2> QED
    BY <2>1 DEF Saving, ResultInv
<1>2. dst.closing /\ content[Dest] # "written"
  BY <1>1 DEF DestInv
<1>3. saving' = [b \in Book |-> "no"]
  BY <1>2 DEF SyncThrows, Dies, dst
<1>4. saving'[Dest] = "no"
  BY <1>3, BookFacts
<1> QED
  BY <1>2, <1>4

\* The destructor of the destination writes.
LEMMA DestSaves ==
  ASSUME IInv, ResultInv, outcome' = "ok", pc = "close", pc' = "close", UNCHANGED <<opt, wanted>>,
         SyncStep(Dest),
         outcome' = IF saving'[Dest] = "no" /\ saving[Dest] # "lost" /\ content'[Dest] # "written"
                    THEN "dead" ELSE outcome
  PROVE  ResultInv'
<1>1. outcome = "ok"
  OBVIOUS
<1>2. /\ Functions8 /\ BooksInv
      /\ Saving(kind[Dest], dst, disk[Dest], content[Dest], saving[Dest], written[Dest])
  BY BookFacts DEF IInv, BooksInv, At, Inv1, dst
<1>3. saving[Dest] # "no"
  BY DEF SyncStep, Unlink, Rename, RenameFails, OpenFile, WriteLine, CloseFile
<1>4. DestInv /\ dst.open /\ kind[Dest] # "ME"
  BY <1>1, <1>2, <1>3 DEF ResultInv, Saving
<1>5. dst.closing /\ content[Dest] # "written" /\ saving[Source] = "no" /\ Right(ItemsOf(dst))
  BY <1>1, <1>3, <1>4 DEF DestInv, ResultInv, DoneInv
<1>6. IsFun(saving) /\ IsFun(content) /\ IsFun(pb) /\ IsFun(excused)
  BY <1>2 DEF Functions8
<1>7. ASSUME NEW v, saving' = [saving EXCEPT ![Dest] = v] PROVE saving'[Source] = saving[Source] /\ saving'[Dest] = v
  BY <1>6, <1>7, BookFacts, UpdExcept DEF Upd
<1>8. CASE Unlink(Dest)
  <2>1. /\ saving' = [saving EXCEPT ![Dest] = "rename"] /\ kind' = kind /\ pb' = pb
        /\ content' = content /\ excused' = excused
    BY <1>8 DEF Unlink
  <2>2. saving'[Source] = saving[Source] /\ saving'[Dest] # "no" /\ dst' = dst
    BY <1>7, <2>1 DEF dst
  <2> QED
    BY <1>1, <1>4, <1>5, <2>1, <2>2, DestGoesOn
<1>9. CASE Rename(Dest)
  <2> DEFINE q == [dst EXCEPT !.madeBackup = TRUE]
  <2>1. /\ saving' = [saving EXCEPT ![Dest] = "open"] /\ kind' = kind
        /\ content' = [content EXCEPT ![Dest] = "renamed"] /\ excused' = excused
        /\ pb' = [pb EXCEPT ![Dest] = q]
    BY <1>9 DEF Rename, dst
  <2>2. q.open = dst.open /\ q.closing = dst.closing /\ q.items = dst.items
    OBVIOUS
  <2> HIDE DEF q
  <2>3. dst' = q /\ content'[Dest] = "renamed"
    BY <1>6, <2>1, BookFacts, UpdExcept DEF Upd, dst
  <2>4. saving'[Source] = saving[Source] /\ saving'[Dest] # "no"
    BY <1>7, <2>1
  <2> QED
    BY <1>1, <1>4, <1>5, <2>1, <2>2, <2>3, <2>4, DestGoesOn
<1>10. CASE RenameFails(Dest)
  BY <1>1, <1>10, DestFails DEF RenameFails
<1>11. CASE OpenFile(Dest)
  <2>1. /\ kind' = kind /\ pb' = pb /\ excused' = excused
        /\ \/ saving' = [saving EXCEPT ![Dest] = "write"] /\ content' = [content EXCEPT ![Dest] = "part"]
           \/ saving' = [saving EXCEPT ![Dest] = "lost"] /\ content' = content
    BY <1>11 DEF OpenFile
  <2>2. content'[Dest] # "written"
    BY <1>5, <1>6, <2>1, BookFacts, UpdExcept DEF Upd
  <2>3. saving'[Source] = saving[Source] /\ saving'[Dest] # "no" /\ dst' = dst
    BY <1>7, <2>1 DEF dst
  <2> QED
    BY <1>1, <1>4, <1>5, <2>1, <2>2, <2>3, DestGoesOn
<1>12. CASE WriteLine(Dest)
  <2>1. /\ kind' = kind /\ content' = content /\ excused' = excused
        /\ \/ pb' = pb /\ saving' = saving
           \/ saving[Dest] = "write" /\ SyncThrows(Dest)
    BY <1>12 DEF WriteLine
  <2>2. pb' = pb /\ saving' = saving
    BY <1>1, <2>1, DestFails
  <2>3. dst' = dst
    BY <2>2 DEF dst
  <2> QED
    BY <1>1, <1>3, <1>4, <1>5, <2>1, <2>2, <2>3, DestGoesOn
<1>13. CASE CloseFile(Dest)
  <2>1. /\ saving[Dest] \in {"write", "lost"} /\ written[Dest] = Len(dst.items)
        /\ kind' = kind /\ disk' = disk /\ pb' = [pb EXCEPT ![Dest] = Closed]
    BY <1>5, <1>13 DEF CloseFile, dst
  <2>2. saving[Dest] = "lost" => excused' = [excused EXCEPT ![Dest] = excused[Dest] \cup {"unsaved"}]
    BY <1>13 DEF CloseFile
  <2>3. dst' = Closed /\ ~dst'.open
    <3>1. Upd(pb, pb', Dest, Closed)
      BY <1>6, <2>1, BookFacts, UpdExcept
    <3>2. dst' = Closed
      BY <3>1, BookFacts DEF Upd, dst
    <3> QED
      BY <3>2, ClosedFacts
  <2>4. DestInv'
    BY <1>4, <2>1, <2>3 DEF DestInv
  <2>5. CASE saving[Dest] = "lost"
    <3>1. "unsaved" \in excused'[Dest]
      BY <1>6, <2>2, <2>5, BookFacts, UpdExcept DEF Upd
    <3> QED
      BY <2>1, <2>3, <2>4, <3>1, ClosingResult
  <2>6. CASE saving[Dest] = "write"
    <3>1. WrittenLines(dst, disk[Dest], Len(dst.items))
      BY <1>2, <2>1, <2>6 DEF Saving
    <3>2. LinesOf(dst, disk[Dest])
      BY <3>1, LinesFacts
    <3>3. Right(StoredOf(kind[Dest], disk[Dest]))
      BY <1>2, <1>4, <1>5, <3>2, StoresRight
    <3> QED
      BY <2>1, <2>3, <2>4, <3>3, ClosingResult
  <2> QED
    BY <2>1, <2>5, <2>6
<1> QED
  BY <1>8, <1>9, <1>10, <1>11, <1>12, <1>13 DEF SyncStep

\* A destructor writes.
LEMMA SavesResult ==
  ASSUME IInv, ResultInv, outcome' = "ok", Saves
  PROVE  ResultInv'
<1>1. PICK b \in Book :
        /\ SyncStep(b)
        /\ outcome' = IF saving'[b] = "no" /\ saving[b] # "lost" /\ content'[b] # "written"
                      THEN "dead" ELSE outcome
  BY DEF Saves
<1>2. /\ pc = "close" /\ pc' = "close" /\ opt' = opt /\ wanted' = wanted
  BY DEF Saves
<1>3. CASE b = Source
  BY <1>1, <1>3, SourceSaves
<1>4. CASE b = Dest
  BY <1>1, <1>2, <1>4, DestSaves
<1> QED
  BY <1>3, <1>4, BookFacts

\* gsmpb returns.
LEMMA EndResult ==
  ASSUME IInv, ResultInv, outcome' = "ok", End
  PROVE  ResultInv'
<1>1. /\ pc = "close" /\ ~dst.open /\ pc' = "end" /\ opt' = opt /\ wanted' = wanted /\ outcome = "ok"
      /\ kind' = kind /\ pb' = pb /\ disk' = disk /\ content' = content /\ saving' = saving
      /\ excused' = excused
  BY DEF End, Goto, bookVars
<1>2. dst' = dst /\ (ByIndexOnME' <=> ByIndexOnME)
  BY <1>1, SameOptions DEF dst
<1>3. DestInv /\ ("unsaved" \notin excused[Dest] => Right(StoredOf(kind[Dest], disk[Dest])))
  BY <1>1 DEF ResultInv, DoneInv
<1>4. DestInv'
  BY <1>1, <1>2, <1>3 DEF DestInv
<1>5. LoopsInv'
  BY <1>1 DEF LoopsInv, WithBoth
<1>6. DoneInv'
  BY <1>1, <1>2, <1>3 DEF DoneInv, Right
<1> QED
  BY <1>4, <1>5, <1>6 DEF ResultInv

\* Every step of gsmpb keeps what is said of its result.
LEMMA ResultKept ==
  ASSUME NoBlankInMobile, IInv, ResultInv, [GsmpbNext]_vars
  PROVE  ResultInv'
<1>1. CASE UNCHANGED vars
  <2>1. /\ kind' = kind /\ pb' = pb /\ disk' = disk /\ content' = content /\ saving' = saving
        /\ excused' = excused /\ opt' = opt /\ wanted' = wanted /\ pc' = pc /\ pos' = pos
        /\ outcome' = outcome
    BY <1>1 DEF vars, bookVars, mainVars
  <2>2. src' = src /\ dst' = dst /\ (ByIndexOnME' <=> ByIndexOnME)
    BY <2>1, SameOptions DEF src, dst
  <2>3. (DestInv => DestInv') /\ (LoopsInv => LoopsInv') /\ (DoneInv => DoneInv')
    BY <2>1, <2>2 DEF DestInv, LoopsInv, DoneInv, Right
  <2> QED
    BY <2>1, <2>3 DEF ResultInv
<1>2. CASE GsmpbNext
  <2>1. CASE outcome' # "ok" \/ Library
    BY <2>1 DEF ResultInv, Library, mainVars
  <2>2. CASE outcome' = "ok" /\ ~Library
    <3>1. ~Kill
      BY <2>2 DEF Kill
    <3> QED
      BY <1>2, <2>2, <3>1, OpenSourceResult, OpenDestResult, SortBothResult, UpdateEntriesResult,
         UpdateEntriesIndexedResult, DeleteNotPresentResult, InsertNotPresentResult, ClearResult,
         CopyResult, LoopEndsResult, CloseResult, SavesResult, EndResult DEF GsmpbNext
  <2> QED
    BY <2>1, <2>2
<1> QED
  BY <1>1, <1>2

\* What gsmpb has made of its destination, in every state of its runs.
LEMMA ResultInvariant ==
  ASSUME NoBlankInMobile
  PROVE  GsmpbSpec => []ResultInv
<1>1. GsmpbInit => ResultInv
  BY InitialResult
<1>2. IInv /\ ResultInv /\ [GsmpbNext]_vars => ResultInv'
  BY ResultKept
<1> QED
  BY <1>1, <1>2, Invariance, PTL DEF GsmpbSpec

\* What is stored, in the words of the properties.
LEMMA StoredFacts == Stored = StoredOf(kind[Dest], disk[Dest])
  BY DEF Stored, StoredOf

\* A copy that gsmpb finishes without an error has put into the destination the
\* texts and numbers of the source, and nothing else, from and to any kind of
\* phonebook, for any contents.  No file has a blank line when there is a mobile, as
\* a mobile cannot store it; a destination that could not be opened for writing is
\* excluded, as sync() does not notice.
THEOREM CopiesExactly ==
  ASSUME NoBlankInMobile
  PROVE  GsmpbSpec => []Copied
<1>1. ASSUME ResultInv PROVE Copied
  <2> SUFFICES ASSUME pc = "end", outcome = "ok", ~opt.sync, "unsaved" \notin excused[Dest]
               PROVE  {<<e.text, e.tel>> : e \in Stored} = {<<e.text, e.tel>> : e \in wanted}
    BY DEF Copied
  <2>1. ~dst.open /\ Right(Stored)
    BY <1>1, StoredFacts DEF ResultInv, DoneInv
  <2>2. MarksOf(opt, Stored) = MarksOf(opt, wanted)
    BY <2>1 DEF Right, ByIndexOnME
  <2>3. \A S : MarksOf(opt, S) = {<<e.text, e.tel>> : e \in S}
    BY DEF MarksOf, MarkOf
  <2> QED
    BY <2>2, <2>3
<1> QED
  BY <1>1, ResultInvariant, PTL

\* A synchronization that gsmpb finishes without an error has made the destination
\* equal to the source: in lower-case names and numbers, or, with --index and no
\* mobile, in indices, names and numbers.  updateEntries(), deleteNotPresent() and
\* insertNotPresent() together leave nothing out and nothing behind.
THEOREM Synchronises ==
  ASSUME NoBlankInMobile
  PROVE  GsmpbSpec => []Synchronised
<1>1. ASSUME ResultInv PROVE Synchronised
  <2> SUFFICES ASSUME pc = "end", outcome = "ok", opt.sync, "unsaved" \notin excused[Dest]
               PROVE  /\ ~opt.indexed => Names(Stored) = Names(wanted)
                      /\ opt.indexed /\ "ME" \notin {kind[Source], kind[Dest]}
                           => InOrder(Stored) = InOrder(wanted)
    BY DEF Synchronised
  <2>1. ~dst.open /\ Right(Stored)
    BY <1>1, StoredFacts DEF ResultInv, DoneInv
  <2>2. ByIndexOnME \/ MarksOf(opt, Stored) = MarksOf(opt, wanted)
    BY <2>1 DEF Right
  <2>3. ASSUME ~opt.indexed PROVE Names(Stored) = Names(wanted)
    <3>1. \A S : MarksOf(opt, S) = Names(S)
      BY <2>3 DEF MarksOf, MarkOf, Names
    <3> QED
      BY <2>2, <2>3, <3>1 DEF ByIndexOnME
  <2>4. ASSUME opt.indexed, "ME" \notin {kind[Source], kind[Dest]}
        PROVE  InOrder(Stored) = InOrder(wanted)
    <3>1. \A S : MarksOf(opt, S) = InOrder(S)
      BY <2>4 DEF MarksOf, MarkOf, InOrder
    <3> QED
      BY <2>2, <2>4, <3>1 DEF ByIndexOnME
  <2> QED
    BY <2>3, <2>4
<1> QED
  BY <1>1, ResultInvariant, PTL
=============================================================================
