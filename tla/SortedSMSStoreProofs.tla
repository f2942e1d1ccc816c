------------------------ MODULE SortedSMSStoreProofs ------------------------
(***************************************************************************)
(* Proofs about SortedSMSStore: the file of a store or its backup is       *)
(* complete at every moment; a store of the mobile has what the mobile     *)
(* has; a backup and a deletion of gsmsmsstore do exactly what they should.*)
(*                                                                         *)
(* The last three rest on one invariant, which holds until the run is      *)
(* excused: a message is missed or goes to another store of the mobile, a  *)
(* write is lost, an erasure by key stops half way or erases others than   *)
(* it takes off the map.  The map of a store has one entry for every index *)
(* with the key of its message (StoreInv), and what the loops have done is *)
(* counted by message (BackupInv, DeleteInv, EndInv).                      *)
(***************************************************************************)
EXTENDS SortedSMSStore, FiniteSetTheorems, FunctionTheorems, SequenceTheorems, TLAPS

\* What a file or a backup may hold, and how far a sync() may be.
Holdings == {"none", "read", "part", "written", "renamed"}
Stages   == {"no", "rename", "open", "write", "lost"}

FileTypes == /\ content \in [Side -> Holdings] /\ backup \in [Side -> Holdings]
             /\ saving \in [Side -> Stages]

\* Until the file is renamed to its backup it is as it was read, and from then
\* on the backup is: a second sync() does not rename what the first one wrote.
Untouched(b) == content[b] = "read" /\ backup[b] = "none" /\ saving[b] \in {"no", "rename"}
Renamed(b)   == backup[b] = "read" /\ saving[b] # "rename"
FileInv == FileTypes /\ \A b \in Side : kind[b] = "file" => Untouched(b) \/ Renamed(b)

-----------------------------------------------------------------------------
\* The invariant of the files holds at first.
LEMMA FileInit == Init => FileInv
  BY DEF Init, FileInv, FileTypes, Holdings, Stages, Untouched, Renamed, Side

\* Steps that do nothing to files.
LEMMA FileRest ==
  ASSUME FileInv, UNCHANGED <<kind, content, backup>>,
         saving' = saving \/ saving' = [b \in Side |-> "no"]
  PROVE  FileInv'
<1>1. FileTypes'
  BY DEF FileInv, FileTypes, Stages
<1>2. ASSUME NEW b \in Side, kind'[b] = "file" PROVE Untouched(b)' \/ Renamed(b)'
  BY <1>2 DEF FileInv, Untouched, Renamed
<1> QED
  BY <1>1, <1>2 DEF FileInv

\* Every step keeps it.
LEMMA FileNext == FileInv /\ [Next]_vars => FileInv'
<1> SUFFICES ASSUME FileInv, [Next]_vars PROVE FileInv'
  OBVIOUS
<1> USE DEF fileVars, mainVars, ghostVars
<1>1. ASSUME NEW b \in Side, OpenFile(b) \/ LoadSlot(b) \/ Arrive(b) PROVE FileInv'
  BY <1>1, FileRest DEF OpenFile, LoadSlot, Arrive
<1>2. ASSUME NEW b \in Side, NEW closing \in BOOLEAN, Sync(b, closing) PROVE FileInv'
  <2>1. /\ UNCHANGED <<kind, content, backup>> /\ saving[b] = "no"
        /\ saving' = saving \/ saving' = [saving EXCEPT ![b] = FirstStep(b)]
    BY <1>2 DEF Sync
  <2>2. CASE saving' = saving
    BY <2>1, <2>2, FileRest
  <2>3. CASE saving' = [saving EXCEPT ![b] = FirstStep(b)]
    <3>1. FileTypes'
      BY <2>1, <2>3 DEF FileInv, FileTypes, Stages, FirstStep
    <3>2. ASSUME NEW c \in Side, kind'[c] = "file" PROVE Untouched(c)' \/ Renamed(c)'
      BY <2>1, <2>3, <3>2 DEF FileInv, FileTypes, Untouched, Renamed, FirstStep
    <3> QED
      BY <3>1, <3>2 DEF FileInv
  <2> QED
    BY <2>1, <2>2, <2>3
<1>3. ASSUME NEW b \in Side, Rename(b) PROVE FileInv'
  <2>1. kind' = kind /\ saving[b] = "rename"
    BY <1>3 DEF Rename
  <2>2. CASE /\ saving' = [saving EXCEPT ![b] = "open"]
             /\ backup' = [backup EXCEPT ![b] = content[b]]
             /\ content' = [content EXCEPT ![b] = "renamed"]
    <3>1. FileTypes'
      BY <2>2 DEF FileInv, FileTypes, Stages, Holdings
    <3>2. ASSUME NEW c \in Side, kind'[c] = "file" PROVE Untouched(c)' \/ Renamed(c)'
      BY <2>1, <2>2, <3>2 DEF FileInv, FileTypes, Untouched, Renamed
    <3> QED
      BY <3>1, <3>2 DEF FileInv
  <2>3. CASE saving' = [saving EXCEPT ![b] = "no"] /\ UNCHANGED <<content, backup>>
    <3>1. FileTypes'
      BY <2>3 DEF FileInv, FileTypes, Stages
    <3>2. ASSUME NEW c \in Side, kind'[c] = "file" PROVE Untouched(c)' \/ Renamed(c)'
      BY <2>1, <2>3, <3>2 DEF FileInv, FileTypes, Untouched, Renamed
    <3> QED
      BY <3>1, <3>2 DEF FileInv
  <2> QED
    BY <1>3, <2>2, <2>3 DEF Rename
<1>4. ASSUME NEW b \in Side, Open(b) PROVE FileInv'
  <2>1. /\ kind' = kind /\ backup' = backup /\ saving[b] = "open"
        /\ \E s \in {"write", "lost"} : saving' = [saving EXCEPT ![b] = s]
        /\ content' = content \/ content' = [content EXCEPT ![b] = "part"]
    BY <1>4 DEF Open
  <2>2. FileTypes'
    BY <2>1 DEF FileInv, FileTypes, Stages, Holdings
  <2>3. ASSUME NEW c \in Side, kind'[c] = "file" PROVE Untouched(c)' \/ Renamed(c)'
    BY <2>1, <2>3 DEF FileInv, FileTypes, Untouched, Renamed
  <2> QED
    BY <2>2, <2>3 DEF FileInv
<1>5. ASSUME NEW b \in Side, Write(b) PROVE FileInv'
  <2>1. /\ kind' = kind /\ backup' = backup /\ saving[b] \in {"write", "lost"}
        /\ saving' = [saving EXCEPT ![b] = "no"]
        /\ content' = content \/ content' = [content EXCEPT ![b] = "written"]
    BY <1>5 DEF Write
  <2>2. FileTypes'
    BY <2>1 DEF FileInv, FileTypes, Stages, Holdings
  <2>3. ASSUME NEW c \in Side, kind'[c] = "file" PROVE Untouched(c)' \/ Renamed(c)'
    BY <2>1, <2>3 DEF FileInv, FileTypes, Untouched, Renamed
  <2> QED
    BY <2>2, <2>3 DEF FileInv
<1>5a. ASSUME NEW b \in Side, WriteFails(b) PROVE FileInv'
  <2>1. /\ UNCHANGED <<kind, content, backup>> /\ saving[b] = "write"
        /\ saving' = [saving EXCEPT ![b] = "no"]
    BY <1>5a DEF WriteFails
  <2>2. FileTypes'
    BY <2>1 DEF FileInv, FileTypes, Stages
  <2>3. ASSUME NEW c \in Side, kind'[c] = "file" PROVE Untouched(c)' \/ Renamed(c)'
    BY <2>1, <2>3 DEF FileInv, FileTypes, Untouched, Renamed
  <2> QED
    BY <2>2, <2>3 DEF FileInv
<1>6. CASE Backup \/ Clear \/ ClearEnds \/ Copy \/ Add \/ Delete \/ Library \/ End \/ Kill
  BY <1>6, FileRest DEF Backup, Clear, ClearEnds, Copy, Add, Delete, Library, End, Kill
<1>7. CASE UNCHANGED vars
  BY <1>7, FileRest DEF vars
<1> QED
  BY <1>1, <1>2, <1>3, <1>4, <1>5, <1>5a, <1>6, <1>7 DEF Next

\* The file of a store or its backup is complete at every moment, whenever the
\* program is killed and whichever step of sync() fails (SortedSMSStore::sync).
THEOREM FileOrBackup == Spec => []ContentSafe
<1>1. FileInv => ContentSafe
  BY DEF FileInv, Untouched, Renamed, ContentSafe
<1> QED
  BY <1>1, FileInit, FileNext, PTL DEF Spec

Puts    == INSTANCE FoldTheorems WITH op <- Put
Keeps   == INSTANCE FoldTheorems WITH op <- Keep
Reading == INSTANCE FoldTheorems WITH op <- ReadMessage

EntryType == [index : Nat, message : Message]
ItemType  == [key : Nat \X Nat, e : EntryType]
StoreType == [open : BOOLEAN, closing : BOOLEAN, order : Orders, items : Seq(ItemType),
              changed : BOOLEAN, next : Nat]

\* The entries of a map, in no order.
Held(items) == {items[k].e : k \in DOMAIN items}

\* No two entries have the same index, and every key is that of its entry.
Distinct(items)     == \A j, k \in DOMAIN items : items[j].e.index = items[k].e.index => j = k
Keyed(order, items) == \A k \in DOMAIN items : items[k].key = KeyOf(order, items[k].e)
IsMap(order, items) == items \in Seq(ItemType) /\ Distinct(items) /\ Keyed(order, items)

\* An item made for an order has the type of items.
LEMMA ItemFacts ==
  ASSUME NEW order \in Orders, NEW e \in EntryType
  PROVE  /\ Item(order, e) \in ItemType
         /\ Item(order, e).e = e /\ Item(order, e).key = KeyOf(order, e)
<1>1. e.index \in Nat /\ e.message \in Message
  BY DEF EntryType
<1>2. /\ Date[e.message] \in Nat /\ Type[e.message] \in Nat
      /\ Sender[e.message] \in Nat \X Nat
  BY <1>1, SortedSMSStoreAssumption
<1>3. KeyOf(order, e) \in Nat \X Nat
  BY <1>1, <1>2 DEF KeyOf, Orders
<1> QED
  BY <1>3 DEF Item, ItemType

\* The map without items.
LEMMA EmptyMap ==
  ASSUME NEW order
  PROVE  IsMap(order, <<>>) /\ Held(<<>>) = {} /\ Len(<<>>) = 0
  BY DEF IsMap, Distinct, Keyed, Held

\* insert() of the map (gsm_sorted_sms_store.cc:382): it has one more entry.
LEMMA PutFacts ==
  ASSUME NEW order \in Orders, NEW items, IsMap(order, items), NEW e \in EntryType,
         \A x \in Held(items) : x.index # e.index
  PROVE  /\ IsMap(order, Put(items, Item(order, e)))
         /\ Held(Put(items, Item(order, e))) = Held(items) \cup {e}
<1> DEFINE it == Item(order, e)
           T == {k \in DOMAIN items : items[k].key[1] <= it.key[1]}
           n == 1 + Cardinality(T)
           t == Put(items, it)
<1>0. /\ items \in Seq(ItemType) /\ Len(items) \in Nat /\ DOMAIN items = 1..Len(items)
  BY LenProperties DEF IsMap
<1>1. it \in ItemType /\ it.e = e /\ it.key = KeyOf(order, e)
  BY ItemFacts
<1>2. n \in 1..(Len(items) + 1)
  <2>1. IsFiniteSet(1..Len(items)) /\ Cardinality(1..Len(items)) = Len(items)
    BY <1>0, FS_Interval
  <2>2. T \subseteq 1..Len(items)
    BY <1>0
  <2> HIDE DEF T
  <2>3. Cardinality(T) \in Nat /\ Cardinality(T) <= Len(items)
    BY <2>1, <2>2, FS_Subset, FS_CardinalityType
  <2> QED
    BY <1>0, <2>3
<1>3. t = Puts!InsertAt(items, n, it)
  BY Zenon DEF Put, InsertAt, Puts!InsertAt
<1> HIDE DEF n, it, t
<1>4. t \in Seq(ItemType) /\ Puts!Inserted(items, t, n, it)
  BY <1>0, <1>1, <1>2, <1>3, Puts!InsertAtFacts
<1>5. /\ Len(t) = Len(items) + 1 /\ DOMAIN t = 1..(Len(items) + 1)
      /\ \A k \in 1..(Len(items) + 1) :
           t[k] = IF k < n THEN items[k] ELSE IF k = n THEN it ELSE items[k - 1]
  BY <1>4, LenProperties DEF Puts!Inserted
<1> DEFINE L == Len(items)
           h(k) == IF k < n THEN k ELSE k - 1
<1>6. \A k \in 1..(L + 1) : k # n => h(k) \in DOMAIN items /\ t[k] = items[h(k)]
  BY <1>0, <1>2, <1>5
<1>7. n \in 1..(L + 1) /\ t[n] = it
  BY <1>0, <1>2, <1>5
<1>8. \A k \in DOMAIN items : items[k].e \in Held(items) /\ items[k].e.index # e.index
  BY DEF Held
<1>9. Distinct(t)
  <2> SUFFICES ASSUME NEW j \in 1..(L + 1), NEW k \in 1..(L + 1), t[j].e.index = t[k].e.index
               PROVE  j = k
    BY <1>5 DEF Distinct
  <2>1. CASE j = n /\ k # n
    BY <1>1, <1>6, <1>7, <1>8, <2>1
  <2>2. CASE j # n /\ k = n
    BY <1>1, <1>6, <1>7, <1>8, <2>2
  <2>3. CASE j # n /\ k # n
    <3>1. h(j) = h(k)
      BY <1>6, <2>3 DEF IsMap, Distinct
    <3> QED
      BY <2>3, <3>1, <1>2, <1>0
  <2> QED
    BY <2>1, <2>2, <2>3
<1>10. Keyed(order, t)
  <2> SUFFICES ASSUME NEW k \in 1..(L + 1) PROVE t[k].key = KeyOf(order, t[k].e)
    BY <1>5 DEF Keyed
  <2> QED
    BY <1>1, <1>6, <1>7 DEF IsMap, Keyed
<1>11. Held(t) = Held(items) \cup {e}
  <2>1. \A k \in 1..(L + 1) : t[k].e \in Held(items) \cup {e}
    BY <1>1, <1>6, <1>7, <1>8
  <2>2. \A m \in DOMAIN items : \E k \in 1..(L + 1) : t[k] = items[m]
    <3> TAKE m \in DOMAIN items
    <3>1. CASE m < n
      <4>1. m \in 1..(L + 1) /\ t[m] = items[m]
        BY <1>0, <1>5, <3>1
      <4> QED
        BY <4>1
    <3>2. CASE ~(m < n)
      <4>1. m + 1 \in 1..(L + 1) /\ ~(m + 1 < n) /\ m + 1 # n /\ (m + 1) - 1 = m
        BY <1>0, <1>2, <3>2
      <4>2. t[m + 1] = items[m]
        BY <1>5, <4>1
      <4> QED
        BY <4>1, <4>2
    <3> QED
      BY <3>1, <3>2
  <2>3. \A x \in Held(items) \cup {e} : \E k \in 1..(L + 1) : t[k].e = x
    BY <1>1, <1>7, <2>2 DEF Held
  <2>4. Held(t) = {t[k].e : k \in 1..(L + 1)}
    BY <1>5 DEF Held
  <2> QED
    BY <2>1, <2>3, <2>4
<1> QED
  BY <1>4, <1>9, <1>10, <1>11 DEF IsMap, t, it

\* The number of entries is that of the items.
LEMMA SizeOfMap ==
  ASSUME NEW items \in Seq(ItemType), Distinct(items)
  PROVE  /\ IsFiniteSet(Held(items)) /\ Cardinality(Held(items)) = Len(items)
         /\ Held(items) \subseteq EntryType
<1>0. Len(items) \in Nat /\ DOMAIN items = 1..Len(items)
  BY LenProperties
<1>1. IsFiniteSet(1..Len(items)) /\ Cardinality(1..Len(items)) = Len(items)
  BY <1>0, FS_Interval
<1> DEFINE f == [k \in 1..Len(items) |-> items[k].e]
<1>2. f \in Bijection(1..Len(items), Held(items))
  BY <1>0 DEF Bijection, Injection, Surjection, Held, Distinct, IsInjective
<1>3. ExistsBijection(1..Len(items), Held(items))
  BY <1>2 DEF ExistsBijection
<1>4. \A k \in 1..Len(items) : items[k] \in ItemType
  BY ElementOfSeq
<1> QED
  BY <1>0, <1>1, <1>3, <1>4, FS_Bijection DEF Held, ItemType

PutAll(items, s)  == FoldLeft(Put, items, s)
KeepAll(items, s) == FoldLeft(Keep, items, s)
ReadAll(s, c)     == FoldLeft(ReadMessage, s, c)

\* acc[k] is what the fold made of base and the first k elements.
PutSteps(base, seq, n, acc)  == /\ acc[0] = base /\ PutAll(base, seq) = acc[n]
                                /\ \A k \in 1..n : acc[k] = Put(acc[k - 1], seq[k])
KeepSteps(base, seq, n, acc) == /\ acc[0] = base /\ KeepAll(base, seq) = acc[n]
                                /\ \A k \in 1..n : acc[k] = Keep(acc[k - 1], seq[k])
ReadSteps(base, seq, n, acc) == /\ acc[0] = base /\ ReadAll(base, seq) = acc[n]
                                /\ \A k \in 1..n : acc[k] = ReadMessage(acc[k - 1], seq[k])

\* Items put into the map one after the other, as the maps this goes through.
LEMMA PutFold ==
  ASSUME NEW base, NEW seq, NEW n \in Nat, DOMAIN seq = 1..n
  PROVE  \E acc : PutSteps(base, seq, n, acc)
<1>1. \E acc : Puts!Iterates(base, seq, n, acc)
  BY Puts!FoldLeftIterates
<1>2. Puts!Fold(base, seq) = PutAll(base, seq)
  BY Zenon DEF PutAll, FoldLeft, MapThenFoldSet, Puts!Fold, Puts!FoldLeft, Puts!MapThenFoldSet, Max, Puts!Max
<1> QED
  BY <1>1, <1>2 DEF Puts!Iterates, PutSteps

\* The same of what keeps some of the items.
LEMMA KeepFold ==
  ASSUME NEW base, NEW seq, NEW n \in Nat, DOMAIN seq = 1..n
  PROVE  \E acc : KeepSteps(base, seq, n, acc)
<1>1. \E acc : Keeps!Iterates(base, seq, n, acc)
  BY Keeps!FoldLeftIterates
<1>2. Keeps!Fold(base, seq) = KeepAll(base, seq)
  BY Zenon DEF KeepAll, FoldLeft, MapThenFoldSet, Keeps!Fold, Keeps!FoldLeft, Keeps!MapThenFoldSet, Max, Keeps!Max
<1> QED
  BY <1>1, <1>2 DEF Keeps!Iterates, KeepSteps

\* The same of what reads a file.
LEMMA ReadFold ==
  ASSUME NEW base, NEW seq, NEW n \in Nat, DOMAIN seq = 1..n
  PROVE  \E acc : ReadSteps(base, seq, n, acc)
<1>1. \E acc : Reading!Iterates(base, seq, n, acc)
  BY Reading!FoldLeftIterates
<1>2. Reading!Fold(base, seq) = ReadAll(base, seq)
  BY Zenon DEF ReadAll, FoldLeft, MapThenFoldSet, Reading!Fold, Reading!FoldLeft, Reading!MapThenFoldSet, Max, Reading!Max
<1> QED
  BY <1>1, <1>2 DEF Reading!Iterates, ReadSteps

\* setSortOrder() (gsm_sorted_sms_store.cc:262) keeps the entries of the map.
LEMMA SortFacts ==
  ASSUME NEW order \in Orders, NEW s \in StoreType, IsMap(s.order, s.items)
  PROVE  LET t == SetSortOrder(s, order)
         IN /\ t \in StoreType /\ IsMap(t.order, t.items) /\ t.order = order
            /\ Held(t.items) = Held(s.items)
            /\ t.open = s.open /\ t.closing = s.closing /\ t.changed = s.changed
            /\ t.next = s.next
<1>1. CASE order = s.order
  BY <1>1 DEF SetSortOrder
<1>2. CASE order # s.order
  <2> DEFINE n == Len(s.items)
             seq == [k \in DOMAIN s.items |-> Item(order, s.items[k].e)]
             r == PutAll(<<>>, seq)
             Upto(k) == {s.items[j].e : j \in 1..k}
  <2>1. n \in Nat /\ DOMAIN s.items = 1..n /\ \A k \in 1..n : s.items[k] \in ItemType
    BY LenProperties, ElementOfSeq DEF IsMap
  <2>2. DOMAIN seq = 1..n /\ \A k \in 1..n : seq[k] = Item(order, s.items[k].e)
    BY <2>1
  <2>2a. \A j, k \in 1..n : s.items[j].e.index = s.items[k].e.index => j = k
    BY <2>1 DEF IsMap, Distinct
  <2>3. SetSortOrder(s, order) = [s EXCEPT !.order = order, !.items = r]
    BY <1>2, Zenon DEF SetSortOrder, PutAll
  <2>4. Held(s.items) = Upto(n)
    BY <2>1 DEF Held
  <2>5. \A k \in 1..n : s.items[k].e \in EntryType
    BY <2>1 DEF ItemType
  <2> HIDE DEF n, seq, r
  <2>6. PICK acc : PutSteps(<<>>, seq, n, acc)
    BY <2>1, <2>2, PutFold
  <2> USE DEF PutSteps
  <2> DEFINE S == {k \in Nat : k <= n => IsMap(order, acc[k]) /\ Held(acc[k]) = Upto(k)}
  <2>7. 0 \in S
    <3>1. Upto(0) = {}
      OBVIOUS
    <3> QED
      BY <2>6, <3>1, EmptyMap
  <2>8. ASSUME NEW k \in Nat, k \in S PROVE k + 1 \in S
    <3> SUFFICES ASSUME k + 1 <= n PROVE IsMap(order, acc[k + 1]) /\ Held(acc[k + 1]) = Upto(k + 1)
      OBVIOUS
    <3>1. k + 1 \in 1..n /\ (k + 1) - 1 = k
      BY <2>1
    <3>2. IsMap(order, acc[k]) /\ Held(acc[k]) = Upto(k)
      BY <2>1, <2>8
    <3> DEFINE e == s.items[k + 1].e
    <3>3. acc[k + 1] = Put(acc[k], Item(order, e))
      BY <2>2, <2>6, <3>1
    <3>4. e \in EntryType
      BY <2>5, <3>1
    <3>5. \A x \in Held(acc[k]) : x.index # e.index
      <4> SUFFICES ASSUME NEW j \in 1..k, s.items[j].e.index = e.index PROVE FALSE
        BY <3>2
      <4>1. j \in 1..n /\ j # k + 1
        BY <2>1, <3>1
      <4> QED
        BY <2>2a, <3>1, <4>1
    <3>6. Upto(k + 1) = Upto(k) \cup {e}
      <4>1. 1..(k + 1) = (1..k) \cup {k + 1}
        OBVIOUS
      <4> QED
        BY <4>1
    <3> HIDE DEF e, Upto
    <3>7. /\ IsMap(order, Put(acc[k], Item(order, e)))
          /\ Held(Put(acc[k], Item(order, e))) = Held(acc[k]) \cup {e}
      <4> DEFINE a == acc[k]
      <4>1. IsMap(order, a) /\ \A x \in Held(a) : x.index # e.index
        BY <3>2, <3>5
      <4> HIDE DEF a
      <4>2. IsMap(order, Put(a, Item(order, e))) /\ Held(Put(a, Item(order, e))) = Held(a) \cup {e}
        BY <3>4, <4>1, PutFacts
      <4> QED
        BY <4>2 DEF a
    <3> QED
      BY <3>2, <3>3, <3>6, <3>7
  <2>9. n \in S
    <3> HIDE DEF S
    <3>1. Nat \subseteq S
      BY <2>7, <2>8, Puts!Induction
    <3> QED
      BY <2>1, <3>1
  <2>10. IsMap(order, r) /\ Held(r) = Held(s.items)
    BY <2>1, <2>4, <2>6, <2>9 DEF r
  <2>11. r \in Seq(ItemType)
    BY <2>10 DEF IsMap
  <2> QED
    BY <2>3, <2>10, <2>11 DEF StoreType
<1> QED
  BY <1>1, <1>2

\* erase() takes the places of a set off the map (gsm_sorted_sms_store.cc:464).
LEMMA WithoutFacts ==
  ASSUME NEW order, NEW items, IsMap(order, items), NEW P
  PROVE  /\ IsMap(order, Without(items, P))
         /\ Held(Without(items, P)) = {items[k].e : k \in DOMAIN items \ P}
<1> DEFINE n == Len(items)
           seq == [k \in DOMAIN items |-> <<k \notin P, items[k]>>]
           Upto(k) == {items[j].e : j \in (1..k) \ P}
<1>1. n \in Nat /\ DOMAIN items = 1..n /\ \A k \in 1..n : items[k] \in ItemType
  BY LenProperties, ElementOfSeq DEF IsMap
<1>2. DOMAIN seq = 1..n /\ \A k \in 1..n : seq[k] = <<k \notin P, items[k]>>
  BY <1>1
<1>3. /\ \A j, k \in 1..n : items[j].e.index = items[k].e.index => j = k
      /\ \A k \in 1..n : items[k].key = KeyOf(order, items[k].e)
  BY <1>1 DEF IsMap, Distinct, Keyed
<1>4. Without(items, P) = KeepAll(<<>>, seq)
  BY Zenon DEF Without, KeepAll
<1> HIDE DEF n, seq
<1>5. PICK acc : KeepSteps(<<>>, seq, n, acc)
  BY <1>1, <1>2, KeepFold
<1> USE DEF KeepSteps
<1> DEFINE S == {k \in Nat : k <= n => IsMap(order, acc[k]) /\ Held(acc[k]) = Upto(k)}
<1>6. 0 \in S
  <2>1. Upto(0) = {}
    OBVIOUS
  <2> QED
    BY <1>5, <2>1, EmptyMap
<1>7. ASSUME NEW k \in Nat, k \in S PROVE k + 1 \in S
  <2> SUFFICES ASSUME k + 1 <= n PROVE IsMap(order, acc[k + 1]) /\ Held(acc[k + 1]) = Upto(k + 1)
    OBVIOUS
  <2>1. k + 1 \in 1..n /\ (k + 1) - 1 = k
    BY <1>1
  <2>2. IsMap(order, acc[k]) /\ Held(acc[k]) = Upto(k)
    BY <1>1, <1>7
  <2>3. acc[k + 1] = Keep(acc[k], <<k + 1 \notin P, items[k + 1]>>)
    BY <1>2, <1>5, <2>1
  <2>4. CASE k + 1 \in P
    <3>1. acc[k + 1] = acc[k]
      BY <2>3, <2>4 DEF Keep
    <3>2. (1..(k + 1)) \ P = (1..k) \ P
      BY <2>4
    <3> QED
      BY <2>2, <3>1, <3>2
  <2>5. CASE k + 1 \notin P
    <3> DEFINE a == acc[k]
               it == items[k + 1]
               m == Len(a)
    <3>1. acc[k + 1] = Append(a, it)
      BY <2>3, <2>5 DEF Keep
    <3>2. /\ a \in Seq(ItemType) /\ m \in Nat /\ DOMAIN a = 1..m /\ it \in ItemType
          /\ \A i, j \in 1..m : a[i].e.index = a[j].e.index => i = j
          /\ \A j \in 1..m : a[j].key = KeyOf(order, a[j].e)
          /\ it.key = KeyOf(order, it.e)
      BY <1>1, <1>3, <2>1, <2>2, LenProperties DEF IsMap, Distinct, Keyed
    <3>3. \A j \in 1..m : a[j].e \in Upto(k)
      BY <2>2, <3>2 DEF Held
    <3>4. \A j \in 1..m : a[j].e.index # it.e.index
      <4> SUFFICES ASSUME NEW j \in 1..m, a[j].e.index = it.e.index PROVE FALSE
        OBVIOUS
      <4>1. PICK i \in (1..k) \ P : a[j].e = items[i].e
        BY <3>3
      <4>2. i \in 1..n /\ i # k + 1
        BY <1>1, <2>1
      <4> QED
        BY <1>3, <2>1, <4>1, <4>2
    <3> DEFINE t == Append(a, it)
    <3> HIDE DEF a, it, m
    <3>5. /\ t \in Seq(ItemType) /\ Len(t) = m + 1 /\ DOMAIN t = 1..(m + 1)
          /\ \A j \in 1..m : t[j] = a[j]
          /\ t[m + 1] = it
      BY <3>2, AppendProperties, LenProperties DEF m
    <3> HIDE DEF t
    <3>6. Distinct(t)
      <4> SUFFICES ASSUME NEW i \in 1..(m + 1), NEW j \in 1..(m + 1), t[i].e.index = t[j].e.index
                   PROVE  i = j
        BY <3>5 DEF Distinct
      <4>1. CASE i = m + 1 /\ j # m + 1
        BY <3>2, <3>4, <3>5, <4>1
      <4>2. CASE i # m + 1 /\ j = m + 1
        BY <3>2, <3>4, <3>5, <4>2
      <4>3. CASE i # m + 1 /\ j # m + 1
        <5>1. i \in 1..m /\ j \in 1..m
          BY <3>2, <4>3
        <5> QED
          BY <3>2, <3>5, <5>1
      <4> QED
        BY <4>1, <4>2, <4>3
    <3>7. Keyed(order, t)
      <4> SUFFICES ASSUME NEW i \in 1..(m + 1) PROVE t[i].key = KeyOf(order, t[i].e)
        BY <3>5 DEF Keyed
      <4>1. i \in 1..m \/ i = m + 1
        BY <3>2
      <4> QED
        BY <3>2, <3>5, <4>1
    <3>8. Held(t) = Held(a) \cup {it.e}
      <4>1. Held(a) = {a[j].e : j \in 1..m} /\ Held(t) = {t[j].e : j \in 1..(m + 1)}
        BY <3>2, <3>5 DEF Held
      <4>2. 1..(m + 1) = (1..m) \cup {m + 1}
        BY <3>2
      <4> QED
        BY <3>5, <4>1, <4>2
    <3>9. Upto(k + 1) = Upto(k) \cup {it.e}
      <4>1. (1..(k + 1)) \ P = ((1..k) \ P) \cup {k + 1}
        BY <2>5
      <4> QED
        BY <4>1 DEF it
    <3>10. acc[k + 1] = t /\ Held(a) = Upto(k)
      BY <2>2, <3>1 DEF a, t, it
    <3> HIDE DEF Upto
    <3> QED
      BY <3>5, <3>6, <3>7, <3>8, <3>9, <3>10 DEF IsMap
  <2> QED
    BY <2>4, <2>5
<1>8. n \in S
  <2> HIDE DEF S
  <2>1. Nat \subseteq S
    BY <1>6, <1>7, Puts!Induction
  <2> QED
    BY <1>1, <2>1
<1> QED
  BY <1>1, <1>4, <1>5, <1>8

\* What files and the slots of the mobile hold, and their messages with their indices.
FileType  == {f \in Seq(Message \cup {Version}) :
                f # <<>> => f[1] = Version /\ \A k \in 2..Len(f) : f[k] \in Message}
SlotsType == [Slot -> Message \cup {NoMessage}]
FileEntries(f) == {[index |-> i, message |-> Content(f)[i + 1]] : i \in 0..(Len(Content(f)) - 1)}
SlotEntries(f) == {[index |-> i, message |-> f[i]] : i \in Used(f)}

\* How many entries have a message.
Having(H, m) == {e \in H : e.message = m}
Number(H, m) == Cardinality(Having(H, m))

\* t is the store s with one more entry.
Added(s, t, e) ==
  /\ t \in StoreType /\ IsMap(t.order, t.items)
  /\ Held(t.items) = Held(s.items) \cup {e}
  /\ t.open = s.open /\ t.closing = s.closing /\ t.order = s.order /\ t.next = s.next + 1

\* insert() and what reads a file or the mobile add one entry to a store.
LEMMA InsertFacts ==
  ASSUME NEW s \in StoreType, IsMap(s.order, s.items), NEW m \in Message, NEW i \in Nat,
         \A x \in Held(s.items) : x.index # i
  PROVE  /\ Added(s, Insert(s, m, i), [index |-> i, message |-> m]) /\ Insert(s, m, i).changed
         /\ Added(s, Load(s, m, i), [index |-> i, message |-> m]) /\ ~Load(s, m, i).changed
<1> DEFINE e == [index |-> i, message |-> m]
           r == Put(s.items, Item(s.order, e))
<1>1. e \in EntryType /\ e.index = i
  BY DEF EntryType
<1>2. s.order \in Orders
  BY DEF StoreType
<1> HIDE DEF e
<1>3. IsMap(s.order, r) /\ Held(r) = Held(s.items) \cup {e}
  BY <1>1, <1>2, PutFacts
<1>4. r \in Seq(ItemType)
  BY <1>3 DEF IsMap
<1> DEFINE u == [s EXCEPT !.changed = TRUE, !.next = @ + 1, !.items = r]
           v == [u EXCEPT !.changed = FALSE]
<1>5. Insert(s, m, i) = u /\ Load(s, m, i) = v
  BY DEF Insert, Load, r, e
<1> HIDE DEF r
<1>5a. s.next + 1 \in Nat
  BY DEF StoreType
<1>6. /\ u \in StoreType /\ u.items = r /\ u.open = s.open /\ u.closing = s.closing
      /\ u.order = s.order /\ u.next = s.next + 1 /\ u.changed
  BY <1>4, <1>5a DEF StoreType
<1> HIDE DEF u
<1>7. /\ v \in StoreType /\ v.items = r /\ v.open = s.open /\ v.closing = s.closing
      /\ v.order = s.order /\ v.next = s.next + 1 /\ ~v.changed
  BY <1>6 DEF StoreType
<1> HIDE DEF v
<1> QED
  BY <1>3, <1>5, <1>6, <1>7 DEF Added, e

\* erase() takes entries off a store.
LEMMA EraseFacts ==
  ASSUME NEW s \in StoreType, IsMap(s.order, s.items), NEW T, T # {}, NEW t, t = Erase(s, T, T)
  PROVE  /\ t \in StoreType /\ IsMap(t.order, t.items)
         /\ Held(t.items) = {s.items[k].e : k \in DOMAIN s.items \ T}
         /\ t.open = s.open /\ t.closing = s.closing /\ t.order = s.order /\ t.next = s.next
         /\ t.changed
<1> DEFINE r == Without(s.items, T)
<1>1. IsMap(s.order, r) /\ Held(r) = {s.items[k].e : k \in DOMAIN s.items \ T}
  BY WithoutFacts
<1>2. r \in Seq(ItemType)
  BY <1>1 DEF IsMap
<1>3. t = [s EXCEPT !.changed = TRUE, !.items = r]
  BY DEF Erase
<1> HIDE DEF r
<1> QED
  BY <1>1, <1>2, <1>3 DEF StoreType

\* The messages of a file follow its version.
LEMMA ContentFacts ==
  ASSUME NEW f \in FileType
  PROVE  /\ Content(f) \in Seq(Message)
         /\ Len(Content(f)) = IF f = <<>> THEN 0 ELSE Len(f) - 1
         /\ \A k \in 1..Len(Content(f)) : Content(f)[k] = f[k + 1]
<1>1. CASE f = <<>>
  <2>1. Content(f) = <<>>
    BY <1>1 DEF Content
  <2>2. <<>> \in Seq(Message) /\ Len(<<>>) = 0 /\ 1..0 = {}
    OBVIOUS
  <2>3. Content(f) \in Seq(Message) /\ Len(Content(f)) = 0
    BY <2>1, <2>2
  <2> QED
    BY <1>1, <2>2, <2>3
<1>2. CASE f # <<>>
  <2> DEFINE n == Len(f)
             c == Tail(f)
  <2>1. f \in Seq(Message \cup {Version}) /\ \A k \in 2..n : f[k] \in Message
    BY <1>2 DEF FileType
  <2>2. c \in Seq(Message \cup {Version}) /\ Len(c) = n - 1 /\ n \in Nat \ {0}
        /\ \A k \in 1..(n - 1) : c[k] = f[k + 1]
    BY <1>2, <2>1, HeadTailProperties, EmptySeq, LenProperties
  <2>3. \A k \in 1..Len(c) : c[k] \in Message
    <3> HIDE DEF n, c
    <3> TAKE k \in 1..Len(c)
    <3>1. k \in 1..(n - 1) /\ k + 1 \in 2..n
      BY <2>2
    <3> QED
      BY <2>1, <2>2, <3>1
  <2>4. c \in Seq(Message)
    <3> HIDE DEF c, n
    <3>1. c = [k \in 1..Len(c) |-> c[k]] /\ Len(c) \in Nat
      BY <2>2, LenProperties
    <3> QED
      BY <2>3, <3>1, SeqDef
  <2>5. Content(f) = c
    BY <1>2 DEF Content
  <2> QED
    BY <1>2, <2>2, <2>4, <2>5
<1> QED
  BY <1>1, <1>2

\* readSMSFile() numbers the messages of the file (gsm_sorted_sms_store.cc:71).
LEMMA FromFileFacts ==
  ASSUME NEW f \in FileType
  PROVE  LET s == FromFile(f)
         IN /\ s \in StoreType /\ s.order = "ByDate" /\ IsMap(s.order, s.items)
            /\ s.open /\ ~s.closing /\ ~s.changed
            /\ Held(s.items) = FileEntries(f)
            /\ \A e \in Held(s.items) : e.index < s.next
<1> DEFINE c == Content(f)
           n == Len(c)
           Upto(k) == {[index |-> i, message |-> c[i + 1]] : i \in 0..(k - 1)}
<1>1. c \in Seq(Message) /\ n \in Nat /\ DOMAIN c = 1..n /\ \A k \in 1..n : c[k] \in Message
  BY ContentFacts, LenProperties, ElementOfSeq
<1>2. FromFile(f) = ReadAll(Fresh, c)
  BY Zenon DEF FromFile, ReadAll
<1>3. FileEntries(f) = Upto(n)
  BY DEF FileEntries
<1> HIDE DEF c, n
<1>4. PICK acc : ReadSteps(Fresh, c, n, acc)
  BY <1>1, ReadFold
<1> USE DEF ReadSteps
<1> DEFINE Good(s, k) == /\ s \in StoreType /\ s.order = "ByDate" /\ IsMap(s.order, s.items)
                         /\ s.open /\ ~s.closing /\ ~s.changed
                         /\ Held(s.items) = Upto(k) /\ s.next = k
           S == {k \in Nat : k <= n => Good(acc[k], k)}
<1>5. 0 \in S
  <2>1. Upto(0) = {}
    OBVIOUS
  <2>2. /\ Fresh \in StoreType /\ Fresh.order = "ByDate" /\ Fresh.open /\ ~Fresh.closing
        /\ ~Fresh.changed /\ Fresh.next = 0 /\ Fresh.items = <<>>
    <3>1. <<>> \in Seq(ItemType)
      OBVIOUS
    <3> QED
      BY <3>1 DEF Fresh, Closed, StoreType, Orders
  <2>3. IsMap("ByDate", <<>>) /\ Held(<<>>) = {}
    BY EmptyMap
  <2> QED
    BY <1>4, <2>1, <2>2, <2>3
<1>6. ASSUME NEW k \in Nat, k \in S PROVE k + 1 \in S
  <2> SUFFICES ASSUME k + 1 <= n PROVE Good(acc[k + 1], k + 1)
    OBVIOUS
  <2>1. k + 1 \in 1..n /\ (k + 1) - 1 = k
    BY <1>1
  <2>2. Good(acc[k], k)
    BY <1>1, <1>6
  <2> DEFINE s == acc[k]
             m == c[k + 1]
             t == Load(s, m, k)
  <2>3. acc[k + 1] = t /\ m \in Message
    BY <1>1, <1>4, <2>1, <2>2 DEF ReadMessage
  <2>4. s \in StoreType /\ IsMap(s.order, s.items) /\ \A x \in Held(s.items) : x.index # k
    BY <2>2
  <2> HIDE DEF s, m
  <2>5. Added(s, t, [index |-> k, message |-> m]) /\ ~t.changed
    BY <2>3, <2>4, InsertFacts
  <2> HIDE DEF t
  <2>6. Upto(k + 1) = Upto(k) \cup {[index |-> k, message |-> m]}
    <3>1. 0..((k + 1) - 1) = (0..(k - 1)) \cup {k}
      OBVIOUS
    <3> QED
      BY <3>1 DEF m
  <2>7. Good(s, k)
    BY <2>2 DEF s
  <2> HIDE DEF Upto
  <2> QED
    BY <2>3, <2>5, <2>6, <2>7 DEF Added
<1>7. n \in S
  <2> HIDE DEF S
  <2>1. Nat \subseteq S
    BY <1>5, <1>6, Puts!Induction
  <2> QED
    BY <1>1, <2>1
<1>8. Good(FromFile(f), n)
  BY <1>1, <1>2, <1>4, <1>7
<1>9. \A e \in Upto(n) : e.index < n
  BY <1>1
<1> HIDE DEF Upto
<1> QED
  BY <1>3, <1>8, <1>9

\* A function that tells the elements of a finite set apart has as many values.
LEMMA SameSize ==
  ASSUME NEW D, IsFiniteSet(D), NEW f, DOMAIN f = D, f = [x \in D |-> f[x]],
         \A x, y \in D : f[x] = f[y] => x = y,
         NEW H, H = {f[x] : x \in D}
  PROVE  IsFiniteSet(H) /\ Cardinality(H) = Cardinality(D)
<1>1. f \in Bijection(D, H)
  BY DEF Bijection, Injection, Surjection, IsInjective
<1>2. ExistsBijection(D, H)
  BY <1>1 DEF ExistsBijection
<1> QED
  BY <1>2, FS_Bijection

\* A sequence is the part of it from its first element to its last.
LEMMA WholeSequence ==
  ASSUME NEW S, NEW f \in Seq(S)
  PROVE  SubSeq(f, 1, Len(f)) = f
<1> DEFINE l == Len(f)
           t == SubSeq(f, 1, l)
<1>1. l \in Int /\ 1 \in Int /\ l >= 0 /\ \A i \in 1..l : f[i] \in S
  BY LenProperties, ElementOfSeq
<1> HIDE DEF l
<1>2. /\ t \in Seq(S) /\ Len(t) = (IF 1 <= l THEN l - 1 + 1 ELSE 0)
      /\ \A i \in 1..(l - 1 + 1) : t[i] = f[1 + i - 1]
  BY <1>1, SubSeqProperties
<1> HIDE DEF t
<1>3. Len(t) = l /\ \A i \in 1..l : t[i] = f[i]
  <2>1. l - 1 + 1 = l /\ (IF 1 <= l THEN l - 1 + 1 ELSE 0) = l /\ \A i \in 1..l : 1 + i - 1 = i
    BY <1>1
  <2> QED
    BY <1>2, <2>1
<1>4. t = f
  BY <1>2, <1>3, SeqEqual DEF l
<1> QED
  BY <1>4 DEF t, l

\* The messages of a file are counted by its entries.
LEMMA FileCount ==
  ASSUME NEW f \in FileType, NEW m \in Message
  PROVE  IsFiniteSet(FileEntries(f)) /\ Count(f, m) = Number(FileEntries(f), m)
<1> DEFINE c == Content(f)
           n == Len(c)
           D == {k \in DOMAIN f : f[k] = m}
           g == [k \in D |-> [index |-> k - 2, message |-> m]]
<1> DEFINE l == Len(f)
<1>1. c \in Seq(Message) /\ n \in Nat /\ DOMAIN c = 1..n
      /\ n = (IF f = <<>> THEN 0 ELSE l - 1) /\ \A k \in 1..n : c[k] = f[k + 1]
  BY ContentFacts, LenProperties
<1>2. /\ l \in Nat /\ DOMAIN f = 1..l /\ (f = <<>> => l = 0)
      /\ (f # <<>> => f[1] = Version)
  BY LenProperties DEF FileType
<1>3. m # Version
  BY SortedSMSStoreAssumption
<1>4. FileEntries(f) = {[index |-> i, message |-> c[i + 1]] : i \in 0..(n - 1)}
  BY DEF FileEntries
<1> HIDE DEF c, n, l
<1>5. D \subseteq 1..l /\ IsFiniteSet(D)
  <2>1. IsFiniteSet(1..l)
    BY <1>2, FS_Interval
  <2> QED
    BY <1>2, <2>1, FS_Subset
<1>6. \A k \in D : k - 2 \in 0..(n - 1) /\ c[(k - 2) + 1] = m
  <2> SUFFICES ASSUME NEW k \in 1..l, f[k] = m PROVE k - 2 \in 0..(n - 1) /\ c[(k - 2) + 1] = m
    BY <1>2
  <2>0. f # <<>>
    BY <1>2
  <2>1. k # 1 /\ n = l - 1
    BY <1>1, <1>2, <1>3, <2>0
  <2>2. (k - 2) + 1 \in 1..n /\ ((k - 2) + 1) + 1 = k /\ k - 2 \in 0..(n - 1)
    BY <1>2, <2>1
  <2> QED
    BY <1>1, <2>2
<1>7. \A i \in 0..(n - 1) : c[i + 1] = m => i + 2 \in D /\ (i + 2) - 2 = i
  <2> SUFFICES ASSUME NEW i \in 0..(n - 1), c[i + 1] = m PROVE i + 2 \in D /\ (i + 2) - 2 = i
    OBVIOUS
  <2>0. i + 1 \in 1..n /\ (i + 1) + 1 = i + 2 /\ (i + 2) - 2 = i /\ i \in Int
    BY <1>1
  <2>1. n = l - 1
    BY <1>1, <2>0
  <2>2. i + 2 \in 1..l
    BY <1>2, <2>0, <2>1
  <2>3. f[i + 2] = m
    BY <1>1, <2>0
  <2> QED
    BY <1>2, <2>0, <2>2, <2>3
<1>8. Having(FileEntries(f), m) = {g[k] : k \in D}
  <2>1. ASSUME NEW k \in D PROVE g[k] \in Having(FileEntries(f), m)
    <3>1. g[k] = [index |-> k - 2, message |-> c[(k - 2) + 1]]
      BY <1>6
    <3> QED
      BY <1>4, <1>6, <3>1 DEF Having
  <2>2. ASSUME NEW e \in Having(FileEntries(f), m) PROVE \E k \in D : e = g[k]
    <3>1. PICK i \in 0..(n - 1) : e = [index |-> i, message |-> c[i + 1]]
      BY <1>4 DEF Having
    <3>2. c[i + 1] = m
      BY <3>1 DEF Having
    <3>3. i + 2 \in D /\ g[i + 2] = e
      BY <1>7, <3>1, <3>2
    <3> QED
      BY <3>3
  <2> HIDE DEF D, g
  <2> QED
    BY <2>1, <2>2
<1>9. \A j, k \in D : g[j] = g[k] => j = k
  BY <1>5
<1>10. DOMAIN g = D /\ g = [k \in D |-> g[k]]
  OBVIOUS
<1>11. Count(f, m) = Cardinality(D)
  BY DEF Count
<1> HIDE DEF D, g
<1>12. Number(FileEntries(f), m) = Cardinality(D)
  BY <1>5, <1>8, <1>9, <1>10, SameSize DEF Number
<1>13. IsFiniteSet(FileEntries(f))
  <2> DEFINE E == 0..(n - 1)
             h == [i \in E |-> [index |-> i, message |-> c[i + 1]]]
  <2>1. IsFiniteSet(E)
    BY <1>1, FS_Interval
  <2>2. /\ DOMAIN h = E /\ h = [i \in E |-> h[i]] /\ \A x, y \in E : h[x] = h[y] => x = y
        /\ FileEntries(f) = {h[i] : i \in E}
    BY <1>4
  <2> HIDE DEF E, h
  <2> QED
    BY <2>1, <2>2, SameSize
<1> QED
  BY <1>11, <1>12, <1>13

\* The messages in the slots of the mobile are counted by its entries.
LEMMA SlotCount ==
  ASSUME NEW f \in SlotsType
  PROVE  /\ IsFiniteSet(SlotEntries(f)) /\ Cardinality(SlotEntries(f)) = Cardinality(Used(f))
         /\ \A m \in Message : Count(f, m) = Number(SlotEntries(f), m)
<1>1. Slots \in Nat /\ NoMessage \notin Message /\ Slot = 0..(Slots - 1)
  BY SortedSMSStoreAssumption DEF Slot
<1>2. IsFiniteSet(Slot) /\ DOMAIN f = Slot
  BY <1>1, FS_Interval DEF SlotsType
<1>3. Used(f) \subseteq Slot /\ IsFiniteSet(Used(f))
  BY <1>2, FS_Subset DEF Used
<1>4. IsFiniteSet(SlotEntries(f)) /\ Cardinality(SlotEntries(f)) = Cardinality(Used(f))
  <2> DEFINE E == Used(f)
             h == [i \in E |-> [index |-> i, message |-> f[i]]]
  <2>1. /\ DOMAIN h = E /\ h = [i \in E |-> h[i]] /\ \A x, y \in E : h[x] = h[y] => x = y
        /\ SlotEntries(f) = {h[i] : i \in E}
    BY DEF SlotEntries
  <2> HIDE DEF E, h
  <2>2. IsFiniteSet(E)
    BY <1>3 DEF E
  <2>3. IsFiniteSet(SlotEntries(f)) /\ Cardinality(SlotEntries(f)) = Cardinality(E)
    BY <2>1, <2>2, SameSize
  <2> QED
    BY <2>3 DEF E
<1>5. ASSUME NEW m \in Message PROVE Count(f, m) = Number(SlotEntries(f), m)
  <2> DEFINE D == {i \in DOMAIN f : f[i] = m}
             g == [i \in D |-> [index |-> i, message |-> f[i]]]
  <2>1. D \subseteq Used(f) /\ \A i \in Used(f) : f[i] = m => i \in D
    BY <1>1 DEF Used
  <2>2. IsFiniteSet(D)
    BY <1>3, <2>1, FS_Subset
  <2>3. Having(SlotEntries(f), m) = {g[i] : i \in D}
    <3>1. ASSUME NEW e \in Having(SlotEntries(f), m) PROVE e \in {g[i] : i \in D}
      <4>1. PICK i \in Used(f) : e = [index |-> i, message |-> f[i]]
        BY DEF Having, SlotEntries
      <4>2. i \in D /\ g[i] = e
        BY <2>1, <4>1 DEF Having
      <4> QED
        BY <4>2
    <3>2. ASSUME NEW i \in D PROVE g[i] \in Having(SlotEntries(f), m)
      BY <2>1 DEF Having, SlotEntries
    <3> HIDE DEF D, g
    <3> QED
      BY <3>1, <3>2
  <2>4. /\ DOMAIN g = D /\ g = [i \in D |-> g[i]] /\ \A x, y \in D : g[x] = g[y] => x = y
    OBVIOUS
  <2>5. Count(f, m) = Cardinality(D)
    BY DEF Count
  <2> HIDE DEF D, g
  <2> QED
    BY <2>2, <2>3, <2>4, <2>5, SameSize DEF Number
<1> QED
  BY <1>4, <1>5

\* What sync() writes has the messages of the store (gsm_sorted_sms_store.cc:168).
LEMMA WrittenCount ==
  ASSUME NEW s \in StoreType, IsMap(s.order, s.items), NEW f, f = <<Version>> \o Messages(s)
  PROVE  /\ f \in FileType /\ Len(f) \in Nat /\ Len(f) # 0 /\ SubSeq(f, 1, Len(f)) = f
         /\ \A m \in Message : Count(f, m) = Number(Held(s.items), m)
<1> DEFINE items == s.items
           n == Len(items)
           c == Messages(s)
<1>1. n \in Nat /\ DOMAIN items = 1..n /\ \A k \in 1..n : items[k] \in ItemType
  BY LenProperties, ElementOfSeq DEF StoreType
<1>2. c = [k \in 1..n |-> items[k].e.message]
  BY <1>1 DEF Messages
<1>3. \A k \in 1..n : items[k].e.message \in Message
  BY <1>1 DEF ItemType, EntryType
<1>4. c \in Seq(Message) /\ Len(c) = n /\ DOMAIN c = 1..n
  <2> HIDE DEF c, n, items
  <2>1. c \in Seq(Message)
    BY <1>1, <1>2, <1>3, SeqDef
  <2>2. DOMAIN c = 1..n /\ DOMAIN c = 1..Len(c) /\ Len(c) \in Nat
    BY <1>2, <2>1, LenProperties
  <2> QED
    BY <1>1, <2>1, <2>2, LenProperties
<1> DEFINE v == <<Version>>
<1>5. v \in Seq(Message \cup {Version}) /\ Len(v) = 1 /\ v[1] = Version
  OBVIOUS
<1>6. c \in Seq(Message \cup {Version})
  BY <1>4
<1>6a. f = v \o c
  OBVIOUS
<1> HIDE DEF c, n, items, v
<1>7. /\ f \in Seq(Message \cup {Version}) /\ Len(f) = 1 + n
      /\ \A k \in 1..(1 + n) : f[k] = IF k <= 1 THEN Version ELSE c[k - 1]
  <2>1. /\ v \o c \in Seq(Message \cup {Version}) /\ Len(v \o c) = Len(v) + Len(c)
        /\ \A i \in 1..(Len(v) + Len(c)) : (v \o c)[i] = IF i <= Len(v) THEN v[i] ELSE c[i - Len(v)]
    BY <1>5, <1>6, ConcatProperties
  <2>2. \A i \in 1..(1 + n) : i <= 1 => i = 1
    OBVIOUS
  <2> DEFINE w == v \o c
  <2>3. /\ w \in Seq(Message \cup {Version}) /\ Len(w) = 1 + n
        /\ \A i \in 1..(1 + n) : w[i] = IF i <= 1 THEN v[i] ELSE c[i - 1]
    BY <1>4, <1>5, <2>1
  <2> HIDE DEF w
  <2>4. \A i \in 1..(1 + n) : w[i] = IF i <= 1 THEN Version ELSE c[i - 1]
    BY <1>5, <2>2, <2>3
  <2> QED
    BY <1>6a, <2>3, <2>4 DEF w
<1>8. DOMAIN f = 1..(1 + n) /\ f[1] = Version /\ \A k \in 1..n : f[k + 1] = items[k].e.message
  <2>1. ASSUME NEW k \in 1..n PROVE f[k + 1] = items[k].e.message
    <3>1. k + 1 \in 1..(1 + n) /\ ~(k + 1 <= 1) /\ (k + 1) - 1 = k
      BY <1>1
    <3> QED
      BY <1>2, <1>7, <3>1
  <2> QED
    BY <1>1, <1>7, <2>1, LenProperties
<1>9. f \in FileType
  <2>1. ASSUME NEW k \in 2..Len(f) PROVE f[k] \in Message
    <3>1. k - 1 \in 1..n /\ (k - 1) + 1 = k
      BY <1>1, <1>7
    <3>2. f[(k - 1) + 1] = items[k - 1].e.message
      BY <1>8, <3>1
    <3> QED
      BY <1>3, <3>1, <3>2 DEF n, items
  <2> QED
    BY <1>7, <1>8, <2>1 DEF FileType
<1>10. Len(f) \in Nat /\ SubSeq(f, 1, Len(f)) = f
  BY <1>7, LenProperties, WholeSequence
<1>11. ASSUME NEW m \in Message PROVE Count(f, m) = Number(Held(s.items), m)
  <2> DEFINE D == {k \in DOMAIN f : f[k] = m}
             g == [k \in D |-> items[k - 1].e]
  <2>1. m # Version
    BY SortedSMSStoreAssumption
  <2>2. IsFiniteSet(D)
    <3>1. IsFiniteSet(1..(1 + n))
      BY <1>1, FS_Interval
    <3> QED
      BY <1>8, <3>1, FS_Subset
  <2>3. \A k \in D : k - 1 \in 1..n /\ items[k - 1].e.message = m /\ k \in Int
    <3> SUFFICES ASSUME NEW k \in 1..(1 + n), f[k] = m
                 PROVE  k - 1 \in 1..n /\ items[k - 1].e.message = m /\ k \in Int
      BY <1>8
    <3>0. k # 1
      BY <1>8, <2>1
    <3>1. k - 1 \in 1..n /\ (k - 1) + 1 = k /\ k \in Int
      BY <1>1, <3>0
    <3>2. f[(k - 1) + 1] = items[k - 1].e.message
      BY <1>8, <3>1
    <3> QED
      BY <3>1, <3>2
  <2>4. \A k \in 1..n : items[k].e.message = m => k + 1 \in D /\ (k + 1) - 1 = k
    <3> SUFFICES ASSUME NEW k \in 1..n, items[k].e.message = m PROVE k + 1 \in D /\ (k + 1) - 1 = k
      OBVIOUS
    <3>1. k + 1 \in 1..(1 + n) /\ (k + 1) - 1 = k
      BY <1>1
    <3> QED
      BY <1>8, <3>1
  <2>5. Held(s.items) = {items[k].e : k \in 1..n}
    BY <1>1 DEF Held, items
  <2>6. DOMAIN g = D /\ g = [k \in D |-> g[k]]
    OBVIOUS
  <2>7. \A x, y \in D : g[x] = g[y] => x = y
    <3> SUFFICES ASSUME NEW x \in D, NEW y \in D, g[x] = g[y] PROVE x = y
      OBVIOUS
    <3>1. items[x - 1].e = items[y - 1].e /\ x - 1 \in DOMAIN items /\ y - 1 \in DOMAIN items
      BY <1>1, <2>3
    <3>2. x - 1 = y - 1
      BY <3>1 DEF IsMap, Distinct, items
    <3> QED
      BY <2>3, <3>2
  <2>8. Having(Held(s.items), m) = {g[k] : k \in D}
    <3>1. ASSUME NEW k \in D PROVE g[k] \in Having(Held(s.items), m)
      <4>1. g[k] = items[k - 1].e
        OBVIOUS
      <4> QED
        BY <2>3, <2>5, <4>1 DEF Having
    <3>2. ASSUME NEW e \in Having(Held(s.items), m) PROVE \E k \in D : e = g[k]
      <4>1. PICK k \in 1..n : e = items[k].e
        BY <2>5 DEF Having
      <4>2. k + 1 \in D /\ g[k + 1] = e
        BY <2>4, <4>1 DEF Having
      <4> QED
        BY <4>2
    <3> HIDE DEF D, g
    <3> QED
      BY <3>1, <3>2
  <2>9. Count(f, m) = Cardinality(D)
    BY DEF Count
  <2> HIDE DEF D, g
  <2> QED
    BY <2>2, <2>6, <2>7, <2>8, <2>9, SameSize DEF Number
<1> QED
  BY <1>9, <1>10, <1>11

\* One more entry is one more of its message.
LEMMA NumberAdded ==
  ASSUME NEW H, IsFiniteSet(H), NEW e, e \notin H, NEW m
  PROVE  /\ IsFiniteSet(H \cup {e}) /\ Number(H, m) \in Nat
         /\ Number(H \cup {e}, m) = IF e.message = m THEN Number(H, m) + 1 ELSE Number(H, m)
         /\ (Number(H, m) = 0 <=> \A x \in H : x.message # m)
<1>1. IsFiniteSet(Having(H, m)) /\ Cardinality(Having(H, m)) \in Nat
  BY FS_Subset, FS_CardinalityType DEF Having
<1>2. Having(H \cup {e}, m) = IF e.message = m THEN Having(H, m) \cup {e} ELSE Having(H, m)
  BY DEF Having
<1>3. Cardinality(Having(H, m) \cup {e}) = Cardinality(Having(H, m)) + 1
  BY <1>1, FS_AddElement DEF Having
<1>4. Cardinality(Having(H, m)) = 0 <=> Having(H, m) = {}
  BY <1>1, FS_EmptySet
<1>5. IsFiniteSet(H \cup {e})
  BY FS_AddElement
<1> QED
  BY <1>1, <1>2, <1>3, <1>4, <1>5 DEF Number, Having

\* A number is zero when no entry has the message.
LEMMA NumberZero ==
  ASSUME NEW H, IsFiniteSet(H), NEW m
  PROVE  Number(H, m) \in Nat /\ (Number(H, m) = 0 <=> \A x \in H : x.message # m)
<1>1. IsFiniteSet(Having(H, m)) /\ Cardinality(Having(H, m)) \in Nat
  BY FS_Subset, FS_CardinalityType DEF Having
<1>2. Cardinality(Having(H, m)) = 0 <=> Having(H, m) = {}
  BY <1>1, FS_EmptySet
<1> QED
  BY <1>1, <1>2 DEF Number, Having

-----------------------------------------------------------------------------
(* The invariant. *)

DiskType(k) == IF k = "ME" THEN SlotsType ELSE FileType
Stored(b, f) == IF kind[b] = "ME" THEN SlotEntries(f) ELSE FileEntries(f)

TypeInv ==
  /\ op \in Operation /\ args \in Seq(Nat) /\ pos \in Nat \ {0} /\ excused \in BOOLEAN
  /\ kind \in [Side -> {"file", "stdin", "stdout", "ME"}]
  /\ kind["source"] # "stdout" /\ kind["dest"] # "stdin"
  /\ store \in [Side -> StoreType] /\ saving \in [Side -> Stages]
  /\ disk \in [Side -> FileType \cup SlotsType] /\ \A b \in Side : disk[b] \in DiskType(kind[b])

\* A store is saved only when it is closed, except by a program that uses the
\* library; while the mobile is read its store has the slots that were passed,
\* and from then on all of them; a file is what its unchanged store has.
StoreInv(b) ==
  LET s == store[b] IN
  /\ IsMap(s.order, s.items)
  /\ kind[b] # "ME" => \A e \in Held(s.items) : e.index < s.next
  /\ saving[b] # "no" => /\ s.open /\ kind[b] # "ME" /\ pc \in {"close", "library"}
                         /\ op # "library" => s.closing /\ s.changed
                         /\ pc = "library" => ~s.closing
  /\ pc = b => /\ s.order = "ByDate" /\ ~s.changed
               /\ pos = 1 => s = Closed
               /\ kind[b] # "ME" => pos = 1
               /\ kind[b] = "ME" =>
                    Held(s.items) = {e \in SlotEntries(disk[b]) : e.index < pos - 1}
  /\ pc # b /\ s.open /\ (kind[b] = "ME" \/ (op # "library" /\ ~s.changed)) =>
       Held(s.items) = Stored(b, disk[b])

\* The stores are opened one after the other; the source is never changed.
PhaseInv ==
  /\ pc \in Side \cup Operation \cup {"insert", "close", "end"}
  /\ pc \in Operation => pc = op
  /\ pc \in Operation \cup {"insert"} => dst.open
  /\ pc = "insert" => op = "copy"
  /\ pc = "end" => \A b \in Side : ~store[b].open
  /\ pc = "source" => dst = Closed
  /\ pc \in Side /\ kind["dest"] = "stdout" => disk["dest"] = <<>>
  /\ saving["source"] = "no" /\ ~src.changed
  /\ op = "backup" /\ pc \in {"dest", "backup"} => src.open

CommonInv == TypeInv /\ StoreInv("source") /\ StoreInv("dest") /\ PhaseInv

-----------------------------------------------------------------------------
\* A store that was never opened, or was closed.
LEMMA ClosedFacts ==
  /\ Closed \in StoreType /\ IsMap(Closed.order, Closed.items) /\ Held(Closed.items) = {}
  /\ ~Closed.open /\ ~Closed.changed /\ Closed.order = "ByDate" /\ Closed.items = <<>>
  /\ Fresh \in StoreType /\ IsMap(Fresh.order, Fresh.items) /\ Held(Fresh.items) = {}
  /\ Fresh.open /\ ~Fresh.changed /\ Fresh.order = "ByDate"
<1>1. <<>> \in Seq(ItemType)
  OBVIOUS
<1>2. IsMap("ByDate", <<>>) /\ Held(<<>>) = {}
  BY EmptyMap
<1>3. /\ Closed \in StoreType /\ Closed.items = <<>> /\ Closed.order = "ByDate"
      /\ ~Closed.open /\ ~Closed.changed
  BY <1>1 DEF Closed, StoreType, Orders
<1>4. /\ Fresh \in StoreType /\ Fresh.items = <<>> /\ Fresh.order = "ByDate"
      /\ Fresh.open /\ ~Fresh.changed
  BY <1>1 DEF Closed, Fresh, StoreType, Orders
<1> QED
  BY <1>2, <1>3, <1>4

\* A step that does nothing to a store.
LEMMA SameStore ==
  ASSUME NEW c \in Side, StoreInv(c), UNCHANGED <<kind, op>>,
         store'[c] = store[c], disk'[c] = disk[c], saving'[c] = saving[c],
         \/ pc' = pc /\ pos' = pos
         \/ pc # c /\ pc' # c /\ (saving[c] = "no" \/ pc' = "close")
  PROVE  StoreInv(c)'
<1>1. Stored(c, disk[c])' = Stored(c, disk[c])
  BY DEF Stored
<1> QED
  BY <1>1 DEF StoreInv

\* The indices of the mobile's messages.
LEMMA SlotIndices ==
  ASSUME NEW f \in SlotsType, NEW e \in SlotEntries(f)
  PROVE  /\ e.index \in Slot /\ e.index \in Nat /\ e.index <= Slots - 1
         /\ e.message = f[e.index] /\ e = [index |-> e.index, message |-> f[e.index]]
         /\ e.index \in Used(f)
<1>1. PICK i \in Used(f) : e = [index |-> i, message |-> f[i]]
  BY DEF SlotEntries
<1>2. i \in Slot
  BY DEF Used, SlotsType
<1> QED
  BY <1>1, <1>2, SortedSMSStoreAssumption DEF Slot

\* A step that closes a store, or that happens while it is not open yet.
LEMMA ClosedStore ==
  ASSUME NEW c \in Side, store'[c] = Closed, saving'[c] = "no",
         pc' # c \/ (pos' = 1 /\ (kind'[c] = "ME" => disk'[c] \in SlotsType))
  PROVE  StoreInv(c)'
<1>1. pc' = c /\ kind'[c] = "ME" => {e \in SlotEntries(disk'[c]) : e.index < pos' - 1} = {}
  <2> SUFFICES ASSUME pc' = c, kind'[c] = "ME", NEW e \in SlotEntries(disk'[c]), e.index < pos' - 1
               PROVE  FALSE
    BY Zenon
  <2>1. e.index \in Nat /\ pos' = 1
    BY SlotIndices
  <2> QED
    BY <2>1
<1> QED
  BY <1>1, ClosedFacts DEF StoreInv

\* What a step leaves of the invariant when it changes the destination alone.
DestStep(t) ==
  /\ UNCHANGED <<op, args, kind, saving>> /\ store' = [store EXCEPT !["dest"] = t]
  /\ t \in StoreType /\ IsMap(t.order, t.items) /\ t.open
  /\ kind["dest"] # "ME" => \A e \in Held(t.items) : e.index < t.next
  /\ disk' \in [Side -> FileType \cup SlotsType] /\ disk'["source"] = disk["source"]
  /\ disk'["dest"] \in DiskType(kind["dest"])
  /\ kind["dest"] = "ME" => Held(t.items) = SlotEntries(disk'["dest"])
  /\ kind["dest"] # "ME" => /\ disk' = disk
                            /\ t.changed \/ (~dst.changed /\ Held(t.items) = Held(dst.items))
  /\ pc' = pc \/ pc' = "close" \/ (pc' = "insert" /\ op = "copy")
  /\ pos' \in Nat \ {0}

\* The operations of the program, the library's user and what follows them.
Working == pc \in Operation \cup {"insert"} /\ saving["dest"] = "no"

\* Such steps keep the invariant.
LEMMA DestStepKeeps ==
  ASSUME CommonInv, Working, excused' \in BOOLEAN, NEW t, DestStep(t)
  PROVE  CommonInv'
<1> USE DEF Side
<1>1. /\ store' \in [Side -> StoreType] /\ store'["dest"] = t /\ store'["source"] = store["source"]
  BY DEF CommonInv, TypeInv, DestStep
<1>2. TypeInv'
  BY <1>1 DEF CommonInv, TypeInv, DestStep, DiskType
<1>3. /\ pc # "source" /\ pc # "dest" /\ pc' # "source" /\ pc' # "dest"
      /\ pc' \in Operation \cup {"insert", "close"}
      /\ pc' \in Operation => pc' = pc
  BY DEF Working, Operation, DestStep
<1>4. StoreInv("source")'
  <2>1. StoreInv("source") /\ saving["source"] = "no" /\ UNCHANGED <<kind, op, saving>>
        /\ disk'["source"] = disk["source"]
    BY DEF CommonInv, PhaseInv, DestStep
  <2> QED
    BY <1>1, <1>3, <2>1, SameStore
<1>5. StoreInv("dest")'
  <2>1. saving'["dest"] = "no" /\ kind' = kind /\ op' = op
    BY DEF Working, DestStep
  <2>2. Stored("dest", disk["dest"])' = IF kind["dest"] = "ME" THEN SlotEntries(disk'["dest"])
                                        ELSE FileEntries(disk'["dest"])
    BY <2>1 DEF Stored
  <2>3. /\ IsMap(t.order, t.items)
        /\ kind["dest"] # "ME" => \A e \in Held(t.items) : e.index < t.next
    BY DEF DestStep
  <2>4. (kind["dest"] = "ME" \/ (op # "library" /\ ~t.changed)) => Held(t.items) = Stored("dest", disk["dest"])'
    <3>1. CASE kind["dest"] = "ME"
      BY <2>2, <3>1 DEF DestStep
    <3>2. CASE kind["dest"] # "ME" /\ op # "library" /\ ~t.changed
      <4>1. disk' = disk /\ ~dst.changed /\ Held(t.items) = Held(dst.items)
        BY <3>2 DEF DestStep
      <4>2. Held(dst.items) = FileEntries(disk["dest"])
        BY <1>3, <3>2, <4>1 DEF CommonInv, StoreInv, PhaseInv, Working, Stored, dst
      <4> QED
        BY <2>2, <3>2, <4>1, <4>2
    <3> QED
      BY <3>1, <3>2
  <2> QED
    BY <1>1, <1>3, <2>1, <2>3, <2>4 DEF StoreInv
<1>6. PhaseInv'
  <2>1. op' = op /\ saving' = saving
    BY DEF DestStep
  <2>2. dst' = t /\ src' = src /\ t.open
    BY <1>1 DEF dst, src, DestStep
  <2>3. saving["source"] = "no" /\ ~src.changed /\ (op = "backup" /\ pc = "backup" => src.open)
        /\ (pc \in Operation => pc = op) /\ (pc = "insert" => op = "copy")
    BY DEF CommonInv, PhaseInv
  <2>4. pc' = "insert" => op = "copy"
    BY <2>3 DEF DestStep
  <2> QED
    BY <1>3, <2>1, <2>2, <2>3, <2>4 DEF PhaseInv, Operation
<1> QED
  BY <1>2, <1>4, <1>5, <1>6 DEF CommonInv

\* A call fails: the store and the disk are what they were.
LEMMA FailsKeeps ==
  ASSUME CommonInv, Working, UNCHANGED <<op, args, kind, saving, store, disk>>,
         excused' \in BOOLEAN,
         pc' = pc \/ pc' = "close" \/ (pc' = "insert" /\ op = "copy"), pos' \in Nat \ {0}
  PROVE  CommonInv'
<1>1. dst.open
  BY DEF CommonInv, PhaseInv, Working
<1>2. DestStep(dst)
  <2>1. store' = [store EXCEPT !["dest"] = dst]
    BY DEF CommonInv, TypeInv, dst
  <2>2. pc # "dest"
    BY DEF Working, Operation
  <2>3. "dest" \in Side /\ dst \in StoreType /\ IsMap(dst.order, dst.items)
    BY DEF CommonInv, TypeInv, StoreInv, dst, Side
  <2>4. /\ disk \in [Side -> FileType \cup SlotsType] /\ disk["dest"] \in DiskType(kind["dest"])
    BY <2>3 DEF CommonInv, TypeInv
  <2>5. kind["dest"] = "ME" => Held(dst.items) = SlotEntries(disk["dest"])
    BY <1>1, <2>2 DEF CommonInv, StoreInv, dst, Stored
  <2>6. kind["dest"] # "ME" => \A e \in Held(dst.items) : e.index < dst.next
    BY DEF CommonInv, StoreInv, dst
  <2>7. dst.changed \in BOOLEAN
    BY <2>3 DEF StoreType
  <2> QED
    BY <1>1, <2>1, <2>3, <2>4, <2>5, <2>6, <2>7 DEF DestStep
<1> QED
  BY <1>2, DestStepKeeps

\* A message in an empty slot is one more entry.
LEMMA SlotAdded ==
  ASSUME NEW f \in SlotsType, NEW i \in Slot \ Used(f), NEW m \in Message,
         NEW g, g = [f EXCEPT ![i] = m]
  PROVE  /\ g \in SlotsType /\ \A x \in SlotEntries(f) : x.index # i
         /\ SlotEntries(g) = SlotEntries(f) \cup {[index |-> i, message |-> m]}
<1>1. DOMAIN f = Slot /\ DOMAIN g = Slot /\ g[i] = m /\ \A j \in Slot : j # i => g[j] = f[j]
  BY DEF SlotsType
<1>2. g \in SlotsType
  BY DEF SlotsType
<1>3. m # NoMessage
  BY SortedSMSStoreAssumption
<1>4. Used(g) = Used(f) \cup {i}
  BY <1>1, <1>3 DEF Used
<1>5. \A j \in Used(f) : g[j] = f[j] /\ j # i
  BY <1>1 DEF Used
<1>6. \A x \in SlotEntries(f) : x.index # i
  BY <1>5 DEF SlotEntries
<1>7. SlotEntries(g) = SlotEntries(f) \cup {[index |-> i, message |-> m]}
  <2>1. \A x \in SlotEntries(g) : x \in SlotEntries(f) \cup {[index |-> i, message |-> m]}
    <3> TAKE x \in SlotEntries(g)
    <3>1. PICK j \in Used(g) : x = [index |-> j, message |-> g[j]]
      BY DEF SlotEntries
    <3>2. CASE j = i
      BY <1>1, <3>1, <3>2
    <3>3. CASE j \in Used(f)
      <4>1. x = [index |-> j, message |-> f[j]]
        BY <1>5, <3>1, <3>3
      <4> QED
        BY <3>3, <4>1 DEF SlotEntries
    <3> QED
      BY <1>4, <3>2, <3>3
  <2>2. \A x \in SlotEntries(f) : x \in SlotEntries(g)
    <3> TAKE x \in SlotEntries(f)
    <3>1. PICK j \in Used(f) : x = [index |-> j, message |-> f[j]]
      BY DEF SlotEntries
    <3>2. j \in Used(g) /\ x = [index |-> j, message |-> g[j]]
      BY <1>4, <1>5, <3>1
    <3> QED
      BY <3>2 DEF SlotEntries
  <2>3. [index |-> i, message |-> m] \in SlotEntries(g)
    <3>1. i \in Used(g) /\ [index |-> i, message |-> m] = [index |-> i, message |-> g[i]]
      BY <1>1, <1>4
    <3> QED
      BY <3>1 DEF SlotEntries
  <2> QED
    BY <2>1, <2>2, <2>3
<1> QED
  BY <1>2, <1>6, <1>7

\* What is known of the destination while it is worked on.
LEMMA DestFacts ==
  ASSUME CommonInv, Working
  PROVE  /\ dst \in StoreType /\ IsMap(dst.order, dst.items) /\ dst.open
         /\ disk \in [Side -> FileType \cup SlotsType] /\ disk["dest"] \in DiskType(kind["dest"])
         /\ disk["source"] \in DiskType(kind["source"])
         /\ kind["dest"] # "ME" => \A e \in Held(dst.items) : e.index < dst.next
         /\ kind["dest"] = "ME" => Held(dst.items) = SlotEntries(disk["dest"])
                                   /\ disk["dest"] \in SlotsType
         /\ store = [store EXCEPT !["dest"] = dst] /\ store \in [Side -> StoreType]
         /\ pc # "dest" /\ pc # "source" /\ dst.next \in Nat /\ pos + 1 \in Nat \ {0}
<1>1. pc # "dest" /\ pc # "source" /\ dst.open
  BY DEF Working, Operation, CommonInv, PhaseInv
<1>2. "dest" \in Side /\ "source" \in Side
  BY DEF Side
<1>3. dst \in StoreType /\ store = [store EXCEPT !["dest"] = dst] /\ store \in [Side -> StoreType]
  BY <1>2 DEF CommonInv, TypeInv, dst
<1>4. StoreInv("dest")
  BY DEF CommonInv
<1> QED
  BY <1>1, <1>2, <1>3, <1>4 DEF CommonInv, TypeInv, StoreInv, dst, Stored, DiskType, StoreType

\* One more message was inserted into the destination.
OneMore(m) ==
  /\ pc' = pc /\ pos' = pos + 1 /\ outcome' = outcome /\ src' = src /\ dst'.order = dst.order
  /\ disk'["source"] = disk["source"]
  /\ \E i \in Nat : /\ \A x \in Held(dst.items) : x.index # i
                    /\ Held(dst'.items) = Held(dst.items) \cup {[index |-> i, message |-> m]}
\* The call was refused.
Refused == pc' = "close" /\ outcome' = "error"

\* insert() into the destination (gsm_sorted_sms_store.cc:333).
LEMMA InsertsKeeps ==
  ASSUME CommonInv, Working, NEW m \in Message, Inserts(m), ~excused', excused' \in BOOLEAN,
         UNCHANGED <<op, args, kind, saving>>
  PROVE  CommonInv' /\ (Refused \/ OneMore(m))
<1> USE DEF Side
<1>1. CASE kind["dest"] # "ME" /\ Becomes(Insert(dst, m, dst.next)) /\ Advance
           /\ UNCHANGED <<disk, outcome, excused>>
  <2> DEFINE i == dst.next
             t == Insert(dst, m, i)
  <2>1. i \in Nat /\ dst \in StoreType /\ IsMap(dst.order, dst.items) /\ dst.open
        /\ \A x \in Held(dst.items) : x.index # i /\ x.index < i
    <3>1. \A x \in Held(dst.items) : x.index < i
      BY <1>1, DestFacts
    <3>2. \A x \in Held(dst.items) : x.index \in Nat
      BY DestFacts, SizeOfMap DEF IsMap, EntryType
    <3> QED
      BY <3>1, <3>2, DestFacts
  <2>2. Added(dst, t, [index |-> i, message |-> m]) /\ t.changed
    BY <2>1, InsertFacts
  <2>3. store' = [store EXCEPT !["dest"] = t]
    BY <1>1 DEF Becomes
  <2>4. \A e \in Held(t.items) : e.index < t.next
    <3> HIDE DEF t, i
    <3>1. t.next = i + 1 /\ Held(t.items) = Held(dst.items) \cup {[index |-> i, message |-> m]}
      BY <2>2 DEF Added, i
    <3>2. \A e \in Held(dst.items) : e.index \in Nat
      BY <2>1, SizeOfMap DEF IsMap, EntryType
    <3> QED
      BY <2>1, <3>1, <3>2
  <2> HIDE DEF t
  <2>5. DestStep(t)
    BY <1>1, <2>1, <2>2, <2>3, <2>4, DestFacts DEF DestStep, Added, Advance
  <2>6. CommonInv'
    BY <2>5, DestStepKeeps
  <2>7. dst' = t /\ src' = src
    BY <2>3, DestFacts DEF dst, src
  <2>8. OneMore(m)
    BY <1>1, <2>1, <2>2, <2>7 DEF OneMore, Added, Advance
  <2> QED
    BY <2>6, <2>8
<1>2. ASSUME kind["dest"] = "ME", NEW i \in Slot \ Used(disk["dest"]),
             disk' = [disk EXCEPT !["dest"][i] = m],
             Becomes(Insert(dst, m, i)), Advance, UNCHANGED <<outcome, excused>>
      PROVE  CommonInv' /\ OneMore(m)
  <2> DEFINE t == Insert(dst, m, i)
             f == disk["dest"]
             g == [f EXCEPT ![i] = m]
  <2>1. /\ dst \in StoreType /\ IsMap(dst.order, dst.items) /\ dst.open
        /\ Held(dst.items) = SlotEntries(f) /\ f \in SlotsType /\ i \in Nat
    BY <1>2, DestFacts, SortedSMSStoreAssumption DEF Slot
  <2>2. /\ g \in SlotsType /\ \A x \in SlotEntries(f) : x.index # i
        /\ SlotEntries(g) = SlotEntries(f) \cup {[index |-> i, message |-> m]}
    BY <1>2, <2>1, SlotAdded
  <2>3. disk' = [disk EXCEPT !["dest"] = g] /\ disk'["dest"] = g /\ disk'["source"] = disk["source"]
        /\ disk' \in [Side -> FileType \cup SlotsType]
    <3>1. disk' = [disk EXCEPT !["dest"] = g]
      BY <1>2
    <3> HIDE DEF g
    <3> QED
      BY <2>2, <3>1, DestFacts
  <2>4. Added(dst, t, [index |-> i, message |-> m]) /\ t.changed
    BY <2>1, <2>2, InsertFacts
  <2>5. store' = [store EXCEPT !["dest"] = t]
    BY <1>2 DEF Becomes
  <2> HIDE DEF t, f, g
  <2>6. DestStep(t)
    BY <1>2, <2>1, <2>2, <2>3, <2>4, <2>5, DestFacts DEF DestStep, Added, Advance, DiskType
  <2>7. CommonInv'
    BY <2>6, DestStepKeeps
  <2>8. dst' = t /\ src' = src
    BY <2>5, DestFacts DEF dst, src
  <2>9. OneMore(m)
    BY <1>2, <2>1, <2>2, <2>3, <2>4, <2>8 DEF OneMore, Added, Advance
  <2> QED
    BY <2>7, <2>9
<1>3. CASE Fails
  BY <1>3, FailsKeeps DEF Fails, Caught, Goto, Refused
<1>4. ~InsertsElsewhere
  BY DEF InsertsElsewhere
<1> QED
  BY <1>1, <1>2, <1>3, <1>4 DEF Inserts

\* A step with which the program ends or dies.
LEMMA DeadKeeps ==
  ASSUME CommonInv, UNCHANGED <<op, args, kind>>, excused' \in BOOLEAN,
         pc' = "end", pos' = 1, store' = [b \in Side |-> Closed], saving' = [b \in Side |-> "no"],
         disk' = disk
  PROVE  CommonInv'
<1> USE DEF Side
<1>1. TypeInv'
  BY ClosedFacts DEF CommonInv, TypeInv, Stages
<1>2. \A c \in Side : store'[c] = Closed /\ saving'[c] = "no" /\ pc' # c
  OBVIOUS
<1>3. StoreInv("source")' /\ StoreInv("dest")'
  BY <1>2, ClosedStore
<1>4. PhaseInv'
  BY <1>2, ClosedFacts DEF PhaseInv, Operation, dst, src
<1> QED
  BY <1>1, <1>3, <1>4 DEF CommonInv

\* What erase() leaves of the destination.
LEMMA ErasedStore ==
  ASSUME NEW s \in StoreType, IsMap(s.order, s.items), NEW T, T # {}
  PROVE  /\ Erase(s, T, T) \in StoreType /\ IsMap(Erase(s, T, T).order, Erase(s, T, T).items)
         /\ Held(Erase(s, T, T).items) = {s.items[k].e : k \in DOMAIN s.items \ T}
         /\ Erase(s, T, T).open = s.open /\ Erase(s, T, T).order = s.order
         /\ Erase(s, T, T).next = s.next /\ Erase(s, T, T).changed
<1> DEFINE t == Erase(s, T, T)
<1>1. t = Erase(s, T, T)
  OBVIOUS
<1> HIDE DEF t
<1>2. /\ t \in StoreType /\ IsMap(t.order, t.items) /\ Held(t.items) = {s.items[k].e : k \in DOMAIN s.items \ T}
      /\ t.open = s.open /\ t.order = s.order /\ t.next = s.next /\ t.changed
  BY <1>1, EraseFacts
<1> QED
  BY <1>1, <1>2, Zenon

\* erase() of the destination: the entries at S are gone (gsm_sorted_sms_store.cc:464).
LEMMA ErasesKeeps ==
  ASSUME CommonInv, Working, excused' \in BOOLEAN, UNCHANGED <<op, args, kind, saving>>,
         NEW S \in SUBSET DOMAIN dst.items, S # {}, Becomes(Erase(dst, S, S)),
         disk' = IF kind["dest"] # "ME" THEN disk ELSE Emptied(S),
         pc' = pc, pos' = pos \/ pos' = pos + 1
  PROVE  /\ CommonInv' /\ dst'.order = dst.order /\ src' = src /\ disk'["source"] = disk["source"]
         /\ Held(dst'.items) = {dst.items[k].e : k \in DOMAIN dst.items \ S}
<1> USE DEF Side
<1> DEFINE t == Erase(dst, S, S)
<1>1. /\ dst \in StoreType /\ IsMap(dst.order, dst.items) /\ dst.open
  BY DestFacts
<1>2. /\ t \in StoreType /\ IsMap(t.order, t.items)
      /\ Held(t.items) = {dst.items[k].e : k \in DOMAIN dst.items \ S}
      /\ t.open = dst.open /\ t.order = dst.order /\ t.next = dst.next /\ t.changed
  BY <1>1, ErasedStore
<1>3. store' = [store EXCEPT !["dest"] = t]
  BY DEF Becomes
<1> HIDE DEF t
<1> DEFINE f == disk["dest"]
           g == [i \in Slot |-> IF \E k \in S : dst.items[k].e.index = i THEN NoMessage ELSE f[i]]
<1>4. dst' = t /\ src' = src
  BY <1>3, DestFacts DEF dst, src
<1>5. Held(t.items) \subseteq Held(dst.items)
  BY <1>2 DEF Held
<1>6. ASSUME kind["dest"] = "ME"
      PROVE  /\ disk' \in [Side -> FileType \cup SlotsType] /\ disk'["source"] = disk["source"]
             /\ disk'["dest"] = g /\ g \in SlotsType /\ Held(t.items) = SlotEntries(g)
  <2>1. f \in SlotsType /\ Held(dst.items) = SlotEntries(f)
    BY <1>6, DestFacts
  <2>2. g \in SlotsType
    BY <2>1 DEF SlotsType
  <2>3. disk' = [disk EXCEPT !["dest"] = g]
    BY <1>6 DEF Emptied
  <2>4. /\ disk' \in [Side -> FileType \cup SlotsType] /\ disk'["source"] = disk["source"]
        /\ disk'["dest"] = g
    <3> HIDE DEF g
    <3> QED
      BY <2>2, <2>3, DestFacts
  <2>5. \A i \in Used(g) : i \in Used(f) /\ g[i] = f[i] /\ ~\E k \in S : dst.items[k].e.index = i
    BY <2>1 DEF Used, SlotsType
  <2>6. \A i \in Used(f) : ~(\E k \in S : dst.items[k].e.index = i) => i \in Used(g) /\ g[i] = f[i]
    BY <2>1 DEF Used, SlotsType
  <2> HIDE DEF g
  <2>7. \A x \in Held(t.items) : x \in SlotEntries(g)
    <3> TAKE x \in Held(t.items)
    <3>1. PICK k \in DOMAIN dst.items \ S : x = dst.items[k].e
      BY <1>2
    <3>2. x \in SlotEntries(f)
      BY <1>5, <2>1
    <3>3. PICK i \in Used(f) : x = [index |-> i, message |-> f[i]]
      BY <3>2 DEF SlotEntries
    <3>4. ~\E j \in S : dst.items[j].e.index = i
      <4> SUFFICES ASSUME NEW j \in S, dst.items[j].e.index = i PROVE FALSE
        OBVIOUS
      <4>1. dst.items[k].e.index = i
        BY <3>1, <3>3
      <4>2. j = k
        BY <1>1, <4>1 DEF IsMap, Distinct
      <4> QED
        BY <3>1, <4>2
    <3>5. i \in Used(g) /\ x = [index |-> i, message |-> g[i]]
      BY <2>6, <3>3, <3>4
    <3> QED
      BY <3>5 DEF SlotEntries
  <2>8. \A x \in SlotEntries(g) : x \in Held(t.items)
    <3> TAKE x \in SlotEntries(g)
    <3>1. PICK i \in Used(g) : x = [index |-> i, message |-> g[i]]
      BY DEF SlotEntries
    <3>2. i \in Used(f) /\ x = [index |-> i, message |-> f[i]]
      BY <2>5, <3>1
    <3>3. x \in Held(dst.items)
      BY <2>1, <3>2 DEF SlotEntries
    <3>4. PICK k \in DOMAIN dst.items : x = dst.items[k].e
      BY <3>3 DEF Held
    <3>5. k \notin S
      BY <2>5, <3>1, <3>4
    <3> QED
      BY <1>2, <3>4, <3>5
  <2> QED
    BY <2>2, <2>4, <2>7, <2>8
<1>6a. pos' \in Nat \ {0} /\ disk["source"] = disk["source"]
  BY DEF CommonInv, TypeInv
<1>7. DestStep(t) /\ disk'["source"] = disk["source"]
  <2> HIDE DEF g, f
  <2>1. CASE kind["dest"] = "ME"
    BY <1>1, <1>2, <1>3, <1>6, <1>6a, <2>1, DestFacts DEF DestStep, DiskType
  <2>2. CASE kind["dest"] # "ME"
    <3>1. disk' = disk /\ \A e \in Held(t.items) : e.index < t.next
      BY <1>2, <1>5, <2>2, DestFacts
    <3> QED
      BY <1>1, <1>2, <1>3, <1>6a, <2>2, <3>1, DestFacts DEF DestStep
  <2> QED
    BY <2>1, <2>2
<1> QED
  BY <1>2, <1>4, <1>7, DestStepKeeps

\* setSortOrder() of the destination.
LEMMA SortKeeps ==
  ASSUME CommonInv, Working, excused' \in BOOLEAN, UNCHANGED <<op, args, kind, saving, disk>>,
         NEW order \in Orders, Becomes(SetSortOrder(dst, order)), pc' = pc, pos' = pos
  PROVE  CommonInv' /\ Held(dst'.items) = Held(dst.items) /\ src' = src /\ dst'.order = order
<1> USE DEF Side
<1> DEFINE t == SetSortOrder(dst, order)
<1>1. dst \in StoreType /\ IsMap(dst.order, dst.items) /\ dst.open
  BY DestFacts
<1>2. /\ t \in StoreType /\ IsMap(t.order, t.items) /\ t.order = order
      /\ Held(t.items) = Held(dst.items)
      /\ t.open = dst.open /\ t.changed = dst.changed /\ t.next = dst.next
  BY <1>1, SortFacts
<1>3. store' = [store EXCEPT !["dest"] = t]
  BY DEF Becomes
<1> HIDE DEF t
<1>4. dst.changed \in BOOLEAN /\ pos \in Nat \ {0}
  BY <1>1 DEF StoreType, CommonInv, TypeInv
<1>5. DestStep(t)
  BY <1>1, <1>2, <1>3, <1>4, DestFacts DEF DestStep
<1>6. dst' = t /\ src' = src
  BY <1>3, DestFacts DEF dst, src
<1> QED
  BY <1>2, <1>5, <1>6, DestStepKeeps

\* While an operation but a program's own works, nothing is being saved.
LEMMA WorkingFacts ==
  ASSUME CommonInv, pc \in Operation \cup {"insert"}, pc # "library" \/ saving["dest"] = "no"
  PROVE  Working
<1>1. pc # "library" => saving["dest"] = "no"
  BY DEF CommonInv, StoreInv, Operation
<1> QED
  BY <1>1 DEF Working

\* Every entry of the source that a list names is one of its messages.
LEMMA SourceFacts ==
  ASSUME CommonInv
  PROVE  /\ src \in StoreType /\ IsMap(src.order, src.items)
         /\ InOrder(src) \in StoreType /\ IsMap(InOrder(src).order, InOrder(src).items)
         /\ Held(InOrder(src).items) = Held(src.items)
         /\ \A k \in DOMAIN InOrder(src).items : InOrder(src).items[k].e.message \in Message
<1>1. "source" \in Side
  BY DEF Side
<1>2. src \in StoreType /\ IsMap(src.order, src.items)
  BY <1>1 DEF CommonInv, TypeInv, StoreInv, src
<1>3. "ByIndex" \in Orders
  BY DEF Orders
<1> DEFINE s == InOrder(src)
<1>4. s \in StoreType /\ IsMap(s.order, s.items) /\ Held(s.items) = Held(src.items)
  BY <1>2, <1>3, SortFacts DEF InOrder
<1> HIDE DEF s
<1>5. \A k \in DOMAIN s.items : s.items[k].e.message \in Message
  BY <1>4, SizeOfMap DEF IsMap, EntryType, Held
<1> QED
  BY <1>2, <1>4, <1>5 DEF s

\* The list of an operation: every place of the source, or what the arguments name.
LEMMA ListFacts ==
  ASSUME CommonInv
  PROVE  LET s    == InOrder(src)
             list == Entries(s)
         IN /\ Len(list) \in Nat /\ DOMAIN list = 1..Len(list)
            /\ args = <<>> => /\ DOMAIN list = DOMAIN s.items
                             /\ \A n \in DOMAIN list : list[n] = {n}
            /\ args # <<>> => /\ DOMAIN list = DOMAIN args
                             /\ \A n \in DOMAIN list : list[n] = Find(s, args[n])
            /\ \A n \in DOMAIN list : list[n] \subseteq DOMAIN s.items
<1> DEFINE s == InOrder(src)
           list == Entries(s)
           D == IF args = <<>> THEN DOMAIN s.items ELSE DOMAIN args
<1>1. s.items \in Seq(ItemType) /\ args \in Seq(Nat)
  BY SourceFacts DEF IsMap, CommonInv, TypeInv
<1>2. PICK l \in Nat : D = 1..l
  <2>1. Len(s.items) \in Nat /\ DOMAIN s.items = 1..Len(s.items)
    BY <1>1, LenProperties
  <2>2. Len(args) \in Nat /\ DOMAIN args = 1..Len(args)
    BY <1>1, LenProperties
  <2> HIDE DEF s
  <2> QED
    BY <2>1, <2>2
<1> HIDE DEF s
<1>3. /\ args = <<>> => list = [k \in D |-> {k}]
      /\ args # <<>> => list = [k \in D |-> Find(s, args[k])]
  BY Zenon DEF Entries
<1> HIDE DEF D, list
<1>4. DOMAIN list = D
  BY <1>3
<1>5. \A n \in D : list[n] \subseteq DOMAIN s.items
  BY <1>3 DEF D, Find
<1>6. list \in Seq(SUBSET DOMAIN s.items)
  <2>1. list = [n \in 1..l |-> list[n]]
    BY <1>2, <1>3
  <2> QED
    BY <1>2, <1>5, <2>1, SeqDef
<1>7. Len(list) \in Nat /\ DOMAIN list = 1..Len(list)
  BY <1>6, LenProperties
<1> QED
  BY <1>3, <1>4, <1>5, <1>7 DEF D, list, s

\* The calls that work on the destination keep the invariant.
LEMMA CallsKeep ==
  ASSUME CommonInv, Backup \/ Clear \/ ClearEnds \/ Copy \/ Add \/ Delete \/ Library,
         ~excused', excused' \in BOOLEAN
  PROVE  CommonInv'
<1> USE DEF fileVars
<1> DEFINE list == Entries(InOrder(src))
           m(k) == InOrder(src).items[k].e.message
<1>0. pos \in Nat \ {0} /\ pos + 1 \in Nat \ {0} /\ 1 \in Nat \ {0}
  BY DEF CommonInv, TypeInv
<1>a. ASSUME pos <= Len(list), NEW k \in list[pos] PROVE m(k) \in Message
  <2>1. pos \in DOMAIN list
    BY <1>0, <1>a, ListFacts
  <2>2. k \in DOMAIN InOrder(src).items
    BY <1>a, <2>1, ListFacts
  <2> QED
    BY <2>2, SourceFacts
<1>1. CASE Backup
  <2>1. Working /\ UNCHANGED <<op, args, kind, saving>>
    BY <1>1, WorkingFacts DEF Backup, Operation
  <2>2. CASE Goto("close") /\ UNCHANGED <<store, disk, outcome, excused>>
    BY <1>0, <2>1, <2>2, FailsKeeps DEF Goto
  <2>3. CASE Fails
    BY <1>0, <2>1, <2>3, FailsKeeps DEF Fails, Caught, Goto
  <2>4. ASSUME pos <= Len(list), NEW k \in list[pos],
               IF IsBackedUp(m(k)) THEN Advance /\ UNCHANGED <<store, disk, outcome, excused>>
               ELSE Inserts(m(k))
        PROVE  CommonInv'
    <3>1. CASE Advance /\ UNCHANGED <<store, disk, outcome, excused>>
      BY <1>0, <2>1, <3>1, FailsKeeps DEF Advance
    <3>2. CASE Inserts(m(k))
      <4>1. m(k) \in Message
        BY <1>a, <2>4
      <4> HIDE DEF m
      <4> QED
        BY <2>1, <3>2, <4>1, InsertsKeeps
    <3> QED
      BY <2>4, <3>1, <3>2
  <2> QED
    BY <1>1, <2>2, <2>3, <2>4 DEF Backup
<1>2. CASE Copy
  <2>1. Working /\ UNCHANGED <<op, args, kind, saving>>
    BY <1>2, WorkingFacts DEF Copy, Operation
  <2>2. CASE Goto("close") /\ UNCHANGED <<store, disk, outcome, excused>>
    BY <1>0, <2>1, <2>2, FailsKeeps DEF Goto
  <2>3. CASE Fails
    BY <1>0, <2>1, <2>3, FailsKeeps DEF Fails, Caught, Goto
  <2>4. ASSUME pos <= Len(list), NEW k \in list[pos], Inserts(m(k)) PROVE CommonInv'
    <3>1. m(k) \in Message
      BY <1>a, <2>4
    <3> HIDE DEF m
    <3> QED
      BY <2>1, <2>4, <3>1, InsertsKeeps
  <2> QED
    BY <1>2, <2>2, <2>3, <2>4 DEF Copy
<1>3. CASE Add
  <2>1. Working /\ UNCHANGED <<op, args, kind, saving>>
    BY <1>3, WorkingFacts DEF Add, Operation
  <2>2. CASE Goto("close") /\ UNCHANGED <<store, disk, outcome, excused>>
    BY <1>0, <2>1, <2>2, FailsKeeps DEF Goto
  <2>3. ASSUME NEW x \in Message, Inserts(x) PROVE CommonInv'
    BY <2>1, <2>3, InsertsKeeps
  <2> QED
    BY <1>3, <2>2, <2>3 DEF Add
<1>4. CASE Clear
  <2>1. Working /\ UNCHANGED <<op, args, kind, saving>>
    BY <1>4, WorkingFacts DEF Clear, Operation
  <2>2. CASE Dies /\ UNCHANGED <<disk, excused>>
    <3>1. saving' = [b \in Side |-> "no"]
      <4>1. saving["source"] = "no" /\ saving["dest"] = "no" /\ saving \in [Side -> Stages]
        BY <2>1 DEF CommonInv, TypeInv, PhaseInv, Working
      <4> QED
        BY <2>1, <4>1 DEF Side
    <3> QED
      BY <2>1, <2>2, <3>1, DeadKeeps DEF Dies, Goto
  <2>3. CASE Erases({1}, {1}, Stay)
    <3>1. CASE kind["dest"] = "ME" /\ Fails
      BY <1>0, <2>1, <3>1, FailsKeeps DEF Fails, Caught, Goto
    <3>2. CASE Becomes(Erase(dst, {1}, {1})) /\ Stay
               /\ disk' = IF kind["dest"] # "ME" THEN disk ELSE Emptied({1})
      <4>1. {1} \in SUBSET DOMAIN dst.items
        <5>1. dst.items \in Seq(ItemType) /\ dst.items # <<>>
          BY <1>4, <2>1, DestFacts DEF IsMap, Clear
        <5> QED
          BY <5>1, EmptySeq, LenProperties
      <4> QED
        BY <2>1, <3>2, <4>1, ErasesKeeps DEF Stay
    <3> QED
      BY <2>3, <3>1, <3>2 DEF Erases
  <2> QED
    BY <1>4, <2>2, <2>3 DEF Clear
<1>5. CASE ClearEnds
  <2>1. Working /\ UNCHANGED <<op, args, kind, saving>>
    BY <1>5, WorkingFacts DEF ClearEnds, Operation
  <2> DEFINE t == [dst EXCEPT !.changed = TRUE]
  <2>2. /\ t \in StoreType /\ t.items = dst.items /\ t.order = dst.order /\ t.open = dst.open
        /\ t.next = dst.next /\ t.changed
    BY <2>1, DestFacts DEF StoreType
  <2>3. store' = [store EXCEPT !["dest"] = t] /\ disk' = disk /\ pc' = "insert" /\ pos' = 1
    BY <1>5 DEF ClearEnds, Becomes, Goto
  <2>4. op = "copy"
    BY <1>5 DEF ClearEnds, CommonInv, PhaseInv, Operation
  <2> HIDE DEF t
  <2>5. DestStep(t)
    BY <1>0, <2>1, <2>2, <2>3, <2>4, DestFacts DEF DestStep
  <2> QED
    BY <2>1, <2>5, DestStepKeeps
<1>6. CASE Delete
  <2>1. Working /\ UNCHANGED <<op, args, kind, saving>>
    BY <1>6, WorkingFacts DEF Delete, Operation
  <2>2. CASE Becomes(SetSortOrder(dst, "ByIndex")) /\ Stay /\ UNCHANGED disk
    <3>1. "ByIndex" \in Orders
      BY DEF Orders
    <3> QED
      BY <2>1, <2>2, <3>1, SortKeeps DEF Stay
  <2>3. CASE Goto("close") /\ UNCHANGED <<store, disk, outcome, excused>>
    BY <1>0, <2>1, <2>3, FailsKeeps DEF Goto
  <2>4. CASE Fails
    BY <1>0, <2>1, <2>4, FailsKeeps DEF Fails, Caught, Goto
  <2>5. ASSUME NEW key, Leading(dst.items, key) # {},
               Erases(Leading(dst.items, key), EqualRange(dst.items, key), Advance)
        PROVE  CommonInv'
    <3> DEFINE S == Leading(dst.items, key)
               T == EqualRange(dst.items, key)
    <3>1. CASE kind["dest"] = "ME" /\ Fails
      BY <1>0, <2>1, <3>1, FailsKeeps DEF Fails, Caught, Goto
    <3>2. CASE Becomes(Erase(dst, S, T)) /\ Advance /\ excused' = (excused \/ S # T)
               /\ disk' = IF kind["dest"] # "ME" THEN disk ELSE Emptied(S)
      <4>1. S = T /\ S \in SUBSET DOMAIN dst.items /\ S # {}
        BY <2>5, <3>2 DEF EqualRange
      <4> HIDE DEF S, T
      <4> QED
        BY <2>1, <3>2, <4>1, ErasesKeeps DEF Advance
    <3> QED
      BY <2>5, <3>1, <3>2 DEF Erases
  <2> QED
    BY <1>6, <2>2, <2>3, <2>4, <2>5 DEF Delete
<1>7. CASE Library
  <2>1. Working /\ UNCHANGED <<op, args, kind, saving>>
    BY <1>7, WorkingFacts DEF Library, Operation
  <2>2. ASSUME NEW order \in Orders, Becomes(SetSortOrder(dst, order)), Stay, UNCHANGED disk
        PROVE  CommonInv'
    BY <2>1, <2>2, SortKeeps DEF Stay
  <2>3. CASE Goto("close") /\ UNCHANGED <<store, disk, outcome, excused>>
    BY <1>0, <2>1, <2>3, FailsKeeps DEF Goto
  <2>4. ASSUME NEW key, EqualRange(dst.items, key) # {},
               Erases(Leading(dst.items, key), EqualRange(dst.items, key), Stay)
        PROVE  CommonInv'
    <3> DEFINE S == Leading(dst.items, key)
               T == EqualRange(dst.items, key)
    <3>1. CASE kind["dest"] = "ME" /\ Fails
      BY <1>0, <2>1, <3>1, FailsKeeps DEF Fails, Caught, Goto
    <3>2. CASE Becomes(Erase(dst, S, T)) /\ Stay /\ excused' = (excused \/ S # T)
               /\ disk' = IF kind["dest"] # "ME" THEN disk ELSE Emptied(S)
      <4>1. S = T /\ S \in SUBSET DOMAIN dst.items /\ S # {}
        BY <2>4, <3>2 DEF EqualRange
      <4> HIDE DEF S, T
      <4> QED
        BY <2>1, <3>2, <4>1, ErasesKeeps DEF Stay
    <3> QED
      BY <2>4, <3>1, <3>2 DEF Erases
  <2>5. ASSUME NEW k \in DOMAIN dst.items PROVE EqualRange(dst.items, KeyOf(dst.order, dst.items[k].e)) # {}
    <3>1. dst.items[k].key = KeyOf(dst.order, dst.items[k].e)
      BY <2>1, DestFacts DEF IsMap, Keyed
    <3>2. k \in EqualRange(dst.items, KeyOf(dst.order, dst.items[k].e))
      BY <3>1 DEF EqualRange
    <3> QED
      BY <3>2
  <2> QED
    BY <1>7, <2>2, <2>3, <2>4, <2>5 DEF Library
<1> QED
  BY <1>1, <1>2, <1>3, <1>4, <1>5, <1>6, <1>7

\* What is known while a store is opened.
LEMMA OpeningFacts ==
  ASSUME CommonInv, NEW b \in Side, pc = b
  PROVE  /\ store[b] \in StoreType /\ IsMap(store[b].order, store[b].items)
         /\ store[b].order = "ByDate" /\ ~store[b].changed
         /\ saving = [c \in Side |-> "no"] /\ store \in [Side -> StoreType]
         /\ b = "source" => dst = Closed
         /\ kind["dest"] = "stdout" => disk["dest"] = <<>>
<1>1. saving["source"] = "no" /\ saving["dest"] = "no" /\ saving \in [Side -> Stages]
  BY DEF CommonInv, TypeInv, StoreInv, PhaseInv, Side
<1>2. saving = [c \in Side |-> "no"]
  BY <1>1 DEF Side
<1> QED
  BY <1>2 DEF CommonInv, TypeInv, StoreInv, PhaseInv, Side

\* A store was opened (gsm_sorted_sms_store.cc:212, :235).
LEMMA ConstructKeeps ==
  ASSUME CommonInv, NEW b \in Side, pc = b, NEW s \in StoreType, Construct(b, s),
         UNCHANGED <<op, args, kind, disk, saving>>, excused' \in BOOLEAN,
         s.order = "ByDate", IsMap(s.order, s.items), s.open, ~s.changed,
         kind[b] # "ME" => \A e \in Held(s.items) : e.index < s.next,
         Held(s.items) = Stored(b, disk[b])
  PROVE  CommonInv'
<1> USE DEF Side
<1>1. /\ store' = [store EXCEPT ![b] = s] /\ pos' = 1
      /\ pc' = IF b = "dest" THEN op ELSE IF op = "list" THEN "close" ELSE "dest"
  BY DEF Construct, Opened, Goto
<1>2. op \in Operation /\ pc' # b /\ pc' # "source" /\ (pc' = "dest" => b = "source")
  BY <1>1 DEF CommonInv, TypeInv, Operation
<1>3. /\ store' \in [Side -> StoreType] /\ store'[b] = s
      /\ \A c \in Side : c # b => store'[c] = store[c]
  BY <1>1, OpeningFacts
<1>4. TypeInv'
  BY <1>1, <1>3 DEF CommonInv, TypeInv
<1>5. Stored(b, disk[b])' = Stored(b, disk[b])
  BY DEF Stored
<1>6. StoreInv(b)'
  <2>1. saving'[b] = "no"
    BY OpeningFacts
  <2> QED
    BY <1>2, <1>3, <1>5, <2>1 DEF StoreInv
<1>7. CASE b = "source"
  <2>1. store'["dest"] = Closed /\ saving'["dest"] = "no"
    BY <1>3, <1>7, OpeningFacts DEF dst
  <2>2. kind["dest"] = "ME" => disk["dest"] \in SlotsType
    BY DEF CommonInv, TypeInv, DiskType
  <2>3. StoreInv("dest")'
    BY <1>1, <2>1, <2>2, ClosedStore
  <2>4. PhaseInv'
    <3>1. pc' \in {"close", "dest"}
      BY <1>1, <1>7
    <3>2. src' = s /\ saving'["source"] = "no"
      BY <1>3, <1>7, OpeningFacts DEF src
    <3>3. kind'["dest"] = "stdout" => disk'["dest"] = <<>>
      BY OpeningFacts
    <3> QED
      BY <3>1, <3>2, <3>3 DEF PhaseInv, Operation
  <2> QED
    BY <1>4, <1>6, <1>7, <2>3, <2>4 DEF CommonInv
<1>8. CASE b = "dest"
  <2>1. store'["source"] = store["source"] /\ saving["source"] = "no" /\ StoreInv("source")
        /\ pc # "source" /\ pc' # "source"
    BY <1>2, <1>3, <1>8, OpeningFacts DEF CommonInv
  <2>2. StoreInv("source")'
    BY <2>1, SameStore
  <2>3. PhaseInv'
    <3>1. pc' = op /\ pc' \in Operation
      BY <1>1, <1>2, <1>8
    <3>2. dst' = s /\ src' = src
      BY <1>3, <1>8 DEF dst, src
    <3>3. saving["source"] = "no" /\ ~src.changed /\ (op = "backup" => src.open)
      BY <1>8 DEF CommonInv, PhaseInv
    <3> QED
      BY <3>1, <3>2, <3>3 DEF PhaseInv, Operation
  <2> QED
    BY <1>4, <1>6, <1>8, <2>2, <2>3 DEF CommonInv
<1> QED
  BY <1>7, <1>8

\* A store cannot be opened.
LEMMA RefusedOpen ==
  ASSUME CommonInv, NEW b \in Side, pc = b, store' = [store EXCEPT ![b] = Closed],
         UNCHANGED <<op, args, kind, disk, saving>>, excused' \in BOOLEAN, pc' = "close", pos' = 1
  PROVE  CommonInv'
<1> USE DEF Side
<1>1. /\ store' \in [Side -> StoreType] /\ store'[b] = Closed
      /\ \A c \in Side : c # b => store'[c] = store[c]
  BY OpeningFacts, ClosedFacts
<1>2. TypeInv'
  BY <1>1 DEF CommonInv, TypeInv
<1>3. \A c \in Side : saving'[c] = "no" /\ saving[c] = "no" /\ pc' # c
  BY OpeningFacts
<1>4. StoreInv(b)'
  BY <1>1, <1>3, ClosedStore
<1>5. CASE b = "source"
  <2>1. store'["dest"] = Closed
    BY <1>1, <1>5, OpeningFacts DEF dst
  <2>2. StoreInv("dest")'
    BY <1>3, <2>1, ClosedStore
  <2>3. PhaseInv'
    BY <1>1, <1>3, <1>5, ClosedFacts DEF PhaseInv, Operation, src
  <2> QED
    BY <1>2, <1>4, <1>5, <2>2, <2>3 DEF CommonInv
<1>6. CASE b = "dest"
  <2>1. store'["source"] = store["source"] /\ StoreInv("source")
    BY <1>1, <1>6 DEF CommonInv
  <2>2. StoreInv("source")'
    BY <1>3, <1>6, <2>1, SameStore
  <2>3. PhaseInv'
    <3>1. src' = src /\ ~src.changed
      BY <1>1, <1>6 DEF CommonInv, PhaseInv, src
    <3> QED
      BY <1>3, <3>1 DEF PhaseInv, Operation
  <2> QED
    BY <1>2, <1>4, <1>6, <2>2, <2>3 DEF CommonInv
<1> QED
  BY <1>5, <1>6

\* The constructor of a store in a file.
LEMMA OpenFileKeeps ==
  ASSUME CommonInv, NEW b \in Side, OpenFile(b), excused' \in BOOLEAN
  PROVE  CommonInv'
<1> USE DEF Side
<1>1. pc = b /\ kind[b] # "ME" /\ UNCHANGED <<op, args, kind, disk, saving>>
  BY DEF OpenFile, fileVars
<1>2. disk[b] \in FileType
  BY <1>1 DEF CommonInv, TypeInv, DiskType
<1>3. Stored(b, disk[b]) = FileEntries(disk[b])
  BY <1>1 DEF Stored
<1>4. CASE kind[b] # "stdout" /\ Construct(b, FromFile(disk[b]))
  <2> DEFINE s == FromFile(disk[b])
  <2>1. /\ s \in StoreType /\ s.order = "ByDate" /\ IsMap(s.order, s.items)
        /\ s.open /\ ~s.changed /\ Held(s.items) = FileEntries(disk[b])
        /\ \A e \in Held(s.items) : e.index < s.next
    BY <1>2, FromFileFacts
  <2> HIDE DEF s
  <2>2. Construct(b, s)
    BY <1>4 DEF s
  <2> QED
    BY <1>1, <1>3, <2>1, <2>2, ConstructKeeps
<1>5. CASE kind[b] = "stdout" /\ Construct(b, Fresh)
  <2>1. b = "dest" => disk[b] = <<>>
    BY <1>1, <1>5, OpeningFacts
  <2>2. b = "dest"
    BY <1>5 DEF CommonInv, TypeInv
  <2>3. FileEntries(<<>>) = {}
    <3>1. Content(<<>>) = <<>>
      BY DEF Content
    <3>2. 0..(Len(<<>>) - 1) = {}
      OBVIOUS
    <3> QED
      BY <3>1, <3>2 DEF FileEntries
  <2>4. Held(Fresh.items) = Stored(b, disk[b])
    BY <1>3, <2>1, <2>2, <2>3, ClosedFacts
  <2>5. \A e \in Held(Fresh.items) : e.index < Fresh.next
    BY ClosedFacts
  <2> QED
    BY <1>1, <1>5, <2>4, <2>5, ClosedFacts, ConstructKeeps
<1>6. CASE Caught /\ UNCHANGED <<store, had>>
  <2>1. store[b] = Closed
    <3>1. StoreInv(b)
      BY DEF CommonInv
    <3> QED
      BY <1>1, <3>1 DEF StoreInv
  <2>2. store' = [store EXCEPT ![b] = Closed]
    BY <1>1, <1>6, <2>1, OpeningFacts
  <2> QED
    BY <1>1, <1>6, <2>2, RefusedOpen DEF Caught, Goto
<1> QED
  BY <1>4, <1>5, <1>6 DEF OpenFile

\* The constructor of a store of the mobile, slot after slot (gsm_sorted_sms_store.cc:248).
LEMMA LoadSlotKeeps ==
  ASSUME CommonInv, NEW b \in Side, LoadSlot(b), excused' \in BOOLEAN
  PROVE  CommonInv'
<1> USE DEF Side
<1> DEFINE f == disk[b]
           s == [store[b] EXCEPT !.open = TRUE]
           i == pos - 1
           Passed(n) == {e \in SlotEntries(f) : e.index < n}
<1>1. pc = b /\ kind[b] = "ME" /\ UNCHANGED <<op, args, kind, disk, saving>>
      /\ pos \in Nat \ {0}
  BY DEF LoadSlot, fileVars, CommonInv, TypeInv
<1>2. f \in SlotsType
  BY <1>1 DEF CommonInv, TypeInv, DiskType
<1>3. Stored(b, disk[b]) = SlotEntries(f)
  BY <1>1 DEF Stored
<1>4. Held(store[b].items) = Passed(i)
  <2>1. StoreInv(b)
    BY DEF CommonInv
  <2> QED
    BY <1>1, <2>1 DEF StoreInv
<1>5. /\ s \in StoreType /\ s.items = store[b].items /\ s.order = "ByDate" /\ s.open /\ ~s.changed
      /\ IsMap(s.order, s.items)
  <2>1. s.order = store[b].order
    BY <1>1, OpeningFacts DEF StoreType
  <2> QED
    BY <1>1, <2>1, OpeningFacts DEF StoreType
<1>6. CASE Loaded(b) /\ Construct(b, s)
  <2>1. Len(s.items) = Cardinality(Used(f))
    BY <1>5, <1>6 DEF Loaded
  <2>2. IsFiniteSet(Held(s.items)) /\ Cardinality(Held(s.items)) = Len(s.items)
    BY <1>5, SizeOfMap DEF IsMap
  <2>3. IsFiniteSet(SlotEntries(f)) /\ Cardinality(SlotEntries(f)) = Cardinality(Used(f))
    BY <1>2, SlotCount
  <2>4. Held(s.items) \in SUBSET SlotEntries(f)
    BY <1>4, <1>5
  <2> HIDE DEF s, f, i
  <2>5. Held(s.items) = SlotEntries(f)
    BY <2>1, <2>2, <2>3, <2>4, FS_Subset
  <2> QED
    BY <1>1, <1>3, <1>5, <1>6, <2>5, ConstructKeeps
<1>7. ASSUME NEW t, t = (IF i \in Used(f) THEN Load(s, f[i], i) ELSE s),
             store' = [store EXCEPT ![b] = t], Advance
      PROVE  CommonInv'
  <2>1. i \in Nat
    BY <1>1
  <2>2. \A x \in SlotEntries(f) : x.index \in Nat
    BY <1>2, SlotIndices
  <2> DEFINE Good == /\ t \in StoreType /\ IsMap(t.order, t.items) /\ t.order = "ByDate" /\ ~t.changed
                     /\ Held(t.items) = Passed(i + 1)
  <2>3. ASSUME i \in Used(f) PROVE Good
    <3>1. f[i] \in Message
      BY <1>2, <2>3 DEF Used, SlotsType
    <3> DEFINE e == [index |-> i, message |-> f[i]]
    <3>2. \A x \in Held(s.items) : x.index # i
      BY <1>4, <1>5, <2>1, <2>2
    <3>3. Added(s, t, e) /\ ~t.changed
      <4> HIDE DEF s, f, i
      <4> QED
        BY <1>5, <1>7, <2>1, <2>3, <3>1, <3>2, InsertFacts
    <3>4. Passed(i + 1) = Passed(i) \cup {e}
      <4>1. e \in SlotEntries(f)
        BY <2>3 DEF SlotEntries
      <4>2. \A x \in SlotEntries(f) : x.index = i => x = e
        BY <1>2, SlotIndices
      <4> HIDE DEF i, f
      <4>3. \A x \in SlotEntries(f) : x.index < i + 1 => x.index < i \/ x.index = i
        BY <2>1, <2>2
      <4>4. \A x \in SlotEntries(f) : x.index < i => x.index < i + 1
        BY <2>1, <2>2
      <4>5. e.index = i /\ i < i + 1
        BY <2>1
      <4> QED
        BY <4>1, <4>2, <4>3, <4>4, <4>5
    <3>5. Held(s.items) = Passed(i)
      BY <1>4, <1>5
    <3> HIDE DEF s, e, Passed, i
    <3> QED
      BY <1>5, <3>3, <3>4, <3>5 DEF Added
  <2>4. ASSUME i \notin Used(f) PROVE Good
    <3>1. \A x \in SlotEntries(f) : x.index # i
      BY <1>2, <2>4, SlotIndices
    <3>2. Passed(i + 1) = Passed(i)
      <4> HIDE DEF i, f
      <4>1. \A x \in SlotEntries(f) : x.index < i + 1 <=> x.index < i
        BY <2>1, <2>2, <3>1
      <4> QED
        BY <4>1
    <3>3. t = s /\ Held(s.items) = Passed(i)
      BY <1>4, <1>5, <1>7, <2>4
    <3> HIDE DEF s, Passed, i
    <3> QED
      BY <1>5, <3>2, <3>3
  <2>5. /\ t \in StoreType /\ IsMap(t.order, t.items) /\ t.order = "ByDate" /\ ~t.changed
        /\ Held(t.items) = {e \in SlotEntries(f) : e.index < pos' - 1}
    <3>1. pos' - 1 = i + 1
      BY <1>1, <1>7 DEF Advance
    <3> QED
      BY <2>3, <2>4, <3>1
  <2> HIDE DEF f, s, i, Passed
  <2>6. /\ store' \in [Side -> StoreType] /\ store'[b] = t
        /\ \A c \in Side : c # b => store'[c] = store[c]
    BY <1>1, <1>7, <2>5, OpeningFacts
  <2>7. TypeInv'
    BY <1>1, <1>7, <2>6 DEF CommonInv, TypeInv, Advance
  <2>8. \A c \in Side : saving[c] = "no" /\ saving'[c] = "no"
    BY <1>1, OpeningFacts
  <2>9. StoreInv(b)'
    <3>1. pos' # 1 /\ pc' = b
      BY <1>1, <1>7 DEF Advance
    <3> QED
      BY <1>1, <2>5, <2>6, <2>8, <3>1 DEF StoreInv, f
  <2>10. CASE b = "source"
    <3>1. store'["dest"] = Closed /\ pc' = "source"
      BY <1>1, <1>7, <2>6, <2>10, OpeningFacts DEF dst, Advance
    <3>2. StoreInv("dest")'
      BY <2>8, <3>1, ClosedStore
    <3>3. PhaseInv'
      <4>1. kind["dest"] = "stdout" => disk["dest"] = <<>>
        BY <1>1, OpeningFacts
      <4> QED
        BY <1>1, <2>5, <2>6, <2>8, <2>10, <3>1, <4>1 DEF PhaseInv, Operation, src, dst
    <3> QED
      BY <2>7, <2>9, <2>10, <3>2, <3>3 DEF CommonInv
  <2>11. CASE b = "dest"
    <3>1. store'["source"] = store["source"] /\ pc' = "dest" /\ pc = "dest"
      BY <1>1, <1>7, <2>6, <2>11 DEF Advance
    <3>2. StoreInv("source")'
      BY <1>1, <2>8, <3>1, SameStore DEF CommonInv
    <3>3. PhaseInv'
      BY <1>1, <2>8, <3>1 DEF CommonInv, PhaseInv, Operation, src
    <3> QED
      BY <2>7, <2>9, <2>11, <3>2, <3>3 DEF CommonInv
  <2> QED
    BY <2>10, <2>11
<1>8. CASE store' = [store EXCEPT ![b] = Closed] /\ Caught
  BY <1>1, <1>8, RefusedOpen DEF Caught, Goto
<1> QED
  <2>1. \/ Loaded(b) /\ Construct(b, s)
        \/ store' = [store EXCEPT ![b] = IF i \in Used(f) THEN Load(s, f[i], i) ELSE s] /\ Advance
        \/ store' = [store EXCEPT ![b] = Closed] /\ Caught
    BY DEF LoadSlot
  <2> HIDE DEF f, i, s
  <2> QED
    BY <1>6, <1>7, <1>8, <2>1

\* A message arrives where the program will still look.
LEMMA ArriveKeeps ==
  ASSUME CommonInv, NEW b \in Side, Arrive(b), ~excused', excused' \in BOOLEAN
  PROVE  CommonInv'
<1> USE DEF Side
<1>1. /\ kind[b] = "ME" /\ UNCHANGED <<op, args, pc, pos, outcome, kind, store, saving>>
      /\ (pc = b \/ (pc = "source" /\ b = "dest"))
  BY DEF Arrive, mainVars, fileVars
<1> DEFINE f == disk[b]
<1>2. PICK m \in Message, i \in Slot \ Used(f) :
        /\ disk' = [disk EXCEPT ![b][i] = m]
        /\ (pc = b /\ pos - 1 <= i) \/ (pc = "source" /\ b = "dest")
  BY DEF Arrive
<1> DEFINE g == [f EXCEPT ![i] = m]
<1>3. f \in SlotsType
  BY <1>1 DEF CommonInv, TypeInv, DiskType
<1>4. g \in SlotsType /\ SlotEntries(g) = SlotEntries(f) \cup {[index |-> i, message |-> m]}
  BY <1>2, <1>3, SlotAdded
<1>5. disk' = [disk EXCEPT ![b] = g]
  BY <1>2
<1> HIDE DEF g
<1>6. /\ disk' \in [Side -> FileType \cup SlotsType] /\ disk'[b] = g
      /\ \A c \in Side : c # b => disk'[c] = disk[c]
  BY <1>4, <1>5 DEF CommonInv, TypeInv
<1>7. TypeInv'
  BY <1>1, <1>4, <1>6 DEF CommonInv, TypeInv, DiskType
<1>8. PhaseInv'
  <2>1. kind["dest"] = "stdout" => disk'["dest"] = disk["dest"]
    BY <1>1, <1>6
  <2> QED
    BY <1>1, <2>1 DEF CommonInv, PhaseInv, dst, src
<1>9. CASE pc = b /\ pos - 1 <= i
  <2>1. {e \in SlotEntries(g) : e.index < pos - 1} = {e \in SlotEntries(f) : e.index < pos - 1}
    <3>1. i \in Int /\ pos \in Int
      BY <1>2, SortedSMSStoreAssumption DEF Slot, CommonInv, TypeInv
    <3>2. ~([index |-> i, message |-> m].index < pos - 1)
      BY <1>9, <3>1
    <3> HIDE DEF f
    <3> QED
      BY <1>4, <3>2
  <2>2. StoreInv(b)
    BY DEF CommonInv
  <2>3. StoreInv(b)'
    BY <1>1, <1>6, <1>9, <2>1, <2>2 DEF StoreInv
  <2>4. \A c \in Side : c # b => StoreInv(c)'
    <3> SUFFICES ASSUME NEW c \in Side, c # b PROVE StoreInv(c)'
      OBVIOUS
    <3>1. StoreInv(c)
      BY DEF CommonInv
    <3> QED
      BY <1>1, <1>6, <3>1, SameStore
  <2> QED
    BY <1>7, <1>8, <2>3, <2>4 DEF CommonInv
<1>10. CASE pc = "source" /\ b = "dest"
  <2>1. saving'["dest"] = "no" /\ store'["dest"] = Closed /\ pc' # "dest"
    BY <1>1, <1>10, OpeningFacts DEF dst
  <2>2. StoreInv("dest")'
    BY <2>1, ClosedStore
  <2>3. StoreInv("source")'
    BY <1>1, <1>6, <1>10, SameStore DEF CommonInv
  <2> QED
    BY <1>7, <1>8, <2>2, <2>3 DEF CommonInv
<1> QED
  BY <1>2, <1>9, <1>10

\* Only the destination is saved, and only when there is something to save.
LEMMA SavingFacts ==
  ASSUME CommonInv, NEW b \in Side, saving[b] # "no"
  PROVE  /\ b = "dest" /\ dst.open /\ kind["dest"] # "ME" /\ pc \in {"close", "library"}
         /\ pc # "dest" /\ pc # "source"
         /\ op # "library" => dst.closing /\ dst.changed
         /\ saving["source"] = "no" /\ saving \in [Side -> Stages]
         /\ pc = "library" => op = "library" /\ ~dst.closing
<1>1. b = "dest" /\ saving["source"] = "no" /\ saving \in [Side -> Stages]
  BY DEF CommonInv, PhaseInv, TypeInv, Side
<1> QED
  BY <1>1 DEF CommonInv, StoreInv, PhaseInv, dst, Operation

\* A step of sync() that leaves the store as it is.
LEMMA SavingStep ==
  ASSUME CommonInv, saving["dest"] # "no", NEW s \in Stages, saving' = [saving EXCEPT !["dest"] = s],
         UNCHANGED <<op, args, kind, store>>, excused' \in BOOLEAN,
         (pc' = pc /\ pos' = pos) \/ (pc' = "close" /\ pos' = 1 /\ s = "no"),
         NEW f \in FileType, disk' = disk \/ (disk' = [disk EXCEPT !["dest"] = f] /\ s # "no")
  PROVE  CommonInv'
<1> USE DEF Side
<1>1. /\ kind["dest"] # "ME" /\ pc \in {"close", "library"} /\ pc' \in {"close", "library"}
      /\ dst.open /\ saving["source"] = "no" /\ saving \in [Side -> Stages]
      /\ op # "library" => dst.closing /\ dst.changed
      /\ pc' = "library" => op = "library"
  BY SavingFacts
<1>2. /\ saving' \in [Side -> Stages] /\ saving'["source"] = "no" /\ saving'["dest"] = s
  BY <1>1
<1>3. /\ disk' \in [Side -> FileType \cup SlotsType] /\ disk'["source"] = disk["source"]
      /\ disk'["dest"] \in FileType
  BY <1>1 DEF CommonInv, TypeInv, DiskType
<1>4. TypeInv'
  BY <1>1, <1>2, <1>3 DEF CommonInv, TypeInv, DiskType
<1>5. StoreInv("source")'
  BY <1>1, <1>2, <1>3, SameStore DEF CommonInv
<1>6. StoreInv("dest")'
  <2>1. StoreInv("dest") /\ dst = store["dest"]
    BY DEF CommonInv, dst
  <2>2. op # "library" => store["dest"].changed
    BY <1>1, <2>1
  <2> QED
    BY <1>1, <1>2, <2>1, <2>2 DEF StoreInv
<1>7. PhaseInv'
  <2>1. dst' = dst /\ src' = src
    BY DEF dst, src
  <2> QED
    BY <1>1, <1>2, <2>1 DEF CommonInv, PhaseInv, Operation
<1> QED
  BY <1>4, <1>5, <1>6, <1>7 DEF CommonInv

\* A store is closed, or goes on unchanged, with nothing left to save.
LEMMA CloseStep ==
  ASSUME CommonInv, NEW b \in Side, pc = "close", UNCHANGED <<op, args, kind, pc, pos>>,
         excused' \in BOOLEAN, store' = [store EXCEPT ![b] = Closed],
         saving' = [saving EXCEPT ![b] = "no"],
         disk' = disk \/ (b = "dest" /\ kind[b] # "ME"
                          /\ \E f \in FileType : disk' = [disk EXCEPT !["dest"] = f])
  PROVE  CommonInv'
<1> USE DEF Side
<1>0. saving["source"] = "no" /\ saving \in [Side -> Stages] /\ pc # "library"
  BY DEF CommonInv, PhaseInv, TypeInv, Operation
<1>1. /\ store' \in [Side -> StoreType] /\ store'[b] = Closed
      /\ \A c \in Side : c # b => store'[c] = store[c] /\ saving'[c] = saving[c] /\ disk'[c] = disk[c]
      /\ saving' \in [Side -> Stages] /\ saving'[b] = "no" /\ saving'["source"] = "no"
  BY <1>0, ClosedFacts DEF CommonInv, TypeInv, Stages
<1>2. TypeInv'
  BY <1>1 DEF CommonInv, TypeInv, DiskType
<1>3. StoreInv(b)'
  BY <1>1, ClosedStore
<1>4. \A c \in Side : c # b => StoreInv(c)'
  <2> SUFFICES ASSUME NEW c \in Side, c # b PROVE StoreInv(c)'
    OBVIOUS
  <2>1. StoreInv(c)
    BY DEF CommonInv
  <2> QED
    BY <1>1, <2>1, SameStore
<1>5. PhaseInv'
  <2>1. ~src'.changed
    BY <1>1, ClosedFacts DEF CommonInv, PhaseInv, src
  <2> QED
    BY <1>1, <2>1 DEF PhaseInv, Operation
<1> QED
  BY <1>2, <1>3, <1>4, <1>5 DEF CommonInv

\* A program that uses the library has saved a store.
LEMMA WrittenStep ==
  ASSUME CommonInv, op = "library", kind["dest"] # "ME", UNCHANGED <<op, args, kind, pc, pos>>,
         excused' \in BOOLEAN, saving' = [saving EXCEPT !["dest"] = "no"],
         store' = [store EXCEPT !["dest"] = [dst EXCEPT !.changed = FALSE]],
         pc \in {"close", "library"}, NEW f \in FileType, disk' = disk \/ disk' = [disk EXCEPT !["dest"] = f]
  PROVE  CommonInv'
<1> USE DEF Side
<1> DEFINE t == [dst EXCEPT !.changed = FALSE]
<1>1. dst \in StoreType /\ store \in [Side -> StoreType] /\ saving["source"] = "no"
      /\ saving \in [Side -> Stages] /\ dst = store["dest"]
  BY DEF CommonInv, TypeInv, PhaseInv, dst
<1>2. /\ t \in StoreType /\ t.items = dst.items /\ t.order = dst.order /\ t.open = dst.open
      /\ t.next = dst.next
  BY <1>1 DEF StoreType
<1>3. store' = [store EXCEPT !["dest"] = t]
  OBVIOUS
<1> HIDE DEF t
<1>4. /\ store' \in [Side -> StoreType] /\ store'["dest"] = t /\ store'["source"] = store["source"]
      /\ saving' \in [Side -> Stages] /\ saving'["source"] = "no" /\ saving'["dest"] = "no"
      /\ disk' \in [Side -> FileType \cup SlotsType] /\ disk'["source"] = disk["source"]
      /\ disk'["dest"] \in FileType
  <2>1. /\ store' \in [Side -> StoreType] /\ store'["dest"] = t
        /\ store'["source"] = store["source"]
    BY <1>1, <1>2, <1>3
  <2>2. saving' \in [Side -> Stages] /\ saving'["source"] = "no" /\ saving'["dest"] = "no"
    BY <1>1 DEF Stages
  <2>3. /\ disk \in [Side -> FileType \cup SlotsType] /\ disk["dest"] \in FileType
    BY DEF CommonInv, TypeInv, DiskType
  <2>4. /\ disk' \in [Side -> FileType \cup SlotsType] /\ disk'["source"] = disk["source"]
        /\ disk'["dest"] \in FileType
    BY <2>3
  <2> QED
    BY <2>1, <2>2, <2>4
<1>5. TypeInv'
  BY <1>4 DEF CommonInv, TypeInv, DiskType
<1>6. StoreInv("source")'
  BY <1>1, <1>4, SameStore DEF CommonInv
<1>7. StoreInv("dest")'
  BY <1>1, <1>2, <1>4 DEF CommonInv, StoreInv
<1>8. PhaseInv'
  <2>1. dst' = t /\ src' = src
    BY <1>4 DEF dst, src
  <2> QED
    BY <1>1, <1>2, <1>4, <2>1 DEF CommonInv, PhaseInv, Operation
<1> QED
  BY <1>5, <1>6, <1>7, <1>8 DEF CommonInv

\* sync() (gsm_sorted_sms_store.cc:135).
LEMMA SyncKeeps ==
  ASSUME CommonInv, NEW b \in Side, NEW closing \in BOOLEAN, Sync(b, closing), excused' \in BOOLEAN
  PROVE  CommonInv'
<1> USE DEF Side
<1>1. /\ store[b].open /\ saving[b] = "no" /\ UNCHANGED <<op, args, pc, pos, kind, disk>>
      /\ IF closing THEN pc = "close" ELSE pc = "library" /\ b = "dest"
  BY DEF Sync, mainVars
<1>2. CASE /\ kind[b] \in {"file", "stdout"} /\ store[b].changed
           /\ saving' = [saving EXCEPT ![b] = FirstStep(b)]
           /\ store' = [store EXCEPT ![b].closing = closing]
  <2>1. b = "dest"
    BY <1>2 DEF CommonInv, PhaseInv, src
  <2> DEFINE t == [dst EXCEPT !.closing = closing]
  <2>2. dst \in StoreType /\ store \in [Side -> StoreType] /\ saving["source"] = "no"
        /\ saving \in [Side -> Stages]
    BY DEF CommonInv, TypeInv, PhaseInv, dst
  <2>3. /\ t \in StoreType /\ t.items = dst.items /\ t.order = dst.order /\ t.open = dst.open
        /\ t.next = dst.next /\ t.changed = dst.changed /\ t.closing = closing
    BY <2>2 DEF StoreType
  <2>4. store' = [store EXCEPT !["dest"] = t]
    BY <1>2, <2>1 DEF dst
  <2> HIDE DEF t
  <2>5. store' \in [Side -> StoreType] /\ store'["dest"] = t /\ store'["source"] = store["source"]
    BY <2>2, <2>3, <2>4
  <2>6. saving' \in [Side -> Stages] /\ saving'["source"] = "no" /\ saving'["dest"] # "no"
    BY <1>2, <2>1, <2>2 DEF FirstStep, Stages
  <2>7. TypeInv'
    BY <1>1, <2>5, <2>6 DEF CommonInv, TypeInv
  <2>8. pc \in {"close", "library"} /\ (pc = "library" => op = "library")
    BY <1>1 DEF CommonInv, PhaseInv, Operation
  <2>9. StoreInv("source")'
    BY <1>1, <2>2, <2>5, <2>6, SameStore DEF CommonInv
  <2>10. StoreInv("dest")'
    <3>1. StoreInv("dest") /\ Stored("dest", disk["dest"])' = Stored("dest", disk["dest"])
      BY <1>1 DEF CommonInv, Stored
    <3>2. op # "library" => closing
      BY <1>1, <2>8
    <3>3. store["dest"] = dst /\ dst.open /\ dst.changed /\ kind["dest"] # "ME"
      BY <1>1, <1>2, <2>1 DEF dst
    <3> QED
      BY <1>1, <2>3, <2>5, <2>8, <3>1, <3>2, <3>3 DEF StoreInv
  <2>11. PhaseInv'
    <3>1. dst' = t /\ src' = src
      BY <2>5 DEF dst, src
    <3>2. t.open
      BY <1>1, <2>1, <2>3 DEF dst
    <3> QED
      BY <1>1, <2>6, <2>8, <3>1, <3>2 DEF CommonInv, PhaseInv, Operation
  <2> QED
    BY <2>7, <2>9, <2>10, <2>11 DEF CommonInv
<1>3. CASE store' = [store EXCEPT ![b] = Closed] /\ UNCHANGED saving /\ closing
  <2>1. saving' = [saving EXCEPT ![b] = "no"]
    BY <1>1, <1>3 DEF CommonInv, TypeInv
  <2> QED
    BY <1>1, <1>3, <2>1, CloseStep
<1>4. CASE UNCHANGED <<store, saving>>
  <2>1. \A c \in Side : StoreInv(c)'
    BY <1>1, <1>4, SameStore DEF CommonInv
  <2>2. TypeInv' /\ PhaseInv'
    BY <1>1, <1>4 DEF CommonInv, TypeInv, PhaseInv, dst, src
  <2> QED
    BY <2>1, <2>2 DEF CommonInv
<1> QED
  BY <1>1, <1>2, <1>3, <1>4 DEF Sync

\* The steps of sync().
LEMMA SavingKeeps ==
  ASSUME CommonInv, NEW b \in Side, Rename(b) \/ Open(b) \/ Write(b), ~excused', excused' \in BOOLEAN
  PROVE  CommonInv'
<1> USE DEF Side, mainVars
<1>0. saving[b] # "no"
  BY DEF Rename, Open, Write
<1>1. /\ b = "dest" /\ dst.open /\ kind["dest"] # "ME" /\ pc \in {"close", "library"}
      /\ op # "library" => dst.closing /\ dst.changed
      /\ saving["source"] = "no" /\ saving \in [Side -> Stages]
      /\ pc = "library" => op = "library" /\ ~dst.closing
  BY <1>0, SavingFacts
<1>2. <<>> \in FileType /\ \A s \in {"no", "open", "write", "lost"} : s \in Stages
  BY EmptySeq DEF FileType, Stages
<1>3. CASE Rename(b)
  <2>1. UNCHANGED <<op, args, kind, disk>>
    BY <1>3 DEF Rename, ghostVars
  <2>2. CASE saving' = [saving EXCEPT ![b] = "open"] /\ UNCHANGED <<store, pc, pos>>
    BY <1>0, <1>1, <1>2, <2>1, <2>2, SavingStep
  <2>3. CASE saving' = [saving EXCEPT ![b] = "no"] /\ Dies
    <3>1. saving' = [c \in Side |-> "no"]
      BY <1>1, <2>3
    <3> HIDE DEF Side, mainVars
    <3> QED
      BY <2>1, <2>3, <3>1, DeadKeeps DEF Dies, Goto
  <2>4. CASE saving' = [saving EXCEPT ![b] = "no"] /\ Caught /\ UNCHANGED store
    BY <1>0, <1>1, <1>2, <2>1, <2>4, SavingStep DEF Caught, Goto
  <2> QED
    BY <1>3, <2>2, <2>3, <2>4 DEF Rename
<1>4. CASE Open(b)
  <2>1. UNCHANGED <<op, args, kind, store, pc, pos>>
    BY <1>4 DEF Open
  <2>2. CASE saving' = [saving EXCEPT ![b] = "write"] /\ disk' = [disk EXCEPT ![b] = <<>>]
    BY <1>0, <1>1, <1>2, <2>1, <2>2, SavingStep
  <2>3. CASE saving' = [saving EXCEPT ![b] = "lost"] /\ disk' = disk
    BY <1>0, <1>1, <1>2, <2>1, <2>3, SavingStep
  <2> QED
    BY <1>4, <2>2, <2>3 DEF Open
<1>5. CASE Write(b)
  <2> DEFINE f == <<Version>> \o Messages(dst)
             t == IF dst.closing THEN Closed ELSE [dst EXCEPT !.changed = FALSE]
  <2>1. dst \in StoreType /\ IsMap(dst.order, dst.items) /\ store \in [Side -> StoreType]
    BY DEF CommonInv, TypeInv, StoreInv, dst
  <2>2. f \in FileType /\ Len(f) \in Nat /\ SubSeq(f, 1, Len(f)) = f
    BY <2>1, WrittenCount
  <2>3. UNCHANGED <<op, args, kind, pc, pos>> /\ saving' = [saving EXCEPT !["dest"] = "no"]
        /\ store' = [store EXCEPT !["dest"] = t] /\ (disk' = disk \/ disk' = [disk EXCEPT !["dest"] = f])
    <3>1. UNCHANGED <<op, args, kind, pc, pos>> /\ saving' = [saving EXCEPT !["dest"] = "no"]
      BY <1>1, <1>5 DEF Write
    <3>2. store' = [store EXCEPT !["dest"] = t]
      BY <1>1, <1>5 DEF Write, dst
    <3>3. disk' = disk \/ disk' = [disk EXCEPT !["dest"] = f]
      <4>1. PICK n : /\ disk' = IF saving[b] = "lost" THEN disk ELSE [disk EXCEPT ![b] = SubSeq(f, 1, n)]
                     /\ excused' = (excused \/ n # Len(f))
        BY <1>1, <1>5, Zenon DEF Write, dst
      <4>2. n = Len(f)
        BY <4>1
      <4> HIDE DEF f
      <4> QED
        BY <1>1, <2>2, <4>1, <4>2
    <3> QED
      BY <3>1, <3>2, <3>3
  <2>4. CASE dst.closing
    <3>1. store' = [store EXCEPT !["dest"] = Closed]
      BY <2>3, <2>4
    <3>2. disk' = disk \/ ("dest" = "dest" /\ kind["dest"] # "ME" /\ \E g \in FileType : disk' = [disk EXCEPT !["dest"] = g])
      BY <1>1, <2>2, <2>3
    <3>3. pc = "close" /\ UNCHANGED <<op, args, kind, pc, pos>> /\ saving' = [saving EXCEPT !["dest"] = "no"]
      BY <1>1, <2>3, <2>4
    <3> HIDE DEF f, t, mainVars
    <3> QED
      BY <3>1, <3>2, <3>3, CloseStep
  <2>5. CASE ~dst.closing
    <3>1. store' = [store EXCEPT !["dest"] = [dst EXCEPT !.changed = FALSE]]
      BY <2>3, <2>5
    <3> HIDE DEF f, t
    <3> QED
      BY <1>1, <2>2, <2>3, <2>5, <3>1, WrittenStep
  <2> QED
    BY <2>4, <2>5
<1> QED
  BY <1>3, <1>4, <1>5

\* The program ends when its stores are closed.
LEMMA EndKeeps ==
  ASSUME CommonInv, End, excused' \in BOOLEAN
  PROVE  CommonInv'
<1> USE DEF Side
<1>1. /\ pc' = "end" /\ pos' = 1 /\ UNCHANGED <<op, args, kind, store, disk, saving>>
      /\ \A c \in Side : ~store[c].open
  BY DEF End, Goto, fileVars
<1>2. \A c \in Side : saving[c] = "no"
  BY <1>1 DEF CommonInv, StoreInv, TypeInv, PhaseInv
<1>3. \A c \in Side : StoreInv(c)'
  <2> SUFFICES ASSUME NEW c \in Side PROVE StoreInv(c)'
    OBVIOUS
  <2>1. StoreInv(c)
    BY DEF CommonInv
  <2> QED
    BY <1>1, <1>2, <2>1 DEF StoreInv
<1>4. TypeInv'
  BY <1>1 DEF CommonInv, TypeInv, DiskType
<1>5. PhaseInv'
  BY <1>1 DEF CommonInv, PhaseInv, Operation, src, dst
<1> QED
  BY <1>3, <1>4, <1>5 DEF CommonInv

\* The program dies.
LEMMA KillKeeps ==
  ASSUME CommonInv, Kill, excused' \in BOOLEAN
  PROVE  CommonInv'
BY DeadKeeps DEF Kill, Dies, Goto

\* A run that is excused remains so.
LEMMA ExcusedStays ==
  ASSUME excused \in BOOLEAN, [Next]_vars
  PROVE  excused' \in BOOLEAN /\ (excused => excused')
<1> USE DEF mainVars, fileVars, ghostVars, Fails
<1>1. ASSUME NEW b \in Side, OpenFile(b) \/ LoadSlot(b) \/ Rename(b) \/ Open(b)
                             \/ \E closing \in BOOLEAN : Sync(b, closing)
      PROVE  excused' = excused
  BY <1>1 DEF OpenFile, LoadSlot, Rename, Open, Sync
<1>2. ASSUME NEW b \in Side, Arrive(b) \/ WriteFails(b) \/ Write(b)
      PROVE  excused' \in BOOLEAN /\ (excused => excused')
  BY <1>2 DEF Arrive, WriteFails, Write
<1>3. ASSUME NEW m, Inserts(m) PROVE excused' \in BOOLEAN /\ (excused => excused')
  BY <1>3 DEF Inserts, InsertsElsewhere
<1>4. ASSUME NEW S, NEW T, NEW then, Erases(S, T, then) PROVE excused' \in BOOLEAN /\ (excused => excused')
  BY <1>4 DEF Erases
<1>5. CASE Backup
  BY <1>3, <1>5 DEF Backup
<1>6. CASE Clear
  <2>1. CASE Erases({1}, {1}, Stay)
    BY <2>1 DEF Erases
  <2> QED
    BY <1>6, <2>1 DEF Clear
<1>7. CASE Copy
  BY <1>3, <1>7 DEF Copy
<1>8. CASE Add
  BY <1>3, <1>8 DEF Add
<1>9. CASE Delete
  BY <1>9 DEF Delete, Erases
<1>10. CASE Library
  BY <1>10 DEF Library, Erases
<1>11. CASE ClearEnds \/ End \/ Kill \/ UNCHANGED vars
  BY <1>11 DEF ClearEnds, End, Kill, vars
<1> QED
  BY <1>1, <1>2, <1>5, <1>6, <1>7, <1>8, <1>9, <1>10, <1>11 DEF Next

\* A step that changes nothing.
LEMMA StutterKeeps ==
  ASSUME CommonInv, UNCHANGED vars
  PROVE  CommonInv'
<1> USE DEF vars, mainVars, fileVars, ghostVars
<1>1. \A c \in Side : StoreInv(c)'
  <2> SUFFICES ASSUME NEW c \in Side PROVE StoreInv(c)'
    OBVIOUS
  <2>1. StoreInv(c)
    BY DEF CommonInv, Side
  <2> QED
    BY <2>1, SameStore
<1>2. TypeInv' /\ PhaseInv'
  BY DEF CommonInv, TypeInv, PhaseInv, dst, src
<1> QED
  BY <1>1, <1>2 DEF CommonInv, Side

\* Every step after which the run is not excused.
LEMMA CommonNext ==
  ASSUME CommonInv, [Next]_vars, excused' \in BOOLEAN, ~excused'
  PROVE  CommonInv'
<1>1. ASSUME NEW b \in Side, OpenFile(b) PROVE CommonInv'
  BY <1>1, OpenFileKeeps
<1>2. ASSUME NEW b \in Side, LoadSlot(b) PROVE CommonInv'
  BY <1>2, LoadSlotKeeps
<1>3. ASSUME NEW b \in Side, Arrive(b) PROVE CommonInv'
  BY <1>3, ArriveKeeps
<1>4. ASSUME NEW b \in Side, NEW closing \in BOOLEAN, Sync(b, closing) PROVE CommonInv'
  BY <1>4, SyncKeeps
<1>5. ASSUME NEW b \in Side, Rename(b) \/ Open(b) \/ WriteFails(b) \/ Write(b) PROVE CommonInv'
  BY <1>5, SavingKeeps DEF WriteFails
<1>6. CASE Backup \/ Clear \/ ClearEnds \/ Copy \/ Add \/ Delete \/ Library
  BY <1>6, CallsKeep
<1>7. CASE End
  BY <1>7, EndKeeps
<1>8. CASE Kill
  BY <1>8, KillKeeps
<1>9. CASE UNCHANGED vars
  BY <1>9, StutterKeeps
<1> QED
  BY <1>1, <1>2, <1>3, <1>4, <1>5, <1>6, <1>7, <1>8, <1>9 DEF Next

\* What files and mobiles have at first.
LEMMA InitialDisks ==
  ASSUME NEW k \in {"file", "stdin", "stdout", "ME"}, NEW f \in InitialDisk(k)
  PROVE  f \in DiskType(k) /\ (k = "stdout" => f = <<>>)
<1>1. CASE k = "ME"
  BY <1>1 DEF InitialDisk, DiskType, SlotsType
<1>2. CASE k # "ME"
  <2>1. <<>> \in FileType
    BY DEF FileType
  <2>2. ASSUME NEW c \in Contents PROVE <<Version>> \o c \in FileType
    <3>1. c \in Seq(Message) /\ <<Version>> \in Seq(Message \cup {Version})
      BY SortedSMSStoreAssumption
    <3>2. /\ <<Version>> \o c \in Seq(Message \cup {Version}) /\ Len(<<Version>> \o c) = 1 + Len(c)
          /\ (<<Version>> \o c)[1] = Version
          /\ \A i \in 2..(1 + Len(c)) : (<<Version>> \o c)[i] = c[i - 1]
      BY <3>1
    <3>3. \A i \in 2..(1 + Len(c)) : (<<Version>> \o c)[i] \in Message
      <4> SUFFICES ASSUME NEW i \in 2..(1 + Len(c)) PROVE (<<Version>> \o c)[i] \in Message
        OBVIOUS
      <4>1. i - 1 \in 1..Len(c) /\ Len(c) \in Nat
        BY <3>1
      <4> QED
        BY <3>1, <3>2, <4>1
    <3> DEFINE g == <<Version>> \o c
    <3>4. g \in Seq(Message \cup {Version}) /\ Len(g) = 1 + Len(c) /\ g[1] = Version
          /\ \A i \in 2..(1 + Len(c)) : g[i] \in Message
      BY <3>2, <3>3
    <3> HIDE DEF g
    <3>5. g \in FileType
      BY <3>4 DEF FileType
    <3> QED
      BY <3>5 DEF g
  <2> QED
    BY <1>2, <2>1, <2>2 DEF InitialDisk, DiskType
<1> QED
  BY <1>1, <1>2

\* The invariant holds at first: no store is open.
LEMMA CommonInit == Init => CommonInv
<1> SUFFICES ASSUME Init PROVE CommonInv
  OBVIOUS
<1>1. /\ kind \in [Side -> {"file", "stdin", "stdout", "ME"}]
      /\ kind["source"] # "stdout" /\ kind["dest"] # "stdin"
  BY SortedSMSStoreAssumption DEF Init, Side
<1>2. \A b \in Side : disk[b] \in InitialDisk(kind[b])
  BY DEF Init
<1>3. \A b \in Side : disk[b] \in DiskType(kind[b]) /\ (kind[b] = "stdout" => disk[b] = <<>>)
  BY <1>1, <1>2, InitialDisks
<1>4. disk \in [Side -> FileType \cup SlotsType]
  <2>1. disk = [b \in Side |-> disk[b]]
    BY DEF Init
  <2> QED
    BY <1>3, <2>1 DEF DiskType
<1>5. /\ \A b \in Side : store[b] = Closed /\ saving[b] = "no"
      /\ store \in [Side -> StoreType] /\ saving \in [Side -> Stages]
  BY ClosedFacts DEF Init, Stages
<1>6. /\ pos = 1 /\ pc = (IF Reads(op) THEN "source" ELSE "dest") /\ op \in Operation
      /\ args \in Seq(Nat) /\ excused = FALSE
  BY SortedSMSStoreAssumption DEF Init
<1>7. TypeInv
  <2>1. pos \in Nat \ {0} /\ excused \in BOOLEAN
    <3>1. pos = 1 /\ excused = FALSE
      BY <1>6
    <3>2. FALSE \in BOOLEAN /\ 1 \in Nat \ {0}
      OBVIOUS
    <3> QED
      BY <3>1, <3>2, Zenon
  <2> QED
    BY <1>1, <1>3, <1>4, <1>5, <1>6, <2>1, Zenon DEF TypeInv
<1>8. \A b \in Side : StoreInv(b)
  <2> SUFFICES ASSUME NEW b \in Side PROVE StoreInv(b)
    OBVIOUS
  <2>1. kind[b] = "ME" => {e \in SlotEntries(disk[b]) : e.index < pos - 1} = {}
    <3> SUFFICES ASSUME kind[b] = "ME", NEW e \in SlotEntries(disk[b]), e.index < pos - 1 PROVE FALSE
      BY Zenon
    <3>1. e.index \in Nat
      BY <1>3, SlotIndices DEF DiskType
    <3> QED
      BY <1>6, <3>1
  <2> QED
    BY <1>5, <1>6, <2>1, ClosedFacts DEF StoreInv
<1>9. PhaseInv
  <2>1. src = Closed /\ dst = Closed
    BY <1>5 DEF src, dst, Side
  <2> QED
    BY <1>3, <1>5, <1>6, <2>1, ClosedFacts DEF PhaseInv, Operation, Side, Reads
<1> QED
  BY <1>7, <1>8, <1>9 DEF CommonInv, Side

-----------------------------------------------------------------------------
(* What a backup and a deletion have done so far.                          *)

List     == Entries(InOrder(src))
Taken(n) == {InOrder(src).items[k].e.message :
               k \in UNION {List[j] : j \in {i \in DOMAIN List : i < n}}}
Erased(n) == {args[j] : j \in {i \in DOMAIN args : i < n}}

\* How often the destination has the message m after the messages M were backed
\* up, and after the entries with the indices I were erased.
Backed(M, m) == IF Count(had, m) = 0 /\ m \in M THEN 1 ELSE Count(had, m)
Left(I, m)   == LET f == ByIndex("dest", had)
                IN Cardinality({i \in DOMAIN f \ I : f[i] = m})
Meant        == LET f == Chosen(ByIndex("source", disk["source"]))
                IN {m \in Message : Count(f, m) # 0}
Wanted(m)    == IF op = "backup" THEN Backed(Meant, m) ELSE Left(Given, m)

BackupInv == pc = "backup" =>
  /\ dst.order = "ByDate"
  /\ \A m \in Message : Number(Held(dst.items), m) = Backed(Taken(pos), m)
DeleteInv == pc = "delete" =>
  Held(dst.items) = {e \in Stored("dest", had) : e.index \notin Erased(pos)}
EndInv == pc \in {"close", "end"} /\ outcome = "ok" /\ op \in {"backup", "delete"} =>
  \A m \in Message :
    IF dst.open THEN Number(Held(dst.items), m) = Wanted(m)
    ELSE Count(disk["dest"], m) = Wanted(m)
ExactInv == BackupInv /\ DeleteInv /\ EndInv

-----------------------------------------------------------------------------
\* The entries of messages by their indices, and those outside of I.
EntriesOf(f)    == {[index |-> i, message |-> f[i]] : i \in DOMAIN f}
Outside(I, f)   == {e \in EntriesOf(f) : e.index \notin I}

\* The entries of a file or a mobile are what ByIndex says.
LEMMA StoredEntries ==
  ASSUME NEW b \in Side, NEW f
  PROVE  Stored(b, f) = EntriesOf(ByIndex(b, f))
BY DEF Stored, ByIndex, SlotEntries, FileEntries, EntriesOf

\* The entries of a set that are not erased, counted by their indices.
LEMMA LeftCount ==
  ASSUME NEW I, NEW f, IsFiniteSet(Outside(I, f)), NEW m
  PROVE  Number(Outside(I, f), m) = Cardinality({i \in DOMAIN f \ I : f[i] = m})
<1> USE DEF Outside, EntriesOf
<1> DEFINE H == Outside(I, f)
           D == Having(H, m)
           g == [e \in D |-> e.index]
           T == {i \in DOMAIN f \ I : f[i] = m}
<1>1. IsFiniteSet(D)
  BY FS_Subset DEF Having
<1>2. \A e \in D : e \in H /\ e.message = m
  BY DEF Having
<1>3. \A e \in H : /\ e = [index |-> e.index, message |-> f[e.index]]
                   /\ e.index \in DOMAIN f \ I /\ e.message = f[e.index]
  OBVIOUS
<1>4. \A x, y \in D : g[x] = g[y] => x = y
  BY <1>2, <1>3
<1>5. T = {g[x] : x \in D}
  <2>1. ASSUME NEW x \in D PROVE g[x] \in T
    BY <1>2, <1>3
  <2>2. ASSUME NEW i \in T PROVE \E x \in D : g[x] = i
    <3>1. [index |-> i, message |-> f[i]] \in H
      OBVIOUS
    <3>2. [index |-> i, message |-> f[i]] \in D /\ f[i] = m
      BY <3>1 DEF Having
    <3> QED
      BY <3>2
  <2> HIDE DEF T, g
  <2> QED
    BY <2>1, <2>2
<1>6. DOMAIN g = D /\ g = [x \in D |-> g[x]]
  OBVIOUS
<1> HIDE DEF D, g, T
<1>7. IsFiniteSet(T) /\ Cardinality(T) = Cardinality(D)
  BY <1>1, <1>4, <1>5, <1>6, SameSize
<1> QED
  BY <1>7 DEF T, D, Number

\* No two entries of a map have the same index.
LEMMA FoundOnce ==
  ASSUME NEW order, NEW s, IsMap(order, s.items), NEW i, NEW k \in Find(s, i)
  PROVE  Find(s, i) = {k}
BY DEF IsMap, Distinct, Find

\* A backup takes one entry after the other.
LEMMA TakenOne ==
  ASSUME CommonInv, pos \in DOMAIN List, NEW k \in List[pos]
  PROVE  Taken(pos + 1) = Taken(pos) \cup {InOrder(src).items[k].e.message}
<1> DEFINE m(x) == InOrder(src).items[x].e.message
<1>1. DOMAIN List = 1..Len(List) /\ Len(List) \in Nat /\ pos \in Nat
  BY ListFacts DEF List, CommonInv, TypeInv
<1>2. List[pos] = {k}
  <2>1. CASE args = <<>>
    BY <2>1, ListFacts DEF List
  <2>2. CASE args # <<>>
    <3>1. List[pos] = Find(InOrder(src), args[pos])
      BY <2>2, ListFacts DEF List
    <3>2. IsMap(InOrder(src).order, InOrder(src).items)
      BY SourceFacts
    <3>3. k \in Find(InOrder(src), args[pos])
      BY <3>1
    <3>4. Find(InOrder(src), args[pos]) = {k}
      BY <3>2, <3>3, FoundOnce
    <3> QED
      BY <3>1, <3>4
  <2> QED
    BY <2>1, <2>2
<1>3. {i \in DOMAIN List : i < pos + 1} = {i \in DOMAIN List : i < pos} \cup {pos}
  BY <1>1
<1>4. UNION {List[j] : j \in {i \in DOMAIN List : i < pos + 1}}
        = (UNION {List[j] : j \in {i \in DOMAIN List : i < pos}}) \cup {k}
  BY <1>2, <1>3
<1> DEFINE U(n) == UNION {List[j] : j \in {i \in DOMAIN List : i < n}}
<1>5. U(pos + 1) = U(pos) \cup {k}
  BY <1>4
<1>6. Taken(pos + 1) = {m(x) : x \in U(pos + 1)} /\ Taken(pos) = {m(x) : x \in U(pos)}
  BY Zenon DEF Taken
<1> HIDE DEF U, m
<1>7. Taken(pos + 1) = Taken(pos) \cup {m(k)}
  BY <1>5, <1>6
<1> QED
  BY <1>7 DEF m

\* In the end it has taken what is meant.
LEMMA TakenAll ==
  ASSUME CommonInv, pos > Len(List)
  PROVE  Taken(pos) = {e.message : e \in {x \in Held(src.items) : args = <<>> \/ x.index \in Given}}
<1> DEFINE s == InOrder(src)
<1>1. DOMAIN List = 1..Len(List) /\ Len(List) \in Nat /\ pos \in Nat
  BY ListFacts DEF List, CommonInv, TypeInv
<1>2. {i \in DOMAIN List : i < pos} = DOMAIN List
  BY <1>1
<1>3. Taken(pos) = {s.items[k].e.message : k \in UNION {List[j] : j \in DOMAIN List}}
  BY <1>2 DEF Taken
<1>4. Held(src.items) = {s.items[k].e : k \in DOMAIN s.items}
  BY SourceFacts DEF Held
<1>5. CASE args = <<>>
  <2>1. UNION {List[j] : j \in DOMAIN List} = DOMAIN s.items
    <3>1. DOMAIN List = DOMAIN s.items /\ \A n \in DOMAIN List : List[n] = {n}
      BY <1>5, ListFacts DEF List
    <3> HIDE DEF s
    <3> QED
      BY <3>1
  <2> HIDE DEF s
  <2> QED
    BY <1>3, <1>4, <1>5, <2>1
<1>6. CASE args # <<>>
  <2>1. UNION {List[j] : j \in DOMAIN List} = {k \in DOMAIN s.items : s.items[k].e.index \in Given}
    <3>1. DOMAIN List = DOMAIN args /\ \A n \in DOMAIN List : List[n] = Find(s, args[n])
      BY <1>6, ListFacts DEF List
    <3> HIDE DEF s
    <3> QED
      BY <3>1 DEF Find, Given
  <2> HIDE DEF s
  <2> QED
    BY <1>3, <1>4, <1>6, <2>1
<1> QED
  BY <1>5, <1>6

\* That is, the messages of the source's file or mobile with those indices.
LEMMA MeantFacts ==
  ASSUME NEW f, IsFiniteSet(Stored("source", f)), NEW m
  PROVE  Count(Chosen(ByIndex("source", f)), m) # 0 <=>
           \E e \in Stored("source", f) : e.message = m /\ (args = <<>> \/ e.index \in Given)
<1> DEFINE g == ByIndex("source", f)
           I == IF args = <<>> THEN {} ELSE {i \in DOMAIN g : i \notin Given}
           H == Outside(I, g)
<1>1. Stored("source", f) = EntriesOf(g)
  BY StoredEntries DEF Side
<1>2. IsFiniteSet(H)
  BY <1>1, FS_Subset DEF Outside
<1>3. \A e \in EntriesOf(g) : e.index \in DOMAIN g /\ e.message = g[e.index]
  BY DEF EntriesOf
<1>4. \A e \in EntriesOf(g) : e \in H <=> (args = <<>> \/ e.index \in Given)
  BY <1>3 DEF Outside
<1> HIDE DEF g, I
<1>5. Number(H, m) = Cardinality({i \in DOMAIN g \ I : g[i] = m})
  BY <1>2, LeftCount
<1>6. {i \in DOMAIN Chosen(g) : Chosen(g)[i] = m} = {i \in DOMAIN g \ I : g[i] = m}
  BY DEF Chosen, I
<1>7. Number(H, m) # 0 <=> \E e \in H : e.message = m
  BY <1>2, NumberZero
<1>8. H \subseteq EntriesOf(g)
  BY DEF Outside
<1>9. Count(Chosen(g), m) # 0 <=> \E e \in H : e.message = m
  BY <1>5, <1>6, <1>7 DEF Count
<1> HIDE DEF H
<1>10. Count(Chosen(g), m) # 0 <=>
         \E e \in EntriesOf(g) : e.message = m /\ (args = <<>> \/ e.index \in Given)
  BY <1>4, <1>8, <1>9
<1> QED
  BY <1>1, <1>10 DEF g

\* What only depends on the source, the arguments and what the destination had.
LEMMA SameWork ==
  ASSUME UNCHANGED <<src, op, args>>, NEW n
  PROVE  Taken(n)' = Taken(n) /\ Erased(n)' = Erased(n) /\ List' = List
BY DEF Taken, Erased, List, InOrder, Entries

\* What is wanted depends on the source's file, the arguments and what the destination had.
LEMMA SameWanted ==
  ASSUME UNCHANGED <<op, args, kind, had>>, disk'["source"] = disk["source"], NEW m
  PROVE  Wanted(m)' = Wanted(m) /\ \A M : Backed(M, m)' = Backed(M, m)
<1>1. Given' = Given /\ ByIndex("source", disk["source"])' = ByIndex("source", disk["source"])
      /\ ByIndex("dest", had)' = ByIndex("dest", had)
  BY DEF Given, ByIndex
<1>2. Left(Given, m)' = Left(Given, m)
  BY <1>1 DEF Left
<1>3. Chosen(ByIndex("source", disk["source"]))' = Chosen(ByIndex("source", disk["source"]))
  BY <1>1 DEF Chosen
<1>4. Meant' = Meant
  BY <1>3 DEF Meant
<1>5. \A M : Backed(M, m)' = Backed(M, m)
  BY DEF Backed
<1> QED
  BY <1>2, <1>4, <1>5 DEF Wanted, Backed

\* Nothing is promised here of the other operations.
LEMMA OtherOperation ==
  ASSUME CommonInv', op' \notin {"backup", "delete"}
  PROVE  ExactInv'
BY DEF CommonInv, PhaseInv, Operation, ExactInv, BackupInv, DeleteInv, EndInv

\* Nothing is promised once an exception was thrown or the program died.
LEMMA AfterError ==
  ASSUME pc' \in {"close", "end"}, outcome' # "ok"
  PROVE  ExactInv'
BY DEF ExactInv, BackupInv, DeleteInv, EndInv

\* The first step of a backup or a deletion comes after the destination is opened.
LEMMA OpenedDest ==
  ASSUME CommonInv, CommonInv', NEW b \in Side, OpenFile(b) \/ LoadSlot(b),
         pc' \in {"backup", "delete"}
  PROVE  /\ pos' = 1 /\ had' = disk["dest"] /\ UNCHANGED <<op, args, kind, disk, src>>
         /\ dst'.order = "ByDate" /\ Held(dst'.items) = Stored("dest", disk["dest"])
<1>1. /\ pc = b /\ UNCHANGED <<op, args, kind, disk>>
      /\ \E s : /\ Construct(b, s)
                /\ \/ /\ kind[b] # "ME"
                      /\ s = IF kind[b] = "stdout" THEN Fresh ELSE FromFile(disk[b])
                   \/ s = [store[b] EXCEPT !.open = TRUE]
  <2>1. CASE OpenFile(b)
    BY <2>1 DEF OpenFile, Caught, Goto
  <2>2. CASE LoadSlot(b)
    BY <2>2 DEF LoadSlot, Caught, Goto, Advance, Side
  <2> QED
    BY <2>1, <2>2
<1>2. PICK s : /\ Construct(b, s)
               /\ \/ /\ kind[b] # "ME"
                     /\ s = IF kind[b] = "stdout" THEN Fresh ELSE FromFile(disk[b])
                  \/ s = [store[b] EXCEPT !.open = TRUE]
  BY <1>1
<1>3. b = "dest" /\ pc' = op /\ pos' = 1 /\ had' = disk["dest"]
  BY <1>2 DEF Construct, Opened, Goto, Side
<1>4. s.order = "ByDate" /\ ~s.changed
  <2>1. CASE kind[b] # "ME" /\ s = IF kind[b] = "stdout" THEN Fresh ELSE FromFile(disk[b])
    <3>1. disk[b] \in FileType
      BY <2>1 DEF CommonInv, TypeInv, DiskType
    <3> QED
      BY <2>1, <3>1, ClosedFacts, FromFileFacts
  <2>2. CASE s = [store[b] EXCEPT !.open = TRUE]
    BY <1>1, <2>2, OpeningFacts DEF StoreType
  <2> QED
    BY <1>2, <2>1, <2>2
<1>5. dst' = s /\ src' = src
  BY <1>2, <1>3 DEF Construct, CommonInv, TypeInv, Side, dst, src
<1>6. Held(dst'.items) = Stored("dest", disk["dest"])'
  <2>1. /\ StoreInv("dest")' /\ dst'.open /\ op' # "library" /\ pc' # "dest"
    BY <1>1, <1>3 DEF CommonInv, PhaseInv, Operation
  <2>2. ~dst'.changed
    BY <1>4, <1>5
  <2> QED
    BY <2>1, <2>2 DEF StoreInv, dst
<1> QED
  BY <1>1, <1>3, <1>4, <1>5, <1>6 DEF Stored

\* A file and a mobile have a message as often as their entries do.
LEMMA StoredCount ==
  ASSUME NEW k \in [Side -> {"file", "stdin", "stdout", "ME"}], kind = k,
         NEW b \in Side, NEW f \in DiskType(kind[b]), NEW m \in Message
  PROVE  IsFiniteSet(Stored(b, f)) /\ Count(f, m) = Number(Stored(b, f), m)
BY FileCount, SlotCount DEF Stored, DiskType

\* A store is opened (the constructors of SortedSMSStore, gsm_sorted_sms_store.cc:71).
LEMMA OpensExact ==
  ASSUME CommonInv, CommonInv', NEW b \in Side, OpenFile(b) \/ LoadSlot(b)
  PROVE  ExactInv'
<1>1. ASSUME pc' \in {"backup", "delete"} PROVE BackupInv' /\ DeleteInv'
  <2>1. /\ pos' = 1 /\ had' = disk["dest"] /\ UNCHANGED <<op, args, kind, disk, src>>
        /\ dst'.order = "ByDate" /\ Held(dst'.items) = Stored("dest", disk["dest"])
    BY <1>1, OpenedDest
  <2>2. Stored("dest", had)' = Stored("dest", disk["dest"])
    BY <2>1 DEF Stored
  <2>3. Taken(pos)' = {} /\ Erased(pos)' = {}
    <3>1. DOMAIN List = 1..Len(List) /\ Len(List) \in Nat
      BY ListFacts DEF List
    <3>2. {i \in DOMAIN List : i < 1} = {}
      BY <3>1
    <3>3. {i \in DOMAIN args : i < 1} = {}
      BY LenProperties DEF CommonInv, TypeInv
    <3>4. Taken(1) = {} /\ Erased(1) = {}
      BY <3>2, <3>3 DEF Taken, Erased
    <3>5. Taken(1)' = {} /\ Erased(1)' = {}
      BY <2>1, <3>4, SameWork
    <3> QED
      BY <2>1, <3>5 DEF Taken, Erased
  <2>4. \A m \in Message : Number(Stored("dest", disk["dest"]), m) = Count(disk["dest"], m)
    BY StoredCount DEF CommonInv, TypeInv, Side
  <2>5. \A m \in Message : Backed({}, m)' = Count(disk["dest"], m)
    BY <2>1 DEF Backed
  <2>6. BackupInv'
    BY <2>1, <2>3, <2>4, <2>5 DEF BackupInv
  <2>7. DeleteInv'
    BY <2>1, <2>2, <2>3 DEF DeleteInv
  <2> QED
    BY <2>6, <2>7
<1>2. ASSUME pc' \notin {"backup", "delete"} PROVE BackupInv' /\ DeleteInv'
  BY <1>2 DEF BackupInv, DeleteInv
<1>3. EndInv'
  <2>1. pc' \in {"close", "end"} /\ outcome' = "ok" => op' = "list"
    <3>0. op \in Operation /\ op # "close" /\ op # "end"
      BY DEF CommonInv, TypeInv, Operation
    <3>1. CASE OpenFile(b)
      BY <3>0, <3>1 DEF OpenFile, Construct, Opened, Caught, Goto, Side
    <3>2. CASE LoadSlot(b)
      BY <3>0, <3>2 DEF LoadSlot, Construct, Opened, Caught, Goto, Advance, Side
    <3> QED
      BY <3>1, <3>2
  <2> QED
    BY <2>1 DEF EndInv
<1> QED
  BY <1>1, <1>2, <1>3 DEF ExactInv

\* A backup whose loop is done has added what was missing.
LEMMA BackedUp ==
  ASSUME CommonInv, BackupInv, pc = "backup", pos > Len(List)
  PROVE  \A m \in Message : Number(Held(dst.items), m) = Wanted(m)
<1>1. op = "backup" /\ src.open /\ ~src.changed
  BY DEF CommonInv, PhaseInv, Operation
<1>2. Held(src.items) = Stored("source", disk["source"])
  BY <1>1 DEF CommonInv, StoreInv, src
<1>3. IsFiniteSet(Held(src.items))
  BY SourceFacts, SizeOfMap DEF IsMap
<1>4. \A m \in Message : m \in Taken(pos) <=> m \in Meant
  <2> SUFFICES ASSUME NEW m \in Message PROVE m \in Taken(pos) <=> m \in Meant
    OBVIOUS
  <2>1. m \in Meant <=> \E e \in Held(src.items) : e.message = m /\ (args = <<>> \/ e.index \in Given)
    BY <1>2, <1>3, MeantFacts DEF Meant
  <2>2. m \in Taken(pos) <=> \E e \in Held(src.items) : e.message = m /\ (args = <<>> \/ e.index \in Given)
    BY TakenAll
  <2> QED
    BY <2>1, <2>2
<1>5. \A m \in Message : Backed(Taken(pos), m) = Backed(Meant, m)
  BY <1>4 DEF Backed
<1> QED
  BY <1>1, <1>5 DEF BackupInv, Wanted

\* A deletion whose loop is done has erased what was given.
LEMMA DeletedAll ==
  ASSUME CommonInv, DeleteInv, pc = "delete", pos > Len(args)
  PROVE  \A m \in Message : Number(Held(dst.items), m) = Wanted(m)
<1> DEFINE f == ByIndex("dest", had)
<1>1. op = "delete" /\ "dest" \in Side
  BY DEF CommonInv, PhaseInv, Operation, Side
<1>2. Erased(pos) = Given
  <2>1. DOMAIN args = 1..Len(args) /\ Len(args) \in Nat /\ pos \in Nat
    BY LenProperties DEF CommonInv, TypeInv
  <2>2. {i \in DOMAIN args : i < pos} = DOMAIN args
    BY <2>1
  <2> QED
    BY <2>2 DEF Erased, Given
<1>3. Held(dst.items) = Outside(Given, f)
  BY <1>1, <1>2, StoredEntries DEF DeleteInv, Outside
<1>4. IsFiniteSet(Held(dst.items))
  BY <1>1, SizeOfMap DEF CommonInv, StoreInv, IsMap, dst
<1> HIDE DEF f
<1>5. \A m \in Message : Number(Held(dst.items), m) = Cardinality({i \in DOMAIN f \ Given : f[i] = m})
  BY <1>3, <1>4, LeftCount
<1> QED
  BY <1>1, <1>5 DEF Wanted, Left, f

\* The step that ends the loop.
LEMMA LoopEnds ==
  ASSUME CommonInv, pc' = "close", UNCHANGED <<store, disk, op, args, kind, had>>, dst.open,
         \A m \in Message : Number(Held(dst.items), m) = Wanted(m)
  PROVE  ExactInv'
<1>1. BackupInv' /\ DeleteInv'
  BY DEF BackupInv, DeleteInv
<1>2. dst' = dst
  BY DEF dst
<1>3. \A m \in Message : Wanted(m)' = Wanted(m)
  BY SameWanted
<1>4. EndInv'
  BY <1>2, <1>3 DEF EndInv
<1> QED
  BY <1>1, <1>4 DEF ExactInv

\* An entry of the destination that equals the message.
LEMMA BackedUpFacts ==
  ASSUME CommonInv, Working, dst.order = "ByDate", NEW m \in Message
  PROVE  /\ IsBackedUp(m) <=> \E e \in Held(dst.items) : e.message = m
         /\ IsFiniteSet(Held(dst.items))
<1>1. IsMap("ByDate", dst.items) /\ IsFiniteSet(Held(dst.items))
  BY DestFacts, SizeOfMap DEF IsMap
<1>2. KeyOf("ByDate", [message |-> m]) = <<Date[m], Date[m]>>
  BY DEF KeyOf
<1>3. \A k \in DOMAIN dst.items : dst.items[k].key = <<Date[dst.items[k].e.message], Date[dst.items[k].e.message]>>
  BY <1>1 DEF IsMap, Keyed, KeyOf
<1>4. \A k \in DOMAIN dst.items : dst.items[k].e.message = m =>
        k \in EqualRange(dst.items, KeyOf("ByDate", [message |-> m]))
  BY <1>2, <1>3 DEF EqualRange
<1>5. EqualRange(dst.items, KeyOf("ByDate", [message |-> m])) \subseteq DOMAIN dst.items
  BY DEF EqualRange
<1>6. IsBackedUp(m) <=> \E k \in DOMAIN dst.items : dst.items[k].e.message = m
  BY <1>4, <1>5 DEF IsBackedUp
<1> QED
  BY <1>1, <1>6 DEF Held

\* A step of backup() of gsmsmsstore: a message is added, or is there already.
LEMMA BackupKeepsExact ==
  ASSUME CommonInv, CommonInv', ExactInv, Backup, ~excused', excused' \in BOOLEAN
  PROVE  ExactInv'
<1>1. /\ pc = "backup" /\ UNCHANGED <<op, args, kind, saving, had>> /\ BackupInv
      /\ dst.order = "ByDate" /\ \A m \in Message : Number(Held(dst.items), m) = Backed(Taken(pos), m)
  BY DEF Backup, fileVars, ExactInv, BackupInv
<1>2. Working /\ op = "backup"
  BY <1>1, WorkingFacts DEF CommonInv, PhaseInv, Operation
<1>3. /\ dst.open /\ pos \in Nat \ {0} /\ DOMAIN List = 1..Len(List) /\ Len(List) \in Nat
      /\ List[pos] \subseteq DOMAIN InOrder(src).items \/ pos \notin DOMAIN List
  BY <1>2, DestFacts, ListFacts DEF List, CommonInv, TypeInv
<1> DEFINE msg(k) == InOrder(src).items[k].e.message
\* a step that takes the message of k
<1>4. ASSUME NEW k \in List[pos], pos <= Len(List), pc' = pc, pos' = pos + 1, src' = src,
             disk'["source"] = disk["source"], dst'.order = dst.order,
             \A m \in Message : Number(Held(dst'.items), m) =
               IF m = msg(k) /\ ~IsBackedUp(msg(k)) THEN Number(Held(dst.items), m) + 1
               ELSE Number(Held(dst.items), m)
      PROVE  ExactInv'
  <2>1. pos \in DOMAIN List /\ msg(k) \in Message
    BY <1>3, <1>4, SourceFacts
  <2>2. Taken(pos)' = Taken(pos) \cup {msg(k)}
    <3>1. Taken(pos + 1) = Taken(pos) \cup {msg(k)}
      BY <2>1, TakenOne
    <3>2. PICK n : n = pos + 1
      OBVIOUS
    <3>3. Taken(n)' = Taken(n)
      BY <1>1, <1>4, SameWork
    <3>4. Taken(pos)' = Taken(n)'
      BY <1>4, <3>2 DEF Taken
    <3> QED
      BY <3>1, <3>2, <3>3, <3>4
  <2>3. \A M : \A m : Backed(M, m)' = Backed(M, m)
    BY <1>1 DEF Backed
  <2>4. ASSUME NEW m \in Message
        PROVE  Number(Held(dst'.items), m) = Backed(Taken(pos) \cup {msg(k)}, m)
    <3>1. /\ IsBackedUp(msg(k)) <=> \E e \in Held(dst.items) : e.message = msg(k)
          /\ IsFiniteSet(Held(dst.items))
      BY <1>1, <1>2, <2>1, BackedUpFacts
    <3>2. Number(Held(dst.items), m) = Backed(Taken(pos), m)
      BY <1>1
    <3>3. CASE m # msg(k)
      BY <1>4, <3>2, <3>3 DEF Backed
    <3>4. CASE m = msg(k)
      <4>1. IsBackedUp(m) <=> Number(Held(dst.items), m) # 0
        BY <3>1, <3>4, NumberZero
      <4> HIDE DEF msg
      <4> QED
        BY <1>4, <3>2, <3>4, <4>1 DEF Backed
    <3> QED
      BY <3>3, <3>4
  <2>5. BackupInv'
    BY <1>1, <1>4, <2>2, <2>3, <2>4 DEF BackupInv
  <2> QED
    BY <1>1, <1>4, <2>5 DEF ExactInv, DeleteInv, EndInv
<1>5. CASE pos > Len(List) /\ Goto("close") /\ UNCHANGED <<store, disk>>
  <2>1. \A m \in Message : Number(Held(dst.items), m) = Wanted(m)
    BY <1>1, <1>5, BackedUp
  <2> QED
    BY <1>1, <1>3, <1>5, <2>1, LoopEnds DEF Goto
<1>6. CASE Fails
  BY <1>6, AfterError DEF Fails, Caught, Goto
<1>7. ASSUME pos <= Len(List), NEW k \in List[pos],
             IF IsBackedUp(msg(k)) THEN Advance /\ UNCHANGED <<store, disk, outcome, excused>>
             ELSE Inserts(msg(k))
      PROVE  ExactInv'
  <2>1. msg(k) \in Message
    BY <1>3, <1>7, SourceFacts
  <2>2. CASE IsBackedUp(msg(k))
    <3>1. /\ pc' = pc /\ pos' = pos + 1 /\ src' = src /\ dst' = dst /\ disk' = disk
      BY <1>7, <2>2 DEF Advance, src, dst
    <3> QED
      BY <1>4, <1>7, <2>2, <3>1
  <2>3. CASE ~IsBackedUp(msg(k))
    <3>1. Refused \/ OneMore(msg(k))
      BY <1>1, <1>2, <1>7, <2>1, <2>3, InsertsKeeps
    <3>2. CASE Refused
      BY <3>2, AfterError DEF Refused
    <3>3. CASE OneMore(msg(k))
      <4>1. /\ pc' = pc /\ pos' = pos + 1 /\ src' = src /\ dst'.order = dst.order
            /\ disk'["source"] = disk["source"]
        BY <3>3 DEF OneMore
      <4>2. PICK i \in Nat : /\ \A x \in Held(dst.items) : x.index # i
                             /\ Held(dst'.items) = Held(dst.items) \cup {[index |-> i, message |-> msg(k)]}
        BY <3>3 DEF OneMore
      <4>3. [index |-> i, message |-> msg(k)] \notin Held(dst.items) /\ IsFiniteSet(Held(dst.items))
        BY <1>1, <1>2, <2>1, <4>2, BackedUpFacts
      <4>4. \A m \in Message : Number(Held(dst'.items), m) =
               IF m = msg(k) THEN Number(Held(dst.items), m) + 1 ELSE Number(Held(dst.items), m)
        <5> DEFINE e == [index |-> i, message |-> msg(k)]
        <5>1. e \notin Held(dst.items) /\ e.message = msg(k) /\ Held(dst'.items) = Held(dst.items) \cup {e}
          BY <4>2, <4>3
        <5> HIDE DEF e, msg
        <5> QED
          BY <4>3, <5>1, NumberAdded
      <4> QED
        BY <1>4, <1>7, <2>3, <4>1, <4>4
    <3> QED
      BY <3>1, <3>2, <3>3
  <2> QED
    BY <2>2, <2>3
<1> QED
  BY <1>5, <1>6, <1>7 DEF Backup, List

\* erase() of the entries with one of the indices given.
LEMMA DeleteKeepsExact ==
  ASSUME CommonInv, CommonInv', ExactInv, Delete, ~excused', excused' \in BOOLEAN
  PROVE  ExactInv'
<1>1. pc = "delete" /\ UNCHANGED <<op, args, kind, saving, had>> /\ DeleteInv
  BY DEF Delete, fileVars, ExactInv
<1>2. Working /\ op = "delete"
  BY <1>1, WorkingFacts DEF CommonInv, PhaseInv, Operation
<1>3. dst.open /\ IsMap(dst.order, dst.items) /\ pos \in Nat \ {0} /\ args \in Seq(Nat)
  BY <1>2, DestFacts DEF CommonInv, TypeInv
<1>4. Held(dst.items) = {e \in Stored("dest", had) : e.index \notin Erased(pos)}
  BY <1>1 DEF DeleteInv
<1>5. Stored("dest", had)' = Stored("dest", had)
  BY <1>1 DEF Stored
<1>6. ASSUME pc' = pc, Held(dst'.items) = {e \in Stored("dest", had) : e.index \notin Erased(pos)'}
      PROVE  ExactInv'
  <2>1. DeleteInv'
    BY <1>5, <1>6 DEF DeleteInv
  <2> QED
    BY <1>1, <1>6, <2>1 DEF ExactInv, BackupInv, EndInv
<1>7. CASE Becomes(SetSortOrder(dst, "ByIndex")) /\ Stay /\ UNCHANGED disk
  <2>1. Held(dst'.items) = Held(dst.items) /\ pc' = pc /\ pos' = pos
    BY <1>1, <1>2, <1>7, SortKeeps DEF Stay, Orders
  <2>2. Erased(pos)' = Erased(pos)
    BY <1>1, <2>1 DEF Erased
  <2> QED
    BY <1>4, <1>6, <2>1, <2>2
<1>8. CASE pos > Len(args) /\ Goto("close") /\ UNCHANGED <<store, disk>>
  <2>1. \A m \in Message : Number(Held(dst.items), m) = Wanted(m)
    BY <1>1, <1>8, DeletedAll
  <2> QED
    BY <1>1, <1>3, <1>8, <2>1, LoopEnds DEF Goto
<1>9. CASE Fails
  BY <1>9, AfterError DEF Fails, Caught, Goto
<1>10. ASSUME dst.order = "ByIndex", ~(pos > Len(args)),
              LET key == <<args[pos], args[pos]>>
              IN  Leading(dst.items, key) # {} /\
                  Erases(Leading(dst.items, key), EqualRange(dst.items, key), Advance)
       PROVE  ExactInv'
  <2> DEFINE key == <<args[pos], args[pos]>>
             S == Leading(dst.items, key)
             T == EqualRange(dst.items, key)
  <2>1. CASE kind["dest"] = "ME" /\ Fails
    BY <1>9, <2>1
  <2>2. CASE Becomes(Erase(dst, S, T)) /\ Advance /\ excused' = (excused \/ S # T)
             /\ disk' = IF kind["dest"] # "ME" THEN disk ELSE Emptied(S)
    <3>1. S = T /\ S \in SUBSET DOMAIN dst.items /\ S # {}
      BY <1>10, <2>2 DEF EqualRange
    <3>2. \A k \in DOMAIN dst.items : k \in T <=> dst.items[k].e.index = args[pos]
      BY <1>3, <1>10 DEF EqualRange, IsMap, Keyed, KeyOf
    <3> HIDE DEF S, T
    <3>3. Held(dst'.items) = {dst.items[k].e : k \in DOMAIN dst.items \ S} /\ pc' = pc /\ pos' = pos + 1
      BY <1>1, <1>2, <2>2, <3>1, ErasesKeeps DEF Advance
    <3>4. Held(dst'.items) = {e \in Held(dst.items) : e.index # args[pos]}
      BY <3>1, <3>2, <3>3 DEF Held
    <3>5. Erased(pos)' = Erased(pos) \cup {args[pos]}
      <4>1. DOMAIN args = 1..Len(args) /\ Len(args) \in Nat
        BY <1>3, LenProperties
      <4>2. {i \in DOMAIN args : i < pos + 1} = {i \in DOMAIN args : i < pos} \cup {pos}
        <5>1. pos <= Len(args)
          BY <1>3, <1>10, <4>1
        <5> QED
          BY <1>3, <4>1, <5>1
      <4>3. Erased(pos)' = {args[j] : j \in {i \in DOMAIN args : i < pos + 1}}
        BY <1>1, <3>3 DEF Erased
      <4> QED
        BY <4>2, <4>3 DEF Erased
    <3>6. Held(dst'.items) = {e \in Stored("dest", had) : e.index \notin Erased(pos)'}
      BY <1>4, <3>4, <3>5
    <3> QED
      BY <1>6, <3>3, <3>6
  <2> QED
    BY <1>10, <2>1, <2>2 DEF Erases
<1> DEFINE key == <<args[pos], args[pos]>>
<1>11. \/ Becomes(SetSortOrder(dst, "ByIndex")) /\ Stay /\ UNCHANGED disk
       \/ pos > Len(args) /\ Goto("close") /\ UNCHANGED <<store, disk>>
       \/ Fails
       \/ /\ dst.order = "ByIndex" /\ ~(pos > Len(args)) /\ Leading(dst.items, key) # {}
          /\ Erases(Leading(dst.items, key), EqualRange(dst.items, key), Advance)
  BY Zenon DEF Delete
<1> QED
  BY <1>7, <1>8, <1>9, <1>10, <1>11, Zenon

\* A step of the end that leaves the destination open with what it has.
LEMMA StaysOpen ==
  ASSUME ExactInv, pc \in {"close", "end"}, pc' \in {"close", "end"},
         UNCHANGED <<op, args, kind, had, outcome>>, disk'["source"] = disk["source"],
         dst'.open = dst.open, dst'.items = dst.items, dst.open \/ disk'["dest"] = disk["dest"]
  PROVE  ExactInv'
<1>1. \A m \in Message : Wanted(m)' = Wanted(m)
  BY SameWanted
<1>2. EndInv'
  BY <1>1 DEF ExactInv, EndInv
<1> QED
  BY <1>2 DEF ExactInv, BackupInv, DeleteInv

\* The step that closes it: the file or the mobile has the same.
LEMMA BecomesClosed ==
  ASSUME ExactInv, pc = "close", dst.open, pc' = pc,
         UNCHANGED <<op, args, kind, had, outcome>>, disk'["source"] = disk["source"],
         ~dst'.open, \A m \in Message : Count(disk'["dest"], m) = Number(Held(dst.items), m)
  PROVE  ExactInv'
<1>1. \A m \in Message : Wanted(m)' = Wanted(m)
  BY SameWanted
<1>2. EndInv'
  BY <1>1 DEF ExactInv, EndInv
<1> QED
  BY <1>2 DEF ExactInv, BackupInv, DeleteInv

\* sync() begins to save a store that is closed, or finds nothing to save.
LEMMA SyncKeepsExact ==
  ASSUME CommonInv, CommonInv', ExactInv, NEW b \in Side, NEW closing \in BOOLEAN, Sync(b, closing)
  PROVE  ExactInv'
<1> SUFFICES ASSUME op \in {"backup", "delete"} PROVE ExactInv'
  BY OtherOperation DEF Sync, mainVars
<1>1. /\ store[b].open /\ UNCHANGED <<op, args, kind, had, outcome, disk, pc>> /\ pc = "close" /\ closing
  BY DEF Sync, mainVars, ghostVars, CommonInv, PhaseInv, Operation
<1>2. /\ dst = store["dest"] /\ dst' = store'["dest"] /\ store \in [Side -> StoreType]
      /\ kind["dest"] \in {"file", "stdout", "ME"} /\ kind["dest"] = kind'["dest"]
  BY <1>1 DEF dst, CommonInv, TypeInv, Side
<1>3. CASE /\ kind[b] \in {"file", "stdout"} /\ store[b].changed
           /\ store' = [store EXCEPT ![b].closing = closing]
  <2>1. dst'.open = dst.open /\ dst'.items = dst.items
    BY <1>2, <1>3 DEF StoreType, Side
  <2> QED
    BY <1>1, <2>1, StaysOpen
<1>4. CASE /\ ~(kind[b] \in {"file", "stdout"} /\ store[b].changed)
           /\ store' = [store EXCEPT ![b] = Closed]
  <2>1. CASE b = "source"
    <3>1. dst' = dst
      BY <1>2, <1>4, <2>1 DEF Side
    <3> QED
      BY <1>1, <3>1, StaysOpen
  <2>2. CASE b = "dest"
    <3>1. dst.open /\ (kind["dest"] = "ME" \/ ~dst.changed)
      BY <1>1, <1>2, <1>4, <2>2
    <3>2. Held(dst.items) = Stored("dest", disk["dest"])
      BY <1>1, <1>2, <3>1 DEF CommonInv, StoreInv
    <3>3. \A m \in Message : Count(disk["dest"], m) = Number(Held(dst.items), m)
      BY <3>2, StoredCount DEF CommonInv, TypeInv, Side
    <3>4. ~dst'.open
      BY <1>2, <1>4, <2>2, ClosedFacts DEF Side
    <3> QED
      BY <1>1, <3>1, <3>3, <3>4, BecomesClosed
  <2> QED
    BY <2>1, <2>2 DEF Side
<1> QED
  BY <1>1, <1>3, <1>4 DEF Sync

\* The steps of sync(): the file that is closed last has the entries of the map.
LEMMA SavingKeepsExact ==
  ASSUME CommonInv, CommonInv', ExactInv, NEW b \in Side, Rename(b) \/ Open(b) \/ Write(b),
         ~excused', excused' \in BOOLEAN
  PROVE  ExactInv'
<1> SUFFICES ASSUME op \in {"backup", "delete"} PROVE ExactInv'
  BY OtherOperation DEF Rename, Open, Write, mainVars
<1>1. saving[b] # "no"
  BY DEF Rename, Open, Write
<1>2. /\ b = "dest" /\ dst.open /\ dst.closing /\ pc = "close"
  BY <1>1, SavingFacts
<1>3. dst = store["dest"] /\ dst' = store'["dest"] /\ store \in [Side -> StoreType]
      /\ disk \in [Side -> FileType \cup SlotsType] /\ IsMap(dst.order, dst.items) /\ dst \in StoreType
  BY DEF dst, CommonInv, TypeInv, StoreInv, Side
<1>4. CASE Rename(b)
  <2>1. CASE UNCHANGED <<store, pc, pos, outcome>>
    BY <1>2, <1>3, <1>4, <2>1, StaysOpen DEF Rename, ghostVars
  <2>2. CASE Dies \/ Caught
    BY <2>2, AfterError DEF Dies, Caught, Goto
  <2> QED
    BY <1>4, <2>1, <2>2 DEF Rename
<1>5. CASE Open(b)
  <2>1. UNCHANGED <<op, args, kind, had, outcome, pc, store>>
    BY <1>5 DEF Open, mainVars, ghostVars
  <2>2. disk'["source"] = disk["source"]
    BY <1>2, <1>3, <1>5 DEF Open, Side
  <2> QED
    BY <1>2, <1>3, <2>1, <2>2, StaysOpen
<1>6. CASE Write(b)
  <2> DEFINE f == <<Version>> \o Messages(dst)
  <2>1. /\ Len(f) \in Nat /\ SubSeq(f, 1, Len(f)) = f /\ Len(f) # 0
        /\ \A m \in Message : Count(f, m) = Number(Held(dst.items), m)
    BY <1>3, WrittenCount
  <2>2. PICK n : /\ disk' = IF saving[b] = "lost" THEN disk ELSE [disk EXCEPT ![b] = SubSeq(f, 1, n)]
                 /\ excused' = (excused \/ n # Len(f)) /\ (saving[b] = "lost" => n = 0)
    BY <1>2, <1>6, Zenon DEF Write, dst
  <2> HIDE DEF f
  <2>3. n = Len(f) /\ disk' = [disk EXCEPT !["dest"] = f]
    BY <1>2, <2>1, <2>2
  <2>4. disk'["dest"] = f /\ disk'["source"] = disk["source"]
    BY <1>3, <2>3 DEF Side
  <2>5. UNCHANGED <<op, args, kind, had, outcome, pc>> /\ ~dst'.open
    BY <1>2, <1>3, <1>6, ClosedFacts DEF Write, mainVars, Side
  <2> QED
    BY <1>2, <2>1, <2>4, <2>5, BecomesClosed
<1> QED
  BY <1>4, <1>5, <1>6

\* Every step after which the run is not excused.
LEMMA ExactNext ==
  ASSUME CommonInv, CommonInv', ExactInv, [Next]_vars, ~excused', excused' \in BOOLEAN
  PROVE  ExactInv'
<1>1. ASSUME NEW b \in Side, OpenFile(b) \/ LoadSlot(b) PROVE ExactInv'
  BY <1>1, OpensExact
<1>2. ASSUME NEW b \in Side, Arrive(b) PROVE ExactInv'
  <2>1. pc' = pc /\ pc \in Side
    BY <1>2 DEF Arrive, mainVars, Side
  <2> QED
    BY <2>1 DEF ExactInv, BackupInv, DeleteInv, EndInv, Side
<1>3. ASSUME NEW b \in Side, NEW closing \in BOOLEAN, Sync(b, closing) PROVE ExactInv'
  BY <1>3, SyncKeepsExact
<1>4. ASSUME NEW b \in Side, Rename(b) \/ Open(b) \/ WriteFails(b) \/ Write(b) PROVE ExactInv'
  BY <1>4, SavingKeepsExact DEF WriteFails
<1>5. CASE Backup
  BY <1>5, BackupKeepsExact
<1>6. CASE Delete
  BY <1>6, DeleteKeepsExact
<1>7. CASE Clear \/ ClearEnds \/ Copy \/ Add \/ Library
  <2>1. op \notin {"backup", "delete"} /\ op' = op
    BY <1>7 DEF Clear, ClearEnds, Copy, Add, Library, CommonInv, PhaseInv, Operation
  <2> QED
    BY <2>1, OtherOperation
<1>8. CASE End
  <2>1. /\ pc = "close" /\ pc' = "end" /\ dst' = dst /\ disk' = disk
        /\ UNCHANGED <<op, args, kind, had, outcome>>
    BY <1>8 DEF End, Goto, ghostVars, dst
  <2> QED
    BY <2>1, StaysOpen
<1>9. CASE Kill
  BY <1>9, AfterError DEF Kill, Dies, Goto
<1>10. CASE UNCHANGED vars
  <2>1. UNCHANGED <<pc, pos, op, args, kind, had, outcome, disk, src, dst>>
    BY <1>10 DEF vars, mainVars, ghostVars, src, dst
  <2>2. \A m \in Message : Wanted(m)' = Wanted(m) /\ \A M : Backed(M, m)' = Backed(M, m)
    BY <2>1, SameWanted
  <2>3. Taken(pos)' = Taken(pos) /\ Erased(pos)' = Erased(pos) /\ Stored("dest", had)' = Stored("dest", had)
    BY <2>1 DEF Taken, Erased, Stored, List, InOrder, Entries
  <2> QED
    BY <2>1, <2>2, <2>3 DEF ExactInv, BackupInv, DeleteInv, EndInv
<1> QED
  BY <1>1, <1>2, <1>3, <1>4, <1>5, <1>6, <1>7, <1>8, <1>9, <1>10 DEF Next

-----------------------------------------------------------------------------
\* The invariants hold until the run is excused.
ExactlyInv == excused \in BOOLEAN /\ (excused \/ (CommonInv /\ ExactInv))

\* They hold of every run of gsmsmsstore and of programs that use the library,
\* which may have the messages written to other stores of the mobile
\* (MeTa::setSMSStore, gsm_me_ta.cc:185): an insert there ends what they say.
THEOREM Invariance == Spec => []ExactlyInv
<1>1. Init => ExactlyInv
  <2> SUFFICES ASSUME Init PROVE ExactlyInv
    OBVIOUS
  <2>1. CommonInv
    BY CommonInit
  <2>2. pc \in Side
    BY DEF Init, Side
  <2> QED
    BY <2>1, <2>2 DEF ExactlyInv, ExactInv, BackupInv, DeleteInv, EndInv, CommonInv, TypeInv, Side
<1>2. ExactlyInv /\ [Next]_vars => ExactlyInv'
  <2> SUFFICES ASSUME ExactlyInv, [Next]_vars PROVE ExactlyInv'
    OBVIOUS
  <2>1. excused' \in BOOLEAN /\ (excused => excused')
    BY ExcusedStays DEF ExactlyInv
  <2>2. ASSUME ~excused' PROVE CommonInv' /\ ExactInv'
    <3>1. CommonInv /\ ExactInv
      BY <2>1, <2>2 DEF ExactlyInv
    <3>2. CommonInv'
      BY <2>1, <2>2, <3>1, CommonNext
    <3> QED
      BY <2>1, <2>2, <3>1, <3>2, ExactNext
  <2> QED
    BY <2>1, <2>2 DEF ExactlyInv
<1> QED
  BY <1>1, <1>2, PTL DEF Spec

\* At the end the stores are closed, and what was wanted is in the file.
LEMMA AtTheEnd ==
  ASSUME ExactlyInv, pc = "end", outcome = "ok", op \in {"backup", "delete"}, ~excused
  PROVE  \A m \in Message : Count(disk["dest"], m) = Wanted(m)
BY DEF ExactlyInv, CommonInv, PhaseInv, ExactInv, EndInv, dst, Side

\* A backup that ended has what it was to have.
LEMMA BackupIsExact == ExactlyInv => BackupExact
<1> SUFFICES ASSUME ExactlyInv, Ended("backup"), NEW m \in Message
             PROVE  LET chosen == Chosen(ByIndex("source", disk["source"]))
                    IN Count(disk["dest"], m) =
                         IF Count(had, m) = 0 /\ Count(chosen, m) # 0 THEN 1 ELSE Count(had, m)
  BY Zenon DEF BackupExact
<1>1. Count(disk["dest"], m) = Wanted(m) /\ op = "backup"
  BY AtTheEnd DEF Ended
<1> QED
  BY <1>1 DEF Wanted, Backed, Meant

\* A deletion that ended has left what it was to leave.
LEMMA DeleteIsExact == ExactlyInv => DeleteExact
<1> SUFFICES ASSUME ExactlyInv, Ended("delete"), NEW m \in Message
             PROVE  LET f == ByIndex("dest", had)
                    IN Count(disk["dest"], m) = Cardinality({i \in DOMAIN f \ Given : f[i] = m})
  BY Zenon DEF DeleteExact
<1>1. Count(disk["dest"], m) = Wanted(m) /\ op = "delete"
  BY AtTheEnd DEF Ended
<1> QED
  BY <1>1 DEF Wanted, Left

\* Unless the run is excused, the map and the mobile have the same messages.
LEMMA LoadIsExact == ExactlyInv => LoadedExact
<1> SUFFICES ASSUME CommonInv, NEW b \in Side, kind[b] = "ME", store[b].open, pc \notin Side
             PROVE  {<<it.e.index, it.e.message>> : it \in Range(store[b].items)}
                      = {<<i, disk[b][i]>> : i \in Used(disk[b])}
  BY DEF ExactlyInv, LoadedExact
<1> DEFINE H == Held(store[b].items)
<1>1. StoreInv(b) /\ pc # b
  BY DEF CommonInv, Side
<1>2. H = SlotEntries(disk[b])
  BY <1>1 DEF StoreInv, Stored
<1>3. {<<it.e.index, it.e.message>> : it \in Range(store[b].items)} = {<<e.index, e.message>> : e \in H}
  BY DEF Held, Range
<1>4. {<<e.index, e.message>> : e \in SlotEntries(disk[b])} = {<<i, disk[b][i]>> : i \in Used(disk[b])}
  <2>1. \A i \in Used(disk[b]) : [index |-> i, message |-> disk[b][i]] \in SlotEntries(disk[b])
    BY DEF SlotEntries
  <2>2. \A e \in SlotEntries(disk[b]) : \E i \in Used(disk[b]) : e.index = i /\ e.message = disk[b][i]
    BY DEF SlotEntries
  <2> QED
    BY <2>1, <2>2
<1> HIDE DEF H
<1> QED
  BY <1>2, <1>3, <1>4

\* A store of the mobile that was read while messages arrived has all of them,
\* each with its slot, for every number of slots, messages and arrivals, and goes
\* on to have them while messages are inserted into it and erased; once one went
\* to another store of the mobile, or an erasure was cut off, nothing is claimed
\* (SortedSMSStore::SortedSMSStore, gsm_sorted_sms_store.cc:217).
THEOREM MobileReadExactly == Spec => []LoadedExact
  BY Invariance, LoadIsExact, PTL

\* A backup of gsmsmsstore that ends without an error adds what was missing,
\* once, and leaves alone what was there, for any files, and for any mobiles that
\* have the destination selected for writing, whose name writeEntry() takes for
\* selected (gsm_sms_store.cc:259); in another mobile it may not be exact.
THEOREM BacksUpExactly == Spec => []BackupExact
  BY Invariance, BackupIsExact, PTL

\* A deletion of gsmsmsstore that ends without an error has removed the messages
\* with the given indices and no others, for any files and mobiles.
THEOREM DeletesExactly == Spec => []DeleteExact
  BY Invariance, DeleteIsExact, PTL
=============================================================================
