--------------------------- MODULE PhonebookProofs ---------------------------
(***************************************************************************)
(* Theorems about Phonebook, for any phonebooks, texts and numbers, any    *)
(* shapes of phonebooks and any number of faults.                          *)
(***************************************************************************)
EXTENDS Phonebook, SequenceTheorems, FiniteSetTheorems, WellFoundedInduction, TLAPS

\* The parts of TypeOK: what setPhonebook changes, and what the entries and
\* their count are kept in.
SelectionOK ==
  /\ sel \in Book /\ lastPhonebookName \in Book \cup {NoBook} /\ misled \in BOOLEAN
  /\ SelectionRemembered
BooksOK ==
  /\ slots \in [Book -> 0..MaxSlots]
  /\ slots \in Shapes
  /\ mem \in [Book -> Seq(Info)] /\ \A p \in Book : Len(mem[p]) = slots[p]
  /\ created \in SUBSET Book
  /\ useCache \in [Book -> BOOLEAN]
  /\ size \in [Book -> -1..CountBound]
  /\ entries \in [Book -> Seq(Entry)] /\ \A p \in Book : Len(entries[p]) <= MaxSlots
  /\ suspect \in SUBSET (Book \X (1..MaxSlots))
  /\ miscounted \in SUBSET Book
FoundType == found \in [by : Book \cup {NoBook}, text : Text \cup {NoText}, slot : 0..MaxSlots]

\* A cached entry of any object holds what the ME holds.
Coherent ==
  \A p \in Book : \A i \in 1..Len(entries[p]) :
    entries[p][i].cached /\ <<p, i>> \notin suspect => entries[p][i].info = At(p, i)

Books == BooksOK /\ Coherent /\ SizeExact
Inv   == SelectionOK /\ Books /\ FoundType /\ faults \in 0..FaultBound

LEMMA InvTypes == SelectionOK /\ BooksOK /\ FoundType /\ faults \in 0..FaultBound <=> SelectionSound
  BY PhonebookAssumption DEF SelectionOK, BooksOK, FoundType, SelectionSound, TypeOK

-----------------------------------------------------------------------------
\* The least element of a set of numbers: the operator Min of the searches.
LEMMA MinNat ==
  ASSUME NEW S \in SUBSET Nat, S # {}
  PROVE  Min(S) \in S /\ \A y \in S : Min(S) <= y
<1>1. IsWellFoundedOn(OpToRel(<,Nat), Nat)
  BY NatLessThanWellFounded
<1> DEFINE R == OpToRel(<,Nat)
<1>2. \A x, y \in Nat : y < x => <<y, x>> \in R
  BY DEF OpToRel
<1>3. IsWellFoundedOn(R, Nat)
  BY <1>1
<1> HIDE DEF R
<1>4. PICK x \in S : \A y \in S : ~ (<<y, x>> \in R)
  BY <1>3, WFMin
<1>5. ASSUME NEW y \in S PROVE x <= y
  <2>1. x \in Nat /\ y \in Nat /\ ~(<<y, x>> \in R)
    BY <1>4
  <2>2. ~(y < x)
    BY <1>2, <2>1
  <2> QED
    BY <2>1, <2>2
<1> QED
  BY <1>5 DEF Min

\* What setPhonebook leaves selected.
Result(r) ==
  /\ r.last \in Book \cup {NoBook} /\ r.at \in Book
  /\ r.misled \in BOOLEAN /\ r.ok \in BOOLEAN /\ r.faults \in 0..FaultBound
  /\ r.last # NoBook /\ ~r.misled => r.at = r.last

LEMMA SkippedResult ==
  ASSUME SelectionOK, faults \in 0..FaultBound
  PROVE  Result(Skipped)
  BY DEF SelectionOK, SelectionRemembered, Skipped, Selection, Result

LEMMA SetPhonebookResult ==
  ASSUME SelectionOK, faults \in 0..FaultBound, NEW p \in Book, NEW r \in SetPhonebook(p)
  PROVE  Result(r) /\ (r.ok => misled \/ r.at = p)
<1>1. CASE p = lastPhonebookName
  <2>1. r = Skipped
    BY <1>1 DEF SetPhonebook
  <2>2. r.at = sel
    BY <2>1 DEF Skipped, Selection
  <2> QED
    BY <1>1, <2>1, <2>2, SkippedResult, PhonebookAssumption DEF SelectionOK, SelectionRemembered
<1>2. CASE p # lastPhonebookName
  <2> DEFINE a == Selection(lastPhonebookName, sel, misled, FALSE, faults)
             b == Selection(p, p, FALSE, TRUE, faults)
             c == Selection(lastPhonebookName, p, TRUE, FALSE, faults + 1)
  <2>1. r = a \/ r = b \/ (FaultLeft /\ r = c)
    <3>1. r \in Chatted(p)
      BY <1>2 DEF SetPhonebook
    <3>2. Refusal = {a}
      BY DEF Refusal
    <3> HIDE DEF a, b, c
    <3>3. Chatted(p) \subseteq {a} \cup {b} \cup (IF FaultLeft THEN {c} ELSE {})
      BY <3>2 DEF Chatted, a, b, c
    <3> QED
      BY <3>1, <3>3
  <2>2. Result(a) /\ a.ok = FALSE
    BY DEF SelectionOK, SelectionRemembered, Selection, Result
  <2>3. Result(b) /\ b.at = p
    BY DEF Selection, Result
  <2>4. FaultLeft => Result(c) /\ c.ok = FALSE
    <3>1. FaultLeft => faults + 1 \in 0..FaultBound
      BY PhonebookAssumption DEF FaultLeft
    <3> QED
      BY <3>1 DEF SelectionOK, Selection, Result
  <2> QED
    BY <2>1, <2>2, <2>3, <2>4
<1> QED
  BY <1>1, <1>2

LEMMA SelectStep ==
  ASSUME NEW r, Result(r), Select(r)
  PROVE  SelectionOK'
  BY DEF Result, Select, SelectionOK, SelectionRemembered

-----------------------------------------------------------------------------
\* Looking at entries: the entries afterwards, and when what is seen is there.
LEMMA ReadEntries ==
  ASSUME BooksOK, NEW p \in Book, NEW at \in Book, NEW S
  PROVE  /\ Read(p, at, S) \in Seq(Entry) /\ Len(Read(p, at, S)) = Len(entries[p])
         /\ Len(entries[p]) \in 0..MaxSlots /\ Place(p) = 1..Len(entries[p])
         /\ \A i \in Place(p) :
              Read(p, at, S)[i] = IF i \in S /\ ~IsCached(p, i) THEN Cached(At(at, i))
                                  ELSE entries[p][i]
<1>1. /\ entries[p] \in Seq(Entry) /\ Len(entries[p]) \in Nat /\ Len(entries[p]) <= MaxSlots
      /\ DOMAIN entries[p] = 1..Len(entries[p])
  BY LenProperties DEF BooksOK
<1>2. \A i \in Nat : At(at, i) \in Info
  <2>1. mem[at] \in Seq(Info) /\ Len(mem[at]) = slots[at]
    BY DEF BooksOK
  <2> QED
    BY <2>1, ElementOfSeq DEF At, Slot, Info
<1> DEFINE e(i) == IF i \in S /\ ~IsCached(p, i) THEN Cached(At(at, i)) ELSE entries[p][i]
<1>3. \A i \in 1..Len(entries[p]) : e(i) \in Entry
  <2> SUFFICES ASSUME NEW i \in 1..Len(entries[p]) PROVE e(i) \in Entry
    OBVIOUS
  <2>1. entries[p][i] \in Entry
    BY <1>1, ElementOfSeq
  <2>2. Cached(At(at, i)) \in Entry
    BY <1>2 DEF Cached, Entry
  <2> QED
    BY <2>1, <2>2
<1>4. Read(p, at, S) = [i \in 1..Len(entries[p]) |-> e(i)]
  BY <1>1 DEF Read, Place
<1> HIDE DEF e
<1>5. [i \in 1..Len(entries[p]) |-> e(i)] \in Seq(Entry)
  BY <1>1, <1>3, IsASeq
<1>6. /\ Len([i \in 1..Len(entries[p]) |-> e(i)]) = Len(entries[p])
      /\ \A i \in 1..Len(entries[p]) : [j \in 1..Len(entries[p]) |-> e(j)][i] = e(i)
  BY <1>1
<1> QED
  BY <1>1, <1>4, <1>5, <1>6, PhonebookAssumption DEF Place, e

\* An entry that is seen without becoming suspect is as the ME has it.
LEMMA SeenIsThere ==
  ASSUME Coherent, NEW p \in Book, NEW at \in Book, NEW S, NEW i \in 1..Len(entries[p]),
         i \in S \/ at = p, <<p, i>> \notin SuspectAfter(p, at, S)
  PROVE  Seen(p, at, i) = At(p, i)
<1>1. CASE IsCached(p, i)
  <2>1. <<p, i>> \notin suspect
    BY <1>1 DEF SuspectAfter
  <2> QED
    BY <1>1, <2>1 DEF Coherent, IsCached, Seen
<1>2. CASE ~IsCached(p, i)
  BY <1>2 DEF SuspectAfter, Seen
<1> QED
  BY <1>1, <1>2

\* The entries that were looked at are coherent.
LEMMA ReadCoherent ==
  ASSUME BooksOK, Coherent, NEW p \in Book, NEW at \in Book, NEW S,
         NEW i \in 1..Len(entries[p]), Read(p, at, S)[i].cached,
         <<p, i>> \notin SuspectAfter(p, at, S)
  PROVE  Read(p, at, S)[i].info = At(p, i)
<1>1. i \in Place(p)
  BY ReadEntries
<1>2. Read(p, at, S)[i] = IF i \in S /\ ~IsCached(p, i) THEN Cached(At(at, i)) ELSE entries[p][i]
  BY <1>1, ReadEntries
<1>3. CASE i \in S /\ ~IsCached(p, i)
  <2>1. at = p
    BY <1>3 DEF SuspectAfter
  <2> QED
    BY <1>2, <1>3, <2>1 DEF Cached
<1>4. CASE ~(i \in S /\ ~IsCached(p, i))
  <2>1. <<p, i>> \notin suspect
    BY <1>4 DEF SuspectAfter
  <2> QED
    BY <1>2, <1>4, <2>1 DEF Coherent
<1> QED
  BY <1>3, <1>4

LEMMA SuspectType ==
  ASSUME BooksOK, NEW p \in Book, NEW at \in Book, NEW S, S \subseteq Place(p)
  PROVE  /\ SuspectAfter(p, at, S) \in SUBSET (Book \X (1..MaxSlots))
         /\ \A x \in Book, i \in Nat :
              x # p => (<<x, i>> \in SuspectAfter(p, at, S) <=> <<x, i>> \in suspect)
<1>1. S \subseteq 1..MaxSlots
  BY ReadEntries, PhonebookAssumption, SMTT(30)
<1> DEFINE E == SuspectAfter(p, at, S)
<1>2. suspect \in SUBSET (Book \X (1..MaxSlots))
  BY DEF BooksOK
<1>3. E \in SUBSET (Book \X (1..MaxSlots))
  BY <1>1, <1>2, SMTT(30) DEF SuspectAfter
<1>4. \A x \in Book, i \in Nat : x # p => (<<x, i>> \in E <=> <<x, i>> \in suspect)
  BY <1>2, SMTT(30) DEF SuspectAfter
<1> QED
  BY <1>3, <1>4

\* The used entries of a phonebook can be counted.
LEMMA UsedFinite ==
  ASSUME BooksOK, NEW p \in Book
  PROVE  /\ IsFiniteSet(UsedSlots(p))
         /\ Cardinality(UsedSlots(p)) \in 0..MaxSlots
<1>1. slots[p] \in Nat /\ slots[p] <= MaxSlots
  BY PhonebookAssumption DEF BooksOK
<1>2. IsFiniteSet(1..slots[p]) /\ Cardinality(1..slots[p]) = slots[p]
  BY <1>1, FS_Interval
<1>3. UsedSlots(p) \in SUBSET (1..slots[p])
  BY DEF UsedSlots, Slot
<1>4. IsFiniteSet(UsedSlots(p)) /\ Cardinality(UsedSlots(p)) <= slots[p]
  BY <1>2, <1>3, FS_Subset
<1> QED
  BY <1>1, <1>4, FS_CardinalityType, PhonebookAssumption

-----------------------------------------------------------------------------
\* The entries of one phonebook change: what makes the result coherent.
LEMMA CoherentStep ==
  ASSUME BooksOK, Coherent, NEW p \in Book, NEW q \in Seq(Entry),
         entries' = [entries EXCEPT ![p] = q],
         \A x \in Book, i \in Nat :
           x # p => <<x, i>> \in suspect' \/ (<<x, i>> \notin suspect /\ At(x, i)' = At(x, i)),
         \A i \in 1..Len(q) :
           q[i].cached /\ <<p, i>> \notin suspect' => q[i].info = At(p, i)'
  PROVE  Coherent'
<1> SUFFICES ASSUME NEW x \in Book, NEW i \in 1..Len(entries'[x]),
                    entries'[x][i].cached, <<x, i>> \notin suspect'
             PROVE  entries'[x][i].info = At(x, i)'
  BY DEF Coherent
<1>1. CASE x = p
  <2>1. entries'[p] = q
    BY DEF BooksOK
  <2> QED
    BY <1>1, <2>1
<1>2. CASE x # p
  <2>1. entries'[x] = entries[x] /\ i \in 1..Len(entries[x]) /\ i \in Nat
    BY <1>2 DEF BooksOK
  <2> QED
    BY <1>2, <2>1 DEF Coherent
<1> QED
  BY <1>1, <1>2

\* An operation that looks at entries: the cache afterwards.
LEMMA LooksCoherent ==
  ASSUME BooksOK, Coherent, NEW p \in Book, NEW at \in Book, NEW S, S \subseteq Place(p),
         Looks(p, at, S), UNCHANGED <<slots, mem>>
  PROVE  /\ Coherent'
         /\ entries' \in [Book -> Seq(Entry)] /\ \A x \in Book : Len(entries'[x]) = Len(entries[x])
         /\ suspect' \in SUBSET (Book \X (1..MaxSlots))
         /\ suspect' = SuspectAfter(p, at, S)
<1> DEFINE q == Read(p, at, S)
<1>1. q \in Seq(Entry) /\ Len(q) = Len(entries[p]) /\ Len(entries[p]) \in 0..MaxSlots
  BY ReadEntries
<1>2. \A i \in 1..Len(q) : q[i].cached /\ <<p, i>> \notin SuspectAfter(p, at, S)
                             => q[i].info = At(p, i)
  BY <1>1, ReadCoherent
<1>3. entries' = [entries EXCEPT ![p] = q] /\ suspect' = SuspectAfter(p, at, S)
  BY DEF Looks
<1>4. /\ suspect' \in SUBSET (Book \X (1..MaxSlots))
      /\ \A x \in Book, i \in Nat : x # p => (<<x, i>> \in suspect' <=> <<x, i>> \in suspect)
  BY <1>3, SuspectType
<1>5. \A x \in Book, i \in Nat : At(x, i)' = At(x, i)
  BY DEF At, Slot
<1> HIDE DEF q
<1>6. \A i \in 1..Len(q) : q[i].cached /\ <<p, i>> \notin suspect' => q[i].info = At(p, i)'
  BY <1>2, <1>3, <1>5
<1>7. Coherent'
  BY <1>1, <1>3, <1>4, <1>5, <1>6, CoherentStep
<1> QED
  BY <1>1, <1>3, <1>4, <1>7 DEF BooksOK

LEMMA LooksStep ==
  ASSUME Books, NEW p \in Book, NEW at \in Book, NEW S, S \subseteq Place(p), Looks(p, at, S),
         UNCHANGED <<slots, mem, created, useCache, size, miscounted>>
  PROVE  Books'
<1>0. BooksOK /\ Coherent /\ SizeExact
  BY DEF Books
<1>1. /\ Coherent'
      /\ entries' \in [Book -> Seq(Entry)] /\ \A x \in Book : Len(entries'[x]) = Len(entries[x])
      /\ suspect' \in SUBSET (Book \X (1..MaxSlots))
  BY <1>0, LooksCoherent
<1>2. BooksOK'
  BY <1>0, <1>1 DEF BooksOK
<1>3. SizeExact'
  BY <1>0 DEF SizeExact, UsedSlots, Slot
<1> QED
  BY <1>1, <1>2, <1>3 DEF Books

\* What the ME has after an entry was written.
LEMMA MemWritten ==
  ASSUME BooksOK, NEW at \in Book, NEW i \in Slot(at), NEW c \in Info,
         NEW m, m = [mem[at] EXCEPT ![i] = c], mem' = [mem EXCEPT ![at] = m]
  PROVE  /\ mem' \in [Book -> Seq(Info)] /\ \A p \in Book : Len(mem'[p]) = slots[p]
         /\ \A x \in Book : x # at => mem'[x] = mem[x]
         /\ mem'[at] = m
<1>1. mem[at] \in Seq(Info) /\ Len(mem[at]) = slots[at] /\ i \in 1..Len(mem[at])
  BY DEF BooksOK, Slot
<1>2. /\ m \in Seq(Info) /\ Len(m) = Len(mem[at])
      /\ \A k \in 1..Len(mem[at]) : m[k] = IF k = i THEN c ELSE mem[at][k]
  BY <1>1, ExceptSeq
<1>4. /\ mem' \in [Book -> Seq(Info)] /\ mem'[at] = m
      /\ \A x \in Book : x # at => mem'[x] = mem[x]
  BY <1>2 DEF BooksOK
<1>5. \A p \in Book : Len(mem'[p]) = slots[p]
  BY <1>1, <1>2, <1>4 DEF BooksOK
<1> QED
  BY <1>1, <1>2, <1>4, <1>5

\* An entry is written.
LEMMA WritesStep ==
  ASSUME Books, NEW p \in Book, NEW r, r.at \in Book, NEW S, S \subseteq Place(p),
         NEW i \in Place(p), NEW c \in Info, NEW n \in {-1, 0, 1},
         n # 0 => i \in S, n = 1 => Seen(p, r.at, i) = Empty,
         n = -1 => c = Empty /\ Seen(p, r.at, i) # Empty,
         Writes(p, S, i, c, n, r)
  PROVE  Books'
<1>0. BooksOK /\ Coherent /\ SizeExact
  BY DEF Books
<1>1. PICK at \in Book : at = r.at
  OBVIOUS
<1> DEFINE q0 == Read(p, at, S)
           q1 == Written(p, at, S, i, c)
           SA == SuspectAfter(p, at, S)
           m  == [mem[at] EXCEPT ![i] = c]
<1>u. /\ i \in Slot(at) /\ mem' = [mem EXCEPT ![at] = m]
      /\ slots' = slots /\ created' = created /\ useCache' = useCache
      /\ \/ /\ entries' = [entries EXCEPT ![p] = q1]
            /\ Adjusted(p, n) <= CountBound
            /\ size' = [size EXCEPT ![p] = Adjusted(p, n)]
            /\ suspect' = IF at = p THEN SA \ {<<p, i>>} ELSE SA \cup {<<p, i>>, <<at, i>>}
            /\ miscounted' = IF Uncounted(p, at, S, i, c, n)
                             THEN miscounted \cup {p, at} ELSE miscounted
         \/ /\ entries' = [entries EXCEPT ![p] = q0]
            /\ suspect' = SA \cup {<<at, i>>}
            /\ miscounted' = miscounted \cup {at}
            /\ size' = size
  BY <1>1 DEF Writes
<1>2. /\ mem' \in [Book -> Seq(Info)] /\ \A x \in Book : Len(mem'[x]) = slots'[x]
      /\ \A x \in Book, k \in Nat : At(x, k)' = IF x = at /\ k = i THEN c ELSE At(x, k)
      /\ \A x \in Book : UsedSlots(x)' = IF x # at THEN UsedSlots(x)
                                         ELSE IF c = Empty THEN UsedSlots(x) \ {i}
                                              ELSE UsedSlots(x) \cup {i}
  <2>1. BooksOK /\ i \in Slot(at) /\ m = [mem[at] EXCEPT ![i] = c] /\ mem' = [mem EXCEPT ![at] = m] /\ slots' = slots
    BY <1>0, <1>u
  <2> HIDE <1>u, <1>0
  <2> HIDE DEF m
  <2>2. /\ mem' \in [Book -> Seq(Info)] /\ \A x \in Book : Len(mem'[x]) = slots[x]
        /\ \A x \in Book : x # at => mem'[x] = mem[x]
        /\ mem'[at] = m
    BY <2>1, MemWritten
  <2>5. \A k \in 1..slots[at] : m[k] = IF k = i THEN c ELSE mem[at][k]
    <3>1. mem[at] \in Seq(Info) /\ Len(mem[at]) = slots[at]
      BY <2>1 DEF BooksOK
    <3>2. DOMAIN mem[at] = 1..slots[at]
      BY <3>1, LenProperties
    <3> QED
      BY <2>1, <3>2
  <2>3. ASSUME NEW x \in Book, NEW k \in Nat
        PROVE  At(x, k)' = IF x = at /\ k = i THEN c ELSE At(x, k)
    BY <2>1, <2>2, <2>5 DEF At, Slot
  <2>4. ASSUME NEW x \in Book
        PROVE  UsedSlots(x)' = IF x # at THEN UsedSlots(x)
                               ELSE IF c = Empty THEN UsedSlots(x) \ {i}
                                    ELSE UsedSlots(x) \cup {i}
    <3>1. i \in 1..slots[at]
      BY <2>1 DEF Slot
    <3>2. /\ UsedSlots(x)' = {k \in 1..slots[x] : mem'[x][k] # Empty}
          /\ UsedSlots(x) = {k \in 1..slots[x] : mem[x][k] # Empty}
      BY <2>1 DEF UsedSlots, Slot
    <3> QED
      BY <2>2, <2>5, <3>1, <3>2
  <2> QED
    BY <2>1, <2>2, <2>3, <2>4
<1>3. /\ q0 \in Seq(Entry) /\ Len(q0) = Len(entries[p]) /\ Len(entries[p]) \in 0..MaxSlots
      /\ Place(p) = 1..Len(entries[p])
      /\ \A k \in 1..Len(entries[p]) : q0[k].cached /\ <<p, k>> \notin SA => q0[k].info = At(p, k)
  <2>1. /\ q0 \in Seq(Entry) /\ Len(q0) = Len(entries[p]) /\ Len(entries[p]) \in 0..MaxSlots
        /\ Place(p) = 1..Len(entries[p])
    BY <1>0, ReadEntries
  <2>2. ASSUME NEW k \in 1..Len(entries[p]), q0[k].cached, <<p, k>> \notin SA
        PROVE  q0[k].info = At(p, k)
    BY <1>0, <2>2, ReadCoherent
  <2> QED
    BY <2>1, <2>2
<1>4. /\ q1 \in Seq(Entry) /\ Len(q1) = Len(entries[p])
      /\ \A k \in 1..Len(entries[p]) : q1[k] = IF k = i THEN Cached(c) ELSE q0[k]
  <2>1. Cached(c) \in Entry
    BY DEF Cached, Entry
  <2>2. q1 = [q0 EXCEPT ![i] = Cached(c)]
    BY DEF Written
  <2> QED
    BY <1>3, <2>1, <2>2, ExceptSeq
<1>5. /\ SA \in SUBSET (Book \X (1..MaxSlots))
      /\ \A x \in Book, k \in Nat : x # p => (<<x, k>> \in SA <=> <<x, k>> \in suspect)
  BY <1>0, SuspectType
<1>6. i \in 1..MaxSlots /\ i \in Nat /\ i \in 1..Len(entries[p])
  BY <1>3, PhonebookAssumption
<1>7. <<p, i>> \notin SA /\ (n # 0 \/ at = p) => Seen(p, at, i) = At(p, i)
  BY <1>0, <1>1, <1>6, SeenIsThere
<1>8. At(at, i) = mem[at][i]
  BY <1>u DEF At
<1> HIDE DEF q0, q1, SA
<1>9. CASE /\ entries' = [entries EXCEPT ![p] = q1]
           /\ Adjusted(p, n) <= CountBound
           /\ size' = [size EXCEPT ![p] = Adjusted(p, n)]
           /\ suspect' = IF at = p THEN SA \ {<<p, i>>} ELSE SA \cup {<<p, i>>, <<at, i>>}
           /\ miscounted' = IF Uncounted(p, at, S, i, c, n)
                            THEN miscounted \cup {p, at} ELSE miscounted
  <2>1. size' \in [Book -> -1..CountBound]
    <3>1. size[p] \in -1..CountBound
      BY <1>0 DEF BooksOK
    <3>2. Adjusted(p, n) \in -1..CountBound
      BY <1>9, <3>1, PhonebookAssumption DEF Adjusted
    <3> QED
      BY <1>0, <1>9, <3>2 DEF BooksOK
  <2>2. suspect' \in SUBSET (Book \X (1..MaxSlots)) /\ miscounted' \in SUBSET Book
    <3>1. <<p, i>> \in Book \X (1..MaxSlots) /\ <<at, i>> \in Book \X (1..MaxSlots)
      BY <1>0, <1>6
    <3>2. suspect' \in SUBSET (Book \X (1..MaxSlots))
      BY <1>5, <1>9, <3>1
    <3>3. miscounted' \in SUBSET Book
      BY <1>0, <1>9 DEF BooksOK
    <3> QED
      BY <3>2, <3>3
  <2>3. BooksOK'
    BY <1>0, <1>2, <1>3, <1>4, <1>9, <1>u, <2>1, <2>2 DEF BooksOK
  <2>4. ASSUME NEW k \in 1..Len(q1), q1[k].cached, <<p, k>> \notin suspect'
        PROVE  q1[k].info = At(p, k)'
    <3>1. CASE k = i
      <4>1. at = p
        BY <1>9, <2>4, <3>1
      <4> QED
        BY <1>2, <1>4, <1>6, <3>1, <4>1 DEF Cached
    <3>2. CASE k # i
      <4>1. q1[k] = q0[k] /\ k \in Nat /\ k \in 1..Len(entries[p])
        BY <1>4, <2>4, <3>2
      <4>2. <<p, k>> \notin SA
        BY <1>9, <2>4, <3>2
      <4> QED
        BY <1>2, <1>3, <2>4, <3>2, <4>1, <4>2
    <3> QED
      BY <3>1, <3>2
  <2>5. ASSUME NEW x \in Book, NEW k \in Nat, x # p
        PROVE  <<x, k>> \in suspect' \/ (<<x, k>> \notin suspect /\ At(x, k)' = At(x, k))
    BY <1>2, <1>5, <1>9, <2>5
  <2>6. Coherent'
    BY <1>0, <1>4, <1>9, <2>4, <2>5, CoherentStep
  <2>7. SizeExact'
    <3> SUFFICES ASSUME NEW x \in created, x \notin miscounted', size'[x] # -1
                 PROVE  size'[x] = Cardinality(UsedSlots(x)')
      BY <1>u DEF SizeExact
    <3>0. x \in Book
      BY <1>0 DEF BooksOK
    <3>1. IsFiniteSet(UsedSlots(x))
      BY <1>0, <3>0, UsedFinite
    <3>2. x \notin miscounted /\ (Uncounted(p, at, S, i, c, n) => x # p /\ x # at)
      BY <1>9
    <3>3. CASE x # p
      <4>1. x # at
        BY <3>2, <3>3 DEF Uncounted
      <4>2. size'[x] = size[x]
        BY <1>0, <1>9, <3>0, <3>3 DEF BooksOK
      <4> QED
        BY <1>0, <1>2, <3>0, <3>2, <4>1, <4>2 DEF SizeExact
    <3>4. CASE x = p
      <4>1. /\ at = p /\ <<p, i>> \notin SA
            /\ ~(n = 1 /\ c = Empty)
            /\ ~(n = 0 /\ (c = Empty) # (Seen(p, at, i) = Empty))
        BY <3>2, <3>4 DEF Uncounted, SA
      <4>2. Seen(p, at, i) = mem[p][i]
        BY <1>7, <1>8, <4>1
      <4>3. size'[p] = Adjusted(p, n) /\ size[p] \in Int
        BY <1>0, <1>9 DEF BooksOK
      <4>4. size[p] # -1 /\ size'[p] = size[p] + n
        BY <3>4, <4>3 DEF Adjusted
      <4>5. size[p] = Cardinality(UsedSlots(p))
        BY <1>0, <3>2, <3>4, <4>4 DEF SizeExact
      <4>6. i \in UsedSlots(p) <=> mem[p][i] # Empty
        BY <1>u, <4>1 DEF UsedSlots
      <4>7. UsedSlots(p)' = IF c = Empty THEN UsedSlots(p) \ {i} ELSE UsedSlots(p) \cup {i}
        BY <1>2, <4>1
      <4>8. /\ Cardinality(UsedSlots(p) \ {i}) =
                 IF i \in UsedSlots(p) THEN Cardinality(UsedSlots(p)) - 1
                 ELSE Cardinality(UsedSlots(p))
            /\ Cardinality(UsedSlots(p) \cup {i}) =
                 IF i \in UsedSlots(p) THEN Cardinality(UsedSlots(p))
                 ELSE Cardinality(UsedSlots(p)) + 1
        BY <3>1, <3>4, FS_AddElement, FS_RemoveElement
      <4>9. n = 1 => Seen(p, at, i) = Empty
        BY <1>1
      <4>10. n = -1 => c = Empty /\ Seen(p, at, i) # Empty
        BY <1>1
      <4>12. CASE n = 0
        <5>1. c = Empty <=> i \notin UsedSlots(p)
          BY <4>1, <4>2, <4>6, <4>12
        <5>2. Cardinality(UsedSlots(p)') = Cardinality(UsedSlots(p))
          BY <4>7, <4>8, <5>1
        <5> QED
          BY <3>4, <4>4, <4>5, <4>3, <4>12, <5>2
      <4>13. CASE n = 1
        BY <3>4, <4>1, <4>2, <4>4, <4>5, <4>6, <4>7, <4>8, <4>9, <4>13
      <4>14. CASE n = -1
        BY <3>4, <4>2, <4>4, <4>5, <4>6, <4>7, <4>8, <4>10, <4>14, <4>3
      <4> QED
        BY <4>12, <4>13, <4>14
    <3> QED
      BY <3>3, <3>4
  <2> QED
    BY <2>3, <2>6, <2>7 DEF Books
<1>10. CASE /\ entries' = [entries EXCEPT ![p] = q0]
            /\ suspect' = SA \cup {<<at, i>>}
            /\ miscounted' = miscounted \cup {at}
            /\ size' = size
  <2>1. <<at, i>> \in Book \X (1..MaxSlots)
    BY <1>6
  <2>2. BooksOK'
    BY <1>0, <1>2, <1>3, <1>5, <1>10, <1>u, <2>1 DEF BooksOK
  <2>3. ASSUME NEW k \in 1..Len(q0), q0[k].cached, <<p, k>> \notin suspect'
        PROVE  q0[k].info = At(p, k)'
    <3>1. k \in 1..Len(entries[p]) /\ k \in Nat /\ <<p, k>> \notin SA /\ ~(p = at /\ k = i)
      BY <1>3, <1>10, <2>3
    <3> QED
      BY <1>2, <1>3, <2>3, <3>1
  <2>4. ASSUME NEW x \in Book, NEW k \in Nat, x # p
        PROVE  <<x, k>> \in suspect' \/ (<<x, k>> \notin suspect /\ At(x, k)' = At(x, k))
    BY <1>2, <1>5, <1>10, <2>4
  <2>5. Coherent'
    BY <1>0, <1>3, <1>10, <2>3, <2>4, CoherentStep
  <2>6. SizeExact'
    BY <1>0, <1>2, <1>10, <1>u DEF SizeExact, BooksOK
  <2> QED
    BY <2>2, <2>5, <2>6 DEF Books
<1> QED
  BY <1>9, <1>10, <1>u

\* The end of a write, or of a command that failed: the answers lost so far.
LEMMA FaultsStep ==
  ASSUME faults \in 0..FaultBound, NEW p, NEW r, Result(r), NEW S,
         \/ Aborts(p, S, r)
         \/ \E i, c, n : Writes(p, S, i, c, n, r)
         \/ faults' = faults
  PROVE  faults' \in 0..FaultBound
<1>1. CASE Aborts(p, S, r)
  BY <1>1 DEF Aborts, Result
<1>2. CASE \E i, c, n : Writes(p, S, i, c, n, r)
  <2>1. faults' = faults \/ (FaultLeft /\ faults' = faults + 1)
    BY <1>2 DEF Writes
  <2> QED
    BY <2>1, PhonebookAssumption DEF FaultLeft
<1> QED
  BY <1>1, <1>2

LEMMA AbortsStep ==
  ASSUME Books, NEW p \in Book, NEW r, Result(r), NEW S, S \subseteq Place(p), Aborts(p, S, r)
  PROVE  Books'
<1>1. /\ r.at \in Book /\ (IF r.ok THEN S ELSE {}) \subseteq Place(p)
      /\ Looks(p, r.at, IF r.ok THEN S ELSE {})
      /\ UNCHANGED <<slots, mem, created, useCache, size, miscounted>>
  BY DEF Aborts, Result
<1> QED
  BY <1>1, LooksStep

\* An operation that looked at every entry counts them.
LEMMA CountStep ==
  ASSUME Books, NEW p \in Book, NEW at \in Book, Looks(p, at, Place(p)),
         size' = [size EXCEPT ![p] = Cardinality({i \in Place(p) : Seen(p, at, i) # Empty})],
         miscounted' = IF Misshapen(p) \/ \E i \in Place(p) :
                              <<p, i>> \in SuspectAfter(p, at, Place(p))
                       THEN miscounted \cup {p} ELSE miscounted \ {p},
         UNCHANGED <<slots, mem, created, useCache>>
  PROVE  Books'
<1> DEFINE C == {i \in Place(p) : Seen(p, at, i) # Empty}
<1>0. BooksOK /\ Coherent /\ SizeExact
  BY DEF Books
<1>1. /\ Coherent'
      /\ entries' \in [Book -> Seq(Entry)] /\ \A x \in Book : Len(entries'[x]) = Len(entries[x])
      /\ suspect' \in SUBSET (Book \X (1..MaxSlots))
  BY <1>0, LooksCoherent
<1>2. Place(p) = 1..Len(entries[p]) /\ Len(entries[p]) \in 0..MaxSlots
  BY <1>0, ReadEntries
<1>3. Cardinality(C) \in -1..CountBound
  <2>1. IsFiniteSet(1..Len(entries[p])) /\ Cardinality(1..Len(entries[p])) = Len(entries[p])
    BY <1>2, FS_Interval
  <2>2. C \in SUBSET (1..Len(entries[p]))
    BY <1>2
  <2>3. IsFiniteSet(C) /\ Cardinality(C) <= Len(entries[p])
    BY <2>1, <2>2, FS_Subset
  <2>4. Cardinality(C) \in Nat
    BY <2>3, FS_CardinalityType
  <2> QED
    BY <1>2, <2>3, <2>4, PhonebookAssumption
<1>4. BooksOK'
  BY <1>0, <1>1, <1>3 DEF BooksOK
<1>5. SizeExact'
  <2> SUFFICES ASSUME NEW x \in created, x \notin miscounted', size'[x] # -1
               PROVE  size'[x] = Cardinality(UsedSlots(x)')
    BY DEF SizeExact
  <2>1. x \in Book /\ UsedSlots(x)' = UsedSlots(x)
    BY <1>0 DEF BooksOK, UsedSlots, Slot
  <2>2. CASE x # p
    BY <1>0, <2>1, <2>2 DEF SizeExact, BooksOK
  <2>3. CASE x = p
    <3>1. ~Misshapen(p) /\ \A i \in Place(p) : <<p, i>> \notin SuspectAfter(p, at, Place(p))
      BY <2>3
    <3>2. Place(p) = Slot(p)
      BY <1>2, <3>1 DEF Misshapen, Slot
    <3>3. ASSUME NEW i \in Place(p) PROVE Seen(p, at, i) = mem[p][i]
      <4>1. Seen(p, at, i) = At(p, i)
        BY <1>0, <1>2, <3>1, SeenIsThere
      <4> QED
        BY <3>2, <4>1 DEF At
    <3>4. C = UsedSlots(p)
      BY <3>2, <3>3 DEF UsedSlots
    <3>5. size'[p] = Cardinality(C)
      BY <1>0 DEF BooksOK
    <3> QED
      BY <2>1, <2>3, <3>4, <3>5
  <2> QED
    BY <2>2, <2>3
<1> QED
  BY <1>1, <1>4, <1>5 DEF Books

\* An object is created, with the entries that were listed.
LEMMA CreateStep ==
  ASSUME Books, NEW p \in Book, NEW at \in Book, NEW counts \in BOOLEAN, NEW S \in SUBSET Slot(at),
         created' = created \cup {p},
         size' = [size EXCEPT ![p] = IF counts THEN Cardinality(UsedSlots(at)) ELSE -1],
         entries' = [entries EXCEPT ![p] = [i \in Slot(at) |->
                       IF i \in S THEN Cached(mem[at][i]) ELSE NewEntry]],
         suspect' = IF at = p THEN suspect ELSE suspect \cup {<<p, i>> : i \in S},
         miscounted' = IF at # p THEN miscounted \cup {p} ELSE miscounted \ {p},
         UNCHANGED <<slots, mem, useCache>>
  PROVE  Books'
<1> DEFINE q == [i \in 1..slots[at] |-> IF i \in S THEN Cached(mem[at][i]) ELSE NewEntry]
<1>0. BooksOK /\ Coherent /\ SizeExact
  BY DEF Books
<1>1. /\ slots[at] \in Nat /\ slots[at] <= MaxSlots
      /\ mem[at] \in Seq(Info) /\ Len(mem[at]) = slots[at]
  BY <1>0, PhonebookAssumption DEF BooksOK
<1>2. q \in Seq(Entry)
  <2>1. ASSUME NEW i \in 1..slots[at]
        PROVE  (IF i \in S THEN Cached(mem[at][i]) ELSE NewEntry) \in Entry
    <3>1. mem[at][i] \in Info
      BY <1>1, ElementOfSeq
    <3> QED
      BY <3>1 DEF Cached, NewEntry, Entry, Info
  <2> QED
    BY <1>1, <2>1, IsASeq
<1>3. Len(q) = slots[at]
  BY <1>1
<1>4. entries' = [entries EXCEPT ![p] = q]
  BY DEF Slot
<1>5. suspect' \in SUBSET (Book \X (1..MaxSlots)) /\ miscounted' \in SUBSET Book
  <2>1. S \subseteq 1..MaxSlots
    BY <1>1, PhonebookAssumption DEF Slot
  <2>2. suspect \in SUBSET (Book \X (1..MaxSlots)) /\ miscounted \in SUBSET Book
    BY <1>0 DEF BooksOK
  <2>3. {<<p, i>> : i \in S} \subseteq Book \X (1..MaxSlots)
    BY <2>1
  <2>4. suspect' \in SUBSET (Book \X (1..MaxSlots))
    BY <2>2, <2>3
  <2>5. miscounted' \in SUBSET Book
    BY <2>2
  <2> QED
    BY <2>4, <2>5
<1>6. size' \in [Book -> -1..CountBound]
  <2>1. Cardinality(UsedSlots(at)) \in 0..MaxSlots
    BY <1>0, UsedFinite
  <2> QED
    BY <1>0, <2>1, PhonebookAssumption DEF BooksOK
<1>7. \A x \in Book, i \in Nat : At(x, i)' = At(x, i)
  BY DEF At, Slot
<1>8. ASSUME NEW i \in 1..Len(q), q[i].cached, <<p, i>> \notin suspect'
      PROVE  q[i].info = At(p, i)'
  <2>1. i \in 1..slots[at] /\ i \in S
    BY <1>3, <1>8 DEF NewEntry
  <2>2. at = p
    BY <1>8, <2>1
  <2> QED
    BY <1>7, <2>1, <2>2 DEF Cached, At, Slot
<1> HIDE DEF q
<1>9. Coherent'
  <2>1. \A x \in Book, i \in Nat :
          x # p => <<x, i>> \in suspect' \/ (<<x, i>> \notin suspect /\ At(x, i)' = At(x, i))
    BY <1>7
  <2> QED
    BY <1>0, <1>2, <1>4, <1>8, <2>1, CoherentStep
<1>10. BooksOK'
  BY <1>0, <1>1, <1>2, <1>3, <1>4, <1>5, <1>6 DEF BooksOK
<1>11. SizeExact'
  <2> SUFFICES ASSUME NEW x \in created', x \notin miscounted', size'[x] # -1
               PROVE  size'[x] = Cardinality(UsedSlots(x)')
    BY DEF SizeExact
  <2>1. x \in Book /\ UsedSlots(x)' = UsedSlots(x)
    BY <1>0 DEF BooksOK, UsedSlots, Slot
  <2>2. CASE x # p
    BY <1>0, <2>1, <2>2 DEF SizeExact, BooksOK
  <2>3. CASE x = p
    BY <1>0, <2>1, <2>3 DEF BooksOK
  <2> QED
    BY <2>2, <2>3
<1> QED
  BY <1>9, <1>10, <1>11 DEF Books

\* find() with caching off gives an entry the text that was searched.
LEMMA RenameStep ==
  ASSUME Books, NEW p \in Book, NEW at \in Book, NEW t \in Text, NEW i \in Place(p),
         i \in UsedSlots(at),
         entries' = [entries EXCEPT ![p] = [Read(p, at, Place(p)) EXCEPT
                       ![i] = Cached([text |-> t, telephone |-> mem[at][i].telephone])]],
         suspect' = SuspectAfter(p, at, Place(p)) \cup {<<p, i>>},
         UNCHANGED <<slots, mem, created, useCache, size, miscounted>>
  PROVE  Books'
<1> DEFINE e  == Cached([text |-> t, telephone |-> mem[at][i].telephone])
           q0 == Read(p, at, Place(p))
           q  == [q0 EXCEPT ![i] = e]
           SA == SuspectAfter(p, at, Place(p))
<1>0. BooksOK /\ Coherent /\ SizeExact
  BY DEF Books
<1>1. q0 \in Seq(Entry) /\ Len(q0) = Len(entries[p]) /\ Len(entries[p]) \in 0..MaxSlots
      /\ Place(p) = 1..Len(entries[p])
  BY <1>0, ReadEntries
<1>2. \A k \in 1..Len(entries[p]) : q0[k].cached /\ <<p, k>> \notin SA => q0[k].info = At(p, k)
  BY <1>0, ReadCoherent
<1>3. e \in Entry
  <2>1. mem[at] \in Seq(Info) /\ Len(mem[at]) = slots[at] /\ i \in 1..slots[at] /\ mem[at][i] # Empty
    BY <1>0 DEF BooksOK, UsedSlots, Slot
  <2>2. mem[at][i] \in Used
    BY <2>1, ElementOfSeq DEF Info
  <2> QED
    BY <2>2 DEF Used, Info, Cached, Entry
<1>4. /\ SA \in SUBSET (Book \X (1..MaxSlots))
      /\ \A x \in Book, k \in Nat : x # p => (<<x, k>> \in SA <=> <<x, k>> \in suspect)
  BY <1>0, SuspectType
<1>5. entries' = [entries EXCEPT ![p] = q] /\ suspect' = SA \cup {<<p, i>>}
  OBVIOUS
<1> HIDE DEF e, q0, SA
<1>6. /\ q \in Seq(Entry) /\ Len(q) = Len(entries[p])
      /\ \A k \in 1..Len(entries[p]) : q[k] = IF k = i THEN e ELSE q0[k]
  BY <1>1, <1>3, ExceptSeq
<1> HIDE DEF q
<1>7. \A x \in Book, k \in Nat : At(x, k)' = At(x, k)
  BY DEF At, Slot
<1>8. ASSUME NEW k \in 1..Len(q), q[k].cached, <<p, k>> \notin suspect'
      PROVE  q[k].info = At(p, k)'
  BY <1>1, <1>2, <1>5, <1>6, <1>7, <1>8
<1>9. Coherent'
  <2>1. \A x \in Book, k \in Nat :
          x # p => <<x, k>> \in suspect' \/ (<<x, k>> \notin suspect /\ At(x, k)' = At(x, k))
    BY <1>4, <1>5, <1>7
  <2> QED
    BY <1>0, <1>5, <1>6, <1>8, <2>1, CoherentStep
<1>10. suspect' \in SUBSET (Book \X (1..MaxSlots))
  BY <1>1, <1>4, <1>5, PhonebookAssumption
<1>11. BooksOK'
  BY <1>0, <1>1, <1>5, <1>6, <1>10 DEF BooksOK
<1>12. SizeExact'
  BY <1>0 DEF SizeExact, UsedSlots, Slot
<1> QED
  BY <1>9, <1>11, <1>12 DEF Books

\* The user of the ME changes an entry.
LEMMA MEStep ==
  ASSUME Books, NEW p \in Book, NEW i \in Slot(p), NEW c \in Info,
         NEW m, m = [mem[p] EXCEPT ![i] = c], mem' = [mem EXCEPT ![p] = m],
         suspect' = suspect \cup {<<p, i>>}, miscounted' = miscounted \cup {p},
         UNCHANGED <<slots, created, useCache, size, entries>>
  PROVE  Books'
<1>0. BooksOK /\ Coherent /\ SizeExact
  BY DEF Books
<1>2. DOMAIN mem[p] = 1..slots[p] /\ slots[p] \in Nat /\ slots[p] <= MaxSlots
  BY <1>0, LenProperties, PhonebookAssumption DEF BooksOK
<1>3. /\ mem' \in [Book -> Seq(Info)] /\ \A x \in Book : Len(mem'[x]) = slots[x]
      /\ \A x \in Book : x # p => mem'[x] = mem[x]
      /\ mem'[p] = m
  BY <1>0, MemWritten
<1>4. \A k \in 1..slots[p] : k # i => m[k] = mem[p][k]
  BY <1>2
<1>5. ASSUME NEW x \in Book, NEW k \in 1..Len(entries[x]), <<x, k>> \notin suspect'
      PROVE  At(x, k)' = At(x, k)
  BY <1>3, <1>4, <1>5 DEF At, Slot
<1>6. Coherent'
  BY <1>0, <1>5 DEF Coherent
<1>7. suspect' \in SUBSET (Book \X (1..MaxSlots)) /\ miscounted' \in SUBSET Book
  <2>1. i \in 1..MaxSlots
    BY <1>2, PhonebookAssumption DEF Slot
  <2> QED
    BY <1>0, <2>1 DEF BooksOK
<1>8. BooksOK'
  BY <1>0, <1>3, <1>7 DEF BooksOK
<1>9. SizeExact'
  <2> SUFFICES ASSUME NEW x \in created, x \notin miscounted', size[x] # -1
               PROVE  size[x] = Cardinality(UsedSlots(x)')
    BY DEF SizeExact
  <2>1. x # p /\ x \in Book /\ x \notin miscounted
    BY <1>0 DEF BooksOK
  <2>2. UsedSlots(x)' = UsedSlots(x)
    BY <1>3, <2>1 DEF UsedSlots, Slot
  <2> QED
    BY <1>0, <2>1, <2>2 DEF SizeExact
<1> QED
  BY <1>6, <1>8, <1>9 DEF Books

-----------------------------------------------------------------------------
LEMMA InvInit == Init => Inv /\ FoundIfThere
<1> SUFFICES ASSUME Init PROVE Inv /\ FoundIfThere
  OBVIOUS
<1>1. SelectionOK
  BY DEF Init, SelectionOK, SelectionRemembered
<1>2. slots \in [Book -> 0..MaxSlots] /\ slots \in Shapes
  BY PhonebookAssumption DEF Init
<1>3. mem \in [Book -> Seq(Info)] /\ \A p \in Book : Len(mem[p]) = slots[p]
  <2>1. /\ mem \in [Book -> UNION {[1..n -> Info] : n \in 0..MaxSlots}]
        /\ \A p \in Book : DOMAIN mem[p] = 1..slots[p]
    BY DEF Init, Slot
  <2>2. ASSUME NEW p \in Book PROVE mem[p] \in Seq(Info) /\ Len(mem[p]) = slots[p]
    <3>1. PICK n \in 0..MaxSlots : mem[p] \in [1..n -> Info]
      BY <2>1
    <3>2. n \in Nat
      BY PhonebookAssumption
    <3>3. mem[p] \in Seq(Info)
      BY <3>1, <3>2, SeqDef
    <3>4. slots[p] \in Nat
      BY <1>2, PhonebookAssumption
    <3>5. DOMAIN mem[p] = 1..Len(mem[p]) /\ Len(mem[p]) \in Nat
      BY <3>3, LenProperties
    <3> QED
      BY <2>1, <3>3, <3>4, <3>5
  <2> QED
    BY <2>1, <2>2
<1>4. BooksOK
  <2>1. /\ created = {} /\ useCache \in [Book -> BOOLEAN]
        /\ size \in [Book -> -1..CountBound]
        /\ suspect = {} /\ miscounted = {}
    BY PhonebookAssumption DEF Init
  <2>2. entries \in [Book -> Seq(Entry)] /\ \A p \in Book : Len(entries[p]) <= MaxSlots
    BY PhonebookAssumption DEF Init
  <2> QED
    BY <1>2, <1>3, <2>1, <2>2 DEF BooksOK
<1>5. Coherent /\ SizeExact
  BY DEF Init, Coherent, SizeExact
<1>6. FoundType /\ faults \in 0..FaultBound /\ FoundIfThere
  BY PhonebookAssumption DEF Init, FoundType, NothingFound, FoundIfThere
<1> QED
  BY <1>1, <1>4, <1>5, <1>6 DEF Inv, Books

LEMMA NothingFoundStep ==
  ASSUME FindsNothing
  PROVE  FoundType' /\ FoundIfThere'
  BY PhonebookAssumption DEF FindsNothing, NothingFound, FoundType, FoundIfThere

\* What find() does.
LEMMA FindStep ==
  ASSUME Inv, NEW p \in Book, NEW t \in Text, Find(p, t)
  PROVE  Inv' /\ FoundIfThere'
<1>0. SelectionOK /\ Books /\ BooksOK /\ Coherent /\ faults \in 0..FaultBound
  BY DEF Inv, Books
<1> DEFINE hits(at)    == {i \in Place(p) : Seen(p, at, i).text = t}
           matches(at) == {i \in UsedSlots(at) : <<t, mem[at][i].text>> \in Matches}
<1>1. PICK r \in SetPhonebook(p) \cup {Skipped} :
        /\ Select(r)
        /\ \/ /\ hits(r.at) # {} /\ Looks(p, r.at, 1..Min(hits(r.at)))
              /\ Finds(p, t, Min(hits(r.at))) /\ NothingElse
           \/ /\ hits(r.at) = {} /\ Looks(p, r.at, Place(p))
              /\ Finds(p, t, 0) /\ NothingElse
           \/ Looks(p, r.at, Place(p)) /\ FindsNothing /\ NothingElse
           \/ \E i \in matches(r.at) \cap Place(p) :
                /\ entries' = [entries EXCEPT ![p] = [Read(p, r.at, Place(p)) EXCEPT
                                 ![i] = Cached([text |-> t, telephone |-> mem[r.at][i].telephone])]]
                /\ suspect' = SuspectAfter(p, r.at, Place(p)) \cup {<<p, i>>}
                /\ Finds(p, t, i) /\ NothingElse
           \/ \E n \in 0..Len(entries[p]) : Aborts(p, 1..n, r) /\ FindsNothing
  BY DEF Find
<1>2. Result(r)
  BY <1>0, <1>1, SetPhonebookResult, SkippedResult
<1>3. SelectionOK'
  BY <1>1, <1>2, SelectStep
<1>4. PICK at \in Book : at = r.at
  BY <1>2 DEF Result
<1>5. Place(p) = 1..Len(entries[p]) /\ Len(entries[p]) \in 0..MaxSlots
  BY <1>0, ReadEntries
<1> DEFINE Done == Books' /\ FoundType' /\ faults' \in 0..FaultBound /\ FoundIfThere'
<1>6. ASSUME hits(at) # {}, Looks(p, at, 1..Min(hits(at))),
             Finds(p, t, Min(hits(at))), NothingElse
      PROVE  Done
  <2> DEFINE k == Min(hits(at))
  <2>1. k \in hits(at)
    <3>1. hits(at) \in SUBSET Nat
      BY <1>5
    <3> QED
      BY <1>6, <3>1, MinNat
  <2> HIDE DEF k
  <2>2. k \in 1..Len(entries[p]) /\ Seen(p, at, k).text = t
    BY <1>5, <2>1
  <2>3. Looks(p, at, 1..k) /\ 1..k \subseteq Place(p) /\ found' = [by |-> p, text |-> t, slot |-> k]
    <3>1. 1..k \subseteq Place(p)
      BY <1>5, <2>2
    <3> QED
      BY <1>6, <3>1 DEF k, Finds
  <2>4. UNCHANGED <<slots, mem, created, useCache, size, miscounted, faults>>
    BY <1>6 DEF NothingElse
  <2>5. Books'
    BY <1>0, <2>3, <2>4, LooksStep
  <2>6. FoundType'
    <3>1. k \in 0..MaxSlots
      BY <1>5, <2>2, PhonebookAssumption
    <3> QED
      BY <2>3, <3>1 DEF FoundType
  <2>7. suspect' = SuspectAfter(p, at, 1..k) /\ Len(entries'[p]) = Len(entries[p])
    BY <1>0, <2>3, <2>4, LooksCoherent
  <2>8. ASSUME <<p, k>> \notin suspect', Len(entries'[p]) = slots'[p]
        PROVE  mem'[p][k].text = t
    <3>1. Seen(p, at, k) = At(p, k)
      <4>1. k \in 1..k
        BY <2>2
      <4> QED
        BY <1>0, <2>2, <2>7, <2>8, <4>1, SeenIsThere
    <3>2. k \in Slot(p)
      BY <2>2, <2>4, <2>7, <2>8 DEF Slot
    <3> QED
      BY <2>2, <2>4, <3>1, <3>2 DEF At
  <2>9. FoundIfThere'
    <3> SUFFICES ASSUME p \notin {e[1] : e \in suspect'}, ~Misshapen(p)'
                 PROVE  mem'[p][k].text = t
      BY <2>2, <2>3 DEF FoundIfThere
    <3>1. <<p, k>> \notin suspect'
      OBVIOUS
    <3> QED
      BY <2>8, <3>1 DEF Misshapen
  <2> QED
    BY <1>0, <2>4, <2>5, <2>6, <2>9
<1>7. ASSUME hits(at) = {}, Looks(p, at, Place(p)), Finds(p, t, 0), NothingElse
      PROVE  Done
  <2>1. UNCHANGED <<slots, mem, created, useCache, size, miscounted, faults>>
        /\ found' = [by |-> p, text |-> t, slot |-> 0]
    BY <1>7 DEF NothingElse, Finds
  <2>2. Books'
    BY <1>0, <1>7, <2>1, LooksStep
  <2>3. FoundType'
    BY <2>1, PhonebookAssumption DEF FoundType
  <2>4. suspect' = SuspectAfter(p, at, Place(p)) /\ Len(entries'[p]) = Len(entries[p])
    BY <1>0, <1>7, <2>1, LooksCoherent
  <2>5. FoundIfThere'
    <3> SUFFICES ASSUME p \notin {e[1] : e \in suspect'}, ~Misshapen(p)',
                        NEW i \in Slot(p)'
                 PROVE  mem'[p][i].text # t
      BY <2>1 DEF FoundIfThere
    <3>1. i \in 1..Len(entries[p]) /\ i \in Slot(p)
      BY <2>1, <2>4 DEF Misshapen, Slot
    <3>2. <<p, i>> \notin SuspectAfter(p, at, Place(p))
      BY <2>4
    <3>3. Seen(p, at, i) = At(p, i)
      BY <1>0, <1>5, <3>1, <3>2, SeenIsThere
    <3> QED
      BY <1>5, <1>7, <2>1, <3>1, <3>3 DEF At
  <2> QED
    BY <1>0, <2>1, <2>2, <2>3, <2>5
<1>8. ASSUME Looks(p, at, Place(p)), FindsNothing, NothingElse
      PROVE  Done
  BY <1>0, <1>8, LooksStep, NothingFoundStep DEF NothingElse
<1>9. ASSUME NEW i \in matches(at) \cap Place(p),
             entries' = [entries EXCEPT ![p] = [Read(p, at, Place(p)) EXCEPT
                           ![i] = Cached([text |-> t, telephone |-> mem[at][i].telephone])]],
             suspect' = SuspectAfter(p, at, Place(p)) \cup {<<p, i>>},
             Finds(p, t, i), NothingElse
      PROVE  Done
  <2>1. UNCHANGED <<slots, mem, created, useCache, size, miscounted, faults>>
        /\ found' = [by |-> p, text |-> t, slot |-> i]
    BY <1>9 DEF NothingElse, Finds
  <2>2. Books'
    BY <1>0, <1>9, <2>1, RenameStep
  <2>3. i \in 1..MaxSlots
    BY <1>5, <1>9, PhonebookAssumption
  <2>4. FoundType'
    BY <2>1, <2>3 DEF FoundType
  <2>5. p \in {e[1] : e \in suspect'}
    <3>1. <<p, i>> \in suspect' /\ <<p, i>>[1] = p
      BY <1>9
    <3> QED
      BY <3>1
  <2>6. FoundIfThere'
    BY <2>1, <2>5 DEF FoundIfThere
  <2> QED
    BY <1>0, <2>1, <2>2, <2>4, <2>6
<1>10. ASSUME NEW n \in 0..Len(entries[p]), Aborts(p, 1..n, r), FindsNothing
       PROVE  Done
  <2>1. 1..n \subseteq Place(p)
    BY <1>5
  <2> QED
    BY <1>0, <1>2, <1>10, <2>1, AbortsStep, FaultsStep, NothingFoundStep
<1>11. Done
  BY <1>1, <1>4, <1>6, <1>7, <1>8, <1>9, <1>10
<1> QED
  BY <1>3, <1>11 DEF Inv

\* What the other operations do: one of the steps above, and nothing found.
Does(p, r) ==
  \/ \E S \in SUBSET Place(p) : Looks(p, r.at, S) /\ NothingElse
  \/ \E S \in SUBSET Place(p) : Aborts(p, S, r)
  \/ \E S \in SUBSET Place(p), i \in Place(p), c \in Info, n \in {-1, 0, 1} :
       /\ n # 0 => i \in S
       /\ n = 1 => Seen(p, r.at, i) = Empty
       /\ n = -1 => c = Empty /\ Seen(p, r.at, i) # Empty
       /\ Writes(p, S, i, c, n, r)

LEMMA DoesStep ==
  ASSUME Inv, NEW p \in Book, NEW r \in SetPhonebook(p) \cup {Skipped}, Select(r), Does(p, r),
         FindsNothing
  PROVE  Inv' /\ FoundIfThere'
<1>0. SelectionOK /\ Books /\ faults \in 0..FaultBound
  BY DEF Inv
<1>1. Result(r)
  BY <1>0, SetPhonebookResult, SkippedResult
<1>2. r.at \in Book
  BY <1>1 DEF Result
<1>3. SelectionOK'
  BY <1>1, SelectStep
<1>4. CASE \E S \in SUBSET Place(p) : Looks(p, r.at, S) /\ NothingElse
  BY <1>0, <1>2, <1>3, <1>4, LooksStep, NothingFoundStep DEF Inv, NothingElse
<1>5. CASE \E S \in SUBSET Place(p) : Aborts(p, S, r)
  BY <1>0, <1>1, <1>3, <1>5, AbortsStep, FaultsStep, NothingFoundStep DEF Inv
<1>6. ASSUME NEW S \in SUBSET Place(p), NEW i \in Place(p), NEW c \in Info, NEW n \in {-1, 0, 1},
             n # 0 => i \in S, n = 1 => Seen(p, r.at, i) = Empty,
             n = -1 => c = Empty /\ Seen(p, r.at, i) # Empty,
             Writes(p, S, i, c, n, r)
      PROVE  Inv' /\ FoundIfThere'
  <2>1. Books'
    BY <1>0, <1>2, <1>6, WritesStep
  <2>2. faults' \in 0..FaultBound
    BY <1>0, <1>1, <1>6, FaultsStep
  <2> QED
    BY <1>3, <2>1, <2>2, NothingFoundStep DEF Inv
<1> QED
  BY <1>4, <1>5, <1>6 DEF Does

LEMMA ReachResult ==
  ASSUME NEW p, NEW S
  PROVE  Reach(p, S) \subseteq SetPhonebook(p) \cup {Skipped}
  BY DEF Reach

\* The operations that write, or abort, as such steps.
Writers(p) ==
  \/ \E c \in Info : InsertFirstEmpty(p, c)
  \/ \E i \in 1..MaxSlots : ReadEntry(p, i) \/ Erase(p, i)
  \/ \E i \in 1..MaxSlots, c \in Info : SetEntry(p, i, c) \/ Insert(p, i, c)

LEMMA WritersDo ==
  ASSUME Inv, NEW p \in Book, Writers(p)
  PROVE  /\ FindsNothing
         /\ \E r \in SetPhonebook(p) \cup {Skipped} : Select(r) /\ Does(p, r)
<1>0. Place(p) = 1..Len(entries[p]) /\ Len(entries[p]) \in 0..MaxSlots /\ Empty \in Info
  BY ReadEntries DEF Inv, Books, Info
<1>1. ASSUME NEW i \in 1..MaxSlots, ReadEntry(p, i)
      PROVE  \E r \in SetPhonebook(p) \cup {Skipped} : Select(r) /\ Does(p, r)
  <2>1. PICK r \in Reach(p, {i}) :
          /\ Select(r)
          /\ (Looks(p, r.at, {i}) /\ NothingElse) \/ Aborts(p, {}, r)
    BY <1>1 DEF ReadEntry
  <2>2. {i} \in SUBSET Place(p) /\ {} \in SUBSET Place(p)
    BY <1>1 DEF ReadEntry
  <2>3. Does(p, r)
    BY <2>1, <2>2 DEF Does
  <2> QED
    BY <2>1, <2>3, ReachResult
<1>2. ASSUME NEW i \in 1..MaxSlots, NEW c \in Info, SetEntry(p, i, c)
      PROVE  \E r \in SetPhonebook(p) \cup {Skipped} : Select(r) /\ Does(p, r)
  <2>1. PICK r \in SetPhonebook(p) :
          Select(r) /\ (Writes(p, {}, i, c, 0, r) \/ Aborts(p, {}, r))
    BY <1>2 DEF SetEntry
  <2>2. {} \in SUBSET Place(p) /\ i \in Place(p) /\ 0 \in {-1, 0, 1}
    BY <1>2 DEF SetEntry
  <2>3. Does(p, r)
    BY <2>1, <2>2 DEF Does
  <2> QED
    BY <2>1, <2>3
<1>3. ASSUME NEW i \in 1..MaxSlots, NEW c \in Info, Insert(p, i, c)
      PROVE  \E r \in SetPhonebook(p) \cup {Skipped} : Select(r) /\ Does(p, r)
  <2>1. PICK r \in SetPhonebook(p) \cup {Skipped} :
          /\ Select(r)
          /\ \/ Seen(p, r.at, i) = Empty /\ Writes(p, {i}, i, c, 1, r)
             \/ \E S \in SUBSET {i} : Aborts(p, S, r)
             \/ Looks(p, r.at, {i}) /\ NothingElse
    BY <1>3 DEF Insert
  <2>2. i \in Place(p) /\ \A S \in SUBSET {i} : S \in SUBSET Place(p)
    BY <1>3 DEF Insert
  <2>3. {i} \in SUBSET Place(p) /\ 1 \in {-1, 0, 1} /\ i \in {i}
    BY <2>2
  <2>4. Does(p, r)
    BY <2>1, <2>2, <2>3 DEF Does
  <2> QED
    BY <2>1, <2>4
<1>4. ASSUME NEW i \in 1..MaxSlots, Erase(p, i)
      PROVE  \E r \in SetPhonebook(p) \cup {Skipped} : Select(r) /\ Does(p, r)
  <2>1. PICK r \in SetPhonebook(p) \cup {Skipped} :
          /\ Select(r)
          /\ \/ Seen(p, r.at, i) # Empty /\ Writes(p, {i}, i, Empty, -1, r)
             \/ \E S \in SUBSET {i} : Aborts(p, S, r)
             \/ Looks(p, r.at, {i}) /\ NothingElse
    BY <1>4 DEF Erase
  <2>2. i \in Place(p) /\ \A S \in SUBSET {i} : S \in SUBSET Place(p)
    BY <1>4 DEF Erase
  <2>3. {i} \in SUBSET Place(p) /\ -1 \in {-1, 0, 1} /\ i \in {i} /\ -1 # 1
    BY <2>2
  <2>4. Does(p, r)
    BY <1>0, <2>1, <2>2, <2>3 DEF Does
  <2> QED
    BY <2>1, <2>4
<1>5. ASSUME NEW c \in Info, InsertFirstEmpty(p, c)
      PROVE  \E r \in SetPhonebook(p) \cup {Skipped} : Select(r) /\ Does(p, r)
  <2> DEFINE free(at) == {i \in Place(p) : Seen(p, at, i) = Empty}
  <2>1. PICK r \in SetPhonebook(p) \cup {Skipped} :
          /\ Select(r)
          /\ \/ free(r.at) # {} /\ Writes(p, 1..Min(free(r.at)), Min(free(r.at)), c, 1, r)
             \/ \E n \in 0..Len(entries[p]) : Aborts(p, 1..n, r)
             \/ Looks(p, r.at, Place(p)) /\ NothingElse
    BY <1>5 DEF InsertFirstEmpty
  <2>2. CASE free(r.at) # {} /\ Writes(p, 1..Min(free(r.at)), Min(free(r.at)), c, 1, r)
    <3> DEFINE k == Min(free(r.at))
    <3>1. free(r.at) \in SUBSET Nat
      BY <1>0
    <3>2. k \in free(r.at)
      BY <2>2, <3>1, MinNat
    <3>3. Writes(p, 1..k, k, c, 1, r)
      BY <2>2
    <3> HIDE DEF k
    <3>4. k \in Place(p) /\ Seen(p, r.at, k) = Empty /\ 1..k \in SUBSET Place(p)
          /\ k \in 1..k /\ 1 \in {-1, 0, 1}
      BY <1>0, <3>2
    <3>5. Does(p, r)
      BY <3>3, <3>4 DEF Does
    <3> QED
      BY <2>1, <3>5
  <2>3. CASE \E n \in 0..Len(entries[p]) : Aborts(p, 1..n, r)
    <3>1. \A n \in 0..Len(entries[p]) : 1..n \in SUBSET Place(p)
      BY <1>0
    <3> QED
      BY <2>1, <2>3, <3>1 DEF Does
  <2>4. CASE Looks(p, r.at, Place(p)) /\ NothingElse
    <3>1. Place(p) \in SUBSET Place(p)
      OBVIOUS
    <3> QED
      BY <2>1, <2>4, <3>1 DEF Does
  <2> QED
    BY <2>1, <2>2, <2>3, <2>4
<1>6. FindsNothing
  BY DEF Writers, InsertFirstEmpty, ReadEntry, Erase, SetEntry, Insert
<1> QED
  BY <1>1, <1>2, <1>3, <1>4, <1>5, <1>6 DEF Writers

LEMMA InvNext == Inv /\ FoundIfThere /\ [Next]_vars => Inv' /\ FoundIfThere'
<1> SUFFICES ASSUME Inv, FoundIfThere, [Next]_vars PROVE Inv' /\ FoundIfThere'
  OBVIOUS
<1>0. SelectionOK /\ Books /\ BooksOK /\ Coherent /\ SizeExact /\ faults \in 0..FaultBound
  BY DEF Inv, Books
<1>1. ASSUME NEW p \in Book, Writers(p) PROVE Inv' /\ FoundIfThere'
  BY <1>1, WritersDo, DoesStep
<1>2. ASSUME NEW p \in Book, GetPhonebook(p) PROVE Inv' /\ FoundIfThere'
  <2>1. PICK r \in SetPhonebook(p) :
          /\ Select(r)
          /\ \/ \E counts \in BOOLEAN : \E S \in Listings(r.at) :
                  /\ created' = created \cup {p}
                  /\ size' = [size EXCEPT ![p] = IF counts THEN Cardinality(UsedSlots(r.at)) ELSE -1]
                  /\ entries' = [entries EXCEPT ![p] = [i \in Slot(r.at) |->
                                   IF i \in S THEN Cached(mem[r.at][i]) ELSE NewEntry]]
                  /\ suspect' = IF r.at = p THEN suspect
                                ELSE suspect \cup {<<p, i>> : i \in S}
                  /\ miscounted' = IF r.at # p THEN miscounted \cup {p} ELSE miscounted \ {p}
                  /\ UNCHANGED <<slots, mem, useCache, faults>>
             \/ Aborts(p, {}, r)
    BY <1>2 DEF GetPhonebook
  <2>2. FindsNothing
    BY <1>2 DEF GetPhonebook
  <2>3. Result(r) /\ r.at \in Book /\ SelectionOK'
    BY <1>0, <2>1, SetPhonebookResult, SelectStep DEF Result
  <2>4. CASE Aborts(p, {}, r)
    BY <1>0, <2>2, <2>3, <2>4, AbortsStep, FaultsStep, NothingFoundStep DEF Inv
  <2>5. ASSUME NEW counts \in BOOLEAN, NEW S \in Listings(r.at),
               created' = created \cup {p},
               size' = [size EXCEPT ![p] = IF counts THEN Cardinality(UsedSlots(r.at)) ELSE -1],
               entries' = [entries EXCEPT ![p] = [i \in Slot(r.at) |->
                             IF i \in S THEN Cached(mem[r.at][i]) ELSE NewEntry]],
               suspect' = IF r.at = p THEN suspect ELSE suspect \cup {<<p, i>> : i \in S},
               miscounted' = IF r.at # p THEN miscounted \cup {p} ELSE miscounted \ {p},
               UNCHANGED <<slots, mem, useCache, faults>>
        PROVE  Inv' /\ FoundIfThere'
    <3>1. PICK at \in Book : at = r.at
      BY <2>3
    <3>2. S \in SUBSET Slot(at)
      BY <2>5, <3>1 DEF Listings
    <3>3. Books'
      BY <1>0, <2>5, <3>1, <3>2, CreateStep
    <3> QED
      BY <1>0, <2>2, <2>3, <2>5, <3>3, NothingFoundStep DEF Inv
  <2> QED
    BY <2>1, <2>4, <2>5
<1>3. ASSUME NEW p \in Book, Size(p) PROVE Inv' /\ FoundIfThere'
  <2>1. PICK r \in Reach(p, Place(p)) :
          /\ Select(r)
          /\ \/ /\ Looks(p, r.at, Place(p))
                /\ size' = [size EXCEPT ![p] = Cardinality({i \in Place(p) : Seen(p, r.at, i) # Empty})]
                /\ miscounted' = IF Misshapen(p) \/ \E i \in Place(p) :
                                      <<p, i>> \in SuspectAfter(p, r.at, Place(p))
                                 THEN miscounted \cup {p} ELSE miscounted \ {p}
                /\ UNCHANGED <<slots, mem, created, useCache, faults>>
             \/ \E n \in 0..(Len(entries[p]) - 1) : Aborts(p, 1..n, r)
    BY <1>3 DEF Size
  <2>2. FindsNothing
    BY <1>3 DEF Size
  <2>3. Result(r) /\ r.at \in Book /\ SelectionOK'
    <3>1. r \in SetPhonebook(p) \cup {Skipped}
      BY <2>1, ReachResult
    <3>2. Result(r)
      BY <1>0, <3>1, SetPhonebookResult, SkippedResult
    <3> QED
      BY <2>1, <3>2, SelectStep DEF Result
  <2>4. ASSUME NEW n \in 0..(Len(entries[p]) - 1), Aborts(p, 1..n, r)
        PROVE  Inv' /\ FoundIfThere'
    <3>1. 1..n \subseteq Place(p)
      BY <1>0, <2>4, ReadEntries
    <3> QED
      BY <1>0, <2>2, <2>3, <2>4, <3>1, AbortsStep, FaultsStep, NothingFoundStep DEF Inv
  <2>5. CASE /\ Looks(p, r.at, Place(p))
             /\ size' = [size EXCEPT ![p] = Cardinality({i \in Place(p) : Seen(p, r.at, i) # Empty})]
             /\ miscounted' = IF Misshapen(p) \/ \E i \in Place(p) :
                                   <<p, i>> \in SuspectAfter(p, r.at, Place(p))
                              THEN miscounted \cup {p} ELSE miscounted \ {p}
             /\ UNCHANGED <<slots, mem, created, useCache, faults>>
    <3>1. PICK at \in Book : at = r.at
      BY <2>3
    <3>2. Books'
      BY <1>0, <2>5, <3>1, CountStep
    <3> QED
      BY <1>0, <2>2, <2>3, <2>5, <3>2, NothingFoundStep DEF Inv
  <2> QED
    BY <2>1, <2>4, <2>5
<1>4. ASSUME NEW p \in Book, NEW t \in Text, Find(p, t) PROVE Inv' /\ FoundIfThere'
  BY <1>4, FindStep
<1>5. ASSUME NEW p \in Book, NEW b \in BOOLEAN, SetCaching(p, b) PROVE Inv' /\ FoundIfThere'
  <2>1. /\ UNCHANGED <<slots, mem, sel, lastPhonebookName, created, size, entries, faults,
                       misled, suspect, miscounted>>
        /\ useCache' \in [Book -> BOOLEAN] /\ FindsNothing
    BY <1>0, <1>5 DEF SetCaching, taVars, meTaVars, BooksOK
  <2>2. BooksOK' /\ Coherent' /\ SizeExact' /\ SelectionOK'
    <3>1. BooksOK'
      BY <1>0, <2>1 DEF BooksOK
    <3>2. Coherent'
      BY <1>0, <2>1 DEF Coherent, At, Slot
    <3>3. SizeExact'
      BY <1>0, <2>1 DEF SizeExact, UsedSlots, Slot
    <3>4. SelectionOK'
      BY <1>0, <2>1 DEF SelectionOK, SelectionRemembered
    <3> QED
      BY <3>1, <3>2, <3>3, <3>4
  <2> QED
    BY <1>0, <2>1, <2>2, NothingFoundStep DEF Inv, Books
<1>6. ASSUME NEW p \in Book, NEW i \in 1..MaxSlots, NEW c \in Info, MEChanges(p, i, c)
      PROVE  Inv' /\ FoundIfThere'
  <2>1. /\ i \in Slot(p) /\ mem' = [mem EXCEPT ![p] = [mem[p] EXCEPT ![i] = c]]
        /\ suspect' = suspect \cup {<<p, i>>} /\ miscounted' = miscounted \cup {p}
        /\ UNCHANGED <<slots, created, useCache, size, entries>>
    BY <1>6 DEF MEChanges, meTaVars, bookVars
  <2>2. Books'
    BY <1>0, <2>1, MEStep
  <2>3. UNCHANGED <<sel, lastPhonebookName, misled>> /\ FindsNothing
        /\ faults' = faults + 1 /\ FaultLeft
    BY <1>6 DEF MEChanges, meTaVars
  <2>4. SelectionOK' /\ faults' \in 0..FaultBound
    BY <1>0, <2>3, PhonebookAssumption DEF SelectionOK, SelectionRemembered, FaultLeft
  <2> QED
    BY <2>2, <2>3, <2>4, NothingFoundStep DEF Inv
<1>7. CASE UNCHANGED vars
  <2>u. UNCHANGED <<slots, mem, sel, lastPhonebookName, created, useCache, size, entries,
                    faults, misled, suspect, miscounted>>
    BY <1>7 DEF vars, taVars, meTaVars, bookVars, ghostVars
  <2> HIDE <1>7
  <2>1. BooksOK' /\ Coherent' /\ SizeExact' /\ SelectionOK'
    <3>1. BooksOK'
      BY <1>0, <2>u DEF BooksOK
    <3>2. Coherent'
      BY <1>0, <2>u DEF Coherent, At, Slot
    <3>3. SizeExact'
      BY <1>0, <2>u DEF SizeExact, UsedSlots, Slot
    <3>4. SelectionOK'
      BY <1>0, <2>u DEF SelectionOK, SelectionRemembered
    <3> QED
      BY <3>1, <3>2, <3>3, <3>4
  <2>2. FoundIfThere' /\ FoundType' /\ faults' \in 0..FaultBound
    BY <1>0, <1>7 DEF vars, taVars, bookVars, ghostVars, Inv, FoundIfThere, FoundType, Misshapen, Slot
  <2> QED
    BY <2>1, <2>2 DEF Inv, Books
<1> QED
  BY <1>1, <1>2, <1>3, <1>4, <1>5, <1>6, <1>7 DEF Next, Writers

LEMMA Invariance == Spec => [](Inv /\ FoundIfThere)
  BY InvInit, InvNext, PTL DEF Spec

-----------------------------------------------------------------------------
\* The variables keep their types, and the name that is remembered is the
\* phonebook the TA has selected, unless the answer to a +CPBS was lost.
THEOREM SelectionIsSound == Spec => []SelectionSound
<1>1. Inv => SelectionSound
  BY InvTypes DEF Inv, Books
<1> QED
  BY <1>1, Invariance, PTL

\* The cache of every phonebook agrees with the ME, except where something
\* happened that its object could not know of.
THEOREM CacheIsCoherent == Spec => []CacheCoherent
<1>1. Inv => CacheCoherent
  <2> SUFFICES ASSUME Inv, NEW p \in created, NEW i \in Place(p)
               PROVE  entries[p][i].cached /\ <<p, i>> \notin suspect
                        => entries[p][i].info = At(p, i)
    BY DEF CacheCoherent
  <2>1. p \in Book /\ i \in 1..Len(entries[p])
    BY LenProperties DEF Inv, Books, BooksOK, Place
  <2> QED
    BY <2>1 DEF Inv, Books, Coherent
<1> QED
  BY <1>1, Invariance, PTL

\* The count of used entries, once known, stays exact through inserts, erases
\* and failures: what a write replaces is what was seen, because the cache is
\* coherent.
THEOREM CountIsExact == Spec => []SizeExact
<1>1. Inv => SizeExact
  BY DEF Inv, Books
<1> QED
  BY <1>1, Invariance, PTL

\* find() answers what a search of the ME would.
THEOREM FindIsRight == Spec => []FoundIfThere
  BY Invariance, PTL

\* No operation replaces a used entry that it was not asked to replace.
LEMMA EntrySafeStep ==
  ASSUME Inv, [Next]_vars, NEW p \in Book, NEW i \in Slot(p)
  PROVE  EntrySafe(p, i)
<1>0. SelectionOK /\ BooksOK /\ Coherent /\ faults \in 0..FaultBound
  BY DEF Inv, Books
<1>s. SUFFICES ASSUME mem[p][i] # Empty, mem'[p][i] # mem[p][i], ~misled, <<p, i>> \notin suspect
               PROVE  \/ Erase(p, i)
                      \/ \E c \in Info : SetEntry(p, i, c) \/ MEChanges(p, i, c)
  BY DEF EntrySafe
<1>1. ASSUME NEW q, NEW S, NEW r, Aborts(q, S, r) PROVE FALSE
  BY <1>s, <1>1 DEF Aborts
<1>2. ASSUME NothingElse PROVE FALSE
  BY <1>s, <1>2 DEF NothingElse
<1>3. ASSUME mem' = mem PROVE FALSE
  BY <1>s, <1>3
<1>4. ASSUME NEW q \in Book, NEW r \in SetPhonebook(q), NEW S, NEW k, NEW c, NEW n,
             Writes(q, S, k, c, n, r)
      PROVE  p = q /\ i = k
  <2>1. r.ok /\ mem' = [mem EXCEPT ![r.at] = [mem[r.at] EXCEPT ![k] = c]]
    BY <1>4 DEF Writes
  <2>2. r.at = q
    BY <1>0, <1>s, <1>4, <2>1, SetPhonebookResult
  <2>3. p = q
    BY <1>0, <1>s, <2>1, <2>2 DEF BooksOK
  <2>4. mem'[p] = [mem[p] EXCEPT ![k] = c]
    BY <1>0, <2>1, <2>2, <2>3 DEF BooksOK
  <2>5. i \in DOMAIN mem[p]
    BY <1>0, LenProperties DEF BooksOK, Slot
  <2>6. i = k
    BY <1>s, <2>4, <2>5
  <2> QED
    BY <2>3, <2>6
\* The entry an insert takes would be this one, but it is seen to be used.
<1>5. ASSUME NEW q \in Book, NEW r \in SetPhonebook(q), NEW k \in Place(q), NEW S, NEW c,
             Seen(q, r.at, k) = Empty, Writes(q, S, k, c, 1, r)
      PROVE  FALSE
  <2>1. p = q /\ i = k
    BY <1>4, <1>5
  <2>2. r.ok /\ r.at = q
    BY <1>0, <1>s, <1>5, SetPhonebookResult DEF Writes
  <2>3. i \in 1..Len(entries[p])
    BY <1>0, <1>5, <2>1, ReadEntries
  <2>4. Seen(p, p, i) = At(p, i)
    BY <1>0, <1>s, <2>3 DEF Coherent, Seen, IsCached
  <2> QED
    BY <1>s, <1>5, <2>1, <2>2, <2>4 DEF At
<1>6. ASSUME NEW q \in Book, NEW k \in 1..MaxSlots, NEW c \in Info, SetEntry(q, k, c)
      PROVE  \E d \in Info : SetEntry(p, i, d)
  <2>1. PICK r \in SetPhonebook(q) : Writes(q, {}, k, c, 0, r) \/ Aborts(q, {}, r)
    BY <1>6 DEF SetEntry
  <2>2. p = q /\ i = k
    BY <1>1, <1>4, <2>1
  <2> QED
    BY <1>6, <2>2
<1>7. ASSUME NEW q \in Book, NEW k \in 1..MaxSlots, Erase(q, k) PROVE Erase(p, i)
  <2>1. PICK r \in IF IsCached(q, k) /\ entries[q][k].info = Empty THEN {Skipped} ELSE SetPhonebook(q) :
          \/ Seen(q, r.at, k) # Empty /\ Writes(q, {k}, k, Empty, -1, r)
          \/ \E S \in SUBSET {k} : Aborts(q, S, r)
          \/ NothingElse
    BY <1>7 DEF Erase
  <2>2. Seen(q, r.at, k) # Empty /\ Writes(q, {k}, k, Empty, -1, r)
    BY <1>1, <1>2, <2>1
  <2>3. r \in SetPhonebook(q)
    BY <2>1, <2>2 DEF Seen
  <2>4. p = q /\ i = k
    BY <1>4, <2>2, <2>3
  <2> QED
    BY <1>7, <2>4
<1>8. ASSUME NEW q \in Book, NEW k \in 1..MaxSlots, NEW c \in Info, Insert(q, k, c)
      PROVE  FALSE
  <2>1. PICK r \in IF IsCached(q, k) /\ entries[q][k].info # Empty THEN {Skipped} ELSE SetPhonebook(q) :
          \/ Seen(q, r.at, k) = Empty /\ Writes(q, {k}, k, c, 1, r)
          \/ \E S \in SUBSET {k} : Aborts(q, S, r)
          \/ NothingElse
    BY <1>8 DEF Insert
  <2>2. Seen(q, r.at, k) = Empty /\ Writes(q, {k}, k, c, 1, r)
    BY <1>1, <1>2, <2>1
  <2>3. r \in SetPhonebook(q)
    BY <2>1, <2>2 DEF Seen
  <2>4. k \in Place(q)
    BY <1>8 DEF Insert
  <2> QED
    BY <1>5, <2>2, <2>3, <2>4
<1>9. ASSUME NEW q \in Book, NEW c \in Info, InsertFirstEmpty(q, c)
      PROVE  FALSE
  <2> DEFINE free(at) == {k \in Place(q) : Seen(q, at, k) = Empty}
  <2>1. PICK r \in IF \E k \in Place(q) : ~IsCached(q, k) \/ entries[q][k].info = Empty
                   THEN SetPhonebook(q) ELSE {Skipped} :
          \/ free(r.at) # {} /\ Writes(q, 1..Min(free(r.at)), Min(free(r.at)), c, 1, r)
          \/ \E n \in 0..Len(entries[q]) : Aborts(q, 1..n, r)
          \/ NothingElse
    BY <1>9 DEF InsertFirstEmpty
  <2>2. free(r.at) # {} /\ Writes(q, 1..Min(free(r.at)), Min(free(r.at)), c, 1, r)
    BY <1>1, <1>2, <2>1
  <2> DEFINE k == Min(free(r.at))
  <2>3. k \in free(r.at)
    <3>1. free(r.at) \in SUBSET Nat
      BY <1>0, ReadEntries
    <3> QED
      BY <2>2, <3>1, MinNat
  <2>4. Writes(q, 1..k, k, c, 1, r)
    BY <2>2
  <2> HIDE DEF k
  <2>5. k \in Place(q) /\ Seen(q, r.at, k) = Empty
    BY <2>3
  <2>6. r \in SetPhonebook(q)
    BY <2>1, <2>5 DEF Seen
  <2> QED
    BY <1>5, <2>4, <2>5, <2>6
<1>10. ASSUME NEW q \in Book, NEW k \in 1..MaxSlots, NEW c \in Info, MEChanges(q, k, c)
       PROVE  \E d \in Info : MEChanges(p, i, d)
  <2>1. mem' = [mem EXCEPT ![q] = [mem[q] EXCEPT ![k] = c]]
    BY <1>10 DEF MEChanges
  <2>2. p = q
    BY <1>0, <1>s, <2>1 DEF BooksOK
  <2>3. mem'[p] = [mem[p] EXCEPT ![k] = c]
    BY <1>0, <2>1, <2>2 DEF BooksOK
  <2>4. i \in DOMAIN mem[p]
    BY <1>0, LenProperties DEF BooksOK, Slot
  <2>5. i = k
    BY <1>s, <2>3, <2>4
  <2> QED
    BY <1>10, <2>2, <2>5
<1>11. ASSUME NEW q \in Book, GetPhonebook(q) \/ Size(q) PROVE FALSE
  <2>1. mem' = mem
    BY <1>11 DEF GetPhonebook, Size, Aborts
  <2> QED
    BY <1>3, <2>1
<1>12. ASSUME NEW q \in Book, NEW t \in Text, Find(q, t) PROVE FALSE
  <2>1. mem' = mem
    BY <1>12 DEF Find, Aborts, NothingElse
  <2> QED
    BY <1>3, <2>1
<1>13. ASSUME NEW q \in Book, \/ \E b \in BOOLEAN : SetCaching(q, b)
                              \/ \E k \in 1..MaxSlots : ReadEntry(q, k)
       PROVE  FALSE
  <2>1. mem' = mem
    BY <1>13 DEF SetCaching, taVars, ReadEntry, Aborts, NothingElse
  <2> QED
    BY <1>3, <2>1
<1>14. ~UNCHANGED vars
  BY <1>3 DEF vars, taVars
<1> QED
  BY <1>6, <1>7, <1>8, <1>9, <1>10, <1>11, <1>12, <1>13, <1>14 DEF Next

\* A used entry is replaced only by a step that names it, as long as no
\* answer to a +CPBS was lost and the entry did not change unnoticed.
THEOREM NoEntryLost == Spec => NoCollateralLoss
<1>1. Inv /\ [Next]_vars => [\A p \in Book : \A i \in Slot(p) : EntrySafe(p, i)]_vars
  BY EntrySafeStep
<1> QED
  BY <1>1, Invariance, PTL DEF Spec, NoCollateralLoss
=============================================================================
