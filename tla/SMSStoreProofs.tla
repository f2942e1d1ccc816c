--------------------------- MODULE SMSStoreProofs ---------------------------
(***************************************************************************)
(* Theorems about SMSStore, for any set of stores and messages, any number *)
(* of slots and every combination of faults.                               *)
(***************************************************************************)
EXTENDS SMSStore, SequenceTheorems, TLAPS

\* The results of setSMSStore are well typed, and leave the store that is
\* remembered selected for reading unless the TA refused it.
LEMMA SetSMSStoreResult ==
  ASSUME TypeOK, SelectionRemembered, NEW s \in Store, NEW t \in 1..3, NEW r,
         r \in SetSMSStore(s, t, TRUE) \/ r \in SetSMSStore(s, t, FALSE)
  PROVE  /\ r.count \in 1..3
         /\ r.last \in Store \cup {NoStore}
         /\ r.sel \in [1..3 -> Store]
         /\ r.rejected \in BOOLEAN /\ r.ok \in BOOLEAN
         /\ ~r.rejected /\ r.last # NoStore => r.sel[1] = r.last
         /\ ~r.rejected /\ r.ok => r.sel[1] = s
<1>1. paramCount \in 1..3
  BY DEF TypeOK, paramCount
<1>2. Selected(s, t) \in [1..3 -> Store] /\ Selected(s, t)[1] = s
  BY <1>1 DEF TypeOK, Selected
<1>3. CASE r \in CountFails
  <2>1. r = [count |-> 1, last |-> lastSMSStoreName, sel |-> sel,
             rejected |-> rejected, ok |-> FALSE]
    BY <1>3 DEF CountFails
  <2> QED
    BY <2>1 DEF TypeOK, SelectionRemembered
<1>4. CASE r \in Chatted(s, t)
  <2>1. CASE r = Sent(s, Selected(s, t), FALSE, TRUE)
    BY <2>1, <1>1, <1>2 DEF Sent
  <2>2. CASE r = Sent(s, Selected(s, t), FALSE, FALSE)
    BY <2>2, <1>1, <1>2 DEF Sent
  <2>3. CASE r = Sent(s, sel, TRUE, FALSE)
    BY <2>3, <1>1 DEF Sent, TypeOK
  <2>4. \/ r = Sent(s, Selected(s, t), FALSE, TRUE)
        \/ r = Sent(s, Selected(s, t), FALSE, FALSE)
        \/ r = Sent(s, sel, TRUE, FALSE)
    <3> DEFINE A == Sent(s, Selected(s, t), FALSE, TRUE)
               B == Sent(s, Selected(s, t), FALSE, FALSE)
               C == Sent(s, sel, TRUE, FALSE)
    <3> HIDE DEF A, B, C
    <3>1. r \in {A} \cup (IF LosesAnswers THEN {B} ELSE {})
                    \cup (IF Rejects THEN {C} ELSE {})
      BY <1>4 DEF Chatted, A, B, C
    <3>2. r = A \/ r = B \/ r = C
      BY <3>1
    <3> QED
      BY <3>2 DEF A, B, C
  <2> QED
    BY <2>1, <2>2, <2>3, <2>4
<1>5. CASE r = Skipped /\ lastSMSStoreName = s
  BY <1>5, <1>1, SMSStoreAssumption DEF Skipped, TypeOK, SelectionRemembered
<1> QED
  <2>1. r \in CountFails \/ r \in Chatted(s, t) \/ (r = Skipped /\ lastSMSStoreName = s)
    BY DEF SetSMSStore
  <2> QED
    BY <1>3, <1>4, <1>5, <2>1

\* resizeStore keeps the entries there are and adds uncached ones.
LEMMA ResizedEntries ==
  ASSUME TypeOK, NEW s \in Store, NEW n \in Nat
  PROVE  /\ Resized(s, n) \in Seq(Entry)
         /\ Len(Resized(s, n)) >= n
         /\ Len(Resized(s, n)) >= Len(entries[s])
         /\ \A i \in 1..Len(Resized(s, n)) :
              Resized(s, n)[i] = IF i <= Len(entries[s]) THEN entries[s][i] ELSE NewEntry
<1> DEFINE k == IF n > Len(entries[s]) THEN n ELSE Len(entries[s])
<1>1. entries[s] \in Seq(Entry) /\ Len(entries[s]) \in Nat
  BY DEF TypeOK, EntriesOK
<1>2. NewEntry \in Entry
  BY DEF NewEntry, Entry, Content
<1>3. k \in Nat
  BY <1>1
<1>4. \A i \in 1..k : (IF i <= Len(entries[s]) THEN entries[s][i] ELSE NewEntry) \in Entry
  BY <1>1, <1>2, <1>3
<1>5. Resized(s, n) \in Seq(Entry) /\ Len(Resized(s, n)) = k
  BY <1>3, <1>4, IsASeq DEF Resized
<1> QED
  BY <1>1, <1>3, <1>5 DEF Resized

-----------------------------------------------------------------------------
Inv == TypeOK /\ SelectionRemembered

\* What the operations have in common: Select keeps the part of the
\* invariant that is about the TA and MeTa.
LEMMA SelectStep ==
  ASSUME TypeOK, SelectionRemembered, NEW s \in Store, NEW t \in 1..3, NEW r,
         r \in SetSMSStore(s, t, TRUE) \/ r \in SetSMSStore(s, t, FALSE), Select(r)
  PROVE  /\ sel' \in [1..3 -> Store]
         /\ supported' \in 1..3
         /\ lastSMSStoreName' \in Store \cup {NoStore}
         /\ cpmsParamCount' \in {-1} \cup 1..3
         /\ rejected' \in BOOLEAN
         /\ SelectionRemembered'
         /\ r.sel \in [1..3 -> Store]
         /\ r.rejected \in BOOLEAN
         /\ r.ok /\ ~r.rejected => r.sel[1] = s
<1>1. /\ r.count \in 1..3
      /\ r.last \in Store \cup {NoStore}
      /\ r.sel \in [1..3 -> Store]
      /\ r.rejected \in BOOLEAN
      /\ ~r.rejected /\ r.last # NoStore => r.sel[1] = r.last
      /\ r.ok /\ ~r.rejected => r.sel[1] = s
  BY SetSMSStoreResult
<1> QED
  BY <1>1 DEF Select, SelectionRemembered, TypeOK

\* What an operation does to call and to entries keeps their types.
LEMMA CallStep ==
  ASSUME NEW op \in Operation,
         NEW s \in Store, NEW i \in Nat, NEW v \in Content,
         Returns(op, s, i, v) \/ Throws(op, s, i) \/ Silent(op)
  PROVE  call' \in Call
<1>1. CASE Returns(op, s, i, v)
  BY <1>1 DEF Returns, Call
<1>2. CASE Throws(op, s, i)
  BY <1>2 DEF Throws, Call, Content
<1>3. CASE Silent(op)
  BY <1>3 DEF Silent, Call, Content
<1> QED
  BY <1>1, <1>2, <1>3

LEMMA KeepEntriesStep ==
  ASSUME TypeOK, NEW s \in Store, NEW n \in Nat, KeepEntries(s, n),
         created' = created \/ (created' = created \cup {s} /\ n >= Slots)
  PROVE  EntriesOK'
<1>1. /\ Resized(s, n) \in Seq(Entry)
      /\ Len(Resized(s, n)) >= n
      /\ Len(Resized(s, n)) >= Len(entries[s])
      /\ Len(entries[s]) \in Nat /\ Len(Resized(s, n)) \in Nat
  BY ResizedEntries DEF TypeOK, EntriesOK
<1>2. entries' \in [Store -> Seq(Entry)] /\ entries'[s] = Resized(s, n)
  BY <1>1 DEF KeepEntries, TypeOK, EntriesOK
<1>3. ASSUME NEW x \in created' PROVE Len(entries'[x]) >= Slots
  <2>1. CASE x = s
    BY <2>1, <1>1, <1>2, SMSStoreAssumption DEF TypeOK, EntriesOK
  <2>2. CASE x # s
    BY <2>2, <1>3 DEF TypeOK, EntriesOK, KeepEntries
  <2> QED
    BY <2>1, <2>2
<1> QED
  BY <1>2, <1>3 DEF EntriesOK

LEMMA SetEntryStep ==
  ASSUME TypeOK, NEW s \in Store, NEW n \in Nat \ {0}, NEW e \in Entry,
         SetEntry(s, n, e), created' = created
  PROVE  EntriesOK'
<1>1. /\ [Resized(s, n) EXCEPT ![n] = e] \in Seq(Entry)
      /\ Len([Resized(s, n) EXCEPT ![n] = e]) = Len(Resized(s, n))
  BY ResizedEntries, ExceptSeq
<1> QED
  BY <1>1, ResizedEntries, SMSStoreAssumption DEF SetEntry, TypeOK, EntriesOK

\* The content of a slot, and the entry for an index, have their types.
LEMMA Lookup ==
  ASSUME TypeOK, NEW s \in Store, NEW i \in Index
  PROVE  /\ At(s, i) \in Content
         /\ EntryOf(s, i) \in Entry
         /\ Uncached(EntryOf(s, i)) \in Entry
<1>1. At(s, i) \in Content
  BY DEF At, TypeOK, Content
<1>2. EntryOf(s, i) \in Entry
  <2>1. i \in Nat /\ i >= 1
    BY SMSStoreAssumption DEF Index
  <2>2. Resized(s, i) \in Seq(Entry) /\ i \in 1..Len(Resized(s, i))
    BY <2>1, ResizedEntries
  <2> QED
    BY <2>2, ElementOfSeq DEF EntryOf
<1> QED
  BY <1>1, <1>2 DEF Uncached, Entry

-----------------------------------------------------------------------------
\* The initial states, and every step, keep the invariant.
LEMMA InvInit == Init => Inv
<1> SUFFICES ASSUME Init PROVE Inv
  OBVIOUS
<1>1. TypeOK
  <2>1. entries \in [Store -> Seq(Entry)]
    BY DEF Init
  <2>2. /\ mem \in [Store -> [Slot -> Content]] /\ sel \in [1..3 -> Store]
        /\ supported \in 1..3
        /\ lastSMSStoreName \in Store \cup {NoStore}
        /\ cpmsParamCount \in {-1} \cup 1..3
        /\ created = {} /\ useCache \in [Store -> BOOLEAN]
        /\ rejected \in BOOLEAN /\ suspect = {}
    BY SMSStoreAssumption DEF Init
  <2>3. call \in Call
    BY DEF Init, NoCall, Call, Content, Operation
  <2> QED
    BY <2>1, <2>2, <2>3 DEF TypeOK, EntriesOK
<1>2. SelectionRemembered
  BY DEF Init, SelectionRemembered
<1> QED
  BY <1>1, <1>2 DEF Inv

\* Every operation keeps the invariant.
LEMMA InvNext == Inv /\ [Next]_vars => Inv'
<1> SUFFICES ASSUME Inv, [Next]_vars PROVE Inv'
  OBVIOUS
<1>0. TypeOK /\ SelectionRemembered
  BY DEF Inv
<1>1. ASSUME NEW s \in Store, GetSMSStore(s) PROVE Inv'
  <2>1. PICK r \in SetSMSStore(s, 1, TRUE) :
          /\ Select(r) /\ Silent("none") /\ mem' = mem /\ suspect' = suspect
          /\ \/ /\ created' = created \cup {s} /\ KeepEntries(s, Slots)
                /\ useCache' = [useCache EXCEPT ![s] = TRUE]
             \/ UNCHANGED <<created, storeVars>>
    BY <1>1 DEF GetSMSStore
  <2>s. /\ sel' \in [1..3 -> Store] /\ supported' \in 1..3
        /\ lastSMSStoreName' \in Store \cup {NoStore}
        /\ cpmsParamCount' \in {-1} \cup 1..3
        /\ rejected' \in BOOLEAN /\ SelectionRemembered'
        /\ r.sel \in [1..3 -> Store]
    BY <1>0, <2>1, SelectStep, 1 \in 1..3, Zenon
  <2>2. call' \in Call
    BY <2>1, CallStep, SMSStoreAssumption DEF Operation, Content
  <2>3. EntriesOK'
    BY <1>0, <2>1, KeepEntriesStep, SMSStoreAssumption DEF TypeOK, EntriesOK, storeVars
  <2>4. /\ mem' \in [Store -> [Slot -> Content]]
        /\ suspect' \in SUBSET (Store \X Index)
    BY <1>0, <2>1 DEF TypeOK
  <2>5. created' \in SUBSET Store /\ useCache' \in [Store -> BOOLEAN]
    <3>1. CASE /\ created' = created \cup {s}
               /\ useCache' = [useCache EXCEPT ![s] = TRUE]
      BY <1>0, <3>1 DEF TypeOK
    <3>2. CASE created' = created /\ useCache' = useCache
      BY <1>0, <3>2 DEF TypeOK
    <3> QED
      BY <2>1, <3>1, <3>2, Zenon DEF storeVars
  <2>6. TypeOK'
    BY <2>2, <2>3, <2>4, <2>5, <2>s, Zenon DEF TypeOK
  <2> QED
    BY <2>6, <2>s, Zenon DEF Inv
<1>2. ASSUME NEW s \in Store, NEW i \in Index, ReadCached(s, i) PROVE Inv'
  <2>1. call' \in Call
    <3>1. EntryOf(s, i).message \in Content
      BY <1>0, Lookup DEF Entry
    <3> QED
      BY <1>2, <3>1, CallStep, SMSStoreAssumption DEF ReadCached, Operation, Index
  <2>2. EntriesOK'
    BY <1>0, <1>2, KeepEntriesStep, SMSStoreAssumption DEF ReadCached, meTaVars, Index
  <2> QED
    BY <1>0, <1>2, <2>1, <2>2
       DEF ReadCached, taVars, meTaVars, TypeOK, SelectionRemembered, Inv
<1>3. ASSUME NEW s \in Store, NEW i \in Index, ReadEntry(s, i) PROVE Inv'
  <2>1. PICK r \in SetSMSStore(s, 1, FALSE) :
          /\ Select(r) /\ mem' = mem /\ created' = created
          /\ \/ /\ r.ok
                /\ SetEntry(s, i, [cached |-> TRUE, message |-> At(r.sel[1], i)])
                /\ Returns("read", s, i, At(r.sel[1], i))
                /\ suspect' = IF r.rejected THEN suspect \cup {<<s, i>>}
                              ELSE suspect \ {<<s, i>>}
             \/ /\ KeepEntries(s, i) /\ Throws("read", s, 0) /\ suspect' = suspect
    BY <1>3 DEF ReadEntry, Aborts
  <2>s. /\ sel' \in [1..3 -> Store] /\ supported' \in 1..3
        /\ lastSMSStoreName' \in Store \cup {NoStore}
        /\ cpmsParamCount' \in {-1} \cup 1..3
        /\ rejected' \in BOOLEAN /\ SelectionRemembered'
        /\ r.sel \in [1..3 -> Store]
    BY <1>0, <2>1, SelectStep, 1 \in 1..3, Zenon
  <2>2. r.sel[1] \in Store
    BY <2>s
  <2>3. At(r.sel[1], i) \in Content /\ i \in Nat \ {0}
    BY <2>2, <1>0, Lookup, SMSStoreAssumption DEF Index
  <2>4. call' \in Call
    BY <2>1, <2>3, CallStep, SMSStoreAssumption DEF Operation, Content
  <2>5. EntriesOK'
    BY <2>1, <2>3, <1>0, SetEntryStep, KeepEntriesStep DEF Entry
  <2>6. suspect' \in SUBSET (Store \X Index)
    BY <2>1, <1>0 DEF TypeOK
  <2> QED
    BY <1>0, <1>3, <2>1, <2>4, <2>5, <2>6, <2>s DEF TypeOK, ReadEntry, Inv
<1>4. ASSUME NEW s \in Store, NEW i \in Index, ReadCB(s, i) PROVE Inv'
  <2>1. PICK r \in SetSMSStore(s, 1, FALSE) : Select(r) /\ Silent("none")
    BY <1>4 DEF ReadCB
  <2>s. /\ sel' \in [1..3 -> Store] /\ supported' \in 1..3
        /\ lastSMSStoreName' \in Store \cup {NoStore}
        /\ cpmsParamCount' \in {-1} \cup 1..3
        /\ rejected' \in BOOLEAN /\ SelectionRemembered'
        /\ r.sel \in [1..3 -> Store]
    BY <1>0, <2>1, SelectStep, 1 \in 1..3, Zenon
  <2>2. call' \in Call
    BY <2>1, CallStep, SMSStoreAssumption DEF Operation, Content
  <2>3. EntriesOK'
    BY <1>4, <1>0, SetEntryStep, Lookup, SMSStoreAssumption DEF ReadCB, Index
  <2> QED
    BY <1>0, <1>4, <2>1, <2>2, <2>3, <2>s DEF TypeOK, ReadCB, Inv
<1>5. ASSUME NEW s \in Store, NEW m \in Message, Insert(s, m) PROVE Inv'
  <2>1. PICK r \in SetSMSStore(s, 2, FALSE) :
          /\ Select(r) /\ created' = created /\ useCache' = useCache
          /\ \/ \E j \in Slot :
                  /\ mem' = [mem EXCEPT ![r.sel[2]][j] = m]
                  /\ suspect' = IF r.sel[2] = s THEN suspect
                                ELSE suspect \cup {<<r.sel[2], j>>}
                  /\ SetEntry(s, j, Uncached(EntryOf(s, j)))
                  /\ Returns("insert", s, j, m)
             \/ \E j \in Slot :
                  /\ mem' = [mem EXCEPT ![r.sel[2]][j] = m]
                  /\ suspect' = suspect \cup {<<r.sel[2], j>>}
                  /\ UNCHANGED entries
                  /\ Throws("insert", s, 0)
             \/ Throws("insert", s, 0) /\ UNCHANGED <<mem, entries, suspect>>
    BY <1>5 DEF Insert
  <2>s. /\ sel' \in [1..3 -> Store] /\ supported' \in 1..3
        /\ lastSMSStoreName' \in Store \cup {NoStore}
        /\ cpmsParamCount' \in {-1} \cup 1..3
        /\ rejected' \in BOOLEAN /\ SelectionRemembered'
        /\ r.sel \in [1..3 -> Store]
    BY <1>0, <2>1, SelectStep, 2 \in 1..3, Zenon
  <2>2. r.sel[2] \in Store
    BY <2>s
  <2>3. \A j \in Slot : j \in Index /\ j \in Nat \ {0}
    BY SMSStoreAssumption DEF Slot, Index
  <2>4. mem' \in [Store -> [Slot -> Content]] /\ suspect' \in SUBSET (Store \X Index)
    <3>1. ASSUME NEW w \in Store, NEW j \in Slot
          PROVE  /\ [mem EXCEPT ![w][j] = m] \in [Store -> [Slot -> Content]]
                 /\ <<w, j>> \in Store \X Index
      BY <1>0, <2>3 DEF TypeOK, Content
    <3>2. CASE UNCHANGED <<mem, suspect>>
      BY <3>2, <1>0 DEF TypeOK
    <3>3. CASE \E j \in Slot : /\ mem' = [mem EXCEPT ![r.sel[2]][j] = m]
                              /\ \/ suspect' = suspect
                                 \/ suspect' = suspect \cup {<<r.sel[2], j>>}
      <4>1. PICK j \in Slot : /\ mem' = [mem EXCEPT ![r.sel[2]][j] = m]
                             /\ \/ suspect' = suspect
                                \/ suspect' = suspect \cup {<<r.sel[2], j>>}
        BY <3>3
      <4>2. /\ [mem EXCEPT ![r.sel[2]][j] = m] \in [Store -> [Slot -> Content]]
            /\ <<r.sel[2], j>> \in Store \X Index
        BY <2>2, <3>1
      <4> QED
        BY <4>1, <4>2, <1>0 DEF TypeOK
    <3> QED
      BY <2>1, <3>2, <3>3
  <2>5. call' \in Call
    BY <2>1, <2>3, CallStep DEF Operation, Content
  <2>6. EntriesOK'
    BY <2>1, <2>3, <1>0, SetEntryStep, Lookup DEF TypeOK, EntriesOK
  <2> QED
    BY <1>0, <2>1, <2>4, <2>5, <2>6, <2>s DEF TypeOK, Inv
<1>6. ASSUME NEW s \in Store, NEW op \in {"erase", "clear"},
             NEW first \in Nat \ {0}, NEW last \in Nat, EraseFrom(op, s, first, last)
      PROVE  Inv'
  <2> DEFINE q == Resized(s, last)
  <2>1. PICK r \in SetSMSStore(s, 1, FALSE), n \in (first - 1)..last, lost \in SUBSET Slot :
          /\ Select(r) /\ created' = created /\ useCache' = useCache
          /\ first..n \subseteq Slot
          /\ mem' = [mem EXCEPT ![r.sel[1]] = [j \in Slot |->
                       IF j \in (first..n) \cup lost THEN NoMessage ELSE mem[r.sel[1]][j]]]
          /\ suspect' = suspect \cup {<<r.sel[1], j>> : j \in lost}
                \cup {<<r.sel[1], j>> : j \in {k \in (first..n) \cup lost : r.rejected}}
          /\ entries' = [entries EXCEPT ![s] = [j \in DOMAIN q |->
                           IF j \in first..n THEN Uncached(q[j]) ELSE q[j]]]
          /\ Returns(op, s, last, NoMessage) \/ Throws(op, s, first)
    BY <1>6 DEF EraseFrom
  <2>s. /\ sel' \in [1..3 -> Store] /\ supported' \in 1..3
        /\ lastSMSStoreName' \in Store \cup {NoStore}
        /\ cpmsParamCount' \in {-1} \cup 1..3
        /\ rejected' \in BOOLEAN /\ SelectionRemembered'
        /\ r.sel \in [1..3 -> Store]
    BY <1>0, <2>1, SelectStep, 1 \in 1..3, Zenon
  <2>3. mem' \in [Store -> [Slot -> Content]]
    BY <2>1, <2>s, <1>0 DEF TypeOK, Content
  <2>4. suspect' \in SUBSET (Store \X Index)
    <3>1. first..n \subseteq Index /\ lost \subseteq Index
      BY <2>1, SMSStoreAssumption DEF Slot, Index
    <3>2. r.sel[1] \in Store
      BY <2>s
    <3> QED
      BY <2>1, <3>1, <3>2, <1>0 DEF TypeOK
  <2>5. call' \in Call
    BY <2>1, CallStep, SMSStoreAssumption DEF Operation, Content
  <2>6. EntriesOK'
    <3> DEFINE f == [j \in DOMAIN q |-> IF j \in first..n THEN Uncached(q[j]) ELSE q[j]]
    <3>1. q \in Seq(Entry) /\ Len(q) >= Len(entries[s]) /\ Len(entries[s]) \in Nat
      <4>1. entries[s] \in Seq(Entry)
        BY <1>0 DEF TypeOK, EntriesOK
      <4>2. Resized(s, last) \in Seq(Entry) /\ Len(Resized(s, last)) >= Len(entries[s])
        BY <1>0, ResizedEntries
      <4> QED
        BY <4>1, <4>2
    <3> HIDE DEF q
    <3>2. DOMAIN q = 1..Len(q) /\ Len(q) \in Nat
      BY <3>1
    <3>3. \A j \in 1..Len(q) : (IF j \in first..n THEN Uncached(q[j]) ELSE q[j]) \in Entry
      <4>1. \A j \in 1..Len(q) : q[j] \in Entry
        BY <3>1, <3>2
      <4>2. ASSUME NEW e \in Entry PROVE Uncached(e) \in Entry
        BY DEF Uncached, Entry
      <4> QED
        BY <4>1, <4>2
    <3>4. f \in Seq(Entry) /\ Len(f) = Len(q)
      <4>1. f = [j \in 1..Len(q) |-> IF j \in first..n THEN Uncached(q[j]) ELSE q[j]]
        BY <3>2
      <4>2. [j \in 1..Len(q) |-> IF j \in first..n THEN Uncached(q[j]) ELSE q[j]] \in Seq(Entry)
        BY <3>2, <3>3, IsASeq
      <4> QED
        BY <4>1, <4>2, <3>2
    <3>5. entries' = [entries EXCEPT ![s] = f]
      BY <2>1
    <3> HIDE DEF f
    <3>6. entries' \in [Store -> Seq(Entry)] /\ entries'[s] = f
      BY <3>4, <3>5, <1>0 DEF TypeOK, EntriesOK
    <3>7. \A x \in created : Len(entries'[x]) >= Slots
      BY <3>1, <3>2, <3>4, <3>5, <3>6, <1>0, SMSStoreAssumption DEF TypeOK, EntriesOK
    <3> QED
      BY <2>1, <3>6, <3>7 DEF EntriesOK
  <2> QED
    BY <1>0, <2>1, <2>s, <2>3, <2>4, <2>5, <2>6 DEF TypeOK, Inv
<1>7. ASSUME NEW s \in Store, NEW i \in Index, Send(s, i) PROVE Inv'
  <2>1. call' \in Call
    <3>1. At(sel[2], i) \in Content
      BY <1>0, Lookup DEF TypeOK
    <3>2. i \in Nat /\ NoMessage \in Content /\ "send" \in Operation
      BY SMSStoreAssumption DEF Index, Operation, Content
    <3>3. CASE Returns("send", s, i, At(sel[2], i))
      BY <3>1, <3>2, <3>3, CallStep
    <3>4. CASE Throws("send", s, 0)
      BY <3>2, <3>4, CallStep
    <3> QED
      BY <1>7, <3>3, <3>4 DEF Send
  <2>2. EntriesOK'
    BY <1>0, <1>7, KeepEntriesStep, SMSStoreAssumption DEF Send, meTaVars, Index
  <2> QED
    BY <1>0, <1>7, <2>1, <2>2
       DEF Send, taVars, meTaVars, TypeOK, SelectionRemembered, Inv
<1>8. ASSUME NEW s \in Store, Size(s) PROVE Inv'
  <2>1. PICK r \in SetSMSStore(s, 1, TRUE) : Select(r) /\ Silent("none")
    BY <1>8 DEF Size
  <2>s. /\ sel' \in [1..3 -> Store] /\ supported' \in 1..3
        /\ lastSMSStoreName' \in Store \cup {NoStore}
        /\ cpmsParamCount' \in {-1} \cup 1..3
        /\ rejected' \in BOOLEAN /\ SelectionRemembered'
    BY <1>0, <2>1, SelectStep, 1 \in 1..3, Zenon
  <2>2. call' \in Call
    BY <2>1, CallStep, SMSStoreAssumption DEF Operation, Content
  <2> QED
    BY <1>0, <1>8, <2>s, <2>2 DEF Size, storeVars, TypeOK, EntriesOK, Inv
<1>9. ASSUME NEW s \in Store, SetReceiveStore(s) PROVE Inv'
  <2>1. PICK r \in SetSMSStore(s, 3, FALSE) :
          Select(r) /\ (Returns("receive", s, 0, NoMessage) \/ Throws("receive", s, 0))
    BY <1>9 DEF SetReceiveStore
  <2>s. /\ sel' \in [1..3 -> Store] /\ supported' \in 1..3
        /\ lastSMSStoreName' \in Store \cup {NoStore}
        /\ cpmsParamCount' \in {-1} \cup 1..3
        /\ rejected' \in BOOLEAN /\ SelectionRemembered'
    BY <1>0, <2>1, SelectStep, 3 \in 1..3, Zenon
  <2>2. call' \in Call
    BY <2>1, CallStep DEF Operation, Content
  <2> QED
    BY <1>0, <1>9, <2>s, <2>2 DEF SetReceiveStore, storeVars, TypeOK, EntriesOK, Inv
<1>10. ASSUME NEW s \in Store, NEW b \in BOOLEAN, SetCaching(s, b) PROVE Inv'
  <2>1. call' \in Call
    BY <1>10, CallStep, SMSStoreAssumption DEF SetCaching, Operation, Content
  <2> QED
    BY <1>0, <1>10, <2>1
       DEF SetCaching, taVars, meTaVars, TypeOK, EntriesOK, SelectionRemembered, Inv
<1>11. ASSUME NEW s \in Store, NEW j \in Slot, NEW c \in Content, MEChanges(s, j, c)
       PROVE  Inv'
  <2>1. call' \in Call
    BY <1>11, CallStep, SMSStoreAssumption DEF MEChanges, Operation, Content
  <2>2. <<s, j>> \in Store \X Index
    BY SMSStoreAssumption DEF Slot, Index
  <2> QED
    BY <1>0, <1>11, <2>1, <2>2
       DEF MEChanges, meTaVars, storeVars, TypeOK, EntriesOK, SelectionRemembered, Inv
<1>12. CASE UNCHANGED vars
  BY <1>0, <1>12 DEF vars, taVars, meTaVars, storeVars, ghostVars, TypeOK,
                     EntriesOK, SelectionRemembered, Inv
<1>13. ASSUME NEW s \in Store, NEW i \in Index, Erase(s, i) PROVE Inv'
  BY <1>6, <1>13, SMSStoreAssumption DEF Erase, Index
<1>14. ASSUME NEW s \in Store, Clear(s) PROVE Inv'
  <2>1. Len(entries[s]) \in Nat
    BY <1>0 DEF TypeOK, EntriesOK
  <2> QED
    BY <1>6, <1>14, <2>1 DEF Clear
<1> QED
  BY <1>1, <1>2, <1>3, <1>4, <1>5, <1>7, <1>8, <1>9, <1>10, <1>11, <1>12,
     <1>13, <1>14 DEF Next

-----------------------------------------------------------------------------
\* Every variable of MeTa, of the stores and of the TA keeps its type.
THEOREM TypeCorrect == Spec => []TypeOK
<1>1. Inv => TypeOK
  BY DEF Inv
<1> QED
  BY <1>1, InvInit, InvNext, PTL DEF Spec

\* The name setSMSStore remembers is the store the TA reads and deletes in,
\* unless the TA refused the last +CPMS: skipping the command is sound.
THEOREM SelectionSound == Spec => []SelectionRemembered
<1>1. Inv => SelectionRemembered
  BY DEF Inv
<1> QED
  BY <1>1, InvInit, InvNext, PTL DEF Spec

\* A step takes away or overwrites no message but the one it was asked to.
\* Only three kinds of steps write to the slots: an insert, which writes to
\* a free one, an erase, whose store is selected by the invariant, and the
\* ME itself.
LEMMA MessageSafeStep ==
  ASSUME Inv, [Next]_vars, NEW s \in Store, NEW j \in Slot
  PROVE  MessageSafe(s, j)
<1>0. TypeOK /\ SelectionRemembered
  BY DEF Inv
<1>1. CASE mem' = mem
  BY <1>1 DEF MessageSafe
<1>2. ASSUME NEW x \in Store, NEW m \in Message, Insert(x, m) PROVE MessageSafe(s, j)
  <2>1. PICK r \in SetSMSStore(x, 2, FALSE) :
          /\ Select(r)
          /\ \/ \E k \in Slot : /\ mem[r.sel[2]][k] = NoMessage
                               /\ mem' = [mem EXCEPT ![r.sel[2]][k] = m]
             \/ mem' = mem
    BY <1>2 DEF Insert
  <2>2. r.sel[2] \in Store
    <3>1. r.sel \in [1..3 -> Store]
      BY <1>0, <2>1, SelectStep, 2 \in 1..3, Zenon
    <3> QED
      BY <3>1
  <2>3. ASSUME NEW w \in Store, NEW k \in Slot, mem[w][k] = NoMessage,
               mem' = [mem EXCEPT ![w][k] = m]
        PROVE  MessageSafe(s, j)
    BY <2>3, <1>0 DEF MessageSafe, TypeOK
  <2> QED
    BY <2>1, <2>2, <2>3, <1>1
<1>3. ASSUME NEW x \in Store, NEW op \in {"erase", "clear"}, NEW first \in Nat \ {0},
             NEW last \in Nat, op = "erase" => first = last, EraseFrom(op, x, first, last)
      PROVE  MessageSafe(s, j)
  <2>1. PICK r \in SetSMSStore(x, 1, FALSE), n \in (first - 1)..last, lost \in SUBSET Slot :
          /\ Select(r)
          /\ lost # {} => lost = {n + 1} /\ r.ok /\ n < last
          /\ ~r.ok => n = first - 1
          /\ mem' = [mem EXCEPT ![r.sel[1]] = [k \in Slot |->
                       IF k \in (first..n) \cup lost THEN NoMessage ELSE mem[r.sel[1]][k]]]
          /\ Returns(op, x, last, NoMessage) \/ Throws(op, x, first)
    BY <1>3 DEF EraseFrom
  <2>2. /\ r.sel \in [1..3 -> Store]
        /\ r.ok /\ ~r.rejected => r.sel[1] = x
    BY <1>0, <2>1, SelectStep, 1 \in 1..3, Zenon
  <2>3. rejected' = r.rejected
    BY <2>1 DEF Select
  <2>4. call'.op = op /\ call'.by = x /\ (op = "erase" => call'.slot = first)
    BY <2>1, <1>3 DEF Returns, Throws
  <2>5. SUFFICES ASSUME mem[s][j] # NoMessage, mem'[s][j] # mem[s][j], ~r.rejected
                 PROVE  /\ call'.op \in {"erase", "clear"} /\ call'.by = s
                        /\ call'.op = "erase" => call'.slot = j
    BY <2>3 DEF MessageSafe
  <2>6. s = r.sel[1] /\ j \in (first..n) \cup lost
    BY <2>1, <2>2, <2>5, <1>0 DEF TypeOK
  <2>7. r.ok
    BY <2>1, <2>6
  <2>8. s = x
    BY <2>2, <2>5, <2>6, <2>7
  <2>9. op = "erase" => j = first
    BY <2>1, <2>6, <1>3
  <2> QED
    BY <2>4, <2>8, <2>9
<1>4. ASSUME NEW x \in Store, NEW k \in Slot, NEW c \in Content, MEChanges(x, k, c)
      PROVE  MessageSafe(s, j)
  BY <1>4 DEF MEChanges, Silent, MessageSafe
<1>5. ASSUME NEW x \in Store, NEW i \in Index, Erase(x, i) PROVE MessageSafe(s, j)
  BY <1>3, <1>5, SMSStoreAssumption DEF Erase, Index
<1>6. ASSUME NEW x \in Store, Clear(x) PROVE MessageSafe(s, j)
  <2>1. Len(entries[x]) \in Nat
    BY <1>0 DEF TypeOK, EntriesOK
  <2> QED
    BY <1>3, <1>6, <2>1 DEF Clear
<1> QED
  BY <1>1, <1>2, <1>4, <1>5, <1>6
     DEF Next, GetSMSStore, Aborts, ReadCached, ReadEntry, ReadCB, Send, Size,
         SetReceiveStore, SetCaching, taVars, vars

\* No stored message is lost or overwritten by an operation on another store
\* or another index.
THEOREM NoMessageLost == Spec => NoCollateralLoss
<1>1. Inv /\ [Next]_vars => [\A s \in Store, j \in Slot : MessageSafe(s, j)]_vars
  BY MessageSafeStep
<1> QED
  BY <1>1, InvInit, InvNext, PTL DEF Spec, NoCollateralLoss

-----------------------------------------------------------------------------
\* Every entry of every object is coherent with its slot.
Good(s, i) == entries[s][i].cached /\ <<s, i>> \notin suspect
                => entries[s][i].message = At(s, i)
Coherent   == \A s \in Store : \A i \in 1..Len(entries[s]) : Good(s, i)

\* Entries of one object change; each new one is uncached, suspect, read just
\* now, or an old one whose slot did not change.
LEMMA CoherentStep ==
  ASSUME TypeOK, Coherent, NEW s \in Store, NEW q,
         entries' = [entries EXCEPT ![s] = q],
         \A x \in Store, i \in Nat :
           x # s => <<x, i>> \in suspect' \/ (<<x, i>> \notin suspect /\ At(x, i)' = At(x, i)),
         \A i \in 1..Len(q) :
           \/ ~q[i].cached
           \/ <<s, i>> \in suspect'
           \/ q[i].message = At(s, i)'
           \/ /\ i \in 1..Len(entries[s]) /\ q[i] = entries[s][i]
              /\ <<s, i>> \notin suspect /\ At(s, i)' = At(s, i)
  PROVE  Coherent'
<1> SUFFICES ASSUME NEW x \in Store, NEW i \in 1..Len(entries'[x])
             PROVE  Good(x, i)'
  BY DEF Coherent
<1>1. entries \in [Store -> Seq(Entry)]
  BY DEF TypeOK, EntriesOK
<1>2. CASE x = s
  BY <1>1, <1>2 DEF Coherent, Good
<1>3. CASE x # s
  <2>1. entries'[x] = entries[x] /\ i \in 1..Len(entries[x]) /\ i \in Nat
    BY <1>1, <1>3
  <2> QED
    BY <1>3, <2>1 DEF Coherent, Good
<1> QED
  BY <1>2, <1>3

LEMMA KeepCoherent ==
  ASSUME TypeOK, Coherent, NEW s \in Store, NEW n \in Nat, KeepEntries(s, n),
         mem' = mem, suspect' = suspect
  PROVE  Coherent'
<1> DEFINE q == Resized(s, n)
<1>1. \A i \in 1..Len(q) : q[i] = IF i <= Len(entries[s]) THEN entries[s][i] ELSE NewEntry
  BY ResizedEntries
<1>2. \A i \in 1..Len(q) : ~q[i].cached \/ (i \in 1..Len(entries[s]) /\ q[i] = entries[s][i])
  BY <1>1 DEF NewEntry
<1>3. entries' = [entries EXCEPT ![s] = q]
  BY DEF KeepEntries
<1>4. \A x \in Store, i \in Nat : At(x, i)' = At(x, i)
  BY DEF At
<1> HIDE DEF q
<1>5. \A i \in 1..Len(q) :
           \/ ~q[i].cached
           \/ <<s, i>> \in suspect'
           \/ q[i].message = At(s, i)'
           \/ /\ i \in 1..Len(entries[s]) /\ q[i] = entries[s][i]
              /\ <<s, i>> \notin suspect /\ At(s, i)' = At(s, i)
  BY <1>2, <1>4
<1> QED
  BY <1>3, <1>4, <1>5, CoherentStep

\* What was seen of the other slots is as it was, or suspect.
OthersKept(s, n) ==
  \A x \in Store, i \in Nat :
    x # s \/ i # n =>
      \/ <<x, i>> \in suspect'
      \/ (<<x, i>> \in suspect' <=> <<x, i>> \in suspect) /\ At(x, i)' = At(x, i)

\* One entry is set, and the others stay as they were.
LEMMA SetCoherent ==
  ASSUME TypeOK, Coherent, NEW s \in Store, NEW n \in Nat \ {0}, NEW e \in Entry,
         SetEntry(s, n, e),
         ~e.cached \/ <<s, n>> \in suspect' \/ e.message = At(s, n)',
         OthersKept(s, n)
  PROVE  Coherent'
<1> USE DEF OthersKept
<1> DEFINE p == Resized(s, n)
           q == [p EXCEPT ![n] = e]
<1>1. /\ p \in Seq(Entry) /\ Len(p) >= n
      /\ \A i \in 1..Len(p) : p[i] = IF i <= Len(entries[s]) THEN entries[s][i] ELSE NewEntry
  BY ResizedEntries
<1>2. \A i \in 1..Len(p) : ~p[i].cached \/ (i \in 1..Len(entries[s]) /\ p[i] = entries[s][i])
  BY <1>1 DEF NewEntry
<1>3. entries' = [entries EXCEPT ![s] = q]
  BY DEF SetEntry
<1> HIDE DEF p
<1>4. Len(q) = Len(p) /\ \A i \in 1..Len(p) : q[i] = IF i = n THEN e ELSE p[i]
  BY <1>1
<1> HIDE DEF q
<1>5. \A i \in 1..Len(q) :
           \/ ~q[i].cached
           \/ <<s, i>> \in suspect'
           \/ q[i].message = At(s, i)'
           \/ /\ i \in 1..Len(entries[s]) /\ q[i] = entries[s][i]
              /\ <<s, i>> \notin suspect /\ At(s, i)' = At(s, i)
  BY <1>2, <1>4
<1> QED
  BY <1>3, <1>5, CoherentStep

LEMMA CoherentNext == Inv /\ Coherent /\ [Next]_vars => Coherent'
<1> SUFFICES ASSUME Inv, Coherent, [Next]_vars PROVE Coherent'
  OBVIOUS
<1>0. TypeOK /\ SelectionRemembered
  BY DEF Inv
<1>1. ASSUME UNCHANGED <<mem, entries, suspect>> PROVE Coherent'
  BY <1>1 DEF Coherent, Good, At
<1>2. ASSUME NEW s \in Store, GetSMSStore(s) PROVE Coherent'
  BY <1>0, <1>1, <1>2, KeepCoherent, SMSStoreAssumption DEF GetSMSStore, storeVars
<1>3. ASSUME NEW s \in Store, NEW i \in Index, ReadCached(s, i) \/ Send(s, i) PROVE Coherent'
  BY <1>0, <1>3, KeepCoherent, SMSStoreAssumption DEF ReadCached, Send, taVars, Index
<1>4. ASSUME NEW s \in Store, NEW i \in Index, ReadEntry(s, i) PROVE Coherent'
  <2>1. PICK r \in SetSMSStore(s, 1, FALSE) :
          /\ Select(r) /\ mem' = mem
          /\ \/ /\ r.ok
                /\ SetEntry(s, i, [cached |-> TRUE, message |-> At(r.sel[1], i)])
                /\ suspect' = IF r.rejected THEN suspect \cup {<<s, i>>}
                              ELSE suspect \ {<<s, i>>}
             \/ KeepEntries(s, i) /\ suspect' = suspect
    BY <1>4 DEF ReadEntry, Aborts
  <2>2. /\ r.sel \in [1..3 -> Store] /\ r.rejected \in BOOLEAN
        /\ r.ok /\ ~r.rejected => r.sel[1] = s
    BY <1>0, <2>1, SelectStep, 1 \in 1..3, Zenon
  <2>3. i \in Nat \ {0}
    BY SMSStoreAssumption DEF Index
  <2>4. CASE KeepEntries(s, i) /\ suspect' = suspect
    BY <1>0, <2>1, <2>3, <2>4, KeepCoherent
  <2>5. CASE /\ r.ok
             /\ SetEntry(s, i, [cached |-> TRUE, message |-> At(r.sel[1], i)])
             /\ suspect' = IF r.rejected THEN suspect \cup {<<s, i>>} ELSE suspect \ {<<s, i>>}
    <3> DEFINE e == [cached |-> TRUE, message |-> At(r.sel[1], i)]
    <3>1. e \in Entry
      <4>1. r.sel[1] \in Store
        BY <2>2
      <4> QED
        BY <1>0, <4>1, Lookup DEF Entry
    <3>2. <<s, i>> \in suspect' \/ e.message = At(s, i)'
      <4>1. CASE r.rejected
        BY <2>5, <4>1
      <4>2. CASE ~r.rejected
        BY <2>1, <2>2, <2>5, <4>2 DEF At
      <4> QED
        BY <4>1, <4>2
    <3>3. \A x \in Store, k \in Nat : At(x, k)' = At(x, k)
      BY <2>1 DEF At
    <3>4. \A x \in Store, k \in Nat : x # s \/ k # i => (<<x, k>> \in suspect' <=> <<x, k>> \in suspect)
      BY <2>5
    <3>5. SetEntry(s, i, e)
      BY <2>5
    <3> HIDE DEF e
    <3> QED
      BY <1>0, <2>3, <3>1, <3>2, <3>3, <3>4, <3>5, SetCoherent DEF OthersKept
  <2> QED
    BY <2>1, <2>4, <2>5
<1>5. ASSUME NEW s \in Store, NEW i \in Index, ReadCB(s, i) PROVE Coherent'
  <2>1. SetEntry(s, i, Uncached(EntryOf(s, i))) /\ mem' = mem /\ suspect' = suspect
    BY <1>5 DEF ReadCB
  <2>2. i \in Nat \ {0}
    BY SMSStoreAssumption DEF Index
  <2>3. Uncached(EntryOf(s, i)) \in Entry /\ ~Uncached(EntryOf(s, i)).cached
    BY <1>0, Lookup DEF Uncached, Entry
  <2>4. \A x \in Store, k \in Nat : At(x, k)' = At(x, k)
    BY <2>1 DEF At
  <2> QED
    BY <1>0, <2>1, <2>2, <2>3, <2>4, SetCoherent DEF OthersKept
<1>6. ASSUME NEW s \in Store, NEW m \in Message, Insert(s, m) PROVE Coherent'
  <2>1. PICK r \in SetSMSStore(s, 2, FALSE) :
          /\ Select(r)
          /\ \/ \E j \in Slot :
                  /\ mem' = [mem EXCEPT ![r.sel[2]][j] = m]
                  /\ suspect' = IF r.sel[2] = s THEN suspect
                                ELSE suspect \cup {<<r.sel[2], j>>}
                  /\ SetEntry(s, j, Uncached(EntryOf(s, j)))
             \/ \E j \in Slot :
                  /\ mem' = [mem EXCEPT ![r.sel[2]][j] = m]
                  /\ suspect' = suspect \cup {<<r.sel[2], j>>}
                  /\ UNCHANGED entries
             \/ UNCHANGED <<mem, entries, suspect>>
    BY <1>6 DEF Insert
  <2>2. r.sel \in [1..3 -> Store]
    BY <1>0, <2>1, SelectStep, 2 \in 1..3, Zenon
  <2>3. PICK w \in Store : w = r.sel[2]
    BY <2>2
  <2>4. \A j \in Slot : j \in Index /\ j \in Nat \ {0}
    BY SMSStoreAssumption DEF Slot, Index
  <2>5. ASSUME NEW j \in Slot, mem' = [mem EXCEPT ![w][j] = m],
               NEW x \in Store, NEW i \in Nat, x # w \/ i # j
        PROVE  At(x, i)' = At(x, i)
    BY <1>0, <2>5 DEF At, TypeOK
  <2>6. ASSUME NEW j \in Slot, mem' = [mem EXCEPT ![w][j] = m],
               suspect' = IF w = s THEN suspect ELSE suspect \cup {<<w, j>>},
               SetEntry(s, j, Uncached(EntryOf(s, j)))
        PROVE  Coherent'
    <3>1. Uncached(EntryOf(s, j)) \in Entry /\ ~Uncached(EntryOf(s, j)).cached
      BY <1>0, <2>4, Lookup DEF Uncached, Entry
    <3>2. ASSUME NEW x \in Store, NEW i \in Nat, x # s \/ i # j
          PROVE  \/ <<x, i>> \in suspect'
                 \/ (<<x, i>> \in suspect' <=> <<x, i>> \in suspect) /\ At(x, i)' = At(x, i)
      BY <2>5, <2>6, <3>2
    <3> DEFINE e == Uncached(EntryOf(s, j))
    <3>3. SetEntry(s, j, e) /\ e \in Entry /\ ~e.cached /\ j \in Nat \ {0}
      BY <2>4, <2>6, <3>1
    <3> HIDE DEF e
    <3>4. OthersKept(s, j)
      BY <3>2 DEF OthersKept
    <3> QED
      BY <1>0, <3>3, <3>4, SetCoherent, Zenon
  <2>7. ASSUME NEW j \in Slot, mem' = [mem EXCEPT ![w][j] = m],
               suspect' = suspect \cup {<<w, j>>}, entries' = entries
        PROVE  Coherent'
    <3>1. ASSUME NEW x \in Store, NEW i \in 1..Len(entries[x]) PROVE Good(x, i)'
      <4>1. i \in Nat
        OBVIOUS
      <4>2. CASE x = w /\ i = j
        BY <2>7, <4>2 DEF Good
      <4>3. CASE x # w \/ i # j
        BY <2>5, <2>7, <4>1, <4>3 DEF Coherent, Good
      <4> QED
        BY <4>2, <4>3
    <3> QED
      BY <2>7, <3>1 DEF Coherent
  <2> QED
    BY <1>1, <2>1, <2>3, <2>6, <2>7
<1>7. ASSUME NEW s \in Store, NEW op \in {"erase", "clear"},
             NEW first \in Nat \ {0}, NEW last \in Nat, EraseFrom(op, s, first, last)
      PROVE  Coherent'
  <2> DEFINE p == Resized(s, last)
  <2>1. PICK r \in SetSMSStore(s, 1, FALSE), n \in (first - 1)..last, lost \in SUBSET Slot :
          /\ Select(r)
          /\ lost # {} => r.ok
          /\ ~r.ok => n = first - 1
          /\ first..n \subseteq Slot
          /\ mem' = [mem EXCEPT ![r.sel[1]] = [j \in Slot |->
                       IF j \in (first..n) \cup lost THEN NoMessage ELSE mem[r.sel[1]][j]]]
          /\ suspect' = suspect \cup {<<r.sel[1], j>> : j \in lost}
                \cup {<<r.sel[1], j>> : j \in {k \in (first..n) \cup lost : r.rejected}}
          /\ entries' = [entries EXCEPT ![s] = [j \in DOMAIN p |->
                           IF j \in first..n THEN Uncached(p[j]) ELSE p[j]]]
    BY <1>7 DEF EraseFrom
  <2> DEFINE q == [j \in DOMAIN p |-> IF j \in first..n THEN Uncached(p[j]) ELSE p[j]]
  <2>2. /\ r.sel \in [1..3 -> Store] /\ r.rejected \in BOOLEAN
        /\ r.ok /\ ~r.rejected => r.sel[1] = s
    BY <1>0, <2>1, SelectStep, 1 \in 1..3, Zenon
  <2>3. PICK w \in Store : w = r.sel[1]
    BY <2>2
  <2>4. ASSUME NEW x \in Store, NEW i \in Nat
        PROVE  \/ At(x, i)' = At(x, i)
               \/ x = w /\ i \in (first..n) \cup lost
    BY <1>0, <2>1, <2>3 DEF At, TypeOK
  <2>5. ASSUME NEW i \in lost PROVE <<w, i>> \in suspect'
    BY <2>1, <2>3
  <2>6. ASSUME NEW i \in first..n PROVE <<w, i>> \in suspect' \/ w = s
    <3>1. r.ok
      BY <2>1
    <3>2. CASE r.rejected
      BY <2>1, <2>3, <3>2
    <3> QED
      BY <2>2, <2>3, <3>1, <3>2
  <2>7. /\ p \in Seq(Entry)
        /\ \A i \in 1..Len(p) : p[i] = IF i <= Len(entries[s]) THEN entries[s][i] ELSE NewEntry
    BY <1>0, ResizedEntries
  <2>8. \A i \in 1..Len(p) : ~p[i].cached \/ (i \in 1..Len(entries[s]) /\ p[i] = entries[s][i])
    BY <2>7 DEF NewEntry
  <2>9. entries' = [entries EXCEPT ![s] = q] /\ suspect \subseteq suspect'
    BY <2>1
  <2> HIDE DEF p
  <2>10. DOMAIN p = 1..Len(p) /\ Len(p) \in Nat
    BY <2>7, LenProperties
  <2>11. q = [i \in 1..Len(p) |-> IF i \in first..n THEN Uncached(p[i]) ELSE p[i]]
    BY <2>10
  <2>12. Len(q) = Len(p)
    BY <2>10, <2>11
  <2>13. ASSUME NEW i \in 1..Len(p)
         PROVE  (q[i] = p[i] /\ i \notin first..n) \/ ~q[i].cached
    <3>1. p[i] \in Entry
      BY <2>7, ElementOfSeq
    <3> QED
      BY <2>11, <3>1 DEF Uncached, Entry
  <2> HIDE DEF q
  <2>14. ASSUME NEW i \in 1..Len(q)
         PROVE  \/ ~q[i].cached
                \/ <<s, i>> \in suspect'
                \/ q[i].message = At(s, i)'
                \/ /\ i \in 1..Len(entries[s]) /\ q[i] = entries[s][i]
                   /\ <<s, i>> \notin suspect /\ At(s, i)' = At(s, i)
    <3>1. i \in 1..Len(p) /\ i \in Nat
      BY <2>10, <2>12
    <3>2. CASE ~q[i].cached
      BY <3>2
    <3>3. CASE q[i] = p[i] /\ i \notin first..n
      <4>1. At(s, i)' = At(s, i) \/ (s = w /\ i \in lost)
        BY <2>4, <3>1, <3>3
      <4> QED
        BY <2>5, <2>8, <2>9, <3>1, <3>3, <4>1
    <3> QED
      BY <2>13, <3>1, <3>2, <3>3
  <2>15. ASSUME NEW x \in Store, NEW i \in Nat, x # s
         PROVE  <<x, i>> \in suspect' \/ (<<x, i>> \notin suspect /\ At(x, i)' = At(x, i))
    BY <2>4, <2>5, <2>6, <2>9, <2>15
  <2> QED
    BY <1>0, <2>9, <2>14, <2>15, CoherentStep
<1>8. ASSUME NEW s \in Store, NEW j \in Slot, NEW c \in Content, MEChanges(s, j, c)
      PROVE  Coherent'
  <2>1. /\ mem' = [mem EXCEPT ![s][j] = c] /\ suspect' = suspect \cup {<<s, j>>}
        /\ entries' = entries
    BY <1>8 DEF MEChanges, storeVars
  <2>2. ASSUME NEW x \in Store, NEW i \in 1..Len(entries[x]) PROVE Good(x, i)'
    <3>1. CASE x = s /\ i = j
      BY <2>1, <3>1 DEF Good
    <3>2. CASE x # s \/ i # j
      BY <1>0, <2>1, <3>2 DEF Coherent, Good, At, TypeOK
    <3> QED
      BY <3>1, <3>2
  <2> QED
    BY <2>1, <2>2 DEF Coherent
<1>9. ASSUME NEW s \in Store, NEW i \in Index, Erase(s, i) PROVE Coherent'
  <2>1. i \in Nat \ {0}
    BY SMSStoreAssumption DEF Index
  <2> QED
    BY <1>7, <1>9, <2>1 DEF Erase
<1>10. ASSUME NEW s \in Store, Clear(s) PROVE Coherent'
  <2>1. Len(entries[s]) \in Nat
    BY <1>0 DEF TypeOK, EntriesOK
  <2> QED
    BY <1>7, <1>10, <2>1 DEF Clear
<1>11. ASSUME NEW s \in Store,
              Size(s) \/ SetReceiveStore(s) \/ (\E b \in BOOLEAN : SetCaching(s, b))
       PROVE  Coherent'
  BY <1>1, <1>11 DEF Size, SetReceiveStore, SetCaching, storeVars, taVars
<1>12. CASE UNCHANGED vars
  BY <1>1, <1>12 DEF vars, taVars, storeVars, ghostVars
<1> QED
  BY <1>2, <1>3, <1>4, <1>5, <1>6, <1>8, <1>9, <1>10, <1>11, <1>12 DEF Next

\* A read returns what the entry or the slot holds.
LEMMA ReadsStep == Inv /\ Coherent /\ ReadsOwnSlot /\ [Next]_vars => ReadsOwnSlot'
<1> SUFFICES ASSUME Inv, Coherent, ReadsOwnSlot, [Next]_vars PROVE ReadsOwnSlot'
  OBVIOUS
<1>0. TypeOK /\ SelectionRemembered
  BY DEF Inv
<1>1. ASSUME call'.op # "read" \/ ~call'.ok PROVE ReadsOwnSlot'
  BY <1>1 DEF ReadsOwnSlot
<1>2. ASSUME NEW s \in Store, NEW i \in Index, ReadCached(s, i) PROVE ReadsOwnSlot'
  <2>1. /\ EntryOf(s, i).cached /\ mem' = mem /\ suspect' = suspect
        /\ call'.by = s /\ call'.slot = i /\ call'.value = EntryOf(s, i).message
    BY <1>2 DEF ReadCached, IsCached, Returns, taVars
  <2>2. i \in Nat /\ i >= 1
    BY SMSStoreAssumption DEF Index
  <2>3. EntryOf(s, i) = IF i <= Len(entries[s]) THEN entries[s][i] ELSE NewEntry
    <3>1. i \in 1..Len(Resized(s, i))
      BY <1>0, <2>2, ResizedEntries
    <3> QED
      BY <1>0, <2>2, <3>1, ResizedEntries DEF EntryOf
  <2>4. i \in 1..Len(entries[s]) /\ EntryOf(s, i) = entries[s][i]
    <3>1. Len(entries[s]) \in Nat
      BY <1>0 DEF TypeOK, EntriesOK
    <3> QED
      BY <2>1, <2>2, <2>3, <3>1 DEF NewEntry
  <2>5. <<s, i>> \notin suspect => EntryOf(s, i).message = At(s, i)
    BY <2>1, <2>4 DEF Coherent, Good
  <2> QED
    BY <2>1, <2>5 DEF ReadsOwnSlot, At
<1>3. ASSUME NEW s \in Store, NEW i \in Index, ReadEntry(s, i) PROVE ReadsOwnSlot'
  <2>1. PICK r \in SetSMSStore(s, 1, FALSE) :
          /\ Select(r) /\ mem' = mem
          /\ \/ /\ r.ok /\ Returns("read", s, i, At(r.sel[1], i))
                /\ suspect' = IF r.rejected THEN suspect \cup {<<s, i>>}
                              ELSE suspect \ {<<s, i>>}
             \/ Throws("read", s, 0)
    BY <1>3 DEF ReadEntry, Aborts
  <2>2. r.rejected \in BOOLEAN /\ (r.ok /\ ~r.rejected => r.sel[1] = s)
    BY <1>0, <2>1, SelectStep, 1 \in 1..3, Zenon
  <2>3. CASE Throws("read", s, 0)
    BY <1>1, <2>3 DEF Throws
  <2>4. CASE /\ r.ok /\ Returns("read", s, i, At(r.sel[1], i))
             /\ suspect' = IF r.rejected THEN suspect \cup {<<s, i>>} ELSE suspect \ {<<s, i>>}
    <3>1. call'.by = s /\ call'.slot = i /\ call'.value = At(r.sel[1], i)
      BY <2>4 DEF Returns
    <3>2. CASE r.rejected
      BY <2>4, <3>1, <3>2 DEF ReadsOwnSlot
    <3>3. CASE ~r.rejected
      BY <2>1, <2>2, <2>4, <3>1, <3>3 DEF ReadsOwnSlot, At
    <3> QED
      BY <2>2, <3>2, <3>3
  <2> QED
    BY <2>1, <2>3, <2>4
<1>4. ASSUME NEW s \in Store,
             \/ GetSMSStore(s) \/ Size(s) \/ SetReceiveStore(s)
             \/ \E b \in BOOLEAN : SetCaching(s, b)
             \/ \E i \in Index : ReadCB(s, i) \/ Send(s, i)
             \/ \E m \in Message : Insert(s, m)
      PROVE  ReadsOwnSlot'
  <2>1. ASSUME NEW op \in {"none", "receive", "send", "insert"}, NEW i, NEW v,
               Silent(op) \/ Returns(op, s, i, v) \/ Throws(op, s, i)
        PROVE  ReadsOwnSlot'
    BY <1>1, <2>1 DEF Silent, Returns, Throws
  <2>2. CASE GetSMSStore(s)
    BY <2>1, <2>2 DEF GetSMSStore
  <2>3. CASE Size(s)
    BY <2>1, <2>3 DEF Size
  <2>4. CASE SetReceiveStore(s)
    BY <2>1, <2>4 DEF SetReceiveStore
  <2>5. CASE \E b \in BOOLEAN : SetCaching(s, b)
    BY <2>1, <2>5 DEF SetCaching
  <2>6. CASE \E i \in Index : ReadCB(s, i)
    BY <2>1, <2>6 DEF ReadCB
  <2>7. CASE \E i \in Index : Send(s, i)
    BY <2>1, <2>7 DEF Send
  <2>8. CASE \E m \in Message : Insert(s, m)
    BY <2>1, <2>8 DEF Insert
  <2> QED
    BY <1>4, <2>2, <2>3, <2>4, <2>5, <2>6, <2>7, <2>8
<1>5. ASSUME NEW s \in Store, Clear(s) \/ \E i \in Index : Erase(s, i) PROVE ReadsOwnSlot'
  <2>1. ASSUME NEW op \in {"erase", "clear"}, NEW first, NEW last,
               EraseFrom(op, s, first, last)
        PROVE  ReadsOwnSlot'
    <3>1. Returns(op, s, last, NoMessage) \/ Throws(op, s, first)
      BY <2>1 DEF EraseFrom
    <3> QED
      BY <1>1, <3>1 DEF Returns, Throws
  <2> QED
    BY <1>5, <2>1 DEF Clear, Erase
<1>6. ASSUME NEW s \in Store, NEW j \in Slot, NEW c \in Content, MEChanges(s, j, c)
      PROVE  ReadsOwnSlot'
  BY <1>1, <1>6 DEF MEChanges, Silent
<1>7. CASE UNCHANGED vars
  BY <1>7 DEF vars, taVars, ghostVars, ReadsOwnSlot, At
<1> QED
  BY <1>2, <1>3, <1>4, <1>5, <1>6, <1>7 DEF Next

LEMMA CacheInvariance == Spec => [](Coherent /\ ReadsOwnSlot)
<1>1. Init => Coherent /\ ReadsOwnSlot
  BY DEF Init, Coherent, NoCall, ReadsOwnSlot
<1>2. Inv /\ Coherent /\ ReadsOwnSlot /\ [Next]_vars => (Coherent /\ ReadsOwnSlot)'
  BY CoherentNext, ReadsStep
<1> QED
  BY <1>1, <1>2, InvInit, InvNext, PTL DEF Spec

\* A cached message is the one in the slot, unless something happened that
\* the object could not know of: insert, erase and clear invalidate enough.
THEOREM CacheIsCoherent == Spec => []CacheCoherent
<1>1. TypeOK /\ Coherent => CacheCoherent
  BY DEF TypeOK, Coherent, Good, CacheCoherent
<1> QED
  BY <1>1, CacheInvariance, InvInit, InvNext, PTL DEF Spec, Inv

\* A read returns the message of the object's own store: from the cache,
\* which is coherent, or from the store that is selected.
THEOREM ReadsAreRight == Spec => []ReadsOwnSlot
  BY CacheInvariance, PTL
=============================================================================
