------------------------------ MODULE SMSStore ------------------------------
(***************************************************************************)
(* The SMS stores of a mobile: the SMSStore objects of gsm_sms_store.cc,   *)
(* which read and write the slots of the ME and cache what they read, and  *)
(* MeTa::setSMSStore, which selects the store that the next AT command     *)
(* works on and remembers the last name it selected.                       *)
(*                                                                         *)
(* One MeTa object serves all stores.  Every public operation is one       *)
(* action: the store selection, the AT command and the bookkeeping of the  *)
(* cache.  The library is single threaded and blocks on each answer, so    *)
(* what the ME does on its own (a message arrives, the user deletes one)   *)
(* falls between two operations.                                           *)
(***************************************************************************)
EXTENDS Integers, Sequences, FiniteSets

CONSTANTS
  Store,        \* the stores of the ME, named "SM", "ME", "MT", ...
  Message,      \* the messages that are stored
  NoStore,      \* the empty string: no store was selected yet
  NoMessage,    \* an empty slot
  Slots,        \* the number of slots of every store
  MaxIndex,     \* the largest index a caller passes to operator[]
  ParamCounts,  \* the numbers of parameters the TA's +CPMS may take
  Rejects,      \* whether the TA may refuse a command
  LosesAnswers, \* whether the answer to an executed command may be lost
  MEActs        \* whether the ME stores and deletes messages on its own

ASSUME SMSStoreAssumption ==
  /\ Store # {} /\ NoStore \notin Store
  /\ NoMessage \notin Message
  /\ Slots \in Nat \ {0} /\ MaxIndex \in Nat /\ MaxIndex >= Slots
  /\ ParamCounts \subseteq 1..3
  /\ Rejects \in BOOLEAN /\ LosesAnswers \in BOOLEAN /\ MEActs \in BOOLEAN

Slot    == 1..Slots
Index   == 1..MaxIndex
Content == Message \cup {NoMessage}

VARIABLES
  \* the ME and its TA
  mem,               \* the content of every slot of every store
  sel,               \* the stores +CPMS selected: 1 read/delete, 2 write/send, 3 receive
  supported,         \* how many parameters the TA's +CPMS takes
  \* class MeTa
  lastSMSStoreName,  \* the name the last setSMSStore was called with
  cpmsParamCount,    \* Capabilities::_cpmsParamCount, -1 while unknown
  created,           \* the stores _smsStoreCache holds an object for
  \* class SMSStore
  useCache,          \* _useCache of every object
  entries,           \* _store of every object: per index, is it cached, and what
  \* what an observer sees
  call,              \* the last operation and its result
  rejected,          \* the TA refused the last +CPMS it was sent
  suspect            \* slots that changed, or were read, behind the object's back

taVars    == <<mem, sel, supported>>
meTaVars  == <<lastSMSStoreName, cpmsParamCount, created>>
storeVars == <<useCache, entries>>
ghostVars == <<call, rejected, suspect>>
vars      == <<taVars, meTaVars, storeVars, ghostVars>>

Entry    == [cached : BOOLEAN, message : Content]
NewEntry == [cached |-> FALSE, message |-> NoMessage]
NoCall   == [op |-> "none", by |-> NoStore, slot |-> 0, ok |-> TRUE,
             value |-> NoMessage]

-----------------------------------------------------------------------------
(***************************************************************************)
(* MeTa::setSMSStore.  Its result is one of a set of records: the state of *)
(* MeTa and of the TA it leaves, whether +CPMS was refused, and whether it *)
(* returned or threw.  The name is remembered before the command is sent,  *)
(* and the count of parameters is set to 1 before it is asked for.         *)
(***************************************************************************)
paramCount == IF cpmsParamCount = -1 THEN supported ELSE cpmsParamCount

Selected(s, storeTypes) ==
  [k \in 1..3 |-> IF k = 1 \/ (k <= paramCount /\ k <= storeTypes)
                  THEN s ELSE sel[k]]

CountFails ==
  IF cpmsParamCount = -1 /\ (Rejects \/ LosesAnswers)
  THEN {[count |-> 1, last |-> lastSMSStoreName, sel |-> sel,
         rejected |-> rejected, ok |-> FALSE]}
  ELSE {}

Sent(s, selection, refused, answered) ==
  [count |-> paramCount, last |-> s, sel |-> selection,
   rejected |-> refused, ok |-> answered]

Chatted(s, storeTypes) ==
  {Sent(s, Selected(s, storeTypes), FALSE, TRUE)}
  \cup (IF LosesAnswers THEN {Sent(s, Selected(s, storeTypes), FALSE, FALSE)} ELSE {})
  \cup (IF Rejects THEN {Sent(s, sel, TRUE, FALSE)} ELSE {})

Skipped == [count |-> paramCount, last |-> lastSMSStoreName, sel |-> sel,
            rejected |-> rejected, ok |-> TRUE]

\* Faulty variants: the name is remembered before the parameters are
\* counted; a store is only ever selected once.
SetSMSStoreEarly(s, storeTypes, needResultCode) ==
  {[r EXCEPT !.last = s] : r \in CountFails} \cup
  (IF needResultCode \/ lastSMSStoreName # s
   THEN Chatted(s, storeTypes) ELSE {Skipped})
SetSMSStoreOnce(s, storeTypes, needResultCode) ==
  CountFails \cup
  (IF needResultCode \/ lastSMSStoreName = NoStore
   THEN Chatted(s, storeTypes) ELSE {Skipped})

SetSMSStore(s, storeTypes, needResultCode) ==
  CountFails \cup
  (IF needResultCode \/ lastSMSStoreName # s
   THEN Chatted(s, storeTypes) ELSE {Skipped})

Select(r) ==
  /\ cpmsParamCount' = r.count
  /\ lastSMSStoreName' = r.last
  /\ sel' = r.sel
  /\ rejected' = r.rejected
  /\ UNCHANGED supported

Returns(op, s, i, v) ==
  call' = [op |-> op, by |-> s, slot |-> i, ok |-> TRUE, value |-> v]
Throws(op, s, i) ==
  call' = [op |-> op, by |-> s, slot |-> i, ok |-> FALSE, value |-> NoMessage]
Silent(op) ==
  call' = [op |-> op, by |-> NoStore, slot |-> 0, ok |-> TRUE, value |-> NoMessage]

\* The operation failed before its own command was sent.
Aborts(op, s) ==
  /\ Throws(op, s, 0)
  /\ UNCHANGED <<mem, created, suspect>>

-----------------------------------------------------------------------------
(***************************************************************************)
(* resizeStore, and what the AT commands do to the selected store.         *)
(***************************************************************************)
\* Faulty variant: one entry short.
ResizedShort(s, n) ==
  [i \in 1..(IF n - 1 > Len(entries[s]) THEN n - 1 ELSE Len(entries[s])) |->
     IF i <= Len(entries[s]) THEN entries[s][i] ELSE NewEntry]

Resized(s, n) ==
  [i \in 1..(IF n > Len(entries[s]) THEN n ELSE Len(entries[s])) |->
     IF i <= Len(entries[s]) THEN entries[s][i] ELSE NewEntry]

\* +CMGR of an index the store does not have fails with error 321, which
\* readEntry takes for an empty slot.
At(s, i) == IF i \in Slot THEN mem[s][i] ELSE NoMessage

\* The entry is to be read again.  Faulty variant: the flag is not cleared.
UncachedNot(e) == e
Uncached(e) == [e EXCEPT !.cached = FALSE]

\* cached(): the entry holds a message and caching is enabled.  Faulty
\* variant: whether the entry was ever read is not looked at.
IsCachedAlways(s, e) == useCache[s]
IsCached(s, e) == e.cached /\ useCache[s]

SetEntry(s, i, e) == entries' = [entries EXCEPT ![s] = [Resized(s, i) EXCEPT ![i] = e]]
KeepEntries(s, i) == entries' = [entries EXCEPT ![s] = Resized(s, i)]

EntryOf(s, i) == Resized(s, i)[i]

-----------------------------------------------------------------------------
(***************************************************************************)
(* MeTa::getSMSStore and the constructor of SMSStore: select the store for *)
(* reading and size the vector of entries from the answer.                 *)
(***************************************************************************)
GetSMSStore(s) ==
  /\ s \notin created
  /\ \E r \in SetSMSStore(s, 1, TRUE) :
       /\ Select(r)
       /\ \/ /\ r.ok
             /\ created' = created \cup {s}
             /\ useCache' = [useCache EXCEPT ![s] = TRUE]
             /\ KeepEntries(s, Slots)
             /\ Silent("none")
             /\ UNCHANGED <<mem, suspect>>
          \/ /\ ~r.ok
             /\ Silent("none") /\ UNCHANGED <<mem, created, suspect>>
             /\ UNCHANGED storeVars

(***************************************************************************)
(* SMSStoreEntry::message() (and status(), empty()) of operator[](i-1):    *)
(* answered from the cache, or read with +CMGR from the store selected for *)
(* reading and then cached.                                                *)
(***************************************************************************)
ReadCached(s, i) ==
  /\ s \in created
  /\ IsCached(s, EntryOf(s, i))
  /\ KeepEntries(s, i)
  /\ Returns("read", s, i, EntryOf(s, i).message)
  /\ UNCHANGED <<taVars, meTaVars, useCache, rejected, suspect>>

ReadEntry(s, i) ==
  /\ s \in created
  /\ ~IsCached(s, EntryOf(s, i))
  /\ \E r \in SetSMSStore(s, 1, FALSE) :
       /\ Select(r)
       /\ \/ /\ r.ok
             /\ SetEntry(s, i, [cached |-> TRUE, message |-> At(r.sel[1], i)])
             /\ Returns("read", s, i, At(r.sel[1], i))
             /\ suspect' = IF r.rejected THEN suspect \cup {<<s, i>>}
                           ELSE suspect \ {<<s, i>>}
             /\ UNCHANGED <<mem, created>>
          \/ /\ ~r.ok \/ Rejects \/ LosesAnswers
             /\ KeepEntries(s, i)
             /\ Aborts("read", s)
  /\ UNCHANGED useCache

(***************************************************************************)
(* SMSStoreEntry::cbMessage() never caches: it clears the flag, then reads.*)
(***************************************************************************)
ReadCB(s, i) ==
  /\ s \in created
  /\ \E r \in SetSMSStore(s, 1, FALSE) :
       /\ Select(r)
       /\ Silent("none")
  /\ SetEntry(s, i, Uncached(EntryOf(s, i)))
  /\ UNCHANGED <<mem, created, useCache, suspect>>

(***************************************************************************)
(* doInsert: +CMGW writes to a free slot of the store selected for writing *)
(* and answers its index, whose entry is read again when next asked for.   *)
(***************************************************************************)
Insert(s, m) ==
  /\ s \in created
  /\ \E r \in SetSMSStore(s, 2, FALSE) :
       LET free == {j \in Slot : mem[r.sel[2]][j] = NoMessage}
       IN /\ Select(r)
          /\ \/ \E j \in free :
                  /\ r.ok
                  /\ mem' = [mem EXCEPT ![r.sel[2]][j] = m]
                  /\ suspect' = IF r.sel[2] = s THEN suspect
                                ELSE suspect \cup {<<r.sel[2], j>>}
                  /\ SetEntry(s, j, Uncached(EntryOf(s, j)))
                  /\ Returns("insert", s, j, m)
             \/ \E j \in free :
                  /\ r.ok /\ LosesAnswers
                  /\ mem' = [mem EXCEPT ![r.sel[2]][j] = m]
                  /\ suspect' = suspect \cup {<<r.sel[2], j>>}
                  /\ UNCHANGED entries
                  /\ Throws("insert", s, 0)
             \/ /\ ~r.ok \/ Rejects \/ LosesAnswers \/ free = {}
                /\ Throws("insert", s, 0)
                /\ UNCHANGED <<mem, entries, suspect>>
  /\ UNCHANGED <<created, useCache>>

(***************************************************************************)
(* erase(iterator) for the indices first..last in turn, as clear() does:   *)
(* +CMGD in the store selected for reading, then the entry's flag is       *)
(* cleared.  When the command of index n + 1 fails (an index without a     *)
(* message may be an error), the loop ends and that entry's flag is not    *)
(* cleared, though the TA may have deleted the message.                    *)
(***************************************************************************)
EraseFrom(op, s, first, last) ==
  \E r \in SetSMSStore(s, 1, FALSE), n \in (first - 1)..last, lost \in SUBSET Slot :
    LET at   == r.sel[1]
        gone == (first..n) \cup lost
    IN /\ Select(r)
       /\ first..n \subseteq Slot
       /\ lost # {} => lost = {n + 1} /\ r.ok /\ LosesAnswers /\ n < last
       /\ ~r.ok => n = first - 1
       /\ n < last => ~r.ok \/ Rejects \/ LosesAnswers \/ At(at, n + 1) = NoMessage
       /\ mem' = [mem EXCEPT ![at] = [j \in Slot |->
                    IF j \in gone THEN NoMessage ELSE mem[at][j]]]
       /\ suspect' = suspect \cup {<<at, j>> : j \in lost}
                     \cup {<<at, j>> : j \in {k \in gone : r.rejected}}
       /\ entries' = [entries EXCEPT ![s] = [j \in DOMAIN Resized(s, last) |->
                        IF j \in first..n THEN Uncached(Resized(s, last)[j])
                        ELSE Resized(s, last)[j]]]
       /\ IF n = last THEN Returns(op, s, last, NoMessage) ELSE Throws(op, s, first)
       /\ UNCHANGED <<created, useCache>>

Erase(s, i) == s \in created /\ EraseFrom("erase", s, i, i)
Clear(s)    == s \in created /\ EraseFrom("clear", s, 1, Len(entries[s]))

(***************************************************************************)
(* SMSStoreEntry::send(): +CMSS sends the message of the store that is     *)
(* selected for writing and sending; no store is selected first.           *)
(***************************************************************************)
Send(s, i) ==
  /\ s \in created
  /\ KeepEntries(s, i)
  /\ \/ /\ At(sel[2], i) # NoMessage
        /\ Returns("send", s, i, At(sel[2], i))
     \/ /\ Rejects \/ LosesAnswers \/ At(sel[2], i) = NoMessage
        /\ Throws("send", s, 0)
  /\ UNCHANGED <<taVars, meTaVars, useCache, rejected, suspect>>

(***************************************************************************)
(* size() wants the result code, so it always selects the store.           *)
(***************************************************************************)
Size(s) ==
  /\ s \in created
  /\ \E r \in SetSMSStore(s, 1, TRUE) :
       /\ Select(r)
       /\ Silent("none")
  /\ UNCHANGED <<mem, created, storeVars, suspect>>

(***************************************************************************)
(* gsmsmsd calls setSMSStore itself, for the store to receive into.        *)
(***************************************************************************)
SetReceiveStore(s) ==
  /\ \E r \in SetSMSStore(s, 3, FALSE) :
       /\ Select(r)
       /\ IF r.ok THEN Returns("receive", s, 0, NoMessage) ELSE Throws("receive", s, 0)
  /\ UNCHANGED <<mem, created, storeVars, suspect>>

SetCaching(s, b) ==
  /\ s \in created
  /\ useCache' = [useCache EXCEPT ![s] = b]
  /\ Silent("none")
  /\ UNCHANGED <<taVars, meTaVars, entries, rejected, suspect>>

(***************************************************************************)
(* What the ME does on its own: store a received message, or delete one at *)
(* the user's wish.                                                        *)
(***************************************************************************)
MEChanges(s, j, c) ==
  /\ MEActs
  /\ \/ c \in Message /\ mem[s][j] = NoMessage
     \/ c = NoMessage /\ mem[s][j] # NoMessage
  /\ mem' = [mem EXCEPT ![s][j] = c]
  /\ suspect' = suspect \cup {<<s, j>>}
  /\ Silent("ME")
  /\ UNCHANGED <<sel, supported, meTaVars, storeVars, rejected>>

-----------------------------------------------------------------------------
Init ==
  /\ mem \in [Store -> [Slot -> Content]]
  /\ sel \in [1..3 -> Store]
  /\ supported \in ParamCounts
  /\ lastSMSStoreName = NoStore
  /\ cpmsParamCount = -1
  /\ created = {}
  /\ useCache = [s \in Store |-> TRUE]
  /\ entries = [s \in Store |-> << >>]
  /\ call = NoCall
  /\ rejected = FALSE
  /\ suspect = {}

Next ==
  \/ \E s \in Store :
       \/ GetSMSStore(s)
       \/ Clear(s)
       \/ Size(s)
       \/ SetReceiveStore(s)
       \/ \E b \in BOOLEAN : SetCaching(s, b)
       \/ \E m \in Message : Insert(s, m)
       \/ \E i \in Index :
            ReadCached(s, i) \/ ReadEntry(s, i) \/ ReadCB(s, i) \/ Erase(s, i) \/ Send(s, i)
  \/ \E s \in Store, j \in Slot, c \in Content : MEChanges(s, j, c)

Spec == Init /\ [][Next]_vars

-----------------------------------------------------------------------------
Operation == {"none", "ME", "read", "insert", "erase", "clear", "send", "receive"}
Call == [op : Operation, by : Store \cup {NoStore}, slot : Nat, ok : BOOLEAN,
         value : Content]
EntriesOK == /\ entries \in [Store -> Seq(Entry)]
             /\ \A s \in created : Len(entries[s]) >= Slots

\* The types of the variables, and that an object exists only with entries
\* for all slots of its store.
TypeOK ==
  /\ mem \in [Store -> [Slot -> Content]]
  /\ sel \in [1..3 -> Store]
  /\ supported \in 1..3
  /\ lastSMSStoreName \in Store \cup {NoStore}
  /\ cpmsParamCount \in {-1} \cup 1..3
  /\ created \in SUBSET Store
  /\ useCache \in [Store -> BOOLEAN]
  /\ EntriesOK
  /\ call \in Call
  /\ rejected \in BOOLEAN
  /\ suspect \in SUBSET (Store \X Index)

(***************************************************************************)
(* The optimisation of setSMSStore that skips +CPMS is sound for commands  *)
(* that read and delete: as long as the TA did not refuse the last +CPMS,  *)
(* the store it has selected for them is the one that is remembered.       *)
(***************************************************************************)
SelectionRemembered ==
  lastSMSStoreName # NoStore /\ ~rejected => sel[1] = lastSMSStoreName

(***************************************************************************)
(* A cached entry holds what its slot holds: insert, erase and clear leave *)
(* no stale entry behind, unless the slot changed through another object,  *)
(* through the ME, or through a command whose answer was lost, or was read *)
(* while the wrong store was selected.                                     *)
(***************************************************************************)
CacheCoherent ==
  \A s \in created : \A i \in 1..Len(entries[s]) :
    entries[s][i].cached /\ <<s, i>> \notin suspect
      => entries[s][i].message = At(s, i)

(***************************************************************************)
(* What message() returns is what the slot of this store holds.            *)
(***************************************************************************)
ReadsOwnSlot ==
  call.op = "read" /\ call.ok /\ <<call.by, call.slot>> \notin suspect
    => call.value = At(call.by, call.slot)

(***************************************************************************)
(* A stored message is replaced or lost only by an erase or clear that was *)
(* called for its own store and index (or by the ME, or while a refused    *)
(* +CPMS leaves another store selected).  An insert overwrites nothing.    *)
(***************************************************************************)
MessageSafe(s, j) ==
  mem[s][j] # NoMessage /\ mem'[s][j] # mem[s][j] =>
    \/ call'.op = "ME" \/ rejected'
    \/ /\ call'.op \in {"erase", "clear"} /\ call'.by = s
       /\ call'.op = "erase" => call'.slot = j
NoCollateralLoss == [][\A s \in Store, j \in Slot : MessageSafe(s, j)]_vars

-----------------------------------------------------------------------------
(***************************************************************************)
(* What a comment of the code says, and what it does not do.               *)
(***************************************************************************)
\* "2 to set store for writing and sending", and writeEntry's "select SMS
\* store": a message that was inserted is in the store it was inserted into.
InsertedIntoOwnStore ==
  call.op = "insert" /\ call.ok => mem[call.by][call.slot] = call.value
=============================================================================
