----------------------------- MODULE Phonebook -----------------------------
(***************************************************************************)
(* The phonebooks of a mobile: the Phonebook objects of gsm_phonebook.cc,  *)
(* which cache the entries they read or write and count the used ones, and *)
(* MeTa::setPhonebook, which selects the phonebook that the next AT        *)
(* command works on and remembers the last name it selected.               *)
(*                                                                         *)
(* Every public operation is one action.  It reads some entries (those     *)
(* that are not cached, from the ME), stops when a command fails, and may  *)
(* write one.  Entries are numbered by their place in memory; the numbers  *)
(* of a sparse phonebook, a bijection with these places, are left out.     *)
(***************************************************************************)
EXTENDS Integers, Sequences, FiniteSets, FiniteSetsExt

CONSTANTS
  Book,         \* the phonebooks of the ME, named "SM", "ME", ...
  NoBook,       \* the empty string: no phonebook was selected yet
  Text,         \* the texts of used entries
  Telephone,    \* the telephone numbers of used entries
  NoText,       \* the empty string
  Matches,      \* the pairs of a text and a longer or equal one +CPBF finds for it
  MaxSlots,     \* bound: the largest number of entries of a phonebook
  Shapes,       \* the numbers of entries of the phonebooks, for each ME; 0 for
                \* a phonebook it does not have
  CountBound,   \* bound: the largest value of _size
  Rejects,      \* whether the TA may refuse a command or not answer a query
  FaultBound    \* bound: how many answers to executed commands are lost and
                \* how many entries the user edits at the ME, together

Used  == [text : Text, telephone : Telephone]
Empty == [text |-> NoText, telephone |-> NoText]
Info  == Used \cup {Empty}

ASSUME PhonebookAssumption ==
  /\ NoBook \notin Book
  /\ NoText \notin Text
  /\ Matches \subseteq Text \X Text /\ \A t \in Text : <<t, t>> \in Matches
  /\ MaxSlots \in Nat /\ Shapes \subseteq [Book -> 0..MaxSlots]
  /\ \A f \in Shapes : \E p \in Book : f[p] # 0
  /\ CountBound \in Nat /\ CountBound >= MaxSlots
  /\ Rejects \in BOOLEAN /\ FaultBound \in Nat

VARIABLES
  \* the ME and its TA
  slots,              \* the number of entries of every phonebook
  mem,                \* the content of every entry of every phonebook
  sel,                \* the phonebook +CPBS selected
  \* class MeTa
  lastPhonebookName,  \* the name the last setPhonebook confirmed
  created,            \* the phonebooks _phonebookCache holds an object for
  \* class Phonebook
  useCache,           \* _useCache of every object
  size,               \* _size of every object, -1 while unknown
  entries,            \* _phonebook of every object
  \* what an observer sees
  found,              \* what the last operation found, if it was find()
  faults,             \* counts what FaultBound bounds
  misled,             \* the answer to the last executed +CPBS was lost
  suspect,            \* entries that changed, or were read, behind the object's back
  miscounted          \* the phonebooks where that concerns the count

taVars    == <<slots, mem, sel>>
meTaVars  == <<lastPhonebookName, created>>
bookVars  == <<useCache, size, entries>>
ghostVars == <<found, faults, misled, suspect, miscounted>>
vars      == <<taVars, meTaVars, bookVars, ghostVars>>

FaultLeft == faults < FaultBound

NothingFound == [by |-> NoBook, text |-> NoText, slot |-> 0]
Finds(p, t, i) == found' = [by |-> p, text |-> t, slot |-> i]
FindsNothing == found' = NothingFound

\* The entries the ME has, and those the object has (its _maxSize).
Slot(p)  == 1..slots[p]
Place(p) == DOMAIN entries[p]
Misshapen(p) == Len(entries[p]) # slots[p]

-----------------------------------------------------------------------------
(***************************************************************************)
(* MeTa::setPhonebook: its result is one of a set of records.  The name is *)
(* remembered only after the TA answered.                                  *)
(***************************************************************************)
Selection(last, at, lost, ok, n) ==
  [last |-> last, at |-> at, misled |-> lost, ok |-> ok, faults |-> n]
Skipped == Selection(lastPhonebookName, sel, misled, TRUE, faults)

Refusal == {Selection(lastPhonebookName, sel, misled, FALSE, faults)}
Chatted(p) ==
  IF slots[p] = 0 THEN Refusal
  ELSE {Selection(p, p, FALSE, TRUE, faults)}
       \cup (IF Rejects THEN Refusal ELSE {})
       \cup (IF FaultLeft THEN {Selection(lastPhonebookName, p, TRUE, FALSE, faults + 1)} ELSE {})

\* Faulty variants: the name is remembered before the answer; a phonebook is
\* only ever selected once.
SetPhonebookEarly(p) ==
  IF p = lastPhonebookName THEN {Skipped} ELSE {[r EXCEPT !.last = p] : r \in Chatted(p)}
SetPhonebookOnce(p) == IF lastPhonebookName # NoBook THEN {Skipped} ELSE Chatted(p)

SetPhonebook(p) == IF p = lastPhonebookName THEN {Skipped} ELSE Chatted(p)

Select(r) ==
  /\ lastPhonebookName' = r.last
  /\ sel' = r.at
  /\ misled' = r.misled

-----------------------------------------------------------------------------
(***************************************************************************)
(* Reading entries.  cached() says whether an entry is answered without    *)
(* the ME; readEntry answers from the selected phonebook and caches.       *)
(***************************************************************************)
\* Faulty variant: whether the entry was ever read is not looked at.
IsCachedAlways(p, i) == useCache[p]
IsCached(p, i) == entries[p][i].cached /\ useCache[p]

Cached(c) == [cached |-> TRUE, info |-> c]
NewEntry  == [cached |-> FALSE, info |-> Empty]

\* Of an entry it does not have, the ME answers nothing, or an error.
At(p, i) == IF i \in Slot(p) THEN mem[p][i] ELSE Empty
Seen(p, at, i) == IF IsCached(p, i) THEN entries[p][i].info ELSE At(at, i)

\* The entries of p after those of S were looked at, and what is suspect then.
Read(p, at, S) ==
  [i \in Place(p) |-> IF i \in S /\ ~IsCached(p, i) THEN Cached(At(at, i)) ELSE entries[p][i]]
SuspectAfter(p, at, S) ==
  LET fresh == {<<p, i>> : i \in {j \in S : ~IsCached(p, j)}}
  IN IF at = p THEN suspect \ fresh ELSE suspect \cup fresh

\* setPhonebook is called when an entry is read from the ME or written.
Reach(p, S) == IF \A i \in S : IsCached(p, i) THEN {Skipped} ELSE SetPhonebook(p)

Looks(p, at, S) ==
  /\ entries' = [entries EXCEPT ![p] = Read(p, at, S)]
  /\ suspect' = SuspectAfter(p, at, S)

NothingElse == UNCHANGED <<slots, mem, created, useCache, size, miscounted, faults>>

\* The entries of S were read, then a command failed.
Aborts(p, S, r) ==
  /\ ~r.ok \/ Rejects
  /\ Looks(p, r.at, IF r.ok THEN S ELSE {})
  /\ faults' = r.faults
  /\ UNCHANGED <<slots, mem, created, useCache, size, miscounted>>

-----------------------------------------------------------------------------
(***************************************************************************)
(* Writing an entry (PhonebookEntry::set of an entry of a phonebook) after *)
(* the entries of S were read.  The cache follows after the answer; when   *)
(* the answer is lost, the ME has the new entry and the cache the old one. *)
(* adjustSize changes a known count only.                                  *)
(***************************************************************************)
Adjusted(p, n) == IF size[p] = -1 THEN -1 ELSE size[p] + n

\* Faulty variant: the cache keeps what it held.
WrittenThrough(p, at, S, i, c) == Read(p, at, S)
Written(p, at, S, i, c) == [Read(p, at, S) EXCEPT ![i] = Cached(c)]

\* What the count cannot follow: a write of another used-ness than adjustSize
\* was told, to another phonebook, or to an entry that was not what it seemed.
Uncounted(p, at, S, i, c, n) ==
  \/ at # p
  \/ <<p, i>> \in SuspectAfter(p, at, S)
  \/ (n = 1 /\ c = Empty)
  \/ (n = 0 /\ (c = Empty) # (Seen(p, at, i) = Empty))

Writes(p, S, i, c, n, r) ==
  /\ r.ok /\ i \in Slot(r.at)
  /\ mem' = [mem EXCEPT ![r.at][i] = c]
  /\ \/ /\ entries' = [entries EXCEPT ![p] = Written(p, r.at, S, i, c)]
        /\ Adjusted(p, n) <= CountBound
        /\ size' = [size EXCEPT ![p] = Adjusted(p, n)]
        /\ suspect' = IF r.at = p THEN SuspectAfter(p, p, S) \ {<<p, i>>}
                      ELSE SuspectAfter(p, r.at, S) \cup {<<p, i>>, <<r.at, i>>}
        /\ miscounted' = IF Uncounted(p, r.at, S, i, c, n)
                         THEN miscounted \cup {p, r.at} ELSE miscounted
        /\ UNCHANGED faults
     \/ /\ FaultLeft /\ faults' = faults + 1
        /\ entries' = [entries EXCEPT ![p] = Read(p, r.at, S)]
        /\ suspect' = SuspectAfter(p, r.at, S) \cup {<<r.at, i>>}
        /\ miscounted' = miscounted \cup {r.at}
        /\ UNCHANGED size
  /\ UNCHANGED <<slots, created, useCache>>

-----------------------------------------------------------------------------
(***************************************************************************)
(* MeTa::getPhonebook and the constructor of Phonebook.  The count comes   *)
(* from +CPBS? if the ME answers it.  With preload, and the count known,   *)
(* +CPBR is repeated until as many entries were listed or a list is empty: *)
(* the ME lists the used entries up to some place and may list empty ones. *)
(***************************************************************************)
UsedSlots(p) == {i \in Slot(p) : mem[p][i] # Empty}

Listings(p) ==
  {S \in SUBSET Slot(p) : \E k \in 0..slots[p] : S \subseteq 1..k /\ UsedSlots(p) \cap 1..k \subseteq S}

GetPhonebook(p) ==
  /\ p \notin created
  /\ \E r \in SetPhonebook(p) :
       /\ Select(r)
       /\ \/ \E counts, preload \in BOOLEAN : \E S \in Listings(r.at) :
               /\ r.ok
               /\ S # {} => preload /\ counts
               /\ created' = created \cup {p}
               /\ size' = [size EXCEPT ![p] = IF counts THEN Cardinality(UsedSlots(r.at)) ELSE -1]
               /\ entries' = [entries EXCEPT ![p] = [i \in Slot(r.at) |->
                                IF i \in S THEN Cached(mem[r.at][i]) ELSE NewEntry]]
               /\ suspect' = IF r.at = p THEN suspect
                             ELSE suspect \cup {<<p, i>> : i \in S}
               /\ miscounted' = IF r.at # p THEN miscounted \cup {p} ELSE miscounted \ {p}
               /\ UNCHANGED <<slots, mem, useCache, faults>>
          \/ Aborts(p, {}, r)
  /\ FindsNothing

(***************************************************************************)
(* text(), telephone() and empty() of one entry.                           *)
(***************************************************************************)
ReadEntry(p, i) ==
  /\ p \in created /\ i \in Place(p) /\ FindsNothing
  /\ \E r \in Reach(p, {i}) :
       /\ Select(r)
       /\ \/ /\ r.ok
             /\ Looks(p, r.at, {i})
             /\ NothingElse
          \/ ~IsCached(p, i) /\ Aborts(p, {}, r)

(***************************************************************************)
(* set() of an entry of the phonebook by the user: it does not adjust the  *)
(* count.                                                                  *)
(***************************************************************************)
SetEntry(p, i, c) ==
  /\ p \in created /\ i \in Place(p) /\ FindsNothing
  /\ \E r \in SetPhonebook(p) :
       Select(r) /\ (Writes(p, {}, i, c, 0, r) \/ Aborts(p, {}, r))

(***************************************************************************)
(* insertFirstEmpty: entries are looked at until one is empty.             *)
(***************************************************************************)
InsertFirstEmpty(p, c) ==
  /\ p \in created /\ FindsNothing
  /\ \E r \in IF \E i \in Place(p) : ~IsCached(p, i) \/ entries[p][i].info = Empty
              THEN SetPhonebook(p) ELSE {Skipped} :
       LET free == {i \in Place(p) : Seen(p, r.at, i) = Empty}
       IN /\ Select(r)
          /\ \/ free # {} /\ Writes(p, 1..Min(free), Min(free), c, 1, r)
             \/ \E n \in 0..Len(entries[p]) :
                  /\ \A i \in free : n <= i
                  /\ \E i \in Place(p) : ~IsCached(p, i) \/ i \in free
                  /\ Aborts(p, 1..n, r)
             \/ /\ r.ok /\ free = {}   \* "phonebook full"
                /\ Looks(p, r.at, Place(p))
                /\ NothingElse

(***************************************************************************)
(* insert at an index: an exception if the entry is not empty.             *)
(***************************************************************************)
\* Faulty variant: the entry is written whatever it holds.
InsertOver(p, i, c) ==
  /\ p \in created /\ i \in Place(p) /\ FindsNothing
  /\ \E r \in SetPhonebook(p) : Select(r) /\ Writes(p, {i}, i, c, 1, r)

Insert(p, i, c) ==
  /\ p \in created /\ i \in Place(p) /\ FindsNothing
  /\ \E r \in IF IsCached(p, i) /\ entries[p][i].info # Empty
              THEN {Skipped} ELSE SetPhonebook(p) :
       /\ Select(r)
       /\ \/ Seen(p, r.at, i) = Empty /\ Writes(p, {i}, i, c, 1, r)
          \/ \E S \in SUBSET {i} : /\ ~IsCached(p, i) \/ Seen(p, r.at, i) = Empty
                                   /\ Aborts(p, S, r)
          \/ /\ r.ok /\ Seen(p, r.at, i) # Empty
             /\ Looks(p, r.at, {i})
             /\ NothingElse

(***************************************************************************)
(* erase: an entry that is not empty is set to empty.  clear() and         *)
(* erase(first, last) are erases of one entry after the other; a failing   *)
(* one ends them.                                                          *)
(***************************************************************************)
\* Faulty variant: the entry is not looked at first.
EraseBlindly(p, i) ==
  /\ p \in created /\ i \in Place(p) /\ FindsNothing
  /\ \E r \in SetPhonebook(p) : Select(r) /\ Writes(p, {}, i, Empty, -1, r)

Erase(p, i) ==
  /\ p \in created /\ i \in Place(p) /\ FindsNothing
  /\ \E r \in IF IsCached(p, i) /\ entries[p][i].info = Empty
              THEN {Skipped} ELSE SetPhonebook(p) :
       /\ Select(r)
       /\ \/ Seen(p, r.at, i) # Empty /\ Writes(p, {i}, i, Empty, -1, r)
          \/ \E S \in SUBSET {i} : /\ ~IsCached(p, i) \/ Seen(p, r.at, i) # Empty
                                   /\ Aborts(p, S, r)
          \/ /\ r.ok /\ Seen(p, r.at, i) = Empty
             /\ Looks(p, r.at, {i})
             /\ NothingElse

(***************************************************************************)
(* size(): an unknown count is taken by looking at all entries.            *)
(***************************************************************************)
Size(p) ==
  /\ p \in created /\ size[p] = -1 /\ FindsNothing
  /\ \E r \in Reach(p, Place(p)) :
       /\ Select(r)
       /\ \/ /\ r.ok
             /\ Looks(p, r.at, Place(p))
             /\ size' = [size EXCEPT ![p] = Cardinality({i \in Place(p) : Seen(p, r.at, i) # Empty})]
             /\ miscounted' = IF Misshapen(p) \/ \E i \in Place(p) :
                                   <<p, i>> \in SuspectAfter(p, r.at, Place(p))
                              THEN miscounted \cup {p} ELSE miscounted \ {p}
             /\ UNCHANGED <<slots, mem, created, useCache, faults>>
          \/ \E n \in 0..(Len(entries[p]) - 1) : /\ ~IsCached(p, n + 1)
                                       /\ Aborts(p, 1..n, r)

(***************************************************************************)
(* find(): the first entry with the text; if there is none, +CPBF.  The ME *)
(* matches the beginning of its texts and findEntry drops the text it      *)
(* answered: if the entry found is cached, it differs from the text that   *)
(* was searched, and the operation throws; if caching is off, the entry is *)
(* given the text that was searched.  More than one match is an answer     *)
(* chat() does not expect.                                                 *)
(***************************************************************************)
Find(p, t) ==
  /\ p \in created
  /\ \E r \in IF \E i \in Place(p) : IsCached(p, i) /\ entries[p][i].info.text = t
                                 /\ \A j \in 1..i : IsCached(p, j)
              THEN {Skipped} ELSE SetPhonebook(p) :
       LET hits    == {i \in Place(p) : Seen(p, r.at, i).text = t}
           matches == {i \in UsedSlots(r.at) : <<t, mem[r.at][i].text>> \in Matches}
       IN /\ Select(r)
          /\ \/ /\ r.ok /\ hits # {}
                /\ Looks(p, r.at, 1..Min(hits))
                /\ Finds(p, t, Min(hits))
                /\ NothingElse
             \/ /\ r.ok /\ hits = {}
                /\ \/ matches = {}
                   \/ Cardinality(matches) = 1 /\ matches \cap Place(p) = {}
                /\ Looks(p, r.at, Place(p))
                /\ Finds(p, t, 0)
                /\ NothingElse
             \/ /\ r.ok /\ hits = {}
                /\ \/ Cardinality(matches) > 1
                   \/ matches \cap Place(p) # {} /\ useCache[p]
                /\ Looks(p, r.at, Place(p))
                /\ FindsNothing
                /\ NothingElse
             \/ \E i \in matches \cap Place(p) :
                  /\ r.ok /\ hits = {} /\ matches = {i} /\ ~useCache[p]
                  /\ entries' = [entries EXCEPT ![p] = [Read(p, r.at, Place(p)) EXCEPT
                                   ![i] = Cached([text |-> t, telephone |-> mem[r.at][i].telephone])]]
                  /\ suspect' = SuspectAfter(p, r.at, Place(p)) \cup {<<p, i>>}
                  /\ Finds(p, t, i)
                  /\ NothingElse
             \/ \E n \in 0..Len(entries[p]) :
                  /\ \A i \in hits : n < i
                  /\ Aborts(p, 1..n, r)
                  /\ FindsNothing

SetCaching(p, b) ==
  /\ p \in created
  /\ useCache' = [useCache EXCEPT ![p] = b]
  /\ FindsNothing
  /\ UNCHANGED <<taVars, meTaVars, size, entries, faults, misled, suspect, miscounted>>

(***************************************************************************)
(* The user of the ME adds, changes or deletes an entry.                   *)
(***************************************************************************)
MEChanges(p, i, c) ==
  /\ FaultLeft /\ faults' = faults + 1
  /\ i \in Slot(p) /\ mem[p][i] # c
  /\ mem' = [mem EXCEPT ![p][i] = c]
  /\ suspect' = suspect \cup {<<p, i>>}
  /\ miscounted' = miscounted \cup {p}
  /\ FindsNothing
  /\ UNCHANGED <<slots, sel, meTaVars, bookVars, misled>>

-----------------------------------------------------------------------------
Init ==
  /\ slots \in Shapes
  /\ mem \in {f \in [Book -> UNION {[1..n -> Info] : n \in 0..MaxSlots}] :
               \A p \in Book : DOMAIN f[p] = Slot(p)}
  /\ sel \in Book /\ slots[sel] # 0
  /\ lastPhonebookName = NoBook
  /\ created = {}
  /\ useCache = [p \in Book |-> TRUE]
  /\ size = [p \in Book |-> -1]
  /\ entries = [p \in Book |-> << >>]
  /\ found = NothingFound
  /\ faults = 0
  /\ misled = FALSE
  /\ suspect = {}
  /\ miscounted = {}

Next ==
  \E p \in Book :
    \/ GetPhonebook(p)
    \/ Size(p)
    \/ \E t \in Text : Find(p, t)
    \/ \E b \in BOOLEAN : SetCaching(p, b)
    \/ \E c \in Info : InsertFirstEmpty(p, c)
    \/ \E i \in 1..MaxSlots : ReadEntry(p, i) \/ Erase(p, i)
    \/ \E i \in 1..MaxSlots, c \in Info : SetEntry(p, i, c) \/ Insert(p, i, c) \/ MEChanges(p, i, c)

Spec == Init /\ [][Next]_vars

-----------------------------------------------------------------------------
Entry == [cached : BOOLEAN, info : Info]

\* The types of the variables: a known count is never negative.
TypeOK ==
  /\ slots \in Shapes
  /\ mem \in [Book -> Seq(Info)] /\ \A p \in Book : Len(mem[p]) = slots[p]
  /\ sel \in Book
  /\ lastPhonebookName \in Book \cup {NoBook}
  /\ created \in SUBSET Book
  /\ useCache \in [Book -> BOOLEAN]
  /\ size \in [Book -> -1..CountBound]
  /\ entries \in [Book -> Seq(Entry)] /\ \A p \in Book : Len(entries[p]) <= MaxSlots
  /\ found \in [by : Book \cup {NoBook}, text : Text \cup {NoText}, slot : 0..MaxSlots]
  /\ faults \in 0..FaultBound
  /\ misled \in BOOLEAN
  /\ suspect \in SUBSET (Book \X (1..MaxSlots))
  /\ miscounted \in SUBSET Book

(***************************************************************************)
(* Skipping +CPBS for the name that is remembered is sound unless the      *)
(* answer to a +CPBS was lost: the name is remembered only once the TA     *)
(* confirmed it, so a refused +CPBS leaves both as they were.  The types   *)
(* make it inductive.                                                      *)
(***************************************************************************)
SelectionRemembered ==
  lastPhonebookName # NoBook /\ ~misled => sel = lastPhonebookName
SelectionSound == TypeOK /\ SelectionRemembered

(***************************************************************************)
(* A cached entry holds what the ME holds: the cache changes only after    *)
(* the ME confirmed a write, and a failed insert, erase or set leaves the  *)
(* old content in both, unless the answer was lost.                        *)
(***************************************************************************)
CacheCoherent ==
  \A p \in created : \A i \in Place(p) :
    entries[p][i].cached /\ <<p, i>> \notin suspect => entries[p][i].info = At(p, i)

(***************************************************************************)
(* A known _size is the number of used entries: inserts, erases that find  *)
(* nothing and operations that fail keep the count in step, and a count    *)
(* that is not known stays so until all entries were read.                 *)
(***************************************************************************)
SizeExact ==
  \A p \in created \ miscounted :
    size[p] # -1 => size[p] = Cardinality(UsedSlots(p))

(***************************************************************************)
(* A used entry is replaced only by set or erase of this very entry, or by *)
(* the user of the ME.  An insert takes an empty entry, unless the entry   *)
(* is not what the cache says; no operation reaches into another phonebook *)
(* unless the answer to a +CPBS was lost.                                  *)
(***************************************************************************)
EntrySafe(p, i) ==
  mem[p][i] # Empty /\ mem'[p][i] # mem[p][i] =>
    \/ misled
    \/ <<p, i>> \in suspect
    \/ Erase(p, i)
    \/ \E c \in Info : SetEntry(p, i, c) \/ MEChanges(p, i, c)
NoCollateralLoss == [][\A p \in Book : \A i \in Slot(p) : EntrySafe(p, i)]_vars

(***************************************************************************)
(* find() returns an entry that has the text, or none if no entry has it,  *)
(* as far as the cache holds what the ME holds.                            *)
(***************************************************************************)
FoundIfThere ==
  found.by \notin {NoBook} \cup {e[1] : e \in suspect} /\ ~Misshapen(found.by) =>
    IF found.slot = 0 THEN \A i \in Slot(found.by) : mem[found.by][i].text # found.text
    ELSE mem[found.by][found.slot].text = found.text
=============================================================================
