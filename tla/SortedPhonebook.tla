-------------------------- MODULE SortedPhonebook --------------------------
(***************************************************************************)
(* The sorted phonebooks of gsm_sorted_phonebook.cc: a multimap from keys  *)
(* to entries that are kept in a file, on standard input or output, or in  *)
(* a phonebook of the mobile.  Every public operation is an action; sync() *)
(* takes a step for each thing it does to the file, so that the program    *)
(* may be killed, and the file system may fail, in between.                *)
(*                                                                         *)
(* Texts and telephone numbers are small numbers, 0 the empty string.  The *)
(* module is a program that uses one phonebook after the other; Gsmpb      *)
(* composes two of them.                                                   *)
(***************************************************************************)
EXTENDS Integers, Sequences, FiniteSets, SequencesExt

CONSTANTS
  Book,        \* the phonebook objects of the program
  Kinds,       \* what they are made from: "file", "stdin", "stdout" or "ME"
  Text,        \* the texts of entries, positive numbers
  Lower,       \* what lowercase() makes of a text
  Tel,         \* the telephone numbers, positive numbers
  TelOrder,    \* their order as addresses: Address::operator< pads with zeros
  TelNumber,   \* what Address::operator== compares of them: the "+" is left out
  Index,       \* the indices in files
  Garbage,     \* what an _index no one initialised may hold
  Contents,    \* the lines of files the program meets
  Given,       \* the entries a program inserts or changes others to
  Slots,       \* the number of entries of the mobile's phonebook
  NoFile,      \* what is under the name of a file that is missing
  SizeBound,   \* bound: the entries a program inserts into one phonebook
  Faults       \* whether the mobile refuses, the file system fails, the program dies

NoIndex == -1
Orders  == {"ByText", "ByTelephone", "ByIndex"}
Line    == [index : Index \cup Garbage \cup {NoIndex}, text : Text \cup {0}, tel : Tel \cup {0}]
Blank   == [text |-> 0, tel |-> 0]

ASSUME SortedPhonebookAssumption ==
  /\ Kinds \subseteq {"file", "stdin", "stdout", "ME"}
  /\ Text \subseteq Nat \ {0} /\ Tel \subseteq Nat \ {0}
  /\ Lower \in [Text \cup {0} -> Nat] /\ TelOrder \in [Tel \cup {0} -> Nat]
  /\ TelNumber \in [Tel \cup {0} -> Nat]
  /\ Index \subseteq Nat /\ Garbage \subseteq Int \ {NoIndex} /\ Garbage # {}
  /\ Contents \subseteq Seq(Line)
  /\ Given \subseteq {l \in Line : l.index \in Index \cup {NoIndex} /\ (l.text # 0 \/ l.tel # 0)}
  /\ Slots \in Nat /\ SizeBound \in Nat /\ Faults \in BOOLEAN

VARIABLES
  kind,     \* of every phonebook object
  pb,       \* the members of every object, see Closed
  disk,     \* the lines of its file, or the entries of the mobile
  content,  \* what its file holds: what the object "read", what sync() has
            \* "written" completely, a "part" of it, or nothing ("renamed")
  backup,   \* the same for the backup file: "none", "older" than the object, ...
  saving,   \* how far its sync() is: "no", "rename", "open", "write", "lost"
  written,  \* the lines sync() wrote so far
  excused   \* why the object and its storage may differ: a subset of Excuses

bookVars == <<kind, pb, disk, content, backup, saving, written, excused>>

\* "torn": the mobile refused in the middle of an erasure.  The others are due
\* to what was found in the code.  "unsaved": the file could not be opened, which
\* sync() does not notice, or erase(key) took entries off the map and noted no
\* change.  "key": erase(key) took other entries off the map than it emptied in
\* the mobile.  "freed": it freed entries that are still in the map.
Excuses == {"torn", "unsaved", "key", "freed"}

-----------------------------------------------------------------------------
(***************************************************************************)
(* The multimap: items in the order of their keys, equal ones in the order *)
(* of their insertion.                                                     *)
(***************************************************************************)
\* A key is the value operator< looks at and the one operator== looks at.
KeyOf(order, e) ==
  CASE order = "ByText"      -> <<Lower[e.text], Lower[e.text]>>
    [] order = "ByTelephone" -> <<TelOrder[e.tel], TelNumber[e.tel]>>
    [] order = "ByIndex"     -> <<e.index, e.index>>

EqualRange(items, key) == {k \in DOMAIN items : items[k].key[1] = key[1]}
Put(items, it) ==
  InsertAt(items, 1 + Cardinality({k \in DOMAIN items : items[k].key[1] <= it.key[1]}), it)
Keep(items, it) == IF it[1] THEN Append(items, it[2]) ELSE items
Drop(items, S)  == FoldLeft(Keep, <<>>, [k \in DOMAIN items |-> <<k \notin S, items[k]>>])

Item(order, e) == [key |-> KeyOf(order, e), e |-> e]
ItemsOf(p)     == {p.items[k].e : k \in DOMAIN p.items}
SetSortOrder(p, order) ==
  IF order = p.order THEN p
  ELSE [p EXCEPT !.order = order,
                 !.items = FoldLeft(Put, <<>>, [k \in DOMAIN p.items |-> Item(order, p.items[k].e)])]

\* Faulty variant: an entry does not note that it was changed.
EntryUnmarked(index, text, tel, changed) ==
  [index |-> index, text |-> text, tel |-> tel, changed |-> FALSE]
Entry(index, text, tel, changed) ==
  [index |-> index, text |-> text, tel |-> tel, changed |-> changed]
LineOf(p, e) ==
  [index |-> IF p.useIndices THEN e.index ELSE NoIndex, text |-> e.text, tel |-> e.tel]
Lines(p) == [k \in DOMAIN p.items |-> LineOf(p, p.items[k].e)]
Used(ME) == {i \in DOMAIN ME : ME[i] # Blank}

Closed == [open |-> FALSE, closing |-> FALSE, order |-> "ByIndex", useIndices |-> FALSE,
           items |-> <<>>, changed |-> FALSE, madeBackup |-> FALSE]
Fresh(useIndices) == [Closed EXCEPT !.open = TRUE, !.useIndices = useIndices]

-----------------------------------------------------------------------------
(***************************************************************************)
(* insert().  A result is the object, its storage and how the call ended.  *)
(* Copying an entry without index leaves the copy's _index uninitialised.  *)
(* An insert into the mobile copies x into a PhonebookEntry whose          *)
(* _myPhonebook is uninitialised too: it works, or the program crashes.    *)
(***************************************************************************)
Result(p, storage, how) == [pb |-> p, disk |-> storage, how |-> how]

\* Faulty variant: the number of entries is taken for a free index.
FreeIndexNext(p) == Len(p.items)

\* The first place whose entry does not have its number as index.
FreeIndex(p) ==
  LET byIndex == SetSortOrder(p, "ByIndex").items
      free    == {n \in 0..Len(byIndex) : n = Len(byIndex) \/ byIndex[n + 1].e.index # n}
  IN CHOOSE n \in free : \A m \in free : n <= m

Taken(p, x) == p.useIndices /\ x.index # NoIndex /\ \E e \in ItemsOf(p) : e.index = x.index
InsertIntoFile(p, storage, x, garbage) ==
  LET q == [p EXCEPT !.changed = TRUE]
      \* without a free index the order is left and restored, which sorts again
      r == IF p.useIndices /\ x.index = NoIndex
           THEN SetSortOrder(SetSortOrder(q, "ByIndex"), p.order) ELSE q
      e == Entry(IF x.index # NoIndex THEN x.index
                 ELSE IF p.useIndices THEN FreeIndex(p) ELSE garbage, x.text, x.tel, TRUE)
  IN IF Taken(p, x) THEN Result(q, storage, "throw")
     ELSE Result([r EXCEPT !.items = Put(@, Item(p.order, e))], storage, "ok")

\* The slots Phonebook::insert may write: the one asked for, or the first empty one.
SlotFor(ME, x, useIndex) ==
  IF useIndex /\ x.index # NoIndex THEN {i \in DOMAIN ME : i = x.index}
  ELSE {i \in DOMAIN ME \ Used(ME) : \A j \in DOMAIN ME \ Used(ME) : i <= j}
InsertIntoME(p, ME, x, useIndex) ==
  LET slot == SlotFor(ME, x, useIndex)
      full == ~useIndex \/ x.index = NoIndex
      crash == {Result(p, ME, "crash")}
      throw == {Result([p EXCEPT !.changed = TRUE], ME, "throw")}
      e(i)  == Entry(i, x.text, x.tel, TRUE)
  IN IF slot = {} THEN crash \cup (IF full THEN throw ELSE {})
     ELSE crash \cup (IF Faults \/ slot \subseteq Used(ME) THEN throw ELSE {})
          \cup {Result([p EXCEPT !.items = Put(@, Item(p.order, e(i))), !.changed = TRUE],
                       [ME EXCEPT ![i] = [text |-> x.text, tel |-> x.tel]], "ok")
                : i \in slot \ Used(ME)}

Insert(k, p, storage, x, useIndex) ==
  CASE k = "stdin" -> {Result(p, storage, "throw")}
    [] k = "ME"    -> InsertIntoME(p, storage, x, useIndex)
    [] OTHER       -> {InsertIntoFile(p, storage, x, g) : g \in Garbage}

-----------------------------------------------------------------------------
(***************************************************************************)
(* The erase() functions.  An item of the mobile's phonebook points to its *)
(* slot, which is emptied before the items are taken from the map; when    *)
(* the mobile refuses, some slots of the range are empty and all items     *)
(* remain.                                                                 *)
(*   erase(key) goes from the first entry that operator< does not tell from *)
(* the key as far as operator== finds entries equal to it, and empties or  *)
(* frees those; then it takes all that operator< does not tell from the    *)
(* key off the map.  Neither contains the other: "+12" and "+120" are the  *)
(* same to operator<, "+12" and "12" to operator==.  What was freed and is *)
(* still in the map keeps its value here, as memory does until it is used  *)
(* again, and the program may die.                                         *)
(***************************************************************************)
\* Faulty variant: the place in the map is taken for the slot.
EmptiedByPlace(p, ME, S) == [i \in DOMAIN ME |-> IF i \in S THEN Blank ELSE ME[i]]
Emptied(p, ME, S) ==
  LET slots == {p.items[k].e.index : k \in S}
  IN [i \in DOMAIN ME |-> IF i \in slots THEN Blank ELSE ME[i]]
Blanked(p, S) ==
  [p EXCEPT !.items = [k \in DOMAIN @ |->
     IF k \in S THEN [@[k] EXCEPT !.e.text = 0, !.e.tel = 0, !.e.changed = TRUE] ELSE @[k]]]

Found(items, key) ==
  {n \in EqualRange(items, key) : \A j \in EqualRange(items, key) : n <= j}
Leading(items, key) ==
  {k \in DOMAIN items :
     \E n \in Found(items, key) : n <= k /\ \A j \in n..k : items[j].key[2] = key[2]}

\* Erases the entries at S, each of which sets the flag, and drops the items at T.
Erase(k, p, storage, S, T) ==
  LET q == [p EXCEPT !.changed = @ \/ S # {}]
      Off(u) == [u EXCEPT !.items = Drop(@, T)]
  IN IF k # "ME" THEN {Result(Off(q), storage, "ok")}
     ELSE {Result(Off(Blanked(q, S \ T)), Emptied(p, storage, S), "ok")}
          \cup {Result(Blanked(q, R), Emptied(p, storage, R), "throw") :
                R \in IF Faults THEN {{j \in S : j < n} : n \in S} ELSE {}}

\* set() of an entry; an entry of the mobile keeps its index, and is written
\* first, or refused.
Set(k, p, storage, n, x) ==
  LET e == Entry(IF k = "ME" \/ x.index = NoIndex THEN p.items[n].e.index ELSE x.index,
                 x.text, x.tel, TRUE)
      q == [p EXCEPT !.items[n].e = e]
  IN IF k # "ME" THEN {Result(q, storage, "ok")}
     ELSE {Result(q, [storage EXCEPT ![e.index] = [text |-> x.text, tel |-> x.tel]], "ok")}
          \cup (IF Faults THEN {Result(p, storage, "throw")} ELSE {})

-----------------------------------------------------------------------------
(***************************************************************************)
(* The constructors.  Every line of a file is inserted, which marks the    *)
(* phonebook as changed; standard input is marked as read-only first, so   *)
(* that its first line throws.  The keys of the mobile's entries are texts *)
(* though the order is ByIndex: their _intKey is uninitialised.            *)
(***************************************************************************)
ReadLine(r, l) ==
  LET line == l.line
      p    == [r.pb EXCEPT !.useIndices = @ \/ line.index # NoIndex]
  IN IF r.how = "throw" \/ (r.pb.useIndices /\ line.index = NoIndex)
        \/ (line.index # NoIndex /\ line.index < 0)
     THEN [r EXCEPT !.how = "throw"]
     ELSE InsertIntoFile(p, r.disk, line, l.garbage)

ReadPhonebookFile(lines, useIndices) ==
  {FoldLeft(ReadLine, Result(Fresh(useIndices), lines, "ok"),
            [k \in DOMAIN lines |-> [line |-> lines[k], garbage |-> g[k]]]) :
   g \in [DOMAIN lines -> Garbage]}

PutUsed(items, it) == IF [text |-> it.e.text, tel |-> it.e.tel] = Blank THEN items ELSE Put(items, it)
OfME(ME) ==
  {Result([Fresh(FALSE) EXCEPT !.items =
             FoldLeft(PutUsed, <<>>, [i \in DOMAIN ME |->
               [key |-> <<g[i], g[i]>>, e |-> Entry(i, ME[i].text, ME[i].tel, FALSE)]])],
          ME, "ok") : g \in [DOMAIN ME -> Garbage]}

Constructed(k, storage, useIndices) ==
  CASE k = "file"   -> ReadPhonebookFile(storage, useIndices)
    [] k = "stdin"  -> {Result(Fresh(useIndices), storage, IF storage = <<>> THEN "ok" ELSE "throw")}
    [] k = "stdout" -> {Result(Fresh(useIndices), storage, "ok")}
    [] k = "ME"     -> OfME(storage)

-----------------------------------------------------------------------------
(***************************************************************************)
(* The object b takes over a result, or the program dies.                  *)
(***************************************************************************)
Dies ==
  /\ pb' = [b \in Book |-> Closed]
  /\ saving' = [b \in Book |-> "no"]
  /\ written' = [b \in Book |-> 0]

Takes(b, r) ==
  /\ IF r.how = "crash" THEN Dies
     ELSE /\ pb' = [pb EXCEPT ![b] = r.pb]
          /\ UNCHANGED <<saving, written>>
  /\ disk' = [disk EXCEPT ![b] = r.disk]
  /\ UNCHANGED <<kind, content, backup>>

Construct(b, r) ==
  /\ pb' = [pb EXCEPT ![b] = IF r.how = "ok" THEN r.pb ELSE Closed]
  /\ content' = [content EXCEPT ![b] = "read"]
  /\ backup' = [backup EXCEPT ![b] = IF @ = "none" THEN "none" ELSE "older"]
  /\ excused' = [excused EXCEPT ![b] = {}]
  /\ UNCHANGED <<kind, disk, saving, written>>

-----------------------------------------------------------------------------
(***************************************************************************)
(* sync(), called by the program or by the destructor.                     *)
(***************************************************************************)
Dirty(p) == p.changed \/ \E e \in ItemsOf(p) : e.changed

\* Faulty variant: what was printed on standard output is not saved.
WritesFilesOnly(b, closing) == kind[b] = "file"
Writes(b, closing) == kind[b] = "file" \/ (kind[b] = "stdout" /\ closing)

\* Faulty variant: the file is opened without a backup.
FirstStepOpen(b) == "open"
FirstStep(b)     == IF pb[b].madeBackup \/ kind[b] = "stdout" THEN "open" ELSE "unlink"

Sync(b, closing) ==
  /\ pb[b].open /\ saving[b] = "no"
  /\ IF Writes(b, closing) /\ Dirty(pb[b])
     THEN /\ saving' = [saving EXCEPT ![b] = FirstStep(b)]
          /\ pb' = [pb EXCEPT ![b].changed = TRUE, ![b].closing = closing]
     ELSE /\ pb' = IF closing THEN [pb EXCEPT ![b] = Closed] ELSE pb
          /\ UNCHANGED saving
  /\ UNCHANGED <<kind, disk, backup, written, content, excused>>

\* An exception leaves sync() with what was done; in the destructor it ends the program.
SyncThrows(b) ==
  IF pb[b].closing THEN Dies
  ELSE /\ saving' = [saving EXCEPT ![b] = "no"]
       /\ written' = [written EXCEPT ![b] = 0]
       /\ UNCHANGED pb

\* renameToBackupFile: unlink, whose result is not looked at, then rename.
Unlink(b) ==
  /\ saving[b] = "unlink"
  /\ saving' = [saving EXCEPT ![b] = "rename"]
  /\ backup' = [backup EXCEPT ![b] = "none"]
  /\ UNCHANGED <<kind, pb, disk, content, written, excused>>
Rename(b) ==
  /\ saving[b] = "rename"
  /\ saving' = [saving EXCEPT ![b] = "open"]
  /\ backup' = [backup EXCEPT ![b] = content[b]]
  /\ content' = [content EXCEPT ![b] = "renamed"]
  /\ disk' = [disk EXCEPT ![b] = NoFile]
  /\ pb' = [pb EXCEPT ![b].madeBackup = TRUE]
  /\ UNCHANGED <<kind, written, excused>>
RenameFails(b) ==
  /\ saving[b] = "rename" /\ Faults
  /\ SyncThrows(b)
  /\ UNCHANGED <<kind, disk, content, backup, excused>>

\* An ofstream that could not open its file is not bad(): its output is lost.
OpenFile(b) ==
  /\ saving[b] = "open"
  /\ \/ /\ saving' = [saving EXCEPT ![b] = "write"]
        /\ disk' = [disk EXCEPT ![b] = <<>>]
        /\ content' = [content EXCEPT ![b] = "part"]
     \/ /\ Faults /\ kind[b] = "file"
        /\ saving' = [saving EXCEPT ![b] = "lost"]
        /\ UNCHANGED <<disk, content>>
  /\ UNCHANGED <<kind, pb, backup, written, excused>>

WriteLine(b) ==
  /\ saving[b] \in {"write", "lost"} /\ written[b] < Len(pb[b].items)
  /\ \/ /\ written' = [written EXCEPT ![b] = @ + 1]
        /\ disk' = IF saving[b] = "lost" THEN disk
                   ELSE [disk EXCEPT ![b] = Append(@, Lines(pb[b])[written[b] + 1])]
        /\ UNCHANGED <<pb, saving>>
     \/ /\ Faults /\ saving[b] = "write"
        /\ SyncThrows(b)
        /\ UNCHANGED disk
  /\ UNCHANGED <<kind, content, backup, excused>>

Unchanged(p) ==
  [p EXCEPT !.changed = FALSE,
            !.items = [k \in DOMAIN @ |-> [@[k] EXCEPT !.e.changed = FALSE]]]
CloseFile(b) ==
  /\ saving[b] \in {"write", "lost"} /\ written[b] = Len(pb[b].items)
  /\ pb' = [pb EXCEPT ![b] = IF @.closing THEN Closed ELSE Unchanged(@)]
  /\ saving' = [saving EXCEPT ![b] = "no"]
  /\ written' = [written EXCEPT ![b] = 0]
  /\ content' = IF saving[b] = "write" THEN [content EXCEPT ![b] = "written"] ELSE content
  /\ excused' = IF saving[b] = "lost" THEN [excused EXCEPT ![b] = @ \cup {"unsaved"}]
                ELSE [excused EXCEPT ![b] = @ \ {"unsaved"}]
  /\ UNCHANGED <<kind, disk, backup>>

SyncStep(b) == Unlink(b) \/ Rename(b) \/ RenameFails(b) \/ OpenFile(b) \/ WriteLine(b) \/ CloseFile(b)

-----------------------------------------------------------------------------
(***************************************************************************)
(* A program that calls the functions of its phonebooks in any order.      *)
(***************************************************************************)
Idle(b) == pb[b].open /\ saving[b] = "no"

Open(b, useIndices) ==
  /\ ~pb[b].open /\ disk[b] # NoFile
  /\ \E r \in Constructed(kind[b], disk[b], useIndices) : Construct(b, r)
Sort(b) ==
  /\ Idle(b)
  /\ \E order \in Orders : pb' = [pb EXCEPT ![b] = SetSortOrder(@, order)]
  /\ UNCHANGED <<kind, disk, backup, saving, written, content, excused>>
Add(b) ==
  /\ Idle(b) /\ Len(pb[b].items) < SizeBound
  /\ \E x \in Given, useIndex \in BOOLEAN :
       \E r \in Insert(kind[b], pb[b], disk[b], x, useIndex) : Takes(b, r)
  /\ UNCHANGED excused
Change(b) ==
  /\ Idle(b)
  /\ \E n \in DOMAIN pb[b].items, x \in Given :
       \E r \in Set(kind[b], pb[b], disk[b], n, [x EXCEPT !.index = NoIndex]) : Takes(b, r)
  /\ UNCHANGED excused
EraseRange(b) ==
  /\ Idle(b)
  /\ \E m, n \in DOMAIN pb[b].items :
       \E r \in Erase(kind[b], pb[b], disk[b], m..n, m..n) :
         /\ m <= n
         /\ Takes(b, r)
         /\ excused' = IF r.how = "throw" /\ m # n
                       THEN [excused EXCEPT ![b] = @ \cup {"torn"}] ELSE excused
EraseKey(b) ==
  /\ Idle(b)
  /\ \E n \in DOMAIN pb[b].items :
       LET key  == KeyOf(pb[b].order, pb[b].items[n].e)
           S    == Leading(pb[b].items, key)
           T    == EqualRange(pb[b].items, key)
       IN \E r \in Erase(kind[b], pb[b], disk[b], S, T) :
            /\ Takes(b, r)
            /\ excused' = [excused EXCEPT ![b] = @
                 \cup (IF r.how = "throw" THEN {"torn"} ELSE {})
                 \cup (IF r.how = "ok" /\ S # T THEN {"key"} ELSE {})
                 \cup (IF S = {} /\ T # {} THEN {"unsaved"} ELSE {})
                 \cup (IF kind[b] # "ME" /\ ~(S \subseteq T) THEN {"freed"} ELSE {})]

\* The process is killed, or dies of what it freed.
Killed ==
  /\ \E b \in Book : pb[b].open /\ (Faults \/ "freed" \in excused[b])
  /\ Dies
  /\ UNCHANGED <<kind, disk, content, backup, excused>>

InitialStorage(k) ==
  CASE k = "stdout" -> {<<>>}
    [] k = "ME" -> [1..Slots -> {Blank} \cup {[text |-> l.text, tel |-> l.tel] : l \in Given}]
    [] OTHER -> Contents

Init ==
  /\ kind \in [Book -> Kinds]
  /\ disk \in {d \in [Book -> UNION {InitialStorage(k) : k \in Kinds}] :
               \A b \in Book : d[b] \in InitialStorage(kind[b])}
  /\ pb = [b \in Book |-> Closed]
  /\ backup = [b \in Book |-> "none"]
  /\ saving = [b \in Book |-> "no"]
  /\ written = [b \in Book |-> 0]
  /\ content = [b \in Book |-> "read"]
  /\ excused = [b \in Book |-> {}]

Uses(b, useIndices) ==
  \/ Open(b, useIndices) \/ Sort(b) \/ Add(b) \/ Change(b) \/ EraseRange(b) \/ EraseKey(b)
  \/ \E closing \in BOOLEAN : Sync(b, closing)
  \/ SyncStep(b)

-----------------------------------------------------------------------------
Occurrences(seq, x) == Cardinality({k \in DOMAIN seq : seq[k] = x})
SameLines(s, t) == Len(s) = Len(t) /\ \A k \in DOMAIN s : Occurrences(s, s[k]) = Occurrences(t, s[k])

\* A phonebook without changes since its last sync() has the entries of its
\* file: the flags of the phonebook and of its entries tell every change that
\* is not on disk yet.  Excused are an open that fails unnoticed, and erase(key)
\* where the order and the equality of telephone numbers differ.
CleanMeansSaved ==
  \A b \in Book : (/\ Idle(b) /\ kind[b] = "file"
                   /\ ~pb[b].changed /\ \A e \in ItemsOf(pb[b]) : ~e.changed
                   /\ excused[b] \cap {"unsaved", "freed"} = {})
    => SameLines(Lines(pb[b]), disk[b])

\* Whenever the program dies or a step of sync() fails, the file is complete, or
\* its backup is.
ContentSafe ==
  \A b \in Book : kind[b] = "file" => content[b] \in {"read", "written"} \/ backup[b] \in {"read", "written"}

\* A file the program wrote can be read again: none or all of its lines have an
\* index, and the indices are unique, as insert() demands.  Excused is what
\* erase(key) freed before it was written.
Rereadable ==
  \A b \in Book : kind[b] = "file" /\ content[b] = "written" /\ "freed" \notin excused[b] =>
    LET L == disk[b]
    IN \/ \A k \in DOMAIN L : L[k].index = NoIndex
       \/ \A j, k \in DOMAIN L : L[k].index >= 0 /\ (j # k => L[j].index # L[k].index)

\* The entries in memory are the ones the mobile has, slot by slot.  Excused are
\* a refusal in the middle of an erasure, and erase(key) of a telephone number
\* where the order and the equality of numbers differ: it leaves entries in the
\* mobile that it takes off the map ("+120" for "+12"), or entries in the map
\* that it takes out of the mobile ("12" for "+12").
Mirrored ==
  \A b \in Book : pb[b].open /\ kind[b] = "ME" /\ excused[b] = {} =>
    /\ {<<e.index, e.text, e.tel>> : e \in ItemsOf(pb[b])}
         = {<<i, disk[b][i].text, disk[b][i].tel>> : i \in Used(disk[b])}
    /\ Len(pb[b].items) = Cardinality(Used(disk[b]))
=============================================================================
