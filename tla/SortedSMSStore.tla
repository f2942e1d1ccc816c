--------------------------- MODULE SortedSMSStore ---------------------------
(***************************************************************************)
(* The sorted SMS stores of gsm_sorted_sms_store.cc, and gsmsmsstore, the  *)
(* program that backs up, copies, deletes and adds messages with them.  A  *)
(* store is a multimap over the messages of a file, of standard input or   *)
(* output, or of a store of the mobile, where messages arrive while it is  *)
(* read.  The destructors save the files step by step.                     *)
(*                                                                         *)
(* A file is the sequence of what sync() writes: its version, the messages.*)
(***************************************************************************)
EXTENDS Integers, Sequences, FiniteSets, SequencesExt

CONSTANTS
  Kinds,      \* what stores are made from: "file", "stdin", "stdout", "ME"
  Message,    \* the messages
  Date,       \* their time stamps; 0 for messages to be sent
  Type,       \* their types
  Sender,     \* their addresses, as <<place in the order, value compared>>
  Contents,   \* the messages of files
  Args,       \* the indices given on the command line
  Version,    \* what a file begins with
  NoMessage,  \* an empty slot of the mobile
  Slots,      \* the number of slots of a store of the mobile
  Arrivals,   \* bound: the messages that arrive
  Faults      \* whether the mobile refuses, the file system fails, the program dies

Operation == {"backup", "copy", "delete", "add", "list", "library"}
Orders    == {"ByDate", "ByAddress", "ByType", "ByIndex"}
Side      == {"source", "dest"}
Slot      == 0..(Slots - 1)

ASSUME SortedSMSStoreAssumption ==
  /\ Kinds \subseteq {"file", "stdin", "stdout", "ME"}
  /\ NoMessage \notin Message /\ Version \notin Message
  /\ Date \in [Message -> Nat] /\ Type \in [Message -> Nat]
  /\ Sender \in [Message -> Nat \X Nat]
  /\ Contents \subseteq Seq(Message) /\ Args \subseteq Seq(Nat)
  /\ Slots \in Nat /\ Arrivals \in Nat /\ Faults \in BOOLEAN

VARIABLES
  op,        \* the operation of gsmsmsstore, or a program that uses the library
  args,      \* the indices it was given
  writesOwn, \* whether the mobile has the destination selected for writing
  pc,        \* what it does next
  pos,       \* its place in a loop
  outcome,   \* "ok" until an exception is thrown or the program dies
  kind,      \* what the stores are made from
  store,     \* the members of their objects, see Fresh
  disk,      \* their files, or the slots of the mobile
  content,   \* what a file holds: "read", "part", "written", or was "renamed"
  backup,    \* the same of its backup
  saving,    \* how far sync() is: "no", "rename", "open", "write", "lost"
  had,       \* what the destination had when it was opened
  arrived,   \* counts what Arrivals bounds
  excused    \* an object missed a message that arrived, or that the mobile stored
             \* or erased without an answer, or stored elsewhere; entries were
             \* erased and not taken off the map, or the reverse; a write was lost

mainVars  == <<op, args, writesOwn, pc, pos, outcome>>
fileVars  == <<content, backup, saving>>
ghostVars == <<had, arrived, excused>>
vars      == <<mainVars, kind, store, disk, fileVars, ghostVars>>

Goto(label) == pc' = label /\ pos' = 1
Advance     == pos' = pos + 1 /\ UNCHANGED pc
Stay        == UNCHANGED <<pc, pos>>

-----------------------------------------------------------------------------
(***************************************************************************)
(* The multimap.  A key is what operator< and what operator== compare.     *)
(***************************************************************************)
KeyOf(order, e) ==
  CASE order = "ByDate"    -> <<Date[e.message], Date[e.message]>>
    [] order = "ByAddress" -> Sender[e.message]
    [] order = "ByType"    -> <<Type[e.message], Type[e.message]>>
    [] order = "ByIndex"   -> <<e.index, e.index>>

EqualRange(items, key) == {k \in DOMAIN items : items[k].key[1] = key[1]}
Item(order, e) == [key |-> KeyOf(order, e), e |-> e]
Put(items, it) ==
  InsertAt(items, 1 + Cardinality({k \in DOMAIN items : items[k].key[1] <= it.key[1]}), it)
Keep(items, it) == IF it[1] THEN Append(items, it[2]) ELSE items
Without(items, S) == FoldLeft(Keep, <<>>, [k \in DOMAIN items |-> <<k \notin S, items[k]>>])

Closed == [open |-> FALSE, closing |-> FALSE, order |-> "ByDate", items |-> <<>>,
           changed |-> FALSE, next |-> 0]
Fresh  == [Closed EXCEPT !.open = TRUE]

\* Faulty variant: the entries keep the places they had in the old order.
SetSortOrderKept(s, order) == [s EXCEPT !.order = order]
SetSortOrder(s, order) ==
  IF order = s.order THEN s
  ELSE [s EXCEPT !.order = order,
                 !.items = FoldLeft(Put, <<>>, [k \in DOMAIN s.items |-> Item(order, s.items[k].e)])]

\* insert() into a file numbers the entries; the mobile chooses a slot.
Insert(s, m, index) ==
  [s EXCEPT !.changed = TRUE, !.next = @ + 1,
            !.items = Put(@, Item(s.order, [index |-> index, message |-> m]))]
Load(s, m, index) == [Insert(s, m, index) EXCEPT !.changed = FALSE]
Erase(s, S, T) == [s EXCEPT !.changed = @ \/ S # {}, !.items = Without(@, T)]

Used(ME)  == {i \in DOMAIN ME : ME[i] # NoMessage}
Messages(s) == [k \in DOMAIN s.items |-> s.items[k].e.message]
Content(f)  == IF f = <<>> THEN <<>> ELSE Tail(f)

-----------------------------------------------------------------------------
(***************************************************************************)
(* The constructors.  readSMSFile copies one byte of the version and of    *)
(* every length into uninitialised variables: a file that has a version is *)
(* read, or found corrupt.                                                 *)
(***************************************************************************)
ReadMessage(s, m) == Load(s, m, s.next)
FromFile(f) == FoldLeft(ReadMessage, Fresh, Content(f))

Caught == outcome' = "error" /\ Goto("close")
Opened(b) == Goto(IF b = "dest" THEN op
                  ELSE IF op = "list" THEN "close" ELSE "dest")

Construct(b, s) ==
  /\ store' = [store EXCEPT ![b] = s]
  /\ had' = IF b = "dest" THEN disk[b] ELSE had
  /\ Opened(b)
  /\ UNCHANGED outcome
OpenFile(b) ==
  /\ pc = b /\ kind[b] # "ME"
  /\ \/ Construct(b, IF kind[b] = "stdout" THEN Fresh ELSE FromFile(disk[b]))
     \/ kind[b] # "stdout" /\ disk[b] # <<>> /\ Caught /\ UNCHANGED <<store, had>>
  /\ UNCHANGED <<op, args, writesOwn, kind, disk, fileVars, arrived, excused>>

\* The mobile is asked how many messages it has, until so many were read.
\* Faulty variant: slots are read up to that number.
LoadedBlindly(b) == pos > Cardinality(Used(disk[b]))
Loaded(b) == Len(store[b].items) = Cardinality(Used(disk[b]))
LoadSlot(b) ==
  /\ pc = b /\ kind[b] = "ME" /\ pos <= Slots + 1
  /\ LET s == [store[b] EXCEPT !.open = TRUE]
     IN IF Loaded(b) THEN Construct(b, s)
        ELSE /\ \/ /\ store' = [store EXCEPT ![b] =
                         IF pos - 1 \in Used(disk[b]) THEN Load(s, disk[b][pos - 1], pos - 1) ELSE s]
                   /\ Advance
                   /\ UNCHANGED outcome
                \/ Faults /\ store' = [store EXCEPT ![b] = Closed] /\ Caught
             /\ UNCHANGED had
  /\ UNCHANGED <<op, args, writesOwn, kind, disk, fileVars, arrived, excused>>

-----------------------------------------------------------------------------
(***************************************************************************)
(* Calls that change the destination.                                      *)
(***************************************************************************)
src == store["source"]
dst == store["dest"]
Becomes(s) == store' = [store EXCEPT !["dest"] = s]
Fails == Caught /\ UNCHANGED <<store, disk, excused>>

\* The program dies: of an exception in a destructor, of a null pointer, of a kill.
Dies == /\ outcome' = "dead" /\ Goto("end")
        /\ store' = [b \in Side |-> Closed]

\* The mobile stores the message in another of its stores and answers with the
\* index there.  What its own store has under that index is read back for the key
\* and gets an entry; when there is nothing, the null message is dereferenced.
\* Slots is an index that the store of the destination does not have.
InsertsElsewhere ==
  /\ excused' = TRUE
  /\ \E i \in 0..Slots :
       \/ /\ i \in Used(disk["dest"])
          /\ Becomes(Insert(dst, disk["dest"][i], i)) /\ Advance /\ UNCHANGED outcome
       \/ i \notin Used(disk["dest"]) /\ Dies
       \/ Faults /\ Caught /\ UNCHANGED store
  /\ UNCHANGED disk

\* Reading the destination remembered its name, so that writeEntry() does not
\* select it for writing (see SMSStore): the mobile writes where it did before.
Inserts(m) ==
  \/ /\ kind["dest"] # "ME"
     /\ Becomes(Insert(dst, m, dst.next))
     /\ Advance
     /\ UNCHANGED <<disk, outcome, excused>>
  \/ /\ kind["dest"] = "ME" /\ writesOwn
     /\ \E i \in Slot \ Used(disk["dest"]) :
          /\ disk' = [disk EXCEPT !["dest"][i] = m]
          \* the message is read back, for its key
          /\ \/ Becomes(Insert(dst, m, i)) /\ Advance /\ UNCHANGED <<outcome, excused>>
             \/ Faults /\ Caught /\ excused' = TRUE /\ UNCHANGED store
  \/ kind["dest"] = "ME" /\ ~writesOwn /\ InsertsElsewhere
  \/ /\ kind["dest"] = "ME" /\ (Faults \/ ~writesOwn \/ Slot \subseteq Used(disk["dest"]))
     /\ Fails

\* The slots of the mobile of the entries at S.
Emptied(S) ==
  [disk EXCEPT !["dest"] = [i \in Slot |->
     IF \E k \in S : dst.items[k].e.index = i THEN NoMessage ELSE @[i]]]

\* The entries at S are erased one by one, which may fail, then those at T taken
\* off the map.  An entry that was erased and is still in the map keeps its value
\* here, as freed memory does until it is used again.
Erases(S, T, then) ==
  \/ /\ Becomes(Erase(dst, S, T))
     /\ disk' = IF kind["dest"] # "ME" THEN disk ELSE Emptied(S)
     /\ then
     /\ excused' = (excused \/ S # T)
     /\ UNCHANGED outcome
  \/ /\ kind["dest"] = "ME" /\ Faults /\ S # {}
     /\ Fails
  \/ /\ kind["dest"] = "ME" /\ Faults
     /\ \E k \in S : disk' = Emptied({j \in S : j <= k})
     /\ Caught /\ excused' = TRUE /\ UNCHANGED store

\* The entries of the source that are meant, in the order they are taken.
Find(s, index) == {k \in DOMAIN s.items : s.items[k].e.index = index}
Entries(s) == IF args = <<>> THEN [k \in DOMAIN s.items |-> {k}] ELSE [n \in DOMAIN args |-> Find(s, args[n])]
InOrder(s) == IF op = "backup" \/ args # <<>> THEN SetSortOrder(s, "ByIndex") ELSE s

\* backup(): the entry is inserted unless one of its date is equal to it.
\* Faulty variant: the date is enough.
IsBackedUpByDate(m) == EqualRange(dst.items, KeyOf("ByDate", [message |-> m])) # {}
IsBackedUp(m) ==
  \E k \in EqualRange(dst.items, KeyOf("ByDate", [message |-> m])) : dst.items[k].e.message = m

Backup ==
  /\ pc = "backup"
  /\ LET list == Entries(InOrder(src))
         m(k) == InOrder(src).items[k].e.message
     IN \/ /\ pos > Len(list) /\ Goto("close") /\ UNCHANGED <<store, disk, outcome, excused>>
        \/ /\ pos <= Len(list) /\ list[pos] = {} /\ Fails
        \/ /\ pos <= Len(list)
           /\ \E k \in list[pos] :
                IF IsBackedUp(m(k)) THEN Advance /\ UNCHANGED <<store, disk, outcome, excused>>
                ELSE Inserts(m(k))
  /\ UNCHANGED <<op, args, writesOwn, kind, fileVars, had, arrived>>

\* clear() steps from an erased node to the next, which may crash.
Clear ==
  /\ pc = "copy" /\ dst.items # <<>>
  /\ Erases({1}, {1}, Stay) \/ (Dies /\ UNCHANGED <<disk, excused>>)
  /\ UNCHANGED <<op, args, writesOwn, kind, fileVars, had, arrived>>
ClearEnds ==
  /\ pc = "copy" /\ dst.items = <<>>
  /\ Goto("insert") /\ Becomes([dst EXCEPT !.changed = TRUE])
  /\ UNCHANGED <<op, args, writesOwn, outcome, kind, disk, fileVars, ghostVars>>
Copy ==
  /\ pc = "insert"
  /\ LET list == Entries(InOrder(src))
     IN \/ /\ pos > Len(list) /\ Goto("close") /\ UNCHANGED <<store, disk, outcome, excused>>
        \/ /\ pos <= Len(list) /\ list[pos] = {} /\ Fails
        \/ /\ pos <= Len(list)
           /\ \E k \in list[pos] : Inserts(InOrder(src).items[k].e.message)
  /\ UNCHANGED <<op, args, writesOwn, kind, fileVars, had, arrived>>

Add ==
  /\ pc = "add"
  /\ IF pos = 1 THEN \E m \in Message : Date[m] = 0 /\ Inserts(m)
     ELSE Goto("close") /\ UNCHANGED <<store, disk, outcome, excused>>
  /\ UNCHANGED <<op, args, writesOwn, kind, fileVars, had, arrived>>

\* erase(key) goes from the first entry that operator< does not tell from the key
\* as far as operator== finds entries equal to it.  With addresses this range may
\* end early ("+120" after "+12") or run past those taken off the map ("12").
Found(items, key) ==
  {n \in EqualRange(items, key) : \A j \in EqualRange(items, key) : n <= j}
Leading(items, key) ==
  {k \in DOMAIN items :
     \E n \in Found(items, key) : n <= k /\ \A j \in n..k : items[j].key[2] = key[2]}
Delete ==
  /\ pc = "delete"
  /\ IF dst.order # "ByIndex"
     THEN Becomes(SetSortOrder(dst, "ByIndex")) /\ Stay /\ UNCHANGED <<disk, outcome, excused>>
     ELSE IF pos > Len(args)
     THEN Goto("close") /\ UNCHANGED <<store, disk, outcome, excused>>
     ELSE LET key == <<args[pos], args[pos]>>
              S   == Leading(dst.items, key)
          IN IF S = {} THEN Fails ELSE Erases(S, EqualRange(dst.items, key), Advance)
  /\ UNCHANGED <<op, args, writesOwn, kind, fileVars, had, arrived>>

\* A program that sorts, erases by a key and saves as it likes.
Library ==
  /\ pc = "library" /\ saving["dest"] = "no"
  /\ \/ /\ \E order \in Orders : Becomes(SetSortOrder(dst, order))
        /\ Stay /\ UNCHANGED <<disk, outcome, excused>>
     \/ \E k \in DOMAIN dst.items :
          LET key == KeyOf(dst.order, dst.items[k].e)
          IN Erases(Leading(dst.items, key), EqualRange(dst.items, key), Stay)
     \/ Goto("close") /\ UNCHANGED <<store, disk, outcome, excused>>
  /\ UNCHANGED <<op, args, writesOwn, kind, fileVars, had, arrived>>

-----------------------------------------------------------------------------
(***************************************************************************)
(* sync(), called by the library's user or by the destructor.  What the    *)
(* stream's buffer still holds is written when the file is closed, which   *)
(* no one checks; what it cannot hold is written before, which may throw.  *)
(***************************************************************************)
\* Faulty variant: the file is opened without a backup.
FirstStepOpen(b) == "open"
FirstStep(b) == IF kind[b] = "stdout" \/ backup[b] = "read" THEN "open" ELSE "rename"
Sync(b, closing) ==
  /\ store[b].open /\ saving[b] = "no"
  /\ IF closing THEN pc = "close" /\ (b = "source" => ~dst.open)
     ELSE pc = "library" /\ b = "dest"
  /\ IF kind[b] \in {"file", "stdout"} /\ store[b].changed /\ (kind[b] = "stdout" => closing)
     THEN /\ saving' = [saving EXCEPT ![b] = FirstStep(b)]
          /\ store' = [store EXCEPT ![b].closing = closing]
     ELSE /\ store' = IF closing THEN [store EXCEPT ![b] = Closed] ELSE store
          /\ UNCHANGED saving
  /\ UNCHANGED <<mainVars, kind, disk, content, backup, ghostVars>>

Rename(b) ==
  /\ saving[b] = "rename"
  /\ \/ /\ saving' = [saving EXCEPT ![b] = "open"]
        /\ backup' = [backup EXCEPT ![b] = content[b]]
        /\ content' = [content EXCEPT ![b] = "renamed"]
        /\ UNCHANGED <<store, pc, pos, outcome>>
     \/ /\ Faults
        /\ saving' = [saving EXCEPT ![b] = "no"]
        /\ IF store[b].closing THEN Dies ELSE Caught /\ UNCHANGED store
        /\ UNCHANGED <<content, backup>>
  /\ UNCHANGED <<op, args, writesOwn, kind, disk, ghostVars>>

Open(b) ==
  /\ saving[b] = "open"
  /\ \/ /\ saving' = [saving EXCEPT ![b] = "write"]
        /\ disk' = [disk EXCEPT ![b] = <<>>]
        /\ content' = [content EXCEPT ![b] = "part"]
     \/ /\ Faults /\ kind[b] = "file"
        /\ saving' = [saving EXCEPT ![b] = "lost"]
        /\ UNCHANGED <<disk, content>>
  /\ UNCHANGED <<mainVars, kind, store, backup, ghostVars>>

\* The buffer is full before everything was written, and cannot be emptied.
WriteFails(b) ==
  /\ saving[b] = "write" /\ Faults
  /\ LET f == <<Version>> \o Messages(store[b])
     IN \E n \in 0..(Len(f) - 1) : disk' = [disk EXCEPT ![b] = SubSeq(f, 1, n)]
  /\ saving' = [saving EXCEPT ![b] = "no"]
  /\ excused' = TRUE
  /\ IF store[b].closing THEN Dies ELSE Caught /\ UNCHANGED store
  /\ UNCHANGED <<op, args, writesOwn, kind, content, backup, had, arrived>>

\* What is buffered reaches the file when it is closed, all or a part of it.
Write(b) ==
  /\ saving[b] \in {"write", "lost"}
  /\ LET f == <<Version>> \o Messages(store[b])
     IN \E n \in IF saving[b] = "lost" THEN {0} ELSE IF Faults THEN 0..Len(f) ELSE {Len(f)} :
          /\ disk' = IF saving[b] = "lost" THEN disk ELSE [disk EXCEPT ![b] = SubSeq(f, 1, n)]
          /\ content' = IF n = Len(f) THEN [content EXCEPT ![b] = "written"] ELSE content
          /\ excused' = (excused \/ n # Len(f))
  /\ saving' = [saving EXCEPT ![b] = "no"]
  /\ store' = [store EXCEPT ![b] = IF @.closing THEN Closed ELSE [@ EXCEPT !.changed = FALSE]]
  /\ UNCHANGED <<mainVars, kind, backup, had, arrived>>

End ==
  /\ pc = "close" /\ \A b \in Side : ~store[b].open
  /\ Goto("end")
  /\ UNCHANGED <<op, args, writesOwn, outcome, kind, store, disk, fileVars, ghostVars>>

\* The process is killed, or dies of what erase(key) freed or emptied in the mobile.
Kill ==
  /\ Faults \/ (op = "library" /\ excused)
  /\ pc # "end" /\ Dies
  /\ saving' = [b \in Side |-> "no"]
  /\ UNCHANGED <<op, args, writesOwn, kind, disk, content, backup, ghostVars>>

\* A message arrives in the mobile; the program does not notice once it is past the slot.
Arrive(b) ==
  /\ kind[b] = "ME" /\ arrived < Arrivals /\ pc # "end"
  /\ arrived' = arrived + 1
  /\ \E m \in Message, i \in Slot \ Used(disk[b]) :
       /\ Date[m] # 0
       /\ disk' = [disk EXCEPT ![b][i] = m]
       /\ excused' = (excused \/ ~((pc = b /\ pos - 1 <= i) \/ (pc = "source" /\ b = "dest")))
  /\ UNCHANGED <<mainVars, kind, store, fileVars, had>>

-----------------------------------------------------------------------------
Reads(o)  == o \in {"backup", "copy", "list"}
InitialDisk(k) ==
  CASE k = "ME" -> [Slot -> Message \cup {NoMessage}]
    [] k = "stdout" -> {<<>>}
    [] OTHER -> {<<>>} \cup {<<Version>> \o c : c \in Contents}

Init ==
  /\ op \in Operation /\ args \in Args
  /\ args # <<>> => op \in {"backup", "copy", "delete"}
  /\ pc = (IF Reads(op) THEN "source" ELSE "dest") /\ pos = 1 /\ outcome = "ok"
  /\ kind \in {k \in [Side -> Kinds] : k["source"] # "stdout" /\ k["dest"] # "stdin"}
  /\ ~Reads(op) => kind["source"] = "file"
  /\ op = "list" => kind["dest"] = "file"
  /\ writesOwn \in BOOLEAN
  /\ ~writesOwn => kind["dest"] = "ME" /\ op \in {"backup", "copy", "add"}
  /\ disk \in {d \in [Side -> UNION {InitialDisk(k) : k \in Kinds}] :
                 /\ \A b \in Side : d[b] \in InitialDisk(kind[b])
                 /\ ~Reads(op) => d["source"] = <<>>
                 /\ op = "list" => d["dest"] = <<>>}
  /\ store = [b \in Side |-> Closed]
  /\ content = [b \in Side |-> "read"] /\ backup = [b \in Side |-> "none"]
  /\ saving = [b \in Side |-> "no"]
  /\ had = <<>> /\ arrived = 0 /\ excused = FALSE

Next ==
  \/ \E b \in Side :
       \/ OpenFile(b) \/ LoadSlot(b) \/ Arrive(b)
       \/ \E closing \in BOOLEAN : Sync(b, closing)
       \/ Rename(b) \/ Open(b) \/ WriteFails(b) \/ Write(b)
  \/ Backup \/ Clear \/ ClearEnds \/ Copy \/ Add \/ Delete \/ Library
  \/ End \/ Kill

Spec == Init /\ [][Next]_vars

-----------------------------------------------------------------------------
Count(f, m)  == Cardinality({i \in DOMAIN f : f[i] = m})
Ended(o)     == pc = "end" /\ outcome = "ok" /\ op = o /\ ~excused
Given        == {args[n] : n \in DOMAIN args}
\* The messages a store or file has, by their indices.
ByIndex(b, f) == IF kind[b] = "ME" THEN [i \in Used(f) |-> f[i]]
                 ELSE [i \in 0..(Len(Content(f)) - 1) |-> Content(f)[i + 1]]
Chosen(f)    == [i \in {j \in DOMAIN f : args = <<>> \/ j \in Given} |-> f[i]]

\* A backup that ends without an error has added what was missing, once, and
\* left alone what was there, duplicates and other messages of the same date too.
\* Excused are messages that arrived meanwhile, and a mobile that wrote one to a
\* store other than the destination, see InsertsElsewhere: such a backup ends
\* without an error, too.
BackupExact ==
  Ended("backup") =>
    LET chosen == Chosen(ByIndex("source", disk["source"]))
    IN \A m \in Message :
         Count(disk["dest"], m) =
           IF Count(had, m) = 0 /\ Count(chosen, m) # 0 THEN 1 ELSE Count(had, m)

\* A deletion has removed the messages with the given indices and no others.
DeleteExact ==
  Ended("delete") =>
    LET f == ByIndex("dest", had)
    IN \A m \in Message :
         Count(disk["dest"], m) = Cardinality({i \in DOMAIN f \ Given : f[i] = m})

\* A store of the mobile that was read while messages arrived has all of them,
\* each with the slot it is in, and goes on to have them.  Excused are messages
\* that arrived behind the slot that is read, an insert or an erasure without an
\* answer, an insert into another store of the mobile, and erase(key) that stops
\* half way, or whose == finds other entries than the < of addresses.
LoadedExact ==
  \A b \in Side :
    kind[b] = "ME" /\ store[b].open /\ pc \notin Side /\ ~excused =>
      {<<it.e.index, it.e.message>> : it \in Range(store[b].items)}
        = {<<i, disk[b][i]>> : i \in Used(disk[b])}

\* Whenever the program dies or a step of sync() fails, the file is complete, or
\* its backup is.
ContentSafe ==
  \A b \in Side : kind[b] = "file" =>
    content[b] \in {"read", "written"} \/ backup[b] \in {"read", "written"}
=============================================================================
