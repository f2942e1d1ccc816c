------------------------------- MODULE Gsmpb -------------------------------
(***************************************************************************)
(* gsmpb, which copies a phonebook to another one or synchronizes the      *)
(* other one with it.  Both are SortedPhonebooks: the loops of gsmpb.cc    *)
(* take one step for each entry, on which the mobile may refuse or the     *)
(* program may be killed; at the end the destructors save the phonebooks.  *)
(* In its place there may be a program that uses one phonebook as it likes.*)
(***************************************************************************)
EXTENDS SortedPhonebook

CONSTANTS
  TooLong,   \* the texts that do not fit into the mobile's entries
  Shelf      \* the contents of files that the other program meets

Source == "source"
Dest   == "dest"

ASSUME GsmpbAssumption == Book = {Source, Dest} /\ TooLong \subseteq Text /\ Shelf \subseteq Contents

VARIABLES
  opt,       \* the options: whether to synchronize, whether with indices
  pc,        \* what main() does next
  pos,       \* the iterator of the loop, as a position
  lastText,  \* of updateEntries
  outcome,   \* "ok" until an exception is thrown or the program dies
  wanted     \* the entries of the source

mainVars == <<opt, pc, pos, lastText, outcome, wanted>>
vars     == <<bookVars, mainVars>>

src  == pb[Source]
dst  == pb[Dest]
Goto(label) == pc' = label /\ pos' = 1
Stay        == UNCHANGED <<pc, pos>>
Fail        == outcome' = "error" /\ Goto("close")

\* The entry of the source at pos, and the range of the destination it falls in.
Current == src.items[pos].e
InDest(e)   == EqualRange(dst.items, KeyOf(dst.order, e))
InSource(e) == EqualRange(src.items, KeyOf(src.order, e))
Same(d, e)  == d.tel = e.tel /\ d.text = e.text

\* A call on the destination: the loop goes on, or the exception is caught.
Calls(results, loop) ==
  \E r \in results :
    /\ Takes(Dest, r)
    /\ CASE r.how = "ok"    -> loop /\ UNCHANGED outcome
         [] r.how = "throw" -> Fail
         [] r.how = "crash" -> outcome' = "dead" /\ Goto("end")
    /\ UNCHANGED excused
Skips == UNCHANGED <<bookVars, outcome>>

-----------------------------------------------------------------------------
\* The file of the destination is created unless it exists.
OpenSource ==
  /\ pc = "source"
  /\ \E r \in Constructed(kind[Source], disk[Source], opt.indexed) :
       /\ Construct(Source, r)
       /\ wanted' = ItemsOf(r.pb)
       /\ IF r.how = "ok" THEN Goto("dest") /\ UNCHANGED outcome ELSE Fail
  /\ UNCHANGED <<opt, lastText>>

Fits == kind[Dest] = "ME" => \A e \in ItemsOf(src) : e.text \notin TooLong
OpenDest ==
  /\ pc = "dest"
  /\ \/ /\ Fits
        /\ \E r \in Constructed(kind[Dest], disk[Dest], opt.indexed) :
             /\ Construct(Dest, r)
             /\ IF r.how = "ok" THEN Goto(IF opt.sync THEN "sort" ELSE "clear") /\ UNCHANGED outcome
                ELSE Fail
     \/ ~Fits /\ Fail /\ UNCHANGED bookVars
  /\ UNCHANGED <<opt, lastText, wanted>>

SortBoth ==
  /\ pc = "sort"
  /\ pb' = [b \in Book |-> SetSortOrder(pb[b], IF opt.indexed THEN "ByIndex" ELSE "ByText")]
  /\ Goto("update")
  /\ UNCHANGED <<kind, disk, content, backup, saving, written, excused>>
  /\ UNCHANGED <<opt, lastText, outcome, wanted>>

\* updateEntries: the entry of a text that only one entry of the destination
\* has is overwritten.  The first entry of the source is never looked at.
Overwrites == pos # 1 /\ Current.text # lastText
UpdateEntries ==
  /\ pc = "update" /\ ~opt.indexed /\ pos <= Len(src.items)
  /\ lastText' = IF Overwrites THEN Current.text ELSE lastText
  /\ LET R == InDest(Current)
     IN IF Overwrites /\ Cardinality(R) = 1
           /\ \E n \in R : ~Same(dst.items[n].e, Current)
        THEN \E n \in R : Calls(Set(kind[Dest], dst, disk[Dest], n, Current),
                                pos' = pos + 1 /\ UNCHANGED pc)
        ELSE Skips /\ pos' = pos + 1 /\ UNCHANGED pc
  /\ UNCHANGED <<opt, wanted>>

\* updateEntriesIndexed: the first entry of the index is overwritten.
UpdateEntriesIndexed ==
  /\ pc = "update" /\ opt.indexed /\ pos <= Len(src.items)
  /\ LET found == {n \in InDest(Current) : \A m \in InDest(Current) : n <= m}
     IN IF \E n \in found : ~Same(dst.items[n].e, Current)
        THEN \E n \in found : Calls(Set(kind[Dest], dst, disk[Dest], n, Current),
                                    pos' = pos + 1 /\ UNCHANGED pc)
        ELSE Skips /\ pos' = pos + 1 /\ UNCHANGED pc
  /\ UNCHANGED <<opt, lastText, wanted>>

\* deleteNotPresent: the iterator was advanced before the entry is erased.
\* Faulty variant: only the telephone numbers are compared.
PresentAnywhere(R, items, e) == \E n \in DOMAIN items : items[n].e.tel = e.tel
Present(R, items, e) == \E n \in R : items[n].e.tel = e.tel
DeleteNotPresent ==
  /\ pc = "delete" /\ pos <= Len(dst.items)
  /\ LET e == dst.items[pos].e
     IN IF Present(InSource(e), src.items, e)
        THEN Skips /\ pos' = pos + 1 /\ UNCHANGED pc
        ELSE Calls(Erase(kind[Dest], dst, disk[Dest], {pos}, {pos}), Stay)
  /\ UNCHANGED <<opt, lastText, wanted>>

InsertNotPresent ==
  /\ pc = "insert" /\ pos <= Len(src.items)
  /\ IF Present(InDest(Current), dst.items, Current)
     THEN Skips /\ pos' = pos + 1 /\ UNCHANGED pc
     ELSE Calls(Insert(kind[Dest], dst, disk[Dest], Current, opt.indexed),
                pos' = pos + 1 /\ UNCHANGED pc)
  /\ UNCHANGED <<opt, lastText, wanted>>

\* clear() steps from an erased node to the next, which may crash.
Clear ==
  /\ pc = "clear" /\ dst.items # <<>>
  /\ LET results == Erase(kind[Dest], dst, disk[Dest], {1}, {1})
     IN Calls(results \cup {[r EXCEPT !.how = "crash"] : r \in results}, Stay)
  /\ UNCHANGED <<opt, lastText, wanted>>

Copy ==
  /\ pc = "copy" /\ pos <= Len(src.items)
  /\ Calls(Insert(kind[Dest], dst, disk[Dest], Current, FALSE), pos' = pos + 1 /\ UNCHANGED pc)
  /\ UNCHANGED <<opt, lastText, wanted>>

LoopEnds ==
  /\ \/ pc = "update" /\ pos > Len(src.items) /\ Goto("delete")
     \/ pc = "delete" /\ pos > Len(dst.items) /\ Goto("insert")
     \/ pc = "insert" /\ pos > Len(src.items) /\ Goto("close")
     \/ pc = "clear"  /\ dst.items = <<>> /\ Goto("copy")
     \/ pc = "copy"   /\ pos > Len(src.items) /\ Goto("close")
  /\ UNCHANGED <<bookVars, opt, lastText, outcome, wanted>>

\* The destination is destroyed first; an exception of sync() then ends the program.
Close ==
  /\ pc = "close"
  /\ \E b \in Book :
       /\ b = Source => ~dst.open
       /\ Sync(b, TRUE)
  /\ UNCHANGED mainVars
Saves ==
  /\ pc = "close"
  /\ \E b \in Book :
       /\ SyncStep(b)
       /\ outcome' = IF saving'[b] = "no" /\ saving[b] # "lost" /\ content'[b] # "written"
                     THEN "dead" ELSE outcome
  /\ UNCHANGED <<opt, pc, pos, lastText, wanted>>
End ==
  /\ pc = "close" /\ ~src.open /\ ~dst.open
  /\ Goto("end")
  /\ UNCHANGED <<bookVars, opt, lastText, outcome, wanted>>

Kill ==
  /\ pc \notin {"end", "library"} /\ Killed
  /\ outcome' = "dead" /\ Goto("end")
  /\ UNCHANGED <<opt, lastText, wanted>>

\* A program that uses the library, and is started again when it was killed.
Library ==
  /\ pc = "library"
  /\ Uses(Dest, opt.indexed) \/ Killed
  /\ UNCHANGED mainVars

-----------------------------------------------------------------------------
GsmpbInit ==
  /\ Init
  /\ opt \in [sync : BOOLEAN, indexed : BOOLEAN]
  /\ \/ pc = "source" /\ kind[Source] # "stdout" /\ kind[Dest] # "stdin"
     \/ /\ pc = "library" /\ ~opt.sync
        /\ kind[Source] = "stdin" /\ disk[Source] = <<>>
        /\ kind[Dest] \in {"file", "stdin"} => disk[Dest] \in Shelf
  /\ pos = 1 /\ lastText = 0 /\ outcome = "ok"
  /\ wanted = {}

GsmpbNext ==
  \/ OpenSource \/ OpenDest \/ SortBoth
  \/ UpdateEntries \/ UpdateEntriesIndexed \/ DeleteNotPresent \/ InsertNotPresent
  \/ Clear \/ Copy \/ LoopEnds
  \/ Close \/ Saves \/ End \/ Kill
  \/ Library

GsmpbSpec == GsmpbInit /\ [][GsmpbNext]_vars

-----------------------------------------------------------------------------
\* What is in the destination in the end, an entry of the source.
Names(S)  == {<<Lower[e.text], e.tel>> : e \in S}
InOrder(S) == {<<e.index, e.text, e.tel>> : e \in S}
Stored == IF kind[Dest] = "ME"
          THEN {Entry(i, disk[Dest][i].text, disk[Dest][i].tel, FALSE) : i \in Used(disk[Dest])}
          ELSE {disk[Dest][k] : k \in DOMAIN disk[Dest]}

\* A synchronization that ends without an error has made the destination equal
\* to the source: in names, which may differ in case, and numbers, or in
\* everything when indices count.  Mobiles are excluded then: the keys of their
\* entries are uninitialised.
Synchronised ==
  pc = "end" /\ outcome = "ok" /\ opt.sync /\ "unsaved" \notin excused[Dest] =>
    /\ ~opt.indexed => Names(Stored) = Names(wanted)
    /\ opt.indexed /\ "ME" \notin {kind[Source], kind[Dest]} => InOrder(Stored) = InOrder(wanted)

\* When indices count, what was written can always be read again.
IndexedRereadable == opt.indexed => Rereadable

\* A copy that ends without an error left the entries of the source, and no
\* others, in the destination.
Copied ==
  pc = "end" /\ outcome = "ok" /\ ~opt.sync /\ "unsaved" \notin excused[Dest] =>
    {<<e.text, e.tel>> : e \in Stored} = {<<e.text, e.tel>> : e \in wanted}
=============================================================================
