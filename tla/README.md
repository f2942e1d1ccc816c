# TLA+ specifications of gsmlib

gsmlib is a C++ library that talks AT commands to a GSM mobile phone or modem
(the *ME* behind a terminal adapter, the *TA*), with tools on top: a daemon
that receives and sends short messages, and programs that copy phonebooks and
message stores. These modules model the parts of it that keep state or convert
data, state what makes them correct, check that with TLC on small instances, and
prove the most important of it with TLAPS for all instances.

    tlc -workers 2 -config SMSStoreFaults.cfg MCSMSStore.tla
    tlapm SMSStoreProofs.tla

`PROJECT.json` lists the runs, the source lines behind every definition, the
hazards, and for each property a faulty variant of the model that violates it
(operators commented "Faulty variant" in the modules).

## The system

| Part | Code | State it keeps | Modules |
|------|------|----------------|---------|
| SMS stores of the ME | `gsm_sms_store.cc`, `MeTa::setSMSStore` | the selected store, cached entries | `SMSStore` |
| Phonebooks of the ME | `gsm_phonebook.cc`, `MeTa::setPhonebook` | the selected phonebook, cached entries, the count | `Phonebook` |
| AT command line | `gsm_at.cc`, `gsm_event.cc` | waiting commands, the position in an answer, the event handler | `GsmAt`, `GsmAtClient` |
| gsmsmsd, main loop | `apps/gsmsmsd.cc` | queue of new messages, the exit flags, the routing in the TA | `SmsDaemon` |
| gsmsmsd, spooling | `sendSMS` in `apps/gsmsmsd.cc`, `contrib/gsmsmsspool`, `contrib/gsmsmsrequeue` | the directories | `SpoolQueue` |
| Long texts | `MeTa::sendSMSs`, message IDs of gsmsmsd | position in the text, the ID | `SendSMSs` |
| Codecs | `gsm_sms_codec.cc`, `gsm_sms.cc`, `gsm_cb.cc` | the place in a PDU | `Codec`, `SMSMessage` |
| Parser | `gsm_parser.cc` | the place in an answer | `Parser` |
| Sorted stores | `gsm_sorted_phonebook.cc`, `gsm_sorted_sms_store.cc` | multimaps over an ME store or a file, what is not saved yet | `SortedPhonebook`, `SortedSMSStore` |
| gsmpb, gsmsmsstore | `apps/gsmpb.cc`, `apps/gsmsmsstore.cc` | the iterators over two stores | `Gsmpb`, `SortedSMSStore` |

How they interact. Every operation on a store, a phonebook or the network is
one or a few calls of `GsmAt::chat` (or `chatv`, `sendPdu`), which send a command
and read lines until the final result code. All objects of a `MeTa` share one
TA, and with it one *selected* store and one *selected* phonebook; `MeTa`
remembers the last name it selected to save commands. The TA may report an
event (a message or an indication) between any two lines; `getLine` takes it out
and calls `GsmEvent::dispatch`, which may send a `+CNMA` of its own, nested in the
command that is waiting, and then calls the event handler. The handler of
gsmsmsd only queues the event. PDUs travel as text in commands, answers and
events; the codecs turn them into messages, the parser takes the rest of an
answer apart. A sorted store is a second layer of state above a store of the
ME, or above a file, which it rewrites as a whole when it is synchronized or
destroyed. The library has no threads: the concurrency is with the TA, the
network, signals, other processes in the spool directories, and the person who
holds the phone.

What is hard, and where the properties aim:

* *Remembered versus real*: selections that are skipped because a name is
  remembered, cached entries and counts, indications that describe a slot at
  some earlier time, flags that tell what is not saved yet.
* *Interleaving*: events inside answers and handshakes, commands inside
  commands, files that appear while a directory is read, messages that arrive
  while a store is read, a signal at any step.
* *Failure half way*: a refused command, an answer that is lost although the
  command was executed, a kill between sending a file and renaming it, or
  between renaming a store and writing it anew.
* *Several notions of the same*: keys that compare differently for order and
  for equality, indices that are places, slots or keys, entries of equal text.
* *Boundaries*: texts that fill their parts exactly, septets behind a header,
  octets that wrap around, an unknown count that is -1, truncated PDUs.

## The modules

How they compose: `GsmAtClient` and `SmsDaemon` compose `GsmAt` with a program (the
second by `INSTANCE`); `Gsmpb` extends `SortedPhonebook` with a program over two
of its objects; `Conversions` extends `SendSMSs`, `SMSMessage` (which extends
`Codec`) and `Parser` and puts a line between their two ends. The `MC` modules
define the values of constants that a configuration cannot express; the other
modules are their own model-checking instances.

### SMSStore

State: the ME (`mem`, `sel`, `supported`), `MeTa` (`lastSMSStoreName`,
`cpmsParamCount`, `created`), the `SMSStore` objects (`useCache`, `entries`) and
what an observer notes (`call`, `rejected`, `suspect`). One action per public
operation, each with its store selection, its AT command and the bookkeeping of
the cache. `SetSMSStore` is a set of possible results of `MeTa::setSMSStore`:
the selection may be skipped, executed, refused, or executed without an answer.
`+CPMS` sets up to three stores (read and delete, write and send, receive), and
`sel` keeps them apart.

* `SelectionRemembered`: skipping `+CPMS` is sound for reading and deleting,
  unless the TA refused the last one.
* `CacheCoherent`, `ReadsOwnSlot`: cached entries, and what `message()` returns,
  agree with the slot, unless it changed behind the object's back (`suspect`).
* `NoCollateralLoss`: only an erase or clear of a slot, or the ME, takes a
  message away.
* `InsertedIntoOwnStore` does **not** hold (run `SMSStoreInsert`): the skip goes
  by name alone, so after a read an insert writes to whatever store was
  selected for writing before.

Left out: cell broadcast messages are read (`ReadCB`) but have no content of
their own; the content of a message is a model value.

### Phonebook

The same for `gsm_phonebook.cc`: `slots` and `mem` are the ME, `sel` its
selected phonebook, `entries`, `size` and `useCache` the objects. Operations that
look at several entries (`insertFirstEmpty`, `size`, `find`) read those that
are not cached one after the other and may fail after any of them; `Aborts`
stands for the failure after the entries of a set were read. `clear()` and the
range erase are the erases they consist of. `MeTa::setPhonebook` remembers the
name only after the answer, so here a *refused* selection is harmless and a
*lost answer* is what leaves the TA on another phonebook (`misled`).

* `SelectionSound`: skipping `+CPBS` is sound, together with the types, which
  make it inductive. `CacheCoherent`, `NoCollateralLoss` as above; an insert
  never takes a used entry.
* `SizeExact`: a known `_size` is the number of used entries. It excludes the
  phonebooks in `miscounted`: `set()` of an entry, or an insert of an empty one,
  changes the number of used entries without `adjustSize` being told.
* `FoundIfThere`: `find` returns an entry with the text, or none if there is
  none. With caching off `find` stores the text that was searched in the entry
  that was found; that entry is `suspect` from then on.

Abstractions: entries are numbered by their place in memory (the numbers of a
sparse phonebook are a bijection with these); the limits on the length of texts
and numbers are checked before any state changes and left out; the query of the
character set is part of the command that needs it. A phonebook of length 0 in
`Shapes` is one the ME does not have. That `+CPBF` matches a prefix is GSM 07.07;
`Matches` states it.

### GsmAt and GsmAtClient

`GsmAt` is the line between program and TA: `line` (items the TA sent and the
program did not read), `answering` (the lines of an answer the TA has still to
send), `todo` (commands it was sent), `entering` (the command whose PDU the TA
waits for: until CTRL-Z everything is text to it), `stack` (the calls that wait,
nested by `+CNMA`), `result`, the event handler (`listening`, `received`) and
`sendAck`. A frame of the stack holds what the locals of `chat`, `chatv` and
`sendPdu` hold: the command, the lines so far, whether the prompt was answered,
the tries left and the last line seen. `GetLine` is one line read by the innermost
call, `TimeOut` the exception of the port, after which `sendPdu` tries again or,
when it is the echo or a line behind an event that does not come, gives up. The TA
executes a command (`TAExecutes`) and sends its answer line by line
(`TATransmits`), so that events (`TAReports`) come between any two lines. It has
no `Next` of its own: `GsmAtClient` composes it with a program that may call any
command next, a TA that may answer, refuse or be late, and events at any time;
`SmsDaemon` composes it with gsmsmsd.

* `OwnAnswer`: what a call returns is the answer to its own command, line by
  line, though events come between the lines and `+CNMA` commands are nested in
  the call, and when it has returned neither line nor TA has anything of an
  answer left.
* `Undisturbed`: without acknowledgements no event makes a call fail or gets
  text into a PDU, not even between the command and the prompt.
* `EventsInOrder`: each event is in the lines, in a call that acknowledges it, or
  handed over, exactly once; and in the order of arrival where nothing is
  acknowledged. (An acknowledgement that fails drops its event.)
* `CallReturns`: a call ends.

A call that failed with a time-out may leave its answer on the line. The code
does not resynchronise; these properties therefore stop at the first failed
call (`broken`) or late answer (`late`). Echoes, empty lines and the wording of
answers are left out, and of events those that do not begin with "+" (`RING`,
`NO CARRIER`), which the handshake would refuse as unexpected characters.

### SmsDaemon

The control flow of `main` in gsmsmsd as a program counter `pc` whose values are
named after what is waited for, on top of `GsmAt`, with the network (`arrived`),
the TA (`store`, `routing`, `service`, `awaiting`, and what `GsmAt` has of it),
the spool directory and the terminate signal. A step ends where the program waits
for an answer. A spool file is sent by `sendPdu`, with its prompt.

* `NothingLost`: "to terminate gsmsmsd cleanly (without losing SMS messages)":
  each message that arrived is in its slot, on its way, or was given to the
  action, and at the end none is only on its way (without acknowledgements).
* `IndicationExact`: an indication still describes its slot when it is
  processed.
* `DispatchedInOrder`, `Dispatches`, `Terminates`.
* `TerminatesCleanly` does **not** hold when messages are acknowledged (run
  `SmsDaemonLost`): a message that arrives while routing is being switched off
  is acknowledged and lost.
* `Acknowledges` does **not** hold either (run `SmsDaemonAcknowledge`): a `+CNMA`
  that is sent while `sendPdu` waits for its prompt becomes text of the PDU.

What the properties exclude is part of their statement: an exception inside the
main loop ends the daemon and drops `newMessages`; a message routed before the
event handler is set goes to the default handler (`ignored`). Selecting the
receive store is one `+CPMS`; cell broadcasts and status reports take the same
way as messages and are left out, as is the mapping of the store "MT".

### SpoolQueue

`sendSMS` with its recursion over the priorities (`frames`: one frame per call in
progress, with what its `readdir` still must and may no longer return), and the
scripts of `contrib/` that spool, requeue and notify at any time. `opt` holds the
options of the daemon and `faulty` whether renames fail, answers are lost and the
daemon is killed.

* `PriorityRespected`: no file is tried while a more urgent one, which was there
  before, was not.
* `SentOnce` without faults.
* `NeverLost` with all of them: no file that was not sent is taken for one that
  was, and with `--failed` none disappears. What becomes of a failed file without
  `--failed` is left out: the manual page (`gsmsmsd.man:128-130`) and the help text
  (`gsmsmsd.cc:473-474`) say that it is removed, the code leaves it where it is.
* `Resolved`: with `--failed`, `--syslog` and the cron script, each spooled file
  is sent or its sender notified in the end.

A file that cannot be opened counts as a failed send; a directory that cannot
be opened is left out.

### SendSMSs, Codec, SMSMessage, Parser and Conversions

`SendSMSs` is the split of a text into parts and the numbering of parts and
texts; a text is its length. `Codec` is `SMSEncoder` and `SMSDecoder`: a PDU is a
sequence of bits, an encoder a PDU that grows with the place where septets
start, a decoder a place in it and how it ended ("throw" for an exception,
"abort" for a failed assertion); `Then` of module `Exceptions` skips the rest of a
function after one. `SMSMessage` gives, per class of messages, the
fields in their order (`Layout`) and what encoding and decoding one does
(`PutField`, `GetField`); cell broadcasts too. `Parser` is the parser's functions on a
string whose characters are separators, digits, blanks and a letter; a parser is
a record of the string, the place, and how the calls ended. `Conversions` runs
all of them: texts are split, encoded, decoded and put together by a receiver;
messages are encoded, perhaps cut off, and decoded; addresses are compared;
answers are parsed.

* `Reassembled`: the parts that hold text make up the text, in one series, in
  the announced number.
* `RoundTrip`: a decoded message is the one that was encoded (`Kept` lists what
  is known to be lost). `TruncationNoticed`: a shorter PDU is never taken for a
  message. `IEFound`: `getIE` against a reading of the header as a series.
* `AddressesOrdered`: the order of numbers is a strict weak order, as the
  multimaps need it.
* `IntListMeaning`: `parseIntList` accepts what is a list of numbers and ranges
  and returns the set it denotes, against a definition on the whole string. It
  says nothing of ranges of the form a-b-c, which `gsm_parser.cc:272` calls not
  allowed and the code accepts.
  `AnswerUnderstood`: the same of other grammars, by examples with separators
  inside quoted texts.

Where a member is uninitialised the encoder takes any of its values (`junk` in
`EncodeMessage`) and the result must not depend on it.

### SortedPhonebook and Gsmpb

`pb` holds the members of each object (`items`, the multimap in the order of
its keys, `order`, `useIndices`, `changed`, `madeBackup`), `disk` the file or the
slots of the mobile. Public operations are sets of possible results, as in
`Insert`, `Set` and `Erase`; `Uses` is a program that calls them in any order.
`sync()` takes a step for each thing it does to the file (`Unlink`, `Rename`,
`OpenFile`, `WriteLine`, `CloseFile`), so that the program may die and the file
system fail in between; `content` and `backup` note what the two files hold.
Members that the code does not initialise take any value of `Garbage`. `Gsmpb`
adds the loops of gsmpb (`UpdateEntries`, `DeleteNotPresent`, `InsertNotPresent`,
`Clear`, `Copy`), one step per entry.

* `Synchronised`, `Copied`: when gsmpb ends without an error, the destination has
  the entries of the source.
* `CleanMeansSaved`: an object without marks of change has the entries of its
  file. `ContentSafe`: at every moment file or backup is complete.
* `IndexedRereadable`: a file written with `--indexed` can be read again: its
  indices are distinct. Without the option it does **not** hold (`Rereadable`, run
  `GsmpbIndices`): an entry that is copied into a file that has indices keeps
  the index of the source, which another entry may have.
* `Mirrored`: an object of the mobile has its entries, slot by slot.

`excused` names what these exclude. "torn": the mobile refused in the middle of an
erasure. "unsaved": a file could not be opened (not noticed), or `erase(key)` took
entries off the map without marking a change. The rest is due to telephone
numbers, which `<` and `==` compare differently: a key is a pair of what the two
look at (`KeyOf`), and `erase(key)` frees or empties the entries it finds by `==`
from the first of its range (`Leading`), then takes those that `<` does not tell
apart off the map (`EqualRange`). For the key "+12" this leaves "+120" in the mobile,
and empties the slot of a "12" that stays in the map: "key" in a mobile, "freed" in a
file. Two objects never share a file; `CustomPhonebookRegistry` and the
escapes in a line of the file are left out.

### SortedSMSStore

The same for messages, with gsmsmsstore as the program (`op`, `args`): `OpenFile`,
`LoadSlot` (one slot of the mobile per step, while messages `Arrive`), `Backup`,
`Copy`, `Delete`, `Add` and the steps of `sync()`, whose buffered writes reach the
file all or in part when it is closed (`Write`), or earlier when the buffer is full,
where a failure throws (`WriteFails`). A listing reads and changes nothing. `Library`
is a program that sorts and erases as it likes, by keys that are pairs as above.

A destination in the mobile was read before anything is inserted, so that `MeTa`
has its name remembered and `writeEntry()` skips `+CPMS`: the mobile writes to the
store it had selected for writing before, which is what the run `SMSStoreInsert` is
about. `writesOwn` says whether that is the destination. If not
(`InsertsElsewhere`), the index in the answer is one of another store: what the
destination has there gets a second entry, or a null pointer is dereferenced.

* `BackupExact`: a backup adds what was missing, once, and changes nothing
  else, though messages of one second share a key. A backup that inserted into
  another store is excluded: it ends without an error and is not exact.
* `DeleteExact`: a deletion removes the given indices and no others.
* `LoadedExact`: a store of the mobile is read completely, each message with its
  slot, though messages arrive meanwhile, and the map goes on to agree with it.
* `ContentSafe` as above.

`excused` notes when the first three stop: a message arrived in a slot that was
passed, or the mobile stored or erased one without an answer; an insert went to
another store; an erasure of several stopped half way, or `erase(key)` erased other
entries than it took off the map; a write was lost.

## Runs

| Run | Shows | States |
|-----|-------|--------|
| `SMSStoreFaults` | two stores of one slot, all faults | 393 thousand |
| `SMSStoreInsert` | violation: insert into the wrong store | |
| `Phonebook` | two entries, refusals, two lost answers or edits | 244 thousand |
| `GsmAtClient` | five kinds of commands, two events, a slow TA | 965 thousand |
| `SmsDaemon` | two messages, two slots, all options, any command refused | 1.2 million |
| `SmsDaemonLost`, `SmsDaemonAcknowledge` | violations with acknowledged messages | |
| `SpoolQueue` | two files, three levels, two retries, all options, all faults | 1.8 million |
| `Conversions` | 18 lengths of texts, 400 messages with all their truncations, strings of up to 7 characters | 60 thousand |
| `Gsmpb` | any two kinds of phonebooks, up to two entries each, all faults; any program on one | 1.4 million |
| `GsmpbIndices` | violation: a file is written with an index twice | |
| `SortedSMSStore` | every operation on any two kinds of stores, up to two messages each, one arrival, all faults | 1.4 million |

Why the bounds are enough.

* Selections go wrong with two stores or two phonebooks. A cache goes stale with
  one slot; two slots are needed for a clear that stops half way, for an insert
  that skips a used entry, and for a search that passes one; `Phonebook` has both
  shapes in one run. `SMSStoreFaults` has one slot only, for the two stores and all
  faults to fit; that its properties hold with any number of slots, and with
  indices beyond them, is proved. Two lost
  answers or edits (`FaultBound`) let a second fault hit what the first left
  behind. `CountBound` caps a `_size` that drifts.
* `GsmAtClient` has one command of each kind (no line, one line, a line or none, a
  list, a PDU), one event that is acknowledged and one that is not, `MaxLines` = 2
  lines before the final one of an answer, so that an event may come before it,
  between any two of its three lines and behind it, two tries of `sendPdu`, and
  `MaxPending` = 2 lines the TA may be behind. The run also passes with 3.
* In `SmsDaemon` two messages and slots are the least with an order and with a
  slot that is used again; one spool file brings the handshake.
* `SpoolQueue` needs three levels for a recursion inside a recursion and two
  files for an inversion; `MaxCopies` = 2 is the first count that is wrong.
* `Conversions` replaces 160, 152 and 256 by 4, 3 and 6 for the split and goes
  beyond the largest number of parts, so every wrap-around happens; the messages
  have the real sizes. They differ from a plain one in one field, or in the
  lengths of header and text, which run through all residues of a septet and
  beyond; `CutBound` leaves out the truncations of the longest PDUs, which have
  the fields of the shorter ones. Strings of four characters hold every
  sequence of two tokens of the grammar, those of seven in parentheses each
  sequence of ranges.
* `Gsmpb` needs two entries for an order, a gap in the indices and two names that
  compare equal; the three texts hold two that differ in case and one that is
  too long for the mobile; of the numbers two differ in trailing zeros, and two in
  the "+" only. `SizeBound`
  = 2 caps what a program inserts. `SortedSMSStore` likewise: two messages of one
  second, one that was never sent, and one arrival on either side of the place
  the reader is at; their addresses "+12", "+120" and "12" are equal for `<` and not for
  `==`, or the reverse.

Symmetry is used for interchangeable stores, messages and phonebooks, and only
in runs without liveness. `CHECK_DEADLOCK FALSE` stands in every configuration:
each of the systems may legitimately stop (a daemon that ended, a bounded network
with no message left, a program that makes no further call).

## Fairness

* `GsmAtClient`: weak fairness of reading, up to a time-out, and of the TA's
  executing commands and sending the lines of their answers: the calls loop until
  they have their answer or the port throws, and a TA answers. Nothing is assumed
  of events or further calls.
* `SmsDaemon`: the same, for the daemon's own steps and the TA. The network, the
  signal and the user are not fair.
* `SpoolQueue`: the daemon's polling loop, the cron job and the restart by the
  init script.
* The other modules have no liveness: each call is one step, or a loop over a
  finite container.

## Proofs

`X` Proofs is the module with the theorems about module `X`; `PROJECT.json` lists
the theorems a reader should know of and the property of a run each one states.
They hold for all values of the constants that satisfy the assumption of the
module (`SMSStoreAssumption`, `PhonebookAssumption` and so on), which says no more
than what the constants are: sets of model values, numbers, and that `Nothing` or
`NoStore` is none of what it stands in for. TLC evaluates each of them in the runs.

| Module | Theorems | Inductive invariant |
|--------|----------|---------------------|
| `SMSStoreProofs` | `SelectionSound`, `NoMessageLost`, `CacheIsCoherent`, `ReadsAreRight` | types and `SelectionRemembered`; with them `CacheCoherent` |
| `PhonebookProofs` | `SelectionIsSound`, `CacheIsCoherent`, `CountIsExact`, `FindIsRight`, `NoEntryLost` | types, the selection, `Coherent`, `SizeExact` |
| `SpoolQueueProofs` | `NoFileSentTwice`, `NoFileLost`, `UrgentFirst` | the frames and the directories |
| `GsmAtClientProofs` | `AnswersAreOwn`, `EventsDoNotDisturb`, `EventsArriveInOrder` | the phases of a call; `Delivery` and `Order` |
| `SmsDaemonProofs` | `IndicationExactAlways`, `DispatchedInOrderAlways`, `NothingLostAlways` | `Base`; with `Once` and `Order`; with `Protocol`, `Off` and `Kept` |
| `GsmpbProofs` | `FileOrBackup`, `WrittenCanBeRead`, `CleanIsSaved`, `MobileMirrored`, `CopiesExactly`, `Synchronises` | `IInv == BooksInv /\ MainInv`; with it `ResultInv`: `DestInv`, `LoopsInv` and `DoneInv` |
| `SortedSMSStoreProofs` | `FileOrBackup`, `Invariance`, `MobileReadExactly`, `BacksUpExactly`, `DeletesExactly` | the stages of `sync()`; `ExactlyInv`: until `excused`, `CommonInv` with `BackupInv`, `DeleteInv` and `EndInv` |
| `FoldTheorems` | `FoldLeftIterates` and the lemma `InsertAtFacts` | |

The arguments.

* *SMS stores.* Whether a step keeps the selection sound depends on the counted
  parameters of `+CPMS` being in 1..3 (types), and `NoCollateralLoss` of an erase
  needs that the store the TA deletes from is the one the operation was called
  for, which is what `SelectionRemembered` says of the state before a skipped
  `+CPMS`. That cached entries agree with their slots then follows action by
  action: what is stored in the cache was read from the store that was selected.
* *Phonebooks.* The same for `+CPBS`. A scan changes only entries that were not
  cached, so a count that was exact stays exact; `find()` is right because the
  entries it looked at are coherent and those it did not look at were answered by
  the ME. That `_size` is the number of used entries is a fact about
  cardinalities, which one changed entry moves by at most one.
* *Spool queue.* The calls of `sendSMS` that are in progress have consecutive
  levels (`Levels`); the file a call is at lies in the directory it reads
  (`HeldQueued`); only the innermost call sends, and what it sent is counted
  (`Sending`); what was sent is gone from the queue (`SentIsGone`); and a file
  more urgent than the one a call is at was tried, came since, or is still to be
  tried by an inner call (`UrgentTried`).
* *Command line.* The events are taken out of the line first (`Holds`): what is
  left of it and what the TA has still to send (`Pending`), the commands the TA
  did not execute, the PDU it waits for and the innermost call are always in one
  of a few phases (`PhaseInv`), which a step leaves for another or the same one,
  and `OwnAnswer` and `Undisturbed` can be read off. `EventsInOrder` needs two
  further invariants: `Delivery` counts the places of an event, and `Order`
  follows the sequence of events through line and queue.
* *gsmsmsd.* Each of the steps of `SmsDaemon` is first brought into one of a few
  forms (`Steps`: a line is read, no line comes, the TA executes a command, a
  message arrives, or one of the forms of a step of main), so that every later
  lemma has few cases. `Base` is inductive. `Shape` has types and what the place
  in the program says of the calls that wait. `Events` says that an event in the
  line, in newMessages or in a call that waits for its `+CNMA` describes its slot;
  that needs that no slot is erased whose message is still reported (`Erasing`,
  `Fetches`, `Ahead`), and so that the answer to a `+CMGR` is what the slot holds:
  there are not more answers than calls (`Balanced`), the parts of an answer come
  before its end (`Paired`), and at most one `+CMGR` is on its way (`Tokens`,
  `NoTokens`). `Once` adds what was given to the action, `Order` that messages go
  through line, newMessages, main and action in the order of arrival.
  `NothingLost` needs the phases of a call (`Protocol`, without acknowledgements
  there is one call), because an ended daemon has then read the answer to the
  command that switched routing off, behind which nothing is routed (`Off`); and
  `Kept` says where each message is, and that a slot is only erased of a message
  that was or will be acted on.
* *gsmpb.* The lemmas about the functions of `SortedPhonebook` (insert, renumber,
  sort, read a file) have no state; `Inv1` says of one phonebook what its map, its
  file and the step of `sync()` it is in have to do with each other; it is kept by
  each operation, lifted to both phonebooks (`BooksInv`), and joined with what the
  program counter says of them (`MainInv`). The maps are built by `FoldLeft`,
  whose definition the provers cannot use: `FoldTheorems` shows once, for an
  operator that is a parameter of the module, that it goes through the values of
  the steps, and `GsmpbProofs` instantiates it for each fold. `MobileMirrored`
  assumes that no file has a blank line (`NoBlankLines`): a blank line of a file
  that is copied to a mobile stays in the map as an entry without slot. No file of
  the run `Gsmpb` has one either. `Synchronises` and `CopiesExactly` need what the
  loops have done so far. `MarkOf` is what the options make gsmpb compare: text
  and number in a copy, the name in lower case and the number in a
  synchronization, index, name and number with `--index`. `Loop` says at each
  place of the iterators which marks are already right: after `updateEntries()` no
  entry with an index of the source differs from it (`Agree`),
  `deleteNotPresent()` leaves behind it only entries the source has, and behind
  `insertNotPresent()` the destination has those of the source (`Within`). Each
  loop relies on both maps being sorted by what is compared when it looks an entry
  up (`KeysRight`), which is why sorting comes first. When the loops are done the
  marks are those of the source (`Right`), and no step of `sync()` changes the
  map; `DestInv` and `IInv` carry them to what is stored. A fault before that ends
  the program with an error (`DestFails`), of which neither property speaks, or
  keeps the file from being opened, which `excused` notes. They assume
  `NoBlankInMobile`: if there are mobiles, no file has a blank line
  (`NoBlankLines`), which the mobile could not store. With `--index` and a mobile
  nothing is said of the result (`ByIndexOnME`): `Synchronised` excludes it, as
  the keys of the mobile's entries are uninitialised.
* *Sorted SMS stores.* Until the file is renamed it is as it was read, and from then
  on its backup is. What a backup or a deletion does is one invariant that holds until
  the run is `excused` (see above); nothing is proved of what an insert into another
  store or an erasure that was cut off leaves. A map has
  one entry per index, with the key of its order; its entries are those of the slots
  passed so far while a mobile is read, then those of all slots, and those of the file
  as long as it is unchanged. At each place of the loop of a backup or a deletion the
  number of copies of a message (`Number`) is what it was first, changed by what the
  loop did with the entries it has passed. `sync()` carries these numbers to the file
  (`WrittenCount`), where entries and indices are counted by bijections.

Only model-checked:

* Liveness (`CallReturns`, `Terminates`, `Dispatches`, `Resolved`): outside what
  the prover does.
* `Conversions`: what codecs and parser compute rests on recursive definitions,
  of which nothing can be proved for every input here; it uses `RECURSIVE`
  operators and stays with TLC.

## Observations that are not runs

Modelled, and excluded by a property where it says so:

* `setSMSStore` remembers a name before `+CPMS` is sent (`gsm_me_ta.cc:206`), so a
  refused `+CPMS` leaves another store selected than remembered; a `+CPMS=?` that
  fails leaves the parameter count at 1 (`gsm_me_ta.cc:192`), which later calls take
  for known. A `+CPBS` whose answer is lost lets later operations work on the
  wrong phonebook (`gsm_me_ta.cc:182`).
* `+CPBF` also matches longer texts, `findEntry` drops the text of the answer, and
  such a hit throws "SIM card changed" (`gsm_phonebook.cc:552`); with caching off
  the searched text is stored in the entry that was found
  (`gsm_phonebook.cc:561`).
* After a time-out the next call takes the late answer. A late prompt makes the
  TA take the repeated `+CMGS` for the PDU; once its tries are exhausted
  `sendPdu` takes the last line it saw for the answer (`gsm_at.cc:333`).
* main of gsmsmsd sets the message service to 1 after `MeTa::init` asked for it
  (`gsmsmsd.cc:613`), so the decision not to acknowledge is stale. Without `--failed`
  a file that cannot be sent stays in its queue (`gsmsmsd.cc:334`), though the
  manual page (`gsmsmsd.man:128-130`) and the help text (`gsmsmsd.cc:473-474`) say
  that it is removed, and `NeverLost` does not speak of it; without `--syslog` it
  ends the daemon, with what is queued.
* A text that fills its parts exactly gets an empty part beyond the announced
  total (`gsm_me_ta.cc:1030`). The ID 256 is accepted, sent as 0 and followed by
  another 0 (`gsmsmsd.cc:302`). A part that is refused leaves the receiver a
  partial message.
* An alphanumeric address of 7 or 15 characters loses one
  (`gsm_sms_codec.cc:587`); the data of an SMS-COMMAND is read but not kept; reports
  write their text without marking where septets start; a truncated field of bits
  fails an assertion; `setDischargeTime` sets the time stamp of the service centre;
  `==` of addresses compares digits and plan but not the type, `<` the padded
  spelling with its type.
* `parseIntList` without parentheses returns its first number only; "1-2-3" is
  accepted, since `isRange` is reset before it is tested, though the exception at
  `gsm_parser.cc:272` was meant for it; blanks between digits are skipped.
* gsmpb: `updateEntries` never looks at the first entry of the source; equal texts
  with several candidates are deleted and inserted anew, which moves entries the
  manual page says stay; copying a changed entry into a destination file copies the
  source's index; an entry of the mobile is compared by an uninitialised index;
  `clear()` steps from an erased node; an insert into the mobile assigns to an entry
  whose phonebook pointer is uninitialised; an exception while the destructor saves
  ends the program; a file that cannot be opened for writing is not noticed, and
  then only the backup has the entries. Standard input throws at its first entry.
* Sorted SMS stores: a failure to write what was buffered is not noticed at the
  close; a later run replaces a good backup by the partial file an earlier run left.
  With a destination in the mobile the messages of a backup, a copy or an addition
  go to the store selected for writing, which need not be the destination
  (`gsm_sms_store.cc:259`, run `SMSStoreInsert`).
* `erase(key)` of both sorted stores goes from entry to entry as long as they are
  `==` to the key, which ignores a "+" (`gsm_sms_codec.cc:81`), and then erases what `<`
  does not tell from the key, which ignores trailing zeros: "+12" frees or empties
  an adjacent "12" that stays in the map, and takes "+120" off the map that is not
  erased in the mobile, or not freed, and not noted as a change
  (`gsm_sorted_phonebook.cc:415-429`, `gsm_sorted_sms_store.cc:397-408`).

Outside the models:

* An insert into a full store throws, while `gsm_sms_store.h:289` says it fails
  silently. `SMSStoreEntry::send` selects no store (`gsm_sms_store.cc:302`). A total
  of `+CPBS?` above the indices of `+CPBR=?` is read beyond the vector
  (`gsm_phonebook.cc:343`).
* Reading a store of the mobile does not end if a message disappears, or arrives in
  a slot that was passed, before the count is reached (`gsm_sorted_sms_store.cc:248`;
  the model lets the reader stop there). A phonebook file that is missing, or a line
  that is too long, is read for ever. Version and length of a message file are
  copied into one byte of a longer variable (`gsm_sorted_sms_store.cc:85`).
* `CBDataCodingScheme` leaves the language of some values uninitialised
  (`gsm_cb.cc:32`); `getIE` on a header cut off after an identifier reads behind it.

## Not modelled

* *MeTa queries and settings* (operators, PIN, call forwarding, facility locks,
  `gsm_me_ta.cc` beyond the stores): one command and one parse each, without
  state of their own. Their commands are calls of `GsmAt`, their answers the
  grammars of `Parser`.
* *Serial port* (`gsm_unix_serial.cc`): time-outs and the character put back are in
  `GsmAt`; opening, line settings and the reset at start-up are calls of the
  operating system whose effect the code does not determine.
* *gsmctl, gsmsendsms*: option parsing and printing around single calls.
* *Windows port and `getopt.c`*: a second implementation for another platform, and
  third-party code. *Siemens extensions*: vendor commands, one query each.
* Message tables, formatting, option parsing, `toString()`; hexadecimal strings are
  bits in the models. *Tests* have no logic of their own.
