# SimpleKeyValueDb: a verification project

TLA+ modules, TLC runs and TLAPS proofs about the single-node key-value store
of this repository: typed objects in memory with lazily collected deadlines,
text-file snapshots, and one epoll loop that serves clients one command at a
time. Every definition is read from the C++ source; `PROJECT.json` gives the
lines each one stands for.

## 1. The system

| Part | Source | State | Operations | Hard behaviour |
|---|---|---|---|---|
| Typed objects | `core/SDBObject.hpp`, `Dict.hpp`, `Set.hpp` | a type, an encoding, a payload | set, append, push, pop, hadd, hdel, sadd, sdel, oadd, odel | a call on the wrong type; an emptied object that stays |
| Database | `core/Db.hpp`, `executor/Do*.hpp` | `db` (objects), `expire` (deadlines) | 22 commands, each a lookup with `find` and one call on the object | expired data stays until it is looked up; deadlines outlive their keys |
| Files | `core/Db.hpp`, `util/FileUtil.hpp`, `util/StringUtil.hpp` | files on disk, the stream under way | save, load | a crash while writing, a file cut inside an entry and loaded without an error, keys that expire meanwhile, loading into a database in use |
| Ordered sets | `core/SkipList.hpp`, `OrderedSet.hpp` | nodes with levels, spans, back pointers; tail, level, length | insert, del, search | several levels changed by one call, spans computed from ranks, loop termination |
| Strings | `core/SDBObject.hpp`, `util/FileUtil.hpp` | a union of an integer and a text, an encoding | set, append, strlen, getrange, the way through a file | which of the two the union holds, unsigned arithmetic |
| Lists | `core/List.hpp` | a chain of nodes, head, tail, length | push, pop, print, the destructor | both ends change together; the destructor recurses |
| Executor | `executor/Executor.hpp`, `core/DbList.hpp` | list of databases, current one | dispatch, select | the current database is shared by all clients; select resizes |
| Reactor | `net/*.hpp` | epoll set, tables keyed by descriptor, descriptors to close, buffers | accept, read, write, close | descriptors reused within a round, handlers run on a closed connection |
| Protocol | `server/SdbServer.hpp`, `client/SdbClient.hpp` | read and write buffers | request, reply | requests cut or joined by the stream |
| Unused or pure I/O | `core/IntSet.hpp`, `util/TimeUtil.hpp`, `console/`, `client/sdbclient.cpp`, `net/InetAddress.hpp` | - | - | not modelled |

How they interact: `SdbServer::onMessageCallback` takes a request off a
connection's buffer and calls `Executor::execute`, which looks its first word
up in a table of functions and hands it the current `Db`; a function finds the
object with `Db::find`, which collects it if it has expired, and calls one
operation on it; an `SdbException` becomes the text of the reply. Nothing else
runs meanwhile: the server has one thread. What interleaves with commands is
the clock, the end of the process, and, in the network, clients.

What makes each part correct:

- *Objects and database*: a client cannot tell that keys are collected lazily;
  expired data never comes back; a deadline is not moved; no command ends the
  server.
- *Files*: a file is a snapshot of one moment; saving is invisible; loading
  brings back what was seen and adds to what is there; both end.
- *Skip list*: its levels are sorted sublists of one another, spans and back
  pointers agree with them, and it is a map; every call returns.
- *Strings and lists*: both encodings read the same; a list is a queue.
- *Executor*: every number is a store of its own, whatever is selected.
- *Reactor*: a descriptor's entry in the tables names the connection behind it,
  replies are conserved, a descriptor is closed once, everybody is served.
- *Protocol*: each request is executed once, as it was sent, and answered.

## 2. Modules

| Module | What it is |
|---|---|
| `SdbObject` | values and the operations of `SDBObject`, as operators |
| `TtlStore` | abstract: a store whose keys vanish the moment their deadline passes |
| `Db` | one database and its commands; implements `TtlStore` |
| `DbFile` | `Db` with save and load, key by key, and crashes |
| `Executor` | the databases, the one in use, select; composes `Db` with the shelf of the others; each number implements `TtlStore` |
| `StringObject` | one string, character by character |
| `Fifo` | abstract: a queue that is shown and cleared in one step |
| `LinkedList` | the chain of nodes under a list; implements `Fifo` |
| `OrderedMap` | abstract: a map whose calls take effect in one step |
| `SkipList` | the skip list, one step per loop iteration; implements `OrderedMap` |
| `Reactor` | event loop, epoll, descriptors, connections, and the clients around them |
| `Session` | abstract: a request, its execution, its reply, and then the next |
| `Framing` | requests and replies over streams and buffers; implements `Session` |
| `MCDb`, `MCDbFile`, `MCExecutor`, `MCStringObject` | words, texts and command sets for TLC |
| `DbProofs`, `DbFileProofs`, `ExecutorProofs`, `StringObjectProofs`, `SkipListProofs`, `LinkedListProofs`, `ReactorProofs`, `FramingProofs` | the theorems about the module each one names, and their lemmas (those about `SdbObject` are in `DbProofs`) |

A definition marked as a bug in its comment is not part of a specification: it
is a plausible mistake in the definition after it, and each property of a
passing run is shown to fail with one of them (`PROJECT.json`, "mutants").

**SdbObject.** An object is a record tagged by its type. A hash table or a skip
list is a total function that gives `None` where there is no entry. An operator
gives the object after the call, or `Unsupported` where the code throws. A word
is an element of `Vals` (clients send those in `Sent`; the others are what a
cut file is read as); a string is the sequence of the words it was built from,
and `Encoded` is what `set` makes of a word: `007` is stored as a 64-bit
integer and read back as `7`. A string is never empty. `strlen`, `getrange`,
`object` and the `getall`s answer with the object they read (`From`): how it is
printed is left out.

**Db.** One action per command, for the server runs each to its end. `Expired`
is `checkOutOfDate`, `find` and `Collected` are what `Db::find` returns and
leaves in the two tables, `Commit` and `Answer` are the ends of a command with
and without a change. The reply of a successful change carries its kind
(`Done`), so that the refinement cannot take a lost write for a no-op. `del`
does not look at the deadline, `addExpire` does not replace one, and both are
modelled so. A clock tick is part of a second (`Second` ticks), because
`to_time_t` drops what is below a second. Undefined behaviour is a choice among
what a build does: `lpop` of an emptied list prints through a null pointer and
dies; `hdel` on another type dies or does nothing (on a set it dies if it finds
a member); `del` without a key works on whatever word it reads, answers, or
dies.

**DbFile.** `doSave` truncates the file (or fails to open it, which nobody
notices); then one step per key of the database: `saveExpired` collects it,
`saveKey` appends its entry, `saveDies` is what becomes of an ordered set with
a member, whose score is read through a dangling reference, and of a null
pointer. `doLoad` reads the file and then one step per entry: `loadKey`,
`loadExpired`, `loadFails`. Between steps the clock may move (`Wait`) and the
process may be killed (`Kill`).
The stream is flushed whenever its buffer is full, so that a process that dies
leaves its file cut anywhere (`LoseUnflushed`): without a header, or with any
prefix of the entries and, in `torn`, a part of the next one, which may be that
of the key at which the process died. `Parts` is what can be left of an entry
as load will read it, for `loadString` and the loops of `load...Object` stop at
the end of the file without an error: only what announces a deadline and names
no type (`Untyped`, which load refuses), a type without a name (`Nameless`),
the entry of a name that may itself be cut, with an object that is empty, or
the entry with a shorter object (`ObjectCuts`): a text that ends early, a list
without its last elements, the last of them cut, some members of a set or
fields of a hash, one of them cut or without its value. `loadTorn` is load
reading that. Words, numbers and names are not spelled out: `WordCuts`,
`NumberCuts` and `NameCuts` say what each can be cut to, `EmptyWord` what is
read where nothing is left. A name cut to nothing leaves an empty object under
the empty key, which no command can name; that object is left out.
`saved` is a history variable: what clients saw when the last save of a file
began. An emptied ordered set may be written with too high a length (the
constructor of the skip list does not set it): `Derails` is load taking the
next entry for a member. `Reread` and `Numerals` say what `set` makes of the
text of a raw string when load sets it again. `FileOf` is the `.sdb` that save
adds to a name and load does not.

**SkipList.** A node is its score. Calls begin, run one loop iteration per
step, and return; the loop variables are state. `InsertLink` and `Unlink` are
the straight-line ends of insert and del. `randomLevel` is a choice of any
height. Spans are mathematical integers: in the code they are 32-bit unsigned
and what is said of them holds modulo 2^32.

**Executor.** `Db`'s variables are the tables of the database in use; those of
the others are on `shelf`, and `Change` swaps them. `execute` is `Db`'s
`Command`. `size` is the length of the vector: a select of n beyond it makes it
n long, so that n itself is one past its end, and `executePastEnd` is what a
command does there: it may answer as from an empty database, throw before it
looks, or end the process (all three were seen in a build). The number 9, of
`Limit` 10, is never in the list, for nothing greater can be selected.
`UIntSize` lets numerals wrap around. `chosen` and `mover` are history: what
each client selected and who did so last. One database is shared by all
connections by design of the code; the clients' names matter only to this.

**StringObject.** Characters are the digits of a small base, a minus sign and a
letter. `Short` stands for the 18 characters beyond which `set` does not look,
`Widths` for 8, 16, 32 and 64 bits and `SizeWidth` for `size_t`; the assumption
that an integer of `Short` digits fits the widest is that of the code. `Power`
is written as a recursion, for the prover knows nothing of `^`. `heap`
counts texts allocated and not deleted. `wrote` and `mangled` are history: what
clients mean the object to have, as long as `set` keeps it; a numeral with
zeros in front, a lone minus sign and a long text are not kept.

**LinkedList.** A node is a place in memory, free again when nothing owns it.
`print` and the destructor walk the chain one node per step; each node's
destructor runs inside the one before (`shared_ptr` to `next`), and `Frames`
says how many the stack holds. In a build a list of 50,000 elements ends the
server when it is deleted or expires; one of 20,000 does not.

**Reactor.** A step is one system call with what the server computes up to the
next. `waitEvents` fills `fired`; `dispatch` looks an event's descriptor up
and lists the handlers `handleEvent` would call (`job`); `closeConnection`,
`read` and `write` are those handlers, with the callbacks of `SdbServer` they
run; `newConnectionHandle` is the listener's; `sweep` is the end of a round.
`connections` stands for both tables of `TcpServer`, whose keys are the same,
and holds the length of the write buffer; of a request only that it is there
is kept, of a reply its length. Around the server: `Connect`, `Ask`, `Receive`
and `Quit` are clients, at any time; the kernel gives the lowest free
descriptor, holds `Window` units of an unread reply, and answers what is
written to a client that is gone by a reset (`Refuse`). A wait may be
interrupted by a signal, whose exception ends the server. A read after a reset
returns -1, which becomes a length and throws; `write` blocks, one unit per
step, when the kernel is full, and returns with fewer units than it was given
when the connection breaks meanwhile. `accept` without a free descriptor puts -1 into
the tables. `lost` is history: the connections accepted under a number whose
old entry was still there.

**Framing.** A unit is some bytes, with its message, its place in it and what
that message's header says. `sendHeader` and `sendText` are the two loops of
`SdbClient::send` (what each `write` takes does not show, since nothing else
writes on this stream; that the server may see the header without the text
does). `onMessage` is `TcpConnection::read` with `onMessageCallback`: a read of
any size up to `Chunk`, then, if the buffer is as long as the header says, the
whole buffer is one request's text. `Garbage` is what eight bytes that are no
header may spell. `onWrite` writes any part. `receive` is one turn of the loop
in `SdbClient::read`, whose result is a reference to a string that is gone:
`screen` is what the client then prints. An `eager` client sends without
waiting for replies; the client program is not eager.

## 3. Runs

| Run | Instance | What it shows |
|---|---|---|
| `MCDb` | 1 key, 2 words, 1 score, deadlines -2..4 half-seconds away, clock to its bound, all commands | type correctness, `EagerExpiry`, `NothingRevives`, `DeadlineFirm` |
| `MCExecutor` | 2 clients, numbers 0 to 3 with 4 refused and 9 wrapping around to 1, 1 key, set, del and expire | `ExecutorInv`, `LastSelectRules`, `EachIsAStore` |
| `MCStringObject` | base 2, texts of up to 5 characters of which `set` reads 3, a 5-bit word | `StringInv`, `ReadsAsWritten`, `LengthAgrees`, `RangeAgrees` |
| `MCLinkedList` | 4 nodes, 2 values, a stack of 3 frames | `ListInv`, `ImplementsFifo`, `WalksEnd` |
| `MCSkipList` | 3 scores, 2 members, 3 levels, initial length right or 5 too high | shape, back pointers, spans and ranks, refinement of `OrderedMap`, every call returns |
| `MCDbFile` | 1 key of any type, the word `01` and what it can be cut to or read as, texts and lists of up to 2, a second of 1 tick, clock to 2 | files, saving, loading, files cut inside the entry, deadlines, every file command ends |
| `MCDbFileTwoKeys` | keys `k` and `k1`, of which the second can be cut to the first, ordered sets and lists, a second of 2 ticks, clock to 1 | files with several entries, cut between two of them or inside one |
| `MCReactor` | 3 connections, 2 descriptors, 2 requests in all, replies of 2 units with room for 1, an array that starts with room for 2 | tables, array, replies, interests, closing, everybody served |
| `MCFraming` | 3 requests of 1 or 2 units behind a header of 2, answers of 0 or 1, reads of up to 3, both kinds of client | `FramingInv`, `BeginsWhole`, `ImplementsSession`, `Replied` |
| `MCDbFileOset`, `MCExecutorSelect`, `MCFramingPrints` | small | each finds the one thing the README says and the code does not do (section 5) |

Bounds. `Horizon` stops the clock: every deadline an instance can set lies
before it or is not needed to be passed. `MaxLen` bounds lists, texts and the
appends to a string; in `DbFile` it also keeps a load from doubling a list
beyond it (`Fits`). Three scores and three levels are enough for a node to be
inserted and deleted before, between and after others, on levels all of which,
some of which or none of which it has. Every safety property and refinement of
section 4 is proved for every number (section 6): for these an instance has
only to be large enough to refute a wrong statement. One key is enough for what
commands do to a key, as a command touches only its own (and `EagerExpiry` is
proved for any set of keys); two keys are for files of several entries, and
one's name is the beginning of the other's, so that a cut name can time the
wrong key, or erase it. The one word of `MCDbFile` is a number with a zero in
front, so that a raw text is spelled otherwise by `set`, can be cut to another
word, and can be cut to none; its commands leave out `lpop`, which the proofs
have, and its ordered sets are saved with their right length, for the surplus
matters only where something follows, in `MCDbFileTwoKeys`. Four numbers are
the two databases there are at first, one that makes the list grow and one that
never can be in it. Four nodes on a stack of three make the one list that is
too long. Two descriptors for three connections make the kernel give a number
again, in the round that closed it too, and make `accept` fail; with an array
for two events the third `addEvent` replaces it in the middle of a round;
`MaxEvents` only stops the counter, above what can be ready. In `Reactor`
`MaxRequests` bounds the requests of all connections together: two are of two
clients at once, or of one client again. In `Framing` `MaxRequests` and
`MaxServed` bound the requests of the client and the executions of the server:
three requests let the rest of one be taken for a header twice. No symmetry is
used: most runs check liveness or a refinement, and the words are not
interchangeable.

Fairness. `SkipList` assumes weak fairness of the steps of a call under way,
`DbFile` of the steps of a save or load under way, `LinkedList` of those of a
walk: all are loops inside one function of a single-threaded program. `Reactor`
assumes it of `run`, for the event loop never rests while a descriptor is
ready, of `Receive`, for a client that stays reads its replies, and of
`Refuse`, for the kernel of one that is gone answers what is written to it:
without the last two `ServesAll` is false, since a blocking write stops
everybody.
`Framing` assumes it of `sendText` (the rest of a function), of the two
handlers (the event loop) and of `receive` (the loop of `read`). No client has
to ask, no clock to move and no restart to happen.

Deadlock is checked where the system cannot stop. `MCReactor`, `MCFraming`,
`MCLinkedList` and `MCFramingPrints` do not check it: a server ends by an
exception, a client has sent all it will, a list has been destroyed by a stack
overflow.

## 4. Properties

- `EagerExpiry` (`Db` implements `TtlStore`): with expired keys taken for gone,
  every command does what it would do on a store without a collector. This is
  what "lazy deletion" must mean for a client.
- `NothingRevives`: what is under an expired key is never changed in place by a
  command (a load may fill in such an object, Db.hpp:408, and nobody sees it).
- `DeadlineFirm`: a deadline that has not passed is neither moved nor lifted,
  not by `del`, `expire`, nor `load`, while the process lives.
- `EachIsAStore` (`Executor`): each number implements `TtlStore`, also while
  another is in use. `ExecutorInv`: the database in use is at most one past the
  end of the list. `LastSelectRules`: it is the one selected last, by whomever,
  and a select that is refused moves nobody.
- `StringInv`: the object owns one text while it is raw and none otherwise.
  `ReadsAsWritten`: through both encodings, appends and files it reads as what
  was written. `LengthAgrees`, `RangeAgrees`: strlen and getrange agree with
  what get prints, with the exceptions the comments name.
- `ListInv` (`LinkedList`): head, tail, length and chain agree.
  `ImplementsFifo`; `WalksEnd`: only a list deeper than the stack ends the
  server.
- `ListInv` (`SkipList`): the levels are sorted, complete sublists of one
  another, and what a call under way has found out is true. `BackwardMirrors`: between
  calls the tail is the last node and the node after any other points back to
  it; of the first node's back pointer nothing is said (section 5). `Spans`:
  the spans agree with the levels between calls, and the ranks of an insert
  with the nodes it has passed. `ImplementsOrderedMap`: a
  call takes effect in one step. `CallsReturn`.
- `FileInv`: a file is a snapshot of what was seen when its save began,
  complete once the save is done but for what expired meanwhile; if the save
  was cut short, some of its entries and a part of at most one more.
  `SaveUnseen`: saving is not seen by clients. `LoadRestores`: a load that ends
  well into an empty database from a file whose save was done brings back what
  was seen, with deadlines, without what expired, texts as `set` spells them.
  From a file that was cut it brings back some of the keys, and for at most one
  key something else: a shorter object (`Remnant`), or an empty object or a
  deadline under a name that was cut (`misnamed`). So a cut file may give a
  client, without an error, a text it never wrote; the property says that this
  is all. `LoadOnlyAdds`: a load into a database in use gives a deadline only
  to a key without one, and lifts none; it takes a key out only for an expired
  entry of that name that is no string's, which is what the code does and
  hardly what it should; it changes no type and takes no element, member or
  field out of anything it leaves. Texts of strings and values of fields it
  overwrites. `FilesEnd`.
- `TableSound`: an entry of the tables names the connection behind its
  descriptor or goes with the round, and no handler touches another
  connection than the one its event was for. `OnlyReuseLoses`: a connection is
  out of reach only if it was given a number closed in the same round: that
  does happen, such a client is never answered, and the run shows that it
  happens in no other way. `Roomy`: the array has room for every descriptor
  watched. `RepliesConserved`, `InterestExact`: no unit of a reply is lost or
  doubled, and the server waits for room to write exactly where something is left (a
  wait may still return for a connection the tables have lost, or one that
  cannot be accepted). `ClosesOnce`: a descriptor is closed once in a round,
  although three handlers of one event can each close it, and the server dies
  only in the read handler of a connection that was reset. The handlers do run
  on a descriptor that one before them has closed: a read after a reset, which
  ends the server, and a write after a reset or the end of a client's stream,
  whose failure is taken for a success (`Miscount`). `ServesAll`: everybody is
  served while the server is up and the clients that stay read.
- `FramingInv`: nothing sent is lost, doubled or reordered, for eager clients
  too. `ImplementsSession`: a client that waits has each request executed
  once, alone, and answered in its turn. An eager client has no such promise
  (its second request is executed as part of the first, or never):
  `BeginsWhole` is what is left of it. Unless the text executed last ended
  inside a request, the next begins where a request begins and holds all of it,
  and it is executed as that request exactly if it holds nothing else.
  `Replied`.

## 5. Where code and documents disagree

Found by a run:

- Saving a non-empty ordered set ends the server (`MCDbFileOset`,
  `SaveStores`). In the run's trace the save has opened its file, and so emptied
  it, and the server dies at the first score: what was in the file before is
  gone, and the key that was to be saved is not there.
- The first select of a new database chooses one past the end of the list
  (`MCExecutorSelect`): in a build `select 2` of a new server and then `set`
  ends it.
- The client prints what is left of a string that is gone (`MCFramingPrints`);
  a build of it ends at its first reply.

Seen while modelling and part of the modules, without a run of their own:

- `lpop` on an emptied list ends the server, where `SDBObject::pop` means to
  answer "null"; `hdel` on another type and `del` without a key can end it too
  (the reply `Died` of `doPop`, `doHdel` and `missingArguments`).
- A second `expire` is ignored, even after the key was deleted and created
  again (`addExpire`, `doDel`).
- The length of a skip list is not initialised (`SkipList!Init`).
- A text of more than 18 characters that `append` made is loaded as 0, and
  `set` of one stores 0 (`StringObject!set`, `Respelled`).
- An expired entry of a file erases a live key (`loadExpired`).
- `load x` does not find what `save x` wrote (`FileOf`).
- A reset by a client, or a signal that interrupts a wait, ends the server
  (`Die`, `interrupted`); a client whose number was closed in the same round
  is never answered (`lost`).
- A file that was cut inside an entry is loaded without an error, and what is
  left of the entry taken for all there was (`loadTorn`); a name that was cut
  may time or erase another key.
- One client's select moves all (`LastSelectRules`).
- The comments of `SkipList::insert` (SkipList.hpp:278) and `del` (:323) say of
  the first node's back pointer "如果是除头结点外第一个节点，那么前驱为nullptr"
  (the predecessor of the first node after the head is a null pointer). The code
  writes the head there, for `update[0]` is never null, and so does the model.
  Nothing in the program reads that pointer, so no command shows the
  difference; `BackwardMirrors` says nothing of it, neither what the comment
  says nor what the code does.
- A long list ends the server when it is destroyed (`destroyNode`).

Harmless: `SkipList::level` is never lowered, so it may exceed the tallest
node's height; the head has all levels, and the proofs need no more.
`ListNode::pre` is never set: the list of README.md:14 is linked in one
direction only.

## 6. Proofs

Every invariant, action property and refinement that a passing run checks is a
theorem as well. The theorems hold for every value of the constants that
satisfies the assumptions named in the modules, which are what the code gives:
`None` is no word and no number; scores lie strictly between `Head` and `Nil`;
a second has at least one tick; there is a key, and a text has room for a word
(`MaxLen` is at least 1); memory (`Nodes`) and descriptors are finite, the
latter natural numbers, of which the kernel gives the lowest free one, and the
listener's is not among those it gives; headers, texts and reads are not empty;
a file's widest integer holds twice what the 18 digits of a numeral can say,
and half of what a `size_t` can say is more than the length of any text.

- `DbProofs`, first part: what each operation of `SdbObject` returns is an
  object of the right type or `Unsupported`, and `Additions` and `Removals`
  cover the operations.
- `DbProofs!TypeCorrect`: `TypeOK` is inductive; one lemma per group of
  commands, over the three ways a command ends (`Answer`, `Commit`, `Crash`).
- `DbProofs!EagerExpiryHolds`: `Spec => T!Spec` under the mapping
  `store <- seen`, `deadline <- pending`. `Answer` leaves both unchanged
  although it collects, `Commit` changes `seen` at its key only; a command is
  then matched with the abstract action of its kind, and a tick with the
  abstract tick, at which what passes its deadline leaves `seen`.
- `DbProofs!NothingRevivesHolds`, `DeadlineFirmHolds`: from `TypeOK` and a lemma
  on the effect of any one step on a key's two entries.
- `StringObjectProofs`: `StringInv` and `ReadsAsWritten` need each other, that a
  raw text is not empty and no longer than what made it (`Bounded`), and that
  nothing has been written under a key that is new (`Fresh`). The rest is
  arithmetic. `ValueTyped`: a numeral of `Short` digits stays below the power
  of the base that `istr` must stay below. `RoundTrip`: an integer comes back
  from a file as it went, because a negative one is written unsigned and so
  needs the widest encoding, the only one from which a sign is read.
  `CountedDigits`: the divisions `strlen` counts are as many as the digits
  `to_string` writes. `AskedFor`: the length given to `substr` is that of the
  part between the bounds or more than there is, whichever of the three
  subtractions wraps around. Each of the three recursions (`Power`, `Value`,
  the loop of `strlen`) is an instance of `RecursionExists`, with the recursion's
  step given as data, and what it computes is shown by `AllNumbers`: a set of
  numbers that has 0 and the number after each of its own is all of `Nat`.
- `SkipListProofs`: the inductive invariant is `TypeOK /\ ListInv`. `Shape`
  alone is not inductive: `InsertLink` and `Unlink` write through `update`, so
  the invariant also says what a call in progress knows: each `update[l]` is
  the last node before the key on level `l` (`Collected`), the node a loop is
  at has the level it is on (`Standing`), the loop ended on `update[0]`
  (`AtBottom`), a search has ruled the key out on the levels it left
  (`RuledOut`). The heart are `LinkShape` and `UnlinkShape`, which show that
  putting in and taking out a node keeps every level a sorted, complete
  sublist. `TypeCorrect`, `ShapeHolds` and `ImplementsOrderedMapHolds` follow.

- `SkipListProofs!BackwardMirrorsHolds`, `SpansHold`: three invariants on top
  of it, which hold during calls too. `Mirror`: the tail is the last node of
  level 0 and each node's back pointer the one before it. `Ranked`: a span is
  the rank of the node it leads to less that of its own; one that leads to no
  node counts on level 0 to the last node, and above to `length`, which may
  have begun too high. `Counted`: the ranks an insert has added up are those of
  the nodes in `update`, and of the one it is at. A new node splits a span at
  its own rank, whatever its height.
- `ExecutorProofs`: beside the two properties the invariant needs `Beyond`,
  that nothing is in the databases the list has not grown to; without it a
  number could come into the list with data in it. `EachIsAStoreHolds` is
  proved for one number at a time: while it is in use its steps are those
  `DbProofs` matches, while it is on the shelf it stands still but for the
  clock, and a select moves its tables without changing what is seen in them.
- `DbFileProofs`: what clients saw when a save began is history (`saved`), and
  the invariant relates the file, the database and the work under way to it.
  `Snapshots`: each entry of a file is the object and the deadline of that
  moment, no key twice; once the save is over a key without one had gone
  or has expired. `HalfSaved`: of a save under way, a key still to come is as
  it was at that moment or gone by now, and of the others the file holds an
  entry or they are gone (`Gone` only becomes truer, since the clock never goes
  back). `HalfLoaded`: of a load into an empty database, exactly the keys of
  the entries read so far have been restored (`Restored`), as `set` and `push`
  make them anew. `FilesAreSnapshots` and `LoadsRestore` follow from these;
  `SavesAreUnseen`, `LoadsOnlyAdd` and `DeadlinesStandInFiles` are proved step
  by step from the typing (`Tables`): the first because what a save collects
  was not seen any more, the last with `DbProofs` for the commands. A kill is
  possible after every step, and each prefix of a file satisfies what is said
  of an unfinished one. `Edges` is what the invariant needs of a cut: a file
  that has one is of a save that is not done, the part is one of `Parts` of a
  key that has no entry before it, as the key was when the save began, and a
  file being written has none. At a kill the part is of the first entry that is
  lost (`CutShort`), which is the snapshot's, or of the key being written,
  which is still as it was then (`HalfSaved`); both are what clients saw at that
  moment (`EdgesLost`). What a load makes of a part is shown by cases on it:
  `ListCuts`, `HashCuts`, `SetCuts` and `StringCuts` say that what is left of an
  object is a `Remnant` of it, `PartReturns` that reading the part changes one
  key only, its own or the one its name was cut to. That at most one key comes
  back otherwise needs that no entry before the part has its key.
- `LinkedListProofs`: while it is not being destroyed, some sequence of
  distinct nodes is the chain (`IsChain`), and a print has shown a beginning of
  it (`Printed`). The sequence is a bound name, not one computed from the links,
  so that it means the same before and after a step. Destroying gives nodes back
  from the end of the recursion, and then only the tail's absence is known: this
  is enough, for a list that is destroyed accepts no call. `Nth`, the
  recursive function of the walk, is compared with the sequence by taking the
  least place at which they differ. `IsAQueue` then maps `push` to an append,
  `pop` to a tail, and the last step of each walk to the abstract show or clear.
- `ReactorProofs`: `Owners` says which connection has which descriptor,
  `Entries` that an entry not closed in this round is its owner's and is watched
  for room exactly if it has something to write, `Pending` that an event still
  to be handled is of a descriptor that was watched when the wait returned and
  is closed by nobody but its own handlers, `Handling` where in such an event's
  handlers the server is, and `Conserved` that replies add up. `TableSound`
  cannot be proved without all of these: an entry may be stale for the rest of
  a round, and only `Pending` excludes that a later event finds it under a
  number that was given out again. `EventsHaveRoom` and
  the first half of `DescriptorsCloseOnce` are parts of the invariant: who closes
  a descriptor has an owner for it, and an owner of a number closed in this
  round is one accepted since, whose events come only after `sweep`. The second
  half follows from `Handling`, which says of a read on a closed descriptor that
  there was a reset (`DieInv`; `Lives` for the steps at which nobody dies).
- `FramingProofs`: `Runs` says that what was sent is whole messages one after
  the other but for the last, and `Border` where in it the server's last
  execution ended: `NothingIsLost` and `RequestsBeginWhole` are about eager
  clients too. For the latter `BufferBegins` shows that after an execution that
  ended a request the buffer begins one, and `TextsBegin` that a buffer as long
  as its header says then holds all of it. `InSession` is for a client that
  waits: its request is under way and nothing else (`Asking`), or its answer
  (`Answering`), or neither. Then a buffer as long as the header says is
  exactly one request, and `IsASession` maps `onMessage`, when it executes, to
  the execution, the last `receive` to the reply, and every other step to a
  stutter.

Only model-checked are the liveness properties (`CallsReturn`, `FilesEnd`,
`WalksEnd`, `ServesAll`, `Replied`), which are beyond the prover: it has no
rule for fairness or `ENABLED`. The refinements are proved as far as the
abstract specifications state safety, which is all they state. The induction
theorems of the library take an operator as a parameter, which the installed
provers cannot instantiate: the proofs use a least element of a set of numbers
instead (`LeastNumber`).

## 7. Not modelled, and the plan

Not modelled:

- `IntSet` and `TimeUtil`: nothing in the program uses them. The reference
  count of `SDBObject`: nothing copies one.
- `InetAddress`, `Socket`, the console and `main` functions: conversions and I/O
  without state of their own. Two things are known of them: the socket does not
  ask for its address to be reused, so that a server started again at once
  cannot bind, and the console runs for ever at the end of its input.
- The bytes of a file, but for the integers of `StringObject`: a file is a
  sequence of entries and what is left of one more. What a cut leaves of a word,
  a number or a name is given by constants, and the empty key is left out.
- In `Framing`, a connection that breaks; in `Reactor`, what is in a message.
  The two meet in `read` and `write`: `Reactor` has when they are called and on
  which connection, `Framing` what they do to the buffers of one.
- Memory that runs out, and the sizes of integers but where a module names them.

Planned, in order:

1. A load into a database in use: what a client may rely on when it loads a
   key over an expired deadline that nobody has collected (Db.hpp:408).
2. The console's reading loop (Console.hpp:20), if it is ever given a state.
