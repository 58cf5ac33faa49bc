# A verification of modern-cpp-hw

TLA+ models of the two programs of the repository: `hw2-socks5-server`, a SOCKS5
proxy on io_uring, and `hw1-binary-serialization`, wrappers around CBOR and BSON
libraries and the messages written through them. TLC checks the models on small
instances; TLAPS proves the safety properties of the server, of the CBOR wrapper and of
the BSON messages for instances of any size. All paths below are relative to `src/`.

    tlc -config IoUringThread.cfg MCIoUring.tla     (any .cfg with its module)
    tlapm IoUringProofs.tla                         (any *Proofs module, or IoUringRefinement)

## 1. The system

### hw2-socks5-server

| Part | State | Operations |
| --- | --- | --- |
| `IoUring` (server.cpp:110-368) | the ring, whether an accept is armed | `event_loop`, `handle_accept`, six `add_*_request` |
| `EventPool`, `BufferPool` (23-108) | queues of free indices | obtain, return |
| `Session` (370-885) | `m_state`, `awaiting_events_count`, `m_is_failed`, two descriptors, one buffer in two halves, the read and write buffers, sizes and offsets of the relay | five `handle_*`, the readers of the handshake, `fail_*` |
| `Socket`, `syscall_wrapper` | a descriptor | open, close; errors become exceptions |
| `main` (main.cpp) | the limits, the threads, the listening socket | parse, open, set the limits, start the threads |

One thread runs `event_loop`: it takes a completion, finds the `Event` behind its
user data and in it a raw `Session*` and the type of the request, decrements
`awaiting_events_count`, calls the handler, and deletes the session if it has
failed and waits for nothing more. Handlers add requests; the kernel completes
them in any order, at any time, with any result, also those of a session that has
failed. So the hard part is a protocol between the count, the failure flag,
the state and the requests in flight.

`main` divides 32768 connections among the threads; each has an `IoUring`, pools and
sessions of its own, and `main` runs one itself. Four things remain shared. All threads accept
from one listening socket, so a client goes to any of them, also to one that is full. The
limit of descriptors holds for the process. `gethostbyname` answers in static memory
(server.cpp:644), which another thread may overwrite before it is read. And an exception that
leaves one thread ends them all, since they are never joined.

A `Session` first runs the handshake: one request at a time, `read_some_from_client(n)`
waiting for `n` bytes however they come. Then it relays: two directions, each with one
request in flight that alternates between a read into its half of the buffer and a
write from it.

### hw1-binary-serialization

`cbor::Item` is a counted reference to a libcbor item, `cbor::Buffer` the only owner
of a block from `malloc`; `bson::SubArray` opens an
array inside a document in its constructor and closes it in its destructor;
`bson::Iter` walks a document by position. `Message` and `MessageVector` are
written and read through them and through MessagePack. Everything is sequential; what is
hard is ownership, nesting, exceptions half-way, and 64-bit unsigned numbers in a
format that only has signed ones.

### Correctness, by component

- pools and lifetimes: no `Event` leads to a deleted session, no index is lost or
  given out twice, nothing is closed twice, no assertion fires;
- sessions: never forgotten while they serve, freed when they have failed;
- handshake: the result depends on the bytes, not on how they are cut;
- relay: the bytes read in each direction arrive, in order, and nowhere else;
- process: no descriptor is lost, every client is accepted or turned away, a name is
  connected to by its own address;
- messages: what is written is read back equal; items and buffers are freed exactly once.

## 2. The modules

| Module | What it models |
| --- | --- |
| `IoUring` | one thread: event loop, pools, sessions, requests in flight |
| `SessionLifecycle` | the abstract specification: the phases of a connection and the capacity |
| `IoUringProofs` | the inductive invariant of `IoUring` and the theorems that follow from it |
| `IoUringRefinement` | `IoUring` implements `SessionLifecycle`, and its action properties |
| `HandshakeProofs`, `RelayProofs`, `ServerProofs`, `BsonMessagesProofs`, `CborItemProofs`, `CborBufferProofs` | the inductive invariant of that module and the theorems that follow from it |
| `Handshake` | the SOCKS5 handshake of one session, byte by byte |
| `Relay` | the bytes of one session that proxies, in both directions |
| `Server` | the process: start-up, threads, descriptors, name lookups |
| `BsonMessages` | `MessageVector` to BSON and back, with exceptions |
| `CborMessages` | `MessageVector` to CBOR and back, from items or through a buffer |
| `CborItem` | the ownership of CBOR items |
| `CborBuffer` | extends `CborItem` by `cbor::Buffer` and the memory it owns |
| `MC*` | values of the constants and symmetry sets for TLC |

### IoUring

An action is one turn of `event_loop`. `Completion(e)` is split as the code is:
`RequestFailed` (`cqe->res < 0`), `RequestOfFailedSession`, and one action per case
of the switch. A handler is an operator from a working state `w` (the session, the
Events, the pools, whether the process has died) to the *set* of working states it may
leave: a handler chooses after looking at bytes, and bytes are not in this module, so
every choice they could lead to is in the set. `Commit` makes the chosen one the new
state. Handlers call each other like in the source, so one completion may run through
several readers of the handshake.

How the process dies is part of the state: `server` becomes `"aborted"` (an
`assert`), `"segfault"` (the missing destination socket is used) or
`"terminated"` (an exception leaves `event_loop`, from closing a descriptor
twice). The state is then frozen.

Abstractions: the queues of free indices are sets and `CHOOSE` takes one (the order
makes no difference to any property); the Event being handled is neither in flight nor
free until `return_event`, as in the code; the kernel's part of a request and the turn
that handles its completion are one step here (`Relay` separates them); the address
of a new `Session` is any free one, so that addresses are used again.

### SessionLifecycle

Seven phases: `free`, `handshake`, `rejecting`, `stranded`, `connecting`, `relaying`,
`draining`. `IoUring` implements it under the mapping `PhaseOf` (the phase of a
session in a state, by `PhaseAt`): each turn is one step of one
connection or a stutter. `Server` implements it too, over the connections of all threads and
with the capacity of the process: the two refinements say that the phases that `Server` starts
from are those that `IoUring` provides. `stranded` has no way out: that is what the code does,
not what one would want (finding 1).

### Handshake

The client's stream is a sequence of bytes fixed at the start. `ClientRead(n)` appends
the next `n` bytes and runs the readers; `ClientWrite(n)` lets the kernel take `n` bytes of
the answer. The readers have the structure of the source, with
`read_some_from_client` calling the next one at once if the bytes are there. One
request is in flight at a time, which `IoUring` shows (`NoSessionIsForgotten`).
`MethodsAreGood`, `ConnectRequest`, `AddressLength`, `Parsed` and the rest of that section
are an independent reading of the whole stream, against which the properties compare.
The address and port in a success reply are zeros; a resolved name is
a tagged copy of the name.

### Relay

`buffer` is the memory of one session with both halves; `Half(d)` is where the requests of a
direction point. The kernel moves bytes in one step (`KernelRead`, `KernelWrite`), the thread
handles the completion in a later one, so the two directions interleave within the buffer. Any
request may fail instead (`KernelFails`: a reset, a closed pipe, a position refused), and
`HandleEnd` is what the thread does on an error as on an empty read: the session has failed. The
offset of a write, which the code sets after a partial one, is a position in a file; a socket has
none, so the kernel refuses the write or ignores the offset. `early` are bytes that the client
sent before the reply. The code leaves them in `m_read_buffer` and sends a write of no bytes
instead: they are lost, and the properties speak of what the source sends after them
(`Forwarded`). `cut` is a history variable: a write of the direction has been cut short.

### Server

`Start` is `main`, a step at a time; a thread constructs its `IoUring` and then serves. A
connection of a thread is its phase (as in `SessionLifecycle`, with `stranded` split by whether
the client's descriptor is still open) and `Goes` is a turn that moves it to another phase and
closes descriptors. `descriptors` is what the kernel would count. A lookup is three steps, as in
the source: the call, the `switch` over the family, and the copy of the address with the
connect; between them the thread does nothing else, but others do. `lookup[t].overtaken` is a
history variable: another thread called `gethostbyname` in between. An accept may fail at any time,
with a client or without (`AcceptFails`), and so may the creation of a destination socket, which kills
the process whatever the error is; at the limit of descriptors both can only fail. `process` says how it ended:
`"logged"` (main caught the exception and no other thread exists), `"terminated"`
(`std::terminate`), `"killed"` (a division by zero threads, or the missing destination socket),
`"refused"`.

Abstractions: the queue of the listening socket holds one client or none; the bytes of the handshake
are a choice among its ends; the connections of a thread are numbered, and it takes any free one.

### BsonMessages

Writing is the wrapper calls that `to_bson_buffer` makes, executed one by one on the open
documents. `turn` is the turn of its loop over the messages (turn 0 opens the array, the one after
the last closes it), `todo` holds the calls of this turn not made yet, and `next_message` begins
the next turn. `Texts` and `Buffers` are what messages consist of. Any append may throw, and then the destructors of the open
`SubArray`s are the remaining calls. libbson is external: it asserts that a document with
an open child is not touched. Keys are the index they print; numbers are `W` bits wide and
the casts wrap around. Reading is one action with the assertions of `Message(Iter&)`.

### CborMessages

Writing, and here reading too, is a sequence of wrapper calls on named objects. An
item is the tree of what it holds, with the size an array was built for; libcbor is external: a
push into a full array fails, encoding writes an item before its elements, decoding takes as
many as were announced. Each run of the program reads either the items themselves or what was
loaded from a `Buffer`. `ReadElement` is what C++ makes of `Message(item_handle[i])` in
`MessageVector(const cbor::Item&)`: there is no constructor from `cbor_item_t*`, so the element
is encoded into a temporary `Buffer` and decoded again.

### CborItem

`m_item`, the reference counts, and the arrays are the state; the operations of
`cbor::Item` are the actions, in any order, which includes those of `to_cbor_dom` and
of an exception in it. `cbor_decref` of the last reference visits the elements of an array
one by one (`releasing`); no other operation starts before it has ended. An item is
an array as soon as something is pushed into it. The guards exclude what the
repository never does: copying a moved-from `Item` and pushing an array into itself.

### CborBuffer

The constructors, assignments and destructor of `cbor::Buffer`, and the block each object has,
beside the state of `CborItem`: a `Buffer` is made from an item and an item from a `Buffer`. An
allocation that fails in a constructor leaves no object and is no step. In `operator=` it comes
after the old block was freed and the new size stored (cbor_wrapper.ipp:104): the object is left
with a size and no memory. `Sound` keeps such an object from being copied, which would read from
a null pointer and which nothing in the repository does.

## 3. The runs

| Run | Instance | States | What it shows |
| --- | --- | --- | --- |
| `IoUringThread` | 2 connections, 2 addresses, fair | 62 602 | pools, counts, lifetimes, the refinement; failed relays are freed |
| `IoUringCapacity` | the same, symmetric | violated | finding 1 |
| `IoUringSocketError` | the same, symmetric | violated | finding 2 |
| `HandshakeAnyCut` | 94 streams, all cuts | 6 754 | parsing, answers, termination |
| `HandshakeMethod` | the same | violated | finding 3 |
| `RelayTransfer` | 5 and 3 bytes, halves of 3, 0 or 2 early bytes, fair | 80 145 | both directions deliver what they read |
| `RelayResumedWrite` | the same | violated | finding 4 |
| `RelayNotRoot` | halves of 2, without registered buffers | violated | finding 5 |
| `ServerThreads` | 3 connections, `-t` 0, 1, 2 or 4, hardware 0 or 2, fair | 36 523 | descriptors, lookups, waiting clients, the refinement |
| `BsonRoundTrip` | 201 vectors of up to 2 messages, 3-bit numbers | 14 105 | round trip, nesting, exceptions |
| `CborRoundTrip` | 113 vectors of up to 3 messages, both ways | 8 810 | round trip, sizes of arrays |
| `CborOwnership` | 4 `Item`s, 4 cells, arrays of 2; 3 `Buffer`s, 2 blocks | 193 111 | counts, no dangling pointer, no leak, one owner per block |

Deadlock is not checked: the server may die or be stuck with sessions it never frees (finding 1), a
handshake or a transfer ends, and so do the programs that serialise.

Why the bounds are enough. Two connections are the fewest that compete for Events and buffers
while their completions interleave; a session is created where another was deleted. The streams
have every refusal, every address type, a name of length 0, requests cut short, and bytes sent
ahead; a read may take the whole stream (at most 30 bytes, `HALF_BUFFER_SIZE = 32`) or any part
of it. The transfers need several reads per direction and halves large enough for a write to be
cut twice. Three connections are one thread with all of them, two threads with one
each, and four threads with none (the division of `main` rounds to zero); the limit of six
descriptors is reached with one thread and with two. Every race here is between two threads (a client
either may take, a lookup that the other overtakes), and what a third adds to the safety properties
the proofs cover, for any number. Two names, one of each family, are enough for
an answer to be of the wrong family or the wrong address. Three-bit numbers have values on both
sides of the sign bit. Vectors of three messages, with arrays of none to two attachments, show
an array that is one too small or an element taken twice. Four objects and four cells allow an
array in an array whose element is shared; three `Buffer`s are a source, a copy and one moved
into, and two blocks are soon used again. Beside a living `Buffer` there is one `Item`
(`ItemsBesideBuffers`): the two meet only in `serialise` and `load`.

Fairness. `IoUring!PeersRespond` is weak fairness of each completion: the kernel completes every
request, which supposes that no peer is silent for ever, and the loop takes every completion,
because it does nothing but wait for them. A peer that does stay silent keeps a failed session
alive (server.cpp:194 cancels nothing); that is why the assumption is named.
Nothing in the code bounds that silence, so how long such a session holds its buffer is not a
property of any run.
`Handshake!FairSpec` and `Relay!FairSpec` ask less: what a client has sent is handed over, what the
server writes is taken, a connect is answered, and completions are handled. A peer may stop sending
without closing its side, and no request has to fail. So `HandshakeEnds` excepts a client that stops
in the middle of what it must send (`IsWhole` says what that is): the code re-arms the read without a
timeout (server.cpp:420-431) and such a session reads for ever. `ReadBytesArrive` speaks only of
bytes that have been read. `Server!Fairness` lets `main`, the
constructors and a lookup go on, which nothing but the scheduler delays, and is strong for
`TakeClient`: a thread may be busy with other connections again and again while the client
waits, but its completion queue is first in, first out. Nothing is assumed of the connections
themselves there.

### Findings

1. **Sessions that fail in the handshake are never freed** (server.cpp:166). The count of such
   a session keeps the unit that `handle_accept` added for a connect request which will not
   come. `NConnections` bad greetings and the thread answers "Server capacity exceeded"
   for ever. `StrandedOnlyInHandshake` shows that these are the only sessions lost.
2. **A failure of `::socket` crashes the server** (server.cpp:591, 611): the `catch`
   answers but does not return.
3. **0x00 instead of 0xFF** when no authentication method is acceptable (server.cpp:480).
4. **A partial write is resumed at the wrong place** (server.cpp:767, 863): the pointer is
   not moved and the offset is given to the kernel as a file position.
5. **Without root, a read from the client may overwrite the other direction's half** (server.cpp:286),
   and the other way round: a read from the destination then replaces the end of what the client sent, and in
   the trace the destination is sent a byte of its own.

Also modelled, but contradicted by no statement of the repository, and so no
finding:

- a failed accept is not armed again and the thread is deaf from then on (`IoUring!AcceptFailed`,
  `Server!AcceptFails`), whatever the error; the limit of descriptors, which counts only the connections, is
  one way to get there near capacity;
- a thread that is full turns clients away while others have room (`Server!TurnAway`);
- a name may be connected to by the address that another thread looked up (`ConnectsToOwnName`
  says that it takes another thread's call in between);
- no threads, if `hardware_concurrency()` says 0, is a division by zero; more threads than connections are
  rings that cannot be set up (`Server!Parse`, `Construct`);
- bytes that a client sends ahead of the reply are dropped (`Relay!early`): `BufferIsTheUnparsedStream`
  says that they are there when the relay starts, and no property says that they arrive;
- a silent peer is waited for without a timeout, in the handshake, in the relay and after a failure;
- a connect that fails is not answered, and a refusal cut
  short is not completed (`Handshake!RequestFails`, `ClientWrite`);
- a `SubArray` that cannot be begun destroys a `bson_t` that was never initialised
  (bson_wrapper.ipp:68, `BsonMessages!begin_fails` with the outcome `"undefined"`).

## 4. The proofs

Each theorem is about every value of the constants that satisfies the named assumptions of its
module. Those are the types of the constants; that `NULL` and `nullptr` are none of the values
they stand beside (`NullAssumption`, `NullptrAssumption`, `NullBlockAssumption`,
`NamesAssumption`); that the threads asked for and the hardware's are among those numbered
(`ArgumentsAssumption`); that memory is finite (`CellsAssumption`); and that what is serialised is
a sequence of `Message`s, whose numbers are below `2^W` (`WidthAssumption`, `VectorsAssumption`). No theorem assumes
more, but for the two of `Relay` that say so.

| Module | Theorems about | For all |
| --- | --- | --- |
| `IoUringProofs` | `TypeOK`, `NoUseAfterFree`, `PoolsBalance`, `NoAssertionFires`, `OneRequestPerDirection`, `AwaitingCountIsExact`, `NoSessionIsForgotten`, `StrandedOnlyInHandshake`, `RequestsFitSessions` | `NConnections`, addresses |
| `IoUringRefinement` | `FailedSessionIsQuiet`, `OnlyHandshakesKillTheServer`, `ImplementsLifecycle` | the same |
| `HandshakeProofs` | `TypeOK`, `BufferIsTheUnparsedStream`, `NeverWaitsForWhatItHas`, `ConnectsWhereAsked`, `AnswersFitTheStream` | streams of bytes, cuts, `HALF_BUFFER_SIZE` |
| `RelayProofs` | `TypeOK`, `CountsBalance`; if `m_is_root`, `HalvesAreSeparate`, `DeliveredInOrder` | streams, early bytes, `HALF_BUFFER_SIZE` |
| `ServerProofs` | `TypeOK`, `DescriptorsBalance`, `ConnectsToOwnName`, `ImplementsLifecycle` | connections, threads, names, inherited descriptors |
| `CborItemProofs` | `TypeOK`, `CountsAreOwners`, `NoUseAfterFree`, `NoLeak` of items alone | objects, cells, sizes of arrays |
| `CborBufferProofs` | the same with buffers, and `BuffersOwnTheirMemory` | objects, cells, sizes, blocks |
| `BsonMessagesProofs` | `RoundTrip`, `NothingAborts`, `ArrayHoldsAPrefix` | vectors, texts, attachments, width `W` |

Every proof has the same shape: an inductive invariant, which TLC has checked on the instance of
the run; a lemma for each action (or handler) that it keeps it; and theorems that read the
properties off it.

**IoUring.** The properties are not inductive by themselves: that the count is exact after a turn
depends on which requests were in flight before it, and that on the state, on the flag and on
what the handlers of earlier turns added. `RequestsFitSessions` says it all at once: a live session
is in one of five situations (`Handshaking`, `Rejected`, `Connecting`, `Proxying`, `Draining`),
each of which fixes the flag, the descriptors, the count and the set of types of its requests,
and no two Events in flight are equal. `IInv` is its conjunction with the types, the pools and
the absence of death by assertion.

A lemma per primitive says what it does to a session, its Events and
the pools (`SubmitTakesOne`, `SubmitKeepsTurn`, ...); a lemma per handler says that it ends a
turn in one of the five situations; `ReapStartsTurn` and `CommitKeepsInvariant` connect them to
the state before and after the turn; `DeleteKeepsInvariant` is the turn that frees the session.
That the EventPool never runs dry is a counting argument (`HalfTheEventsSuffice`,
`TwoEventsAreFree`): at most `NConnections` sessions own a buffer, each has at most two requests
in flight, and there are four Events per connection, so the two that one turn may take are
there.

`IoUringRefinement` looks at the two ends of a turn: the situation before and the situation after
determine the phases (`PhaseAt`), the session of another address is not touched, and the pairs
that can occur are the steps of `SessionLifecycle`. The
capacity of the abstract specification is the BufferPool's: a phase other than `free` owns a buffer.

**Handshake.** `HInv` compares the session with the whole stream, read at once. It says of a
session that reads how many bytes of the stream it has parsed (`Holds`), that the bytes parsed were
in good form as far as they go (`GreetingIsGood`, `MethodsAreGood`, `Asked`), that the fields it
has stored are the bytes of the stream they were taken from, that it waits for a message not
complete yet (`needed`), and what the client has got so far. The last three are what the
properties lack: a step of a reader is right only if the counts and the type stored by earlier
readers are. `Sound` states this of a record, a session and what was read and said with it,
and not of the variables, because readers call each other on sessions that
never become a state; so there is a lemma per reader (`AddressIsRead` to `GreetingIsRead`), proved
from the last to the first, then one per completion. Cuts enter in two places: what a read brings
is held behind what was there (`ReadsMore`), and the beginning of an answer that fits, fits
(`BeginningFits`). The lemmas about parts of sequences come first.

**Relay.** `RInv` counts: a request lies in the buffer, a write in flight is the rest of what was
read, and what was read is delivered or in that write. It holds with and without registered
buffers, and although a resumed write sends the wrong bytes (finding 4), because the counts are
right. `OwnInv` says which bytes these are, and needs what finding 5 shows not to hold
otherwise: with `m_is_root` the halves do not overlap, so no kernel step of one direction changes
what the other direction's half holds (`HalvesAreSeparateHolds` and `DeliveredInOrderHolds` have that
hypothesis). The order is claimed for a direction none of whose writes was cut, of what its source
sends after the relay has started, and it is complete when the source is seen to end: an empty read comes
when everything before it was read, and `RInv` leaves nothing of that unwritten while a read is in flight.

**Server.** `SInv` adds to `DescriptorsBalance` that threads are started in order, that only a
thread that serves has connections and no more than its share, that a lookup belongs to a
session in the handshake, and that the answer of a lookup nobody has overtaken is its own. The
balance counts the connections of all threads by phase: that a turn moves one element from one of
these sets to another is what most of its lemmas are about. The refinement needs that the
shares of the threads never exceed the capacity together (`threads_count` times
`one_thread_connections`, a division), and that the phases of all threads end with the process.

**CBOR.** `CInv` is the exact account: the count of an item is the number of its owners, through
every intermediate state of `cbor_decref`. It gives `NoUseAfterFree`. `NoLeak` needs more, since a
cycle would keep its own counts up: `TreeInv` says that every set of cells has one that no array
in the set holds, which only `array_push` could break and does not, because what it pushes
is alive in an `Item` and the array it pushes into is not reached from it. `Reachable` is the
least set closed under the arrays, as an intersection, so the proof needs no
induction. `BInv` says that blocks and living buffers with memory correspond one to one.
`CborBuffer` only reads items, but for `load`, which builds one: the invariants of `CborItem` carry over.

**BSON.** No property says what the open documents hold between two calls, and each depends on it.
`BInv` says it as a function of the place: `Documents(v, t, j)` are the documents before call
`j` of turn `t`, down to their elements and open children, and while messages are written
`documents` is that and `todo` the calls from `j` on (`WritingInv`). While an exception unwinds, each
document but the last has its child open (`Nested`) and `todo` is the rest of the destructors. There is a
lemma for each call at each depth (`BeginsIn1` to `EndsOf4`), on tuples of documents;
`StepInMessage` and `StepInTurn` put them together, `Turn` says that the place where a turn ends is the one
where the next begins, and `Shapes` and `Unwinds` that an exception at any place finds documents its
destructors may close. `ReadsMessage` and `ReadsMessages` invert `Documents` at the last place, by
`NumberReturns`: the casts through signed numbers of width `W` cancel. The place in both loops is
part of the state, so no induction over the vector is needed.

Only model-checked:

- liveness (`FailedProxyIsDeleted`, `HandshakeEnds`, `ReadBytesArrive`, `NoClientIsLeftWaiting`): the
  provers have no rule for fairness and `ENABLED`;
- `CborMessages`. Its items are encoded and decoded recursively: what that gives for every
  input takes an induction over data, which the provers at hand cannot do.

## 5. What is not modelled

- The ring's own limits: a full submission queue, and kernel polling, which may take up a request after its
  descriptor was closed and its number given away. Descriptors have no numbers here.
- The signal handlers of SIGINT and SIGQUIT, which log and call `std::exit` (a handler that interrupts
  the thread holding the lock of the logger waits for itself), and an interrupted `io_uring_wait_cqe` beyond
  `EventLoopFails`.
- `RLIMIT_MEMLOCK`, socket addresses, and the wording of the logs.
- How libbson treats the pointers it is given: an empty attachment hands `bson_append_binary` a length of 0
  and the `data()` of an empty vector, which may be null (message.cpp:116). `BsonMessages` supposes that libbson accepts
  it; a version that asserts the pointer would abort, and `NothingAborts` and `RoundTrip` say nothing of that.
- MessagePack, whose code is generated by macros of the library; the benchmark, the data generator and
  the test drivers, which are straight-line programs without state of their own; build files.

## 6. Plan

1. A composition of `Handshake` and `Relay` at the moment proxying starts, so that
   early bytes are produced rather than assumed.
2. The signal handlers and the lock of the logger, as part of `Server`.
