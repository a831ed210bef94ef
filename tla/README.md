# TLA+ models of the Simucube API client (sc-api)

The repository is a C++ client library. A backend, another process, owns the
devices; the client reads its data from shared memory, sends commands to it
over TCP and actions over UDP, and tells its user what happened through
listeners and event queues. This directory holds models of the library's
concurrent parts, of the formats it reads and writes and of the arithmetic it
relies on, their TLC runs, and TLAPS proofs about them.

## Inventory

| Component | State | Operations | Hard because |
|---|---|---|---|
| Command channel (`session.cpp`, `Session::Internal`) | TCP socket, map of callbacks, queue of requests, `send_in_progress`, receive buffer | `asyncCommand`, `blockingCommand`, `blockingSimpleCommand`; handlers of `async_write` and `async_read_some` | user threads and the io thread interleave; responses out of order; the connection breaks; callbacks write into the stack of another thread |
| Shared-memory BSON provider (`shm_bson_data_provider.cpp`, `compatibility.h`) | installed document, its revision, `buffer_changed_`; the backend's document and counter | `update()`, `setShmBuffer()`, `getRawBson()` | optimistic copy against a writer in another process; several updating threads; bounded retries |
| Device info, simulator data (`device_info.cpp`, `sim_data.cpp`) | cached parse of the installed document | `parseDeviceInfo()`, `parseSimData()`, getters | parse outside the lock, caches that may go back |
| Event delivery (`event_queue.h`, `api_core.cpp`) | queues, their condition variables, the producer's list | `notifyEvent`, `addEventQueue`, `removeEventQueue`, the four pops, `close`, both destructors, `createEventQueue` | lost wakeups, bare pointers to queues users own, registration racing publication |
| Session life cycle (`session.cpp`) | `state_`, keep-alive, `is_running_`, io_context | `registerToControl`, `periodicUpdate`, `disconnected`, `close`, `runUntilStateChanges`, `stop` | check-then-act around `Session::m_`, stop and restart of the io_context, lock order with `ApiCore` |
| Api worker (`api.cpp`) | list of listeners, queue of listener actions, active session | `threadFunc`, `addListener`, `removeListener`, `~Api`, control enablers | wakeups through `Session::stop()`, batches of additions and removals, callbacks that call back |
| Opening a session (`api_core.cpp`) | active session, core shared memory | `openSession`, `tryCopySessionRef`, `tryOpeningSession`, `sessionClosed` | seqlock on the core block, retries until a deadline |
| Periodic timers (`session.cpp`) | map of asio timers | `createPeriodicTimer`, `PeriodicTimerHandle::destroy` | a handler queued when its timer is erased |
| Variable and telemetry definitions (`variables.cpp`, `telemetry.cpp`) | copies of append-only tables | `refreshDefinitions`, `updateDefinitions`, `find`, iteration | growing tables read while they grow, capacity limits |
| Telemetry groups, actions, force feedback (`telemetry.cpp`, `action.cpp`, `ffb.cpp`) | prepared groups, buffers of actions | `configure`, `send`, `startBuilding`, `sendBlocking`, effects | packing, alignment, sizes |
| BSON reader and builder (`util/`) | cursor and nesting; output buffer | `next`, `beginSub`, `endSub`, `validate`; `docAdd...`, `arrayAdd...`, `finish` | nesting, capacity, array keys |
| Secure session (`security_impl.cpp`) | shared secret, IV counter | key exchange, encrypt | order of derivation, use of the IV |
| Cryptography (`libeddsa/`, `crypto/gcm.c`) | limbs, hash and cipher contexts | field, scalar and curve arithmetic, hash, GCM | carries, edges of blocks, in-place updates |

Components call each other like this. `Api`'s worker thread opens a session
through `ApiCore` and runs its io_context; all handlers of the session (timers,
socket completions, `checkDefinitions`) run on that thread. User threads call
the session directly (commands, `getDeviceInfo`, definitions) and pop events.
`Session::m_`, `ApiCore::Impl::m_`, `main_socket_mutex`, the providers' mutexes,
`EventProducer::m_` and `EventQueue::m_` are separate locks.

What makes each correct:

* command channel: one write at a time, requests in order and none forgotten, a
  callback at most once and only while its caller waits, blocking calls return;
* provider: no torn or malformed document installed, revisions never go back,
  new data reported exactly when there is some, eventually the current one;
* events: every registered queue gets every event in order, no wakeup lost, no
  access to a destroyed queue, a new queue starts from the current state;
* life cycle: a lost session is noticed and stays lost, a registered one is not
  dropped by a stale decision, no deadlock between `close` and `createEventQueue`;
* worker: `listenerAdded` once and first, `removeListener` returns and nothing is
  called afterwards, the destructor returns;
* opening: a session reference from one publication, the active session forgotten only when
  it is the one that closed;
* timers: a callback neither after its handle is gone nor after the session is closed;
* definitions: a copy is what the table holds, searches agree with the user's snapshot;
* packing and BSON: what is read back is what was put in;
* secure session: both sides arrive at the same key, datagrams open.

`PROJECT.json` lists the hazards behind these, each at its line.

## Modules

| Module | Models | Used by |
|---|---|---|
| `CommandChannel` | the command channel, TCP and backend as environment | `MCCommandChannel`, `CommandChannelProofs` |
| `DocumentRegister` | what clients of a document are promised: an atomic register | `ShmBsonProvider` (refinement) |
| `ShmBsonProvider` | `update()`, the device-info cache, `checkDefinitions()`'s event, the backend's rewrites | `MCShmBsonProvider`, `ShmBsonProviderProofs` |
| `EventQueues` | `EventProducer`, `EventQueue`, `createEventQueue()` | `MCEventQueues`, `EventQueuesProofs` |
| `ApiWorker` | `Api`'s background thread, its listeners, the life of the session it runs | `MCApiWorker`, `SessionThreadProofs` |
| `OpenSession` | `ApiCore::Impl`: opening and closing sessions, its lock and the sessions' | `MCOpenSession`, `OpenSessionProofs` |
| `PeriodicTimers` | periodic timers and the io_context | `MCSessionParts`, `SessionThreadProofs` |
| `VariableDefinitions` | the table of variables, its copy, searches, copies of array values | `MCDefinitions`, `VariableDefinitionsProofs` |
| `ActionBuilder` | the buffer of actions and the three ways to send it | `FfbPipeline`, `TelemetryGroup` |
| `FfbPipeline` | a force feedback pipeline over a builder | `MCActions`, `ActionProofs` |
| `TelemetryGroup` | telemetry definitions and an update group over a builder | `MCDefinitions`, `ActionProofs` |
| `BsonBuilder` | `BsonBuilder` | `BsonDocument`, `BsonBuilderProofs` |
| `BsonReader` | `BsonReader` | `BsonDocument`, `DeviceInfoParser` |
| `BsonDocument` | builder and reader together; `CommandRequest`, `SimDataUpdateBuilder` | `InfoDocument` |
| `DocumentCursor` | what a reader promises: an iterator over a tree | `BsonDocument` (refinement) |
| `DeviceInfoParser`, `SimDataParser` | the parsers of the two documents in shared memory | `InfoDocument` |
| `InfoDocument` | the backend describing devices and simulators | `MCBson` |
| `Fld`, `Scalars` | arithmetic on limbs modulo the field's prime and the group's order | `LimbArithmetic`, `Edwards` |
| `LimbArithmetic` | sequences of calls of the two | `MCSessionParts` |
| `Edwards`, `X25519`, `Ed25519` | points, Diffie-Hellman, signatures | `SecureSession` |
| `Sha512`, `Gcm` | block handling of the hash and of the authenticated cipher | `SecureSession` |
| `SecureSession` | key exchange, key derivation, initial values, encryption | `MCSessionParts` |

Operators named `X_Y` after a definition `X` and commented "Mutant" are faulty
variants of `X`; no specification uses them. They record which mistake in the
code each property would catch.

### CommandChannel

A command is its `cmd_id`. The state keeps the members of `Session::Internal`
under their names. Each critical section of `main_socket_mutex` is one action;
handlers that leave it or call out are split there (`io` says where the io thread
is). `TakeId` is the `fetch_add`, `StartSend`/`StartSendRefused` are
`startSendCommand`, `BeginWait` and `EndWait` the two ends of `cv.wait`;
`WriteDone`, `NextSend`, `WriteFailed` the handler of `async_write`;
`ReadDocuments`, `ParsePacket`, `CallAsync`, `CallBlocking`, `ResumeReceive`,
`ReadEof`, `ReadFailed` that of `async_read_some`. `Connect`, `ConnectFailed`,
`Register` and `RegisterFailed` are the four outcomes of `registerToControl` as the channel
sees them; after a failed one no other succeeds until `close()`, because the UDP socket is
already open. `registerToControl` tests no state: `close()` closes both sockets, after which it
succeeds again, and sets `state_` back to `connected_control`, on a session whose io_context
nobody runs any more (`io_stopped`). `NewConnection` is what such a connection begins with: the queue of the one
before it, and the callbacks whose requests it will not carry (`abandoned`, a history variable). `Disconnected` is `disconnected()`, which waits for a
registration in progress. That `runUntilStateChanges()` may restart a stopped io_context for
one run is in `PeriodicTimers`; here a stop is final. `result_set[u]` is `s_cmd_sync_state.result == nullptr` of thread u.

The backend (external) answers in any order, and answers the commands in `Twice`
twice. TCP is a reliable channel until `LinkDown`, which either resets the
connection (eof, reset) or fails it with another error, the case the code only logs.

Abstracted: bytes. A read brings whole documents; a document cut by a read is
one that has not arrived. Documents that are no command responses are not sent.
Ids do not wrap (`MaxCommands` < 2^32 - 1).

### ShmBsonProvider

A document is a set of words, each carrying the revision that wrote it; a copy is
torn when its words differ. The backend makes the counter odd, writes the words
in any order, makes it even (external, from how `compatibility.h` reads it; it
may stop anywhere). Each thread walks through `update()`: `TryAccess`/`TryBusy`
(first read of the counter), `SameRevision`/`NewRevision`/`SizesOutOfRange`/
`CopyWord` (the functor), `AccessAtomic`/`AccessDisturbed` (second read),
`CommitInvalid`/`CommitOvertaken`/`Commit`. `mutex_` is held shared from the first
to the second read; exclusive sections are single actions guarded by `MutexFree`.
Then the io thread sends its event and user threads go through `parseDeviceInfo()`
(`ParseCached`, `ParseBegin`, `ParseStore`). Reads and writes of words are atomic and in
program order: the fences of `compatibility.h` are taken at their word.
`BadRevision` is the set of revisions whose document `BsonReader` rejects.

`Register` maps the provider onto `DocumentRegister`: the register is the installed document and its revision, and a thread
in `update()` is in a call (`Phase`). Copying, busy counters, retries and refused copies are stutters; `Commit` is the
moment the register moves, `ParseCached` or `ParseBegin` the moment `getDeviceInfo()` reads it, `ParseStore` its answer. The
abstract io thread announces a change only when the register has moved in its own call.

### EventQueues

The n-th change of the session's state is event n. `ChangeState` is the
assignment to `state_` under its lock, `NotifyEvent`, `Push`, `NotifyDone` the loop
under `EventProducer::m_`; `CreateBegin` and `AddEventQueue` are the two parts of
`createEventQueue()`; the pops share `PopFront`, `PopWait`, `WakeUp`, `WaitAgain`,
`WakeSpurious`, `Timeout`. The condition variable is explicit: a waiting thread is
woken by a notification, which `notify_one` gives to one of them, or by itself
(spuriously, or on a timeout). `ProducerGone` and `CloseNext` are `~EventProducer`.
Other events (`DeviceInfoChanged` ...) take the same path and are left out, and so is
`close()` of a session, which publishes nothing.

### ApiWorker

The locals of `threadFunc()` are variables under their names, `pc` says where the thread is.
A turn of its loop is `Restart`, `Enter`, `RunReturn` (`runUntilStateChanges`; `RunInvalid` on
a session that is closed), the calls of the listeners, `CheckFlags`, `TakeQueue` to `QueueTaken`, the calls of
`listenerRemoved` and `listenerAdded`, `AddedTold`; or `OpenSession`, `Opened` and the calls, or
`OpenFailed`, in place of the run. `StateTold`, `CloseLost`, `ClearLost` give a lost session
up. From `Ending` on the thread is past its loop. `ApplyAction` is one listener action on
the list (`ApplyAdd`, or `ApplyRemove` with the index that `std::remove` really yields and `Without` for what it leaves);
`m_` is held from `TakeQueue` to `QueueTaken`, so users wait while `pc` is "apply" (`Locked`). `AddListener`, `RemoveListener`,
`RemoveReturn`, `Destroy`, `Join` are the calls of users.

Of the session: `Register` and `RegisterFailed` (at any moment, since control enablers
call `registerToControl` from their callbacks and users from their threads), `UserClose`,
and inside the run `KeepAliveExpired`, `Disconnected` and `ConnectionClosed`.
`stopped` is the flag of the io_context: `stop()` sets it, `restart()` clears it, and `run()`
returns when it is set (external, from the documentation of asio). The keep-alive may
expire at any time the timer runs; the timed waits of the thread are over at any time. A session
is known to its users until the thread drops it; later uses of the handle have no effect
on the thread. `poll()`, the key exchange of `SecureControlEnabler` and
calls of `removeListener` from a callback, which would wait for itself, are left out.

### OpenSession

The k-th session of the backend is the number k, in the core block as id and as path and in its own
block as id, so that a mixed reference is one whose id and path differ. Every read of
`tryCopySessionRef()` and every write of the backend is a step; `Impl::m_` and each `Session::m_` are
explicit. An error of `tryCopySessionRef()` other than `error_busy` is ignored by the loop, which goes on
with what the stack slot of `session_ref` holds: 0, or what an earlier call left there. Objects are counted
by the handles of the threads and by `active_session_`; the last one to go runs `~Session()`.
`WaitsFor` is the wait-for graph of the locks.

### PeriodicTimers

One wait per timer, with its handler queued (`fired`, `aborted`), running, or about to start
the timer again; `io` is where `runUntilStateChanges()` is. Starting a timer that has been erased is
undefined and ends in the state `undefined`. `late` and `stale` are history.

### VariableDefinitions

`pc` is where the io thread is in `refreshDefinitions()`. It begins in "start", or, when `initialize()` found an offset outside its
block and set `def_chunk_` to null, in "unset", from where `updateDefinitions()` and `definitions()` follow that pointer ("fault"). `InBounds` is
the code's test of a value against `variable_values_max_data_size`, which is computed from the size of the definitions' block, as a `uint32_t`.
`Overrun` is the definition for which `def_chunk_` has no element left. After a fault or an overrun nothing happens any more.
`CopyDefinition`, `FillDefinition`, `InsertSearchMap` are the statements of `refreshDefinitions()`, between
which a user searches without the lock; a copy being written is negative. `AtomicCopy`, `ReadCounter`,
`CopyWord`, `CheckCounter` are `atomicCopy()`.

### ActionBuilder, FfbPipeline, TelemetryGroup

A buffer is its size with headers and payloads by byte offset, and the list of what its owner built. A
socket accepts a datagram, would block or fails; what `async_send_to` holds is completed by the io thread.
The pipeline and the group are builders with state around them. In `TelemetryGroup` the sort, the removal of
duplicates and the sizes of `configure()` and the offsets of `send()` are those of the code, `WordBits`
stands for the 32 bools of a word. `Less` is the comparator given to `std::sort`, and `Sorted` has every order that satisfies it, since the
sort is not stable; `Offset` says where the loops of `send()`, class by class, have come to at a value. Sizes are numbers without
a width: a group whose set packet is longer than 16 bits can say is longer than any datagram. `expected_size` is never 0 (8 bytes are added even without bools), so the
early return of `configure()` never happens.

### BSON

The buffer is a function from byte offsets to fields (size, type, key, value, end), so that nesting, sizes,
capacity and offsets are the code's and characters are not. The builder's calls are actions in any
order, into buffers that run full and vectors that grow. The reader is a record of its members. `BsonDocument`
keeps the tree of elements that was asked for; `Cursor` maps the reader onto `DocumentCursor`.
Readers seek under the rules that the callers in this repository keep (`Searchable`): in a document from which they have
not entered and left another (the begin offset is not restored, `bson_reader.cpp:293`), not between
`seekBegin()` and `next()`, in an array to a valid index that is not the current one.
`DocumentCursor` accepts one thing that `bson_reader.h` rules out (`MissAtBegin`): a search that fails before the reader is on an
element leaves it at the end.
A bool in an array is stored negated (`bson_builder.cpp:355`): the model has it, and the property leaves out these values.

`InfoDocument` is the backend, which describes devices and simulators entry by entry, in any order and repeatedly.
Each entry says what it means (`MCBson`), and the reference (`Meant`, `Linked`, `Listed`) combines meanings without a
reader: this is what `parseDeviceInfo` and `parseFromRaw` are compared with. `ParsedAsDescribed` excepts the name of a control that is
given none (`Unnamed`) and a field that stands in front of `device_uid` only (`Overlooked`).

### Secure session and arithmetic

Everything the size of the real curve is a constant. `Fld` has the limb operations of both builds, with
any widths; `Edwards` and above compute with numbers modulo the prime, which `LimbArithmetic` justifies. The hash
compression and the block cipher are parameters. The instance is the curve -x^2 + y^2 = 1 + 671 x^2 y^2
modulo 4093 = 2^12 - 3, which has what the code relies on: a prime that is 5 modulo 8, a non-square d, 8 * 521
points, base point u = 9, (A - 2) / 4 = 66. Limbs are 5, 5, 5 and 4, 3, 4, 3 bits, of which the second has the uneven
widths of the 32-bit build. The addition chains for 2^255 - 21 and 2^252 - 3 are run on exponents (an
assumption of `LimbArithmetic` that TLC evaluates). The reference is the affine group law (`GroupAdd`), GCM by
its definition (`GcmOf`) and the hash of a message in one piece (`HashOf`).

## Runs

| Run | Instance | Checks |
|---|---|---|
| `command_channel` | 2 threads, 3 commands, command 0 may be answered twice; closed, and registered once more on the closed session (`CloseAgain = FALSE`) | `RequestOrder`, `QueueNotStuck`, `CallbackTargetLive`, `PendingAccounted`, `BlockingCallReturns` |
| `command_lost` | 1 thread, 2 commands | `BlockingCallReturnsWhenLost` is violated |
| `shm_bson` | io thread + 1 user, 2 words, 3 rewrites, the second malformed, 2 retries | `NoTornBuffer`, `FreshDeviceInfo`, `EventuallyCurrent`, `ProviderIsRegister` |
| `changes_announced` | io thread + 1 user, 2 words, 1 rewrite | `ChangesAnnounced` is violated |
| `event_queues` | 2 queues, 2 poppers, 2 changes | `DeliveredInOrder`, `NoLostWakeup`, `PushTargetLive`, `PopReturns` |
| `api_worker` | 2 listeners, 2 sessions | `NoCallAfterRemove`, `RemovedOnce`, `SessionsInTurn`, `RemoveReturnsOrRuns` |
| `added_first` | 2 listeners, 1 session | `AddedFirst` is violated |
| `open_session` | 2 threads, 2 updates of which the second may be incompatible, 2 sessions, 4 calls | `RefFromOnePublication`, `WaitCycles`, `ActiveKept`, `OpenReturns` |
| `session_parts` | 2 timers, 2 ticks; the small curve, 2 keys a side, 4 names, 2 datagrams; 3 calls on limbs | `DestroyedInTime`, `TicksOn`, `VerdictIsGroupEquation`, `KeysAgree`, `DatagramsOpen`, `ArithmeticExact` |
| `definitions` | 5 variables, one outside both blocks, one outside the smaller only, one repeated, room for 3; 1 user, 2 searches, 1 rewrite; 7 telemetry handles, 5 definitions, lists of up to 4, words of 2 bools | `CopiesAreTable`, `FindAgrees`, `ArrayCopyWhole`, `SetMatchesRegistration`, `SetPayloadExact` |
| `actions` | a builder and a pipeline, 2 actions, 2 sends, initial values of 2 bits | `DatagramsAsBuilt`, `SentOnce`, `PipelineAccounted`, `SendsResolve` |
| `bson` | 22 byte buffers and vectors, depth 3, trees of 3 to 5 elements; documents of up to 5 entries | `WritesInBounds`, `ReadsWhatWasBuilt`, `ReaderIsCursor`, `ParsedAsDescribed` |

`definitions` and `session_parts` each run machines that share no state, and no property relates them: either
moves while the others are as they began, which leaves every behaviour of each and avoids their product. The fairness
`session_parts` states is that of the timers alone.

Bounds. Three commands are one being written, one queued and one more taking an
id or being called back, with two threads competing for each step. One registration after `close()` finds whatever the
first connection has left, in the queue, in writes and in the map; the proofs are about any number of them. Three rewrites let a reader
meet a rewrite that begins, one that ends and a whole one during its copy, and a malformed one before a good
one; two words are enough to be torn. Two retries show both going round and giving up. Two poppers with two events are
what `notify_one` can get wrong. Two listeners make a batch that adds one and removes the
other, two sessions a loss and what follows it. Two threads and two sessions are both lock orders and a session that is
replaced while its handle is kept; four calls open, replace, close and create a queue. Three bools fill one word of two
and begin the next. A document of 22 bytes overflows at every kind of element. Three calls after an import
reach sums of sums before a product, the deepest the curve code goes. The proofs show that the
proved properties do not depend on these numbers.

Deadlock is checked for `ShmBsonProvider`, whose io thread never stops; the
bounded commands, events, listeners and calls of the others run out, so it is off there.

### Where the code and its documentation disagree

Three runs end in a counterexample. `command_lost` shows that `session.h:289`, by which a blocking command "blocks until reply is received or
connection is lost", is not kept: when the connection is lost nothing calls the stored callbacks
and the caller waits for ever. `added_first` shows that `listenerAdded` is not always "called once and before any
sessionStateChanged calls" (`api.h:42`): a batch that adds a listener and then removes an older one skips it, because the
index compared at `api.cpp:150` is the new end of the list. `changes_announced` shows that `DeviceInfoChanged`, which
`events.h:39` has for "Device information data has changed", may never be sent for a change: `update()` reports a document to the thread
that installs it, and when that is a user's `getDeviceInfo()` the io thread sees nothing new. Other disagreements met while modelling are exceptions in the properties
that pass, which are as strong as the code allows:

* `event_queue.h:84` has the pops return nothing on a closed queue once all queued
  events are popped; a thread woken after a push and a `close()` tests `open_`
  first and returns nothing with the event still there. `PopReturns` asks only that it returns.
* `api_core.cpp:333` adds an initial event "so that everything stays in sync";
  `Session::m_` is released before the queue is registered, and a state change in the
  gap is missed. `DeliveredInOrder` counts from the registration.
* `api.cpp:30` calls `stop()` "to let worker thread to process this new listener"; a `stop()`
  between the processing of the actions and the next `runUntilStateChanges()` is undone by
  `restart()`. `removeListener()`, and `~Api()` in the same way, then wait until the session ends for
  another reason. `RemoveReturnsOrRuns` shows that this is the only way to wait for ever.
* Two wait cycles exist (`WaitCycles`): `createEventQueue()` against `close()` of the active session, and
  `openSession()` destroying, under `Impl::m_`, a session that nobody else refers to.
* A handler that is queued or running when its timer's handle is destroyed restarts an erased timer
  (`DestroyedInTime` says that no other does).
* From the 33rd bool on the words of a telemetry group are or'ed with the words before
  (`SetPayloadExact` is about the first word).
* `startBuilding()` on a buffer that already holds an action writes its header over the first one's
  (`DatagramsAsBuilt` is about buffers where it comes first).
* `action.h:62-65` says that `resizePayload(s)` "increases size of the current action data by the given number of bytes";
  `action.cpp:66` makes `s` the size of the payload. Nothing in the library calls it. `DatagramsAsBuilt` leaves open how long a resized payload is and
  asks that its header states it.
* `session.h:198` documents `error_invalid_session_state` for `registerToControl()` on a disconnected session;
  `session.cpp:325-500` returns it nowhere and tests no state. A session that was closed is connected once more and says `connected_control`, but nobody runs
  its io_context: responses are not read, the queue stops behind the first write, blocking calls do not return, and callbacks of requests sent on the first connection
  stay in the map with nobody to call them. `PendingAccounted` excepts these callbacks; `QueueNotStuck` and `BlockingCallReturns` are about
  sessions that are not closed; `RequestOrder` holds on the second connection too.
* `device_info.h:53-57` says of the name of a control that "if name isn't available, this is same as id"; `parseControls()`
  (`device_info.cpp:90-110`) leaves it empty. `ParsedAsDescribed` says nothing of the name of a control that is given none.
* The parser of a device looks for both ids first and goes on behind `device_uid` (`device_info.cpp:323`): a field in front of it is
  passed over, and nothing says that the order of elements matters. `ParsedAsDescribed` says nothing of a field whose entries all stand there.
* `bson_reader.h:77` and `:89` say of a `seekKey()` or `seekNextKey()` that does not find its key: "The current offset is not changed". That holds
  when the reader is on an element. Before the first one (a new reader, or after `beginSub()`) there is no element to return to, `seek()` refuses or
  lands on the end (`bson_reader.cpp:186-188`, `203-205`, `237-245`), and the reader is at the end of the document. `ReaderIsCursor` accepts that, as `MissAtBegin`.
* After `endSub()` the begin offset is still that of the sub document that was left (`bson_reader.cpp:293`): `seekKey()` searches from
  there, although `bson_reader.h:74` has it search "within the current document", and a search that fails goes back into the sub document. `ReaderIsCursor` is about readers that do not seek then (`Searchable`).
* `variables.cpp:41` computes "bounds for valid data to make sure we don't access memory outside the shared region"; the line for the values (`:43`) subtracts
  their offset from the size of the block of the definitions. Where the two blocks differ, values that end inside the shared memory are
  left out, or values that end outside are shown. `CopiesAreTable` says nothing of a value that ends inside one block and outside the other.
* `variables.cpp:32` calls the test of the offsets a sanity check "to avoid buffer overflows or exploits"; after it `def_chunk_` is null,
  and the next `updateDefinitions()` or `definitions()` follows it (`variables.cpp:76`, `:204`). The model ends there ("fault"), and likewise at the first definition
  beyond the 32 chunks ("overrun", `variables.cpp:82`).

### Fairness

Weak fairness, except where said. `CommandChannel`: as long as some thread in a call can go on, one of them does, and they run out of
steps; the io thread runs some handler when one is due, which the worker's `runUntilStateChanges` loop does as long as the
session is open; TCP and the backend carry or answer something while the connection is up. These are three assumptions, one for each party, and
none prefers a thread, a handler or a command. Nobody need connect, issue a command or close. `ShmBsonProvider`: the periodic timer makes the
io thread call `update()` again and again; a call that began goes on; the backend
may stop for ever and users need not call. `EventQueues`: a `notifyEvent`, `createEventQueue`
or destructor that began goes on and notified threads get to run; no spurious
wakeup and no timeout is relied on. `ApiWorker`: the thread goes on, as timed waits, callbacks and
attempts to open a session all end; a `removeListener()` whose action is complete and a `join()` return. The
backend need neither appear, nor fail, nor answer. `OpenSession`: a thread inside a call goes on when its lock is free; a
registration may never be answered. `ActionBuilder` and `FfbPipeline`: the io thread completes sends while the session is open, and a caller
that was notified goes on. `PeriodicTimers`: the thread calls `runUntilStateChanges()` again and again; expiry and
callbacks are strongly fair, as asio takes handlers in the order they were queued and a stop only interrupts them.
The other modules assume none.

## Proofs

For any number of threads, commands, words, rewrites and retries (the
assumptions are the `ASSUME`s of the modules):

* `CommandChannelProofs`: `TypeCorrect`; `CallbackTarget` (`CallbackTargetLive`),
  `CalledOnce` (`CalledAtMostOnce`) and `OneWrite` (`OneWriteInFlight`). The first
  three rest on `IdInv`, which follows a command id through its holders: a
  thread that took it, the map of callbacks, the io thread, used up. It has to say that
  no two threads hold the same id, that an id is in the map only while its blocking
  caller waits for it without a result, and that an id once called is in no map.
  Type correctness needs part of it (an id in use is below the counter). `OneWrite`
  needs only that a write is outstanding exactly while `send_in_progress` is set (`WriteInv`).
  `RequestsInOrder` (`RequestOrder`), `QueueServed` (`QueueNotStuck`) and `CallbacksOwed`
  (`PendingAccounted`) rest on `SendInv`, relative to the two and to `QueueInv`. It says the same from the moment the socket is open, so before
  the registration is over (`Alive`); what a connection finds when it begins, the first one nothing and one made after `close()` the queue (`Fresh`); that
  an id is accepted once and only by the thread that took it (`AcceptedOnce`); that
  documents are kept only while they are parsed (`BufferUsed`); and, for callbacks, that a write counts only until its bytes have
  arrived (`Owed`), since from then on the backend owes the answer. `QueueInv`, for all connections together, says that what has left the queue, to
  the socket or with a connection before (`Gone`), is not queued again; without it the second connection might carry a request of the first.
* `ShmBsonProviderProofs`: `TypeCorrect`, `NeverTorn` (`NoTornBuffer`), `NeverBack`
  (`RevisionMonotonic`), `NewIsNew` (`NewDataIsNew`), `FreshInfo` (`FreshDeviceInfo`).
  They rest on `ProviderInv`: what the document holds while the counter is even and
  while it is odd (`WriterInv`); that a copy agrees with the counter read first, up to the words to
  go, as long as the counter still has that value (`ReaderInv`); and that no thread
  remembers a revision ahead of the installed one (`InstalledInv`). `NoTornBuffer` alone is
  not inductive: a torn copy waiting to be installed would satisfy it.
  `AtomicRegister` (`ProviderIsRegister`) is the refinement of `DocumentRegister`: one lemma per group of steps says to which step of the
  register it maps (`CommitMaps`, `ParseMaps`, ...), `Phases` how the program points move. It needs `ProviderInv`: that what is installed is one whole
  revision, well-formed and newer than the last, is exactly what `Install` of the register asks for. The runs leave `NewDataIsNew` to it: the register goes to
  `announce` only when it has moved.
* `BsonBuilderProofs`: `BuilderInvariant` and `BuilderWritesInBounds` (`WritesInBounds`), for any sizes, keys, values and nesting.
  `BuilderInv` adds to the bounds the accounting behind `verifyEnoughCapacity`: what is in use is the
  bytes written, the footer, and one end byte for the document and for every open sub document
  (`UsageExact`). Without it a document could not be closed in a buffer that is just full. One lemma per operation
  says what it adds; an action then is a composition of them.
* `SessionThreadProofs`: about the thread that runs a session, its listeners and its timers. `WorkerInvariant`, `NoLateCall` (`NoCallAfterRemove`),
  `RemovedExactlyOnce` (`RemovedOnce`) and `InTurn` (`SessionsInTurn`), for any number of listeners and sessions. None of the three is inductive.
  That a removed listener is not called any more depends on its removal being in the queue only behind its addition, or with the listener in the list,
  and at most once (`Places`); that nothing is called from a stale copy depends on the rest of an iteration being part of the list, except the removed
  ones that wait for their call (`Lists`); that all are removed at the end depends on the queue being empty once the thread has decided to end (`Ends`). What
  a listener is told next depends on what it was told, which says whether it knows of the loss of the session that the thread has given up (`Heard`), and on what the
  thread takes the state of its session to be (`Views`); how often it was told is `Calls`. A queue and a list are sequences without
  repetition, so the proof has lemmas on `Append`, `Tail`, concatenation and what `std::remove` leaves.
  `TimersInvariant`, `DestroyedTimers` (`DestroyedInTime`), `QuietTimers`
  (`QuietAfterDestroy`) and `QuietClosed` (`QuietAfterClose`) rest on an invariant that relates, per timer, the map, the handle and the wait: an erased
  timer has no wait that is pending, one that runs on is `late`; and a session that was closed is stopped unless the check was `stale`.
* `OpenSessionProofs`: `CopyInvariant` and `OneReference` (`RefFromOnePublication`). `CopyInv` says that the backend has
  written one session whole whenever the counter is even (`Whole`), and that a copy began at an even revision and agrees
  with the block field by field as long as the counter has not moved (`CopyInProgress`). The property alone is not inductive: a mixed
  reference may stand between the last read and the comparison.
  `OnlyTwoCycles` (`WaitCycles`) and the action property `ActiveStays` (`ActiveKept`) rest on `LockInv`: which program
  points hold `Impl::m_` and a session's `m_` (`HoldsM`, `Locked`), that a thread in a call on a session has a handle to it or
  destroys it alone (`OnSession`), that sessions are numbered in the order of their creation (`ObjectsInOrder`) and that the active one
  is open unless a thread that has a handle closes it (`ActiveOpen`). The argument about cycles is then that of a
  thread in a waiting set: whoever holds the lock it waits for is in the set, and is either one of the two known cases or not waiting.
* `EventQueuesProofs`: `TypeCorrect`, `PushToLive` (`PushTargetLive`), `InOrder` (`DeliveredInOrder`) and `WakeupNotLost`
  (`NoLostWakeup`). `QueueInv` is the types, the life of a queue (the producer knows it only between `addEventQueue()` and its destructor,
  and threads are in its calls only then, `LifeInv`) and what is still to be pushed by the producer's loops (`LoopInv`). The last two properties are
  inductive relative to it. The number of sleeping threads is counted, so the set of threads that pop is assumed finite (`PopperAssumption`).
* `VariableDefinitionsProofs`: `CopiesComplete` (`CopiesAreTable`), `FindConsistent` (`FindAgrees`) and `ArrayCopiedWhole`
  (`ArrayCopyWhole`), for any table, users, words and rewrites. `VariableInv` has three independent parts: what the chunk holds after
  each step of the refresh loop (`ChunkInv`), what a user's own number of definitions implies about the ones copied (`HandleInv`), and, as for the
  documents, that a copy agrees with the array while the revision it began at stands (`ArrayInv`). That two searches find the same first match needs the
  least element of a set of numbers, from the library's well-foundedness of the natural numbers. What the io thread copies are the definitions that pass the code's test (`InBounds`); `BoundsDecide` shows that this test is right for every
  value about which the two blocks agree, from sizes and offsets below 2^32 (`BlocksAssumption`: `getSize()` returns a `uint32_t`). `CopiesAreTable` is stated by sets and order, as the
  prover knows nothing of `SelectSeq`; `MaxSpins`, the attempts of `atomicCopy()`, is positive as in the code.
* `ActionProofs`: `FfbInvariant`, `Accounted` (`PipelineAccounted`), `NoActionTwice` (`SentOnce`) and `CarriedWhole` (`DatagramsAsBuilt`),
  for any number of builders, actions and datagrams and any payload that the 16-bit size of a header can describe (`MaxPayload`,
  an assumption on the sizes; the code would truncate the size of a larger one, which no UDP datagram carries).
  Lemmas say what each operation on a buffer does (`ExtendFacts`, `FinalizeFacts`, `ResizeFacts`); `StepMove` reduces every step to one of six moves of
  buffers between builders, operations and datagrams, and the parts of the invariant are proved per move. `SentOnce` is not inductive: the
  operation of `sendBlocking()` shares its actions with the buffer of the builder until its caller returns, so the invariant says which operation
  a waiting caller owns (`OwnersWait`), what is apart from what (`HeldApart`) and that numbers of actions are below the count (`AllNumbered`). `DatagramsAsBuilt`
  needs the layout of buffers that are not sent yet (`LayoutInv`): each action follows the one before, and no header is overwritten as long as
  `startBuilding()` is used for the first action only.
  `TelInvariant`, `SetFitsRegistration` (`SetMatchesRegistration`) and `SetLaidOut` (`SetPayloadExact`) are about a telemetry group, for any definitions,
  handles, lists and word size. `TelInv` says that what the group holds is sorted by class, without two handles of one id and defined in the table
  (`Sendable`); that a prepared group is the one whose registration the backend has received last (`Announced`); and that every action in its buffer and on the
  wire was begun with `startBuilding()` and, if it sets values, laid out (`AllBegun`). The properties alone say nothing of a
  registration that was sent and is followed by no values yet. `ConfigureFacts` proves that the sort, `std::unique` and the removal of undefined handles
  leave only what is `Sendable`: equal ids are adjacent because one id has one class. `PacketExact` proves the layout from it: the classes are
  blocks of the sorted list (`Blocks`), a value's offset is the widths before it (`AtNext`), and the rounding of `configure()`, which counts bools
  in pairs of words, is never less than the one of `send()` (`WordsFit`).

Only model-checked: the liveness properties (`BlockingCallReturns`, `EventuallyCurrent`,
`PopReturns`, `RemoveReturnsOrRuns`, `OpenReturns`, `SendsResolve`, `TicksOn`), which are out of the prover's reach;
and everything that rests on a recursive operator or an induction over data: `BsonReader` and the parsers (`ReadsWhatWasBuilt`, `ParsedAsDescribed`,
the refinement `ReaderIsCursor`), the arithmetic and the cryptography (`ArithmeticExact`, `VerdictIsGroupEquation`, `KeysAgree`, `DatagramsOpen`).

## Not modelled

* AES and the compression function of SHA-512: tables and rounds without a state of their own; they are parameters.
  Overflow margins of the 64-bit limbs and the constants of the real curve are beyond TLC's integers.
* `ecdh.c`, which nothing calls, and `init.cpp`, which the build does not compile.
* `compatibility.cpp`: mapping of shared memory and process handling, calls of the operating system.
* Getters of device info and simulator data, property lists, conversions of numbers, time and types, and wording of
  errors: they read what the models have and change nothing.
* The byte level of the TCP stream: `CommandChannel` has whole documents. A document larger than `receive_buffer`, and the
  registration sharing the socket with a command sent meanwhile, are outside the model.
* `poll()`, which is `runUntilStateChanges()` without waiting, and handles of sessions the worker has given up.
* Arrays of more than 100 elements, whose keys the builder writes to the wrong place (`bson_builder.cpp:148`).
* What the program does after it has followed an invalid pointer (`VariableDefinitions`).

## Plan

1. What a listener sees as an abstract specification that the worker implements.
2. The receive buffer at the level of bytes.
3. The lock order of the api worker and `ApiCore` together.
