# Dagger-cpp in TLA+

Dagger-cpp is a C++ network library for Linux in the style "one loop per thread":
non-blocking sockets, an `epoll` loop per thread, and callbacks. This directory
holds a TLA+ specification of its core, the TLC configurations that check it on
small instances, and TLAPS proofs of its main safety properties for every value
of the constants. Paths such as `EventLoop.h:74` are relative to `src/src/`
(`.cpp` files: `src/src/Sources/`).

To repeat everything: `tlc -config <X>.cfg <module>` for each run of the table
below, whose module `PROJECT.json` names, and `tlapm <module>` for the eight `*Proofs`
modules.

## 1. Inventory

### Components, their state and operations

| component | state | operations | module |
|---|---|---|---|
| `EventLoop` (EventLoop.h) | `looping_`, `isInTaskHanding_`, `tasks_` under `lock_`, the eventfd `wakeUpFd` | `start`, `stop`, `runInLoop`, `writeWakeUpFd`, `readWakeUpFd` | `EventLoop`, abstract: `TaskQueue` |
| `Epoller`, `Event` (Epoller.cpp, Event.h) | kernel interest set; `events_`, `revents_`, the four callbacks of an event, raw `Event*` in the kernel | `addEvent`, `updateEvent`, `removeEvent`, `poll`; `make`, `setReadable`, `setWritable`, `handle`, `destroy` | in `EventLoop`, `TcpServer`, `TcpClient`, `FreeServerClient`, `Timer` |
| `EventLoopPool` (EventLoopPool.h) | `loops_`, `nextIndex_`, a counter and a condition variable for the start | `getNextPool`, `setHelperThreadsNumAndStart`, destructor | `EventLoopPool`; `getNextPool` in `TcpServer` |
| `Buffer<N>` (Buffer.h) | `vec_`, `readIndex_`, `writeIndex_` | `append`, `readFromSocket`, `writeToSocket`, `retrieve`, `retrieveAll` | `Buffer`, abstract: `ByteQueue`; `findStr` in `Requests` |
| `TcpServer` (TcpServer.h) | the listening event, the pool, four user callbacks, the codec | `acceptCallback`, `preConnMsgCallback`, `closeConnection`, timed tasks, `stop` | `TcpServer` |
| `TcpConnection` (TcpConnection.h, .cpp) | `writeBuffer_`, `isWillClose_`, `data_`, its event | `send`, `sendNonblock`, `activeClose`, `destroy` | in `TcpServer`, `TcpClient`, `FreeServerClient`; `destroy` under the wheel in `TimeWheeling` |
| `Logger` (Logger.h, Logger.cpp) | `running`, `mutex_`, `currentBuffer_`, `buffers_`, `emptys_`, two condition variables, the file | `log`, `start`, `backThread`, `stop`, `setOutputFile` | `Logger`, abstract: `LogFile` |
| `Timer` (Timer.cpp) | a map from a descriptor to its handler and event, one timerfd each | `addTimedTask`, `addOneTask`, `resetOneTask`, `cancelTimer`, the destructor | `Timer` |
| `TcpClient` (TcpClient.h) | the connecting event, the connection | `connect`, the connect callback, `send`, `closeConnection`, timed tasks | `TcpClient` |
| `TimerWheelingPolicy` (TimeWheeling.h) | a wheel of buckets of connections, the current bucket | `addNewConnection`, `eraseIdleConnections`, `deleteConn`, `destoryThenDeleteConn` | `TimeWheeling`; compiled only with `IDLE_CONNECTIONS_MANAGER` |
| `FreeServerClient` (FreeServerClient.h) | servers and clients by port | `createServerPort`, `createClientConn`, `acceptCallback`, two read callbacks, `closeConnection` | `FreeServerClient` |
| `Codec` (Codec.h) | none | framing checks on the bytes of a buffer | `Requests` |
| `HttpServer` (HttpServer.h) | the services; the request being parsed in the buffer | `handleRtspRequest`, `readField`, `readLastField` | `Requests` |
| `SpinLock` (SpinLock.h) | an atomic flag | `lock`, `unlock` | `SpinLock` |
| `ObjectPool` | free lists behind an early `return` | `makeHeapObject`, `deleteHeapObject` | not modelled: new and delete |
| `Socket`, `InAddr`, `Options`, `TcpSource` | a descriptor, an address | wrappers of system calls | not modelled |

### How they interact

* **Calls and callbacks in one thread.** `EventLoop::start` asks `Epoller::poll`
  for a batch of raw `Event*`, calls `Event::handle` on each, and runs the queued
  tasks. `handle` calls back into `TcpServer` (`acceptCallback`,
  `preConnMsgCallback`), `TcpConnection` (`sendNonblock`) or a timer, which call the
  user.
* **Threads.** The main loop accepts; `getNextPool` gives each connection to the
  loop of a worker thread. The only way from one thread to the loop of another is
  `runInLoop` with its wake-up through the eventfd, and the registration of the
  event of a new connection with the epoller of a worker. The wheel of the main
  thread reads the state of connections without a lock and queues their end to
  their loops.
* **Peers.** A peer may connect, send, shut down or reset at any point; it is seen
  through `accept(2)`, `read(2)`, `write(2)` and the events that `epoll` reports.
  What one `read(2)` returns may be any part of what the peer wrote.
* **The logger** is shared by all threads and has a back thread of its own.

### What is hard, and what correct means

* `EventLoop`: a task accepted by `runInLoop` runs once, in order, and does run,
  although the flag that saves a wake-up is tested outside `lock_`; `stop` ends
  `start`.
* `Buffer`: bytes come out as they went in through any sequence of growth and
  compaction; the asserts on the room made never fail; memory stays bounded.
* `TcpServer`, `TcpConnection`: no thread touches a connection that was deleted;
  output waits armed until it is written; a connection is deleted once, after its
  output; a connection whose peer has closed is deleted; every connection is
  accepted.
* `TcpClient`: a connect is reported, once and truly; the write callback changes hands
  from `connect` to `send` without losing output; refused and closed connections end.
* `FreeServerClient`: the user hears once of the end of a connection; a read error
  does not end one, but its end follows; asserts fail only after a lost connection.
* `Logger`: a logged message gets to the file once, in order, within the time of
  a wait; `stop` returns and leaves nothing behind.
* `Timer`: timers that are cancelled, reset and expire within one batch leave the
  others alone although descriptor numbers are used again; a timer that was set runs.
* The wheel: an idle connection is found in time whatever the buckets turn to; its
  objects are deleted once although its loop may close it at any moment of the
  sweep; what is closed or idle is deleted.
* `Codec`, `HttpServer`: however TCP cuts the stream, each message reaches the
  callback once, whole, and none waits longer than the code means it to.
* `EventLoopPool`: the start returns with every loop ready, the destructor with every
  thread ended. `SpinLock`: mutual exclusion.

`PROJECT.json` lists each hazard at its line, with the properties that cover it or
the reason why none does.

## 2. The modules and the code

State keeps the names of the source without the trailing underscore. Every action
is a handler or a critical section; it contains every call that the code makes
there. A definition whose comment calls it a *slip* is a wrong variant of the
definition after it; the mutation runs put it in the place of the correct one, and
no specification uses it otherwise.

### EventLoop, TaskQueue, EventLoopProofs

One loop thread, any number of callers. The loop is a sequence of steps of
`start()`: `CheckLooping`, `Poll`, one `HandleWakeUp`/`HandleSource` per event,
`BeginTasks` (the flag), `SwapTasks` (the critical section), `RunTask`/`TaskReturns`
per task, `EndTasks`. A caller is in `runInLoop` (`Push` under `lock_`, `TestFlag`
outside it, `WriteWakeUpFd`) or in `stop` (`Stop`, `WriteWakeUpFd`); callbacks and
tasks of the loop call too. The eventfd is a counter that `WriteWakeUpFd` adds an
uninitialised word to (`EventLoop.h:63` writes a `tmp` it never assigns): `WakeWord`
is the set of values it may have. `PollInterrupted` is `epoll_wait` failing with
`EINTR`. `TaskQueue` is the promise: submit once, execute the oldest. The refinement
maps its queue to `curTask \o tasks`.

### Buffer, ByteQueue, BufferProofs

A call is one step, because a buffer has one owner, except `readFromSocket`: one
step per `read(2)`, since it calls itself with twice the limit while the peer fills
it. Growth, compaction and the three asserts are in `Fill` and `Retrieve`;
`WriteToSocket` retrieves what `write(2)` took. The readable bytes are moved with
`memcpy` on ranges that may overlap, which is undefined: `MemcpyOrder` says which
directions of copying the build may produce.

### TcpServer, MCTcpServer, TcpServerProofs

The connections (`conn`, one record per connection with the fields of
`TcpConnection` and its `Event`), the sockets as the kernel has them (`sock`), the
backlog, and per loop the batch that `poll` returned. A loop is here what
`EventLoop` shows of it: poll, then one event at a time. A callback is one step,
because one thread serves a connection; `acceptCallback` is not, because it hands
the connection to another thread in the middle: `Accept`, `SetReadable`,
`Established`. It leaves its loop on every `accept(2)` that does not give a descriptor
above 0 (`TcpServer.h:170-172`, `Socket.cpp:53-61`). That has three forms:

* `AcceptFails`: `EAGAIN` with an empty backlog, or an error for want of descriptors or
  memory, which may come with connections waiting and leaves them where they are;
* `AcceptAborted`: `ECONNABORTED`, which takes away a connection its peer has reset;
* `AcceptZero`: the connection gets descriptor 0, which the code takes for an error and
  neither uses nor closes. The number is the lowest free one, so this needs a program
  that has closed its standard input (`ZeroFree`), and happens once.

`IsAccepted` says that the connections left in the backlog are accepted by a later
callback: the listening event stays ready.

The methods of a connection (`Send`, `CloseConnection`,
`SendNonblock`, `Destroy`...) are operators from a record to a record, so that the
proofs can speak of them one by one. Users' callbacks do one of `MsgUses`: nothing,
send, close, or a last answer followed by a close (as `tests/example_server.cpp`
does); timed tasks do one of `TimerUses`. A failed assert is a value of `failed` and
ends the process: no step of the server follows, so what a build with `NDEBUG` would
do then is not explored. `misused` is a history variable: a deleted object was used.
`MCTcpServer` puts two programs into one run: the one its constants give (a pool of
loops) and `Single`, which has no pool, an established callback, timed sends and longer
output.

### TcpClient, MCTcpClient, TcpClientProofs

The client with an empty pool, so that `connect()` and the callbacks share one thread
and are one step each. `connect(2)` may be under way when `Connect` ends, or it may have
failed at once (stage `"failed"`, as with `ENETUNREACH`): `Socket::connect` logs such an
error and returns as if nothing had happened (`Socket.cpp:103-106`), `connect(2)` has
already reported it, so `SO_ERROR` is 0 when `checkHasError` asks, and the socket is
writable. `TcpClientFailedConnect` is what follows: the user hears of a connection that
was never made. A connect that is refused *later* is what `RefusalIsHeard` is about.

`writeCallback` says what the write callback of the event
does: the one that `connect` sets waits for the connection, the one that `send` sets
writes; both use the flag `"out"` of `interest`. `Send` therefore leaves an event that
is writable as it is (`TcpConnection.cpp:42`): the client sends too early if it sends
before `state()` is `ESTABLISHED`, and `Connected` then clears the flag under its
output. `AskState = TRUE` is a program that keeps to this; with `AskState = FALSE`
and `Use = {"send"}` (the message callback of `examples/ping-pong/client.cpp`) TLC
finds `OutputIsArmed` violated by a message that is read before the connect callback
ran. `TimedTask` is a task of `addTimedTask` that sends, between any two events of a
batch. The socket has the pending error (`error`, `SO_ERROR`) apart from `down`,
because `read(2)` takes it away from `checkHasError`. `MCTcpClient` has `TcpClient` and
a `Buffer` side by side; the initial state chooses one of them.

### FreeServerClient, FreeServerClientProofs

One loop with connections it accepts (`Served`) and connections it asks for
(`Asked`), each with callbacks of its port. `connect(2)` blocks here, and its failure
only goes to the log, so `CreateClientConn` goes on with a socket that is down. A read
error is not the end: `HandleErrorServed` calls the error callback unchecked, and then
the message callback on a connection that may be gone (`FreeServerClient.h:173-181`).
Only `acceptCallback` sets `destoryCallback_`, so `ActiveClose` tells nobody of the end
of an `Asked` connection. Every callback of the program, and every timed task, does any
of `Uses`: nothing, send, close, or a last answer followed by a close; a port may be
given no message callback or no error callback. Where the code goes on with an object
that such a callback has deleted, the model does (`dangling`): `createClientConn` after
the established callback (`:64`, `:85`), and the loop with an event that a timed task
has deleted since the poll (`HandleDeleted`, `EventLoop.h:30`). After a failed assert, the
call of an empty callback or the use of a deleted object no step follows.

### Timer, TimeWheeling, MCTiming, TimingProofs

`Timer` keeps the kernel's timerfds by descriptor number, the handlers, and the map
`um_`, in which a number that is there already keeps its old handler. A cancel closes
the descriptor and then throws: `shared_from_this` of a privately inherited base has no
owner (`Timer.cpp:87`), so the entry of the map stays. The specification is of a
program that catches the exception; `Destructor` shows what happens otherwise.
`CancelCopy` is `TcpServer::cancelTimer`, which takes the timer by value
(`TcpServer.h:97`). A read callback reads a blocking timerfd: `HandleBlocks` is the loop
waiting in it, `Unblock` the end of that wait. The callback of a single timer is two
steps, `RunTask` and `EndTask`, because it unregisters its number only after `task()`
(`Timer.cpp:49-51`): in between (`inTask`) the task itself may cancel its timer, add
another one, which is given the same number (`heir`), and lose it to `EndTask`. An
interval of 0 is allowed (`Timer.cpp:17`): such a timed task is called once.

`TimeWheeling` has two kinds of threads: the main thread accepts and sweeps a bucket
each second, and the loop of a connection receives, closes, and runs the tasks the sweep
queued. The sweep of one connection is a step for each thing it reads or writes that the
other thread may change: `Look` and `LookAgain` (the two reads of `state_`), `TestIdle`
(`lastReceiveTime`, and the move to the current bucket) and `QueueDestroy`. A closed
`TcpConnection` is left to the wheel to delete, so its life hangs on
the two tasks `"delete"` and `"destroy"`. Such a task may find its loop asleep without
being woken, for the reasons that `EventLoop` has (the flag, the word that is not
initialised): it is then `unheard` until the loop has another event. Instead of
`lastReceiveTime` and `timeInProcess` the module keeps their difference, `silence`, up to
the first value that counts as idle. `source` says who creates the timer:
`FreeServerClient` sets its `it_value` to 0 although the comment beside it says once per
second (`FreeServerClient.h:126-129`), which disarms it; `FirstTick` is that value, and
with it no connection of a `FreeServerClient` is ever found idle. The two
modules share nothing; `MCTiming` puts them side by side, with the timers of the
program (`Handler`) as a constant.

### Requests

`Codec` and `HttpServer` on one connection. The initial state chooses a codec model and
the messages the peer sends; `Read` is one call of the read callback with any number
of symbols: it appends, asks the codec once (`Check`, which leaves `Checked` in the
buffer), and handles once. A symbol is a delimiter,
a terminating zero, or a token, so that `Seek`, `Skip`, `FieldEnd`, `ReadField` and
`ReadLastField` follow the pointer of the code position by position, in place, with
the zeros it writes. A pointer that runs past the end of the request is `"lost"`, after
which nothing is claimed. The library has no callback for messages with a length or of a
fixed length; `HandleCounted` is one that knows what the codec really leaves in the
buffer. `Codec.h` says otherwise in two comments: `RequestsLength` and `RequestsFixed`
show both.

### Logger, LogFile, MCLogger, LoggerProofs

Threads that log (`Log`, one critical section), the back threads that each call of
`start()` adds (the test suite calls it once more than the constructor), and
threads that call `stop`. `mutex` only has an owner across steps in the last part
of `backThread`, which writes the file with `mutex_` locked. `cond_` needs no state:
its wait times out, so a notification only makes it earlier. `LogFile` is the
promise: what is in the file was accepted, and is there once. `MCLogger` has four
messages and their sizes.

### EventLoopPool, SpinLock, MCParts, PartsProofs

`EventLoopPool` follows the owner (create the threads, wait for `cnt`, later stop the
loops and join) and each worker (`init`, count and notify, `start`). What happens under
`mu_` is one step; the test of the predicate and the beginning of the wait are one
step because `mu_` is held between them. Of `loop.start()` it keeps what a stop needs:
`TestLooping`, the poll, and `WakesUp` by the eventfd. `HandlesEvents` is another event,
which need not come. `stop()` is two steps, `looping_` and `WriteWakeUp`, and the word
written may be one that wakes nobody (`EventLoop.h:63`), which `lost` records.
`SpinLock` has a step for each access of the flag.

These, `EventLoop`, `Logger`, `Requests` and `FreeServerClient` share nothing: `MCParts`
puts them side by side, with their constants as its own, and the initial state chooses
which one runs. TLC explores the union of the parts, never their product; the theorems
about it are for every value of the constants.

## 3. The runs

| run | bounds | what it shows |
|---|---|---|
| `TcpServer` | 2 connections. Given program: 2 worker loops, resets and half-closes, descriptor 0 free, 1 byte of output. `Single`: no pool, established callback, timed sends, half-closes, 2 bytes of output | `NoUseAfterFree`, `ClosedByItsThread`, `OutputIsArmed`, `DeletedAfterOutput`, `EofIsClosedByWorkers`, `IsAccepted` |
| `TcpClient` | `TcpClient`: 2 connections that are accepted, refused, reset, half-closed or fail at once, timed sends, 2 bytes of output. `Buffer`: a vector of 2 to 9 bytes, chunks of up to 4 bits, first limit 2 | `RefusalIsHeard`, `OutputIsArmed`, `IsTold`, `EofIsClosed`; `RoomIsEnough`, `ImplementsByteQueue`, `GrowthIsBounded` |
| `Parts` | `EventLoop`: 3 tasks, 2 callers and the loop itself, 1 descriptor that keeps firing, a counter of 2, every word | `LoopTypeOK`, `FlagCoversTasks`, `ImplementsTaskQueue`, `TaskIsExecuted`, `StopEndsLoop` |
| | `Logger`: 3 of 4 messages of 1, 1, 2 and 4 bytes, buffers of 3 bytes, 2 back threads, 1 stop | `WrittenInOrder`, `NothingLeftBehind`, `BuffersFit`, `ImplementsLogFile`, `IsWritten` |
| | `SpinLock`: 3 threads; `EventLoopPool`: 0 to 3 workers | `MutualExclusion`; `ReadyOnReturn`, `NoThreadLeft`, `CallsReturn` |
| | `Requests`: up to 2 messages of each codec model, cut anywhere | `HandledAsAsked`, `FramingKept`, `WaitsForSurplus` |
| | `FreeServerClient`: a served or an asked connection, 2 bytes of output | `ToldOfEnd`, `FailsOnlyWhenDown`, `EndIsClosed` |
| `Timing` | 2 connections on a wheel of 3 buckets, served by either class; 2 timers of either kind, with and without an interval | `NeverDangling`, `TwiceIfOvertaken`, `FoundInTime`, `IdleIsDeleted`; `OwnDescriptor`, `CancelIsFinal`, `OneTaskRuns` |
| `EventLoopFlagRace` | 1 task, 1 caller, a useful wake-up word | **violated**: `NoTaskSleeps` |
| `TcpServerAccept` | 1 connection, 1 worker, established callback | **violated**: `NoUseAfterFree` |
| `TcpServerLostClose` | 1 connection, no pool, timed sends | **violated**: `EofIsClosed` |
| `TcpClientFailedConnect` | 1 connection | **violated**: `EstablishedTruly` |
| `LoggerStop` | 1 message, 1 back thread, 1 stop | **violated**: `StopReturns` |
| `RequestsLength` | 1 message | **violated**: `LengthIsTaken` |
| `RequestsFixed` | 1 message | **violated**: `CompleteIsHandled` |
| `TimeWheelingTwice` | 1 connection on a wheel of 3 buckets | **violated**: `NeverTwice` |

Where a run names several modules, its initial state chooses one of them and the others
stay as they are: the state space is the union of theirs. The violated runs of
`TcpClient`, `Requests`, `EventLoop` and `TimeWheeling` are of the module itself.

Why the bounds are enough to be interesting:

* Three tasks are one running, one in the swapped vector and one in `tasks_`; a counter
  of 2 is exceeded by two wake-ups.
* A buffer of two bytes with chunks of four makes each case of growth, compaction
  with overlap and the recursive read happen within three calls.
* Two connections on two workers (or on one loop) are the least that can disturb each
  other through the batch, the index or the accepting thread, and the least of which one
  can be left in the backlog by an error that another one met; two bytes of output give
  partial writes.
* Two messages fit a log buffer, the third does not, and one is longer than a buffer so
  that the unsigned difference wraps (`SizeMax` stands for the largest `size_t`). Any
  three of the four are logged (`LogsFew`), the two of the same size in one order: two
  buffers on their way to the file, one for each back thread, and a third that is being
  filled.
* Three buckets are the current one, the one to be checked and one that must be empty
  between them; two connections can be in the same bucket while one of them is closed
  under the sweep. Two timers are one that is cancelled and one that gets its number.
* Two messages in one stream are what it takes for one read to hold the end of one and
  the beginning of the other, for each place TCP may cut; the header values are a single
  word and several words, the case in which `readLastField` goes wrong.
* The connections of `FreeServerClient` only share the batch, and what one does to
  another through it is `HandleDeleted`, which a timed task can bring about for a single
  one: `OneUsed` takes one connection of either kind.

`MaxSize`, `MaxOut`, `MaxAsked`, and "each task, connection, message or timer once" are
bounds of the model, not of the code; `readFromSocket` has no bound of its own.

Several properties name their exemption, and each exemption is what the code does:

* `CloseForgotten` in `EofIsClosed` of `TcpClient` and in `EndIsClosed`: `send` assigns
  `isWillClose_` (`TcpConnection.cpp:41`), so a task that sends after a postponed close
  makes the connection forget it. `TcpServerLostClose` is that case by itself, and
  `EofIsClosedByWorkers` leaves `Single`, which has such a task, out for it.
* `IsAccepted`: a connection that its peer has reset in the backlog, and the one that got
  descriptor 0, never get a `TcpConnection`. `EofIsClosed` of the server leaves them out.
* `RefusalIsHeard` and `IsTold`: a connect that failed at once is reported as made.
  `TcpClientFailedConnect` is that case.
* `FailsOnlyWhenDown`: a `write(2)` that fails returns -1, which is passed to
  `Buffer::retrieve(size_t)` and fails its assert (`TcpConnection.cpp:21-29`), and the
  error callback of a port that was given none is an empty `std::function`: both need a
  peer that is lost. With the peer there the code fails for a program that is `Careless`
  in one of three ways: a port without a message callback (`FreeServerClient.h:180`), an
  established callback of `createClientConn` that ends its connection (`:64`, `:85`), or
  a timed task that ends one whose event the loop still has to handle
  (`EventLoop.h:30`). The property says that there is no fourth. `ToldOfEnd` leaves out
  the last of the three for what it says of the batch.
* `ToldOfEnd`: an asked connection that ends through `activeClose` is not told.
* `missed` in `IdleIsDeleted`: a connection whose loop closes it between the two reads of
  `state_` is in no bucket any more and is never deleted (`TimeWheeling.h:28, 30`).
  `unheard`: one whose task is queued to a loop that was not woken for it waits for the
  next event of that loop, which need not come. `FirstTick > 0`: the timer of a
  `FreeServerClient` never fires.
  `overtaken` in `TwiceIfOvertaken`: a connection closed after the second read of its
  state and before the end of the task `"destroy"` has its event deleted twice, which
  `TimeWheelingTwice` shows; the property says that no other close is dangerous.
* `Robbed` in `OwnDescriptor` and `OneTaskRuns`: the event of a cancelled timer is still
  in the batch, the timer was cancelled as a copy, or its own task has cancelled it and
  added another one (`heir`): its number has a new owner, whose event may be
  unregistered. `Held` in `OneTaskRuns`: the loop waits in `read(2)` of a timer that was
  reset, cancelled or robbed since the poll; a loop that waits in any other is not
  exempted.
* `lost` in `CallsReturn`: the destructor waits for ever for a worker that polls and was
  sent a word the eventfd takes no notice of.
* `FramingKept`: only a last header of several words leads the pointer past the request.
  `WaitsForSurplus`: one read leads to one callback (`TcpServer.h:161`). It says nothing
  of messages of a fixed length: those wait for a byte more than their size
  (`Codec.h:62`), which `RequestsFixed` shows.

Deadlock is only checked in `EventLoopFlagRace`, where a loop that sleeps can always be
called. Everywhere else the system may really stop: a buffer whose assert
failed or whose next growth would exceed `MaxSize`, a server or client none of whose
peers does anything, a logger whose last back thread has blocked itself (see
`LoggerStop`), a pool that is gone, a stream that was read, timers that are all over.

### What the violated runs say

* `EventLoopFlagRace`: `runInLoop` does not wake the loop while `isInTaskHanding_` is
  up, but the loop has swapped `tasks_` out by then and sleeps without looking
  again (`EventLoop.h:74`). Only another event saves the task; that is why
  `TaskIsExecuted` is checked with a periodic timer.
* `TcpServerAccept`: the established callback of a server with a pool gets a
  connection that the worker may have deleted already (`TcpServer.h:187-190`).
* `TcpServerLostClose`: `send` resets `isWillClose_`, so a send after a postponed
  close loses the close (`TcpConnection.cpp:41`).
* `TcpClientFailedConnect`: an error of `connect(2)` is only logged, and the established
  callback is called for a connection that does not exist (`TcpClient.h:53, 83`).
* `LoggerStop`: `backThread` locks `mutex_` twice and `stop` waits for ever
  (`Logger.cpp:130-137`).
* `RequestsLength`: the comment at `Codec.h:39` says that the length is taken from the
  buffer; the code only looks at it.
* `RequestsFixed`: the comment at `Codec.h:60` says that a message of `size` bytes is
  complete with `size` bytes; the code at `:62` wants one more.
* `TimeWheelingTwice`: the deletion of an idle connection is left to its worker
  (`TimeWheeling.h:27`), the decision is not: after a close in between the event is
  deleted twice (`TimeWheeling.h:30-37, 61`).

Each has a row under `findings` in `PROJECT.json` with the comment or test it
disagrees with. One disagreement has no run of its own: the comment at
`FreeServerClient.h:126` says that the timer of the idle connections fires each second,
and `:129` sets an `it_value` of 0, which disarms it. `FirstTick` is that line.

### Fairness

* Threads: weak fairness of each loop's own steps and of each call that has begun;
  the operating system schedules each thread, and nothing in them spins. The main
  loop of `TcpServer` and its `acceptCallback` are one thread, so one condition.
* Callbacks and tasks of `EventLoop` end: `[]<>(pc \notin {"callback", "task"})`. They may
  call `runInLoop` and `stop` as often as they like before.
* `TickingSpec`: the registered descriptor fires again and again, as the periodic
  timer of `tests/example_server.cpp` does. `TaskIsExecuted` and `StopEndsLoop` are
  checked under it and under nothing weaker: it makes up for every wake-up that
  `runInLoop` and `stop` fail to give, so these two say what the loop does once it is
  awake. That it may stay asleep is said by `EventLoopFlagRace`, and for the word that is
  not initialised by the condition of `StopCorrect` in section 4. No other
  component is given this assumption.
* `accept(2)`: strong fairness of `Accepts`. A shortage of descriptors or memory may make
  it fail each time for a while, but not for ever.
* Peers keep reading what they are sent (`PeerReads`), and a `connect(2)` ends one way
  or the other; peers need not send, close or connect. Without the first a full send
  buffer keeps a connection for ever.
* `FreeServerClient`: besides, `HandleAccept`. The event of a port stays ready while a
  connection waits; with one `accept` for each poll every connection has its turn.
* Back threads of the logger run and their `wait_for` ends; no wake-up of `stop` is
  assumed, neither spurious nor otherwise.
* The wheel: seconds pass and the sweep goes on (`Sweep`), and a loop runs the tasks
  for which it was woken. `WF(RunTask(c) /\ c \notin unheard)` asks nothing of a loop that
  was not.
* Timers: an armed timerfd expires, and the loop runs. A loop that waits in `read(2)` of
  a timerfd nobody arms is not made to return.
* `EventLoopPool`: threads run while they are not blocked, and `epoll_wait` returns
  while the eventfd is readable. No other event of a worker is assumed (`HandlesEvents`
  has no fairness). Nothing is assumed of the spin lock, of which only mutual exclusion
  is claimed.

## 4. The proofs

TLAPS checks every leaf with its SMT and Zenon backends, temporal steps with LS4.

**EventLoopProofs** assumes `EventLoopAssumption` (the loop thread is no caller, the
eventfd is no source, wake-up words fit eight bytes). `TypeCorrect` is inductive as
it stands, with one step per action. `FlagCorrect` is proved on top of it.
`Refinement` shows that `SwapTasks` stutters (the two sequences only change their
border), `RunTask` is `Execute`, `Push` is `Submit`, using lemmas on
concatenation and `FlagCoversTasks` to know that `curTask` is empty at the swap.
`StopCorrect` is what `StopEndsLoop` rests on: a stopped loop that polls has a wake-up in
the eventfd, or a caller that is about to write one (`StopIsHeard`), however full the
eventfd is. It says so for the words that the kernel adds up (`WakeWord` within
`1 .. EfdMax`): `tmp` in `writeWakeUpFd` is not initialised, and with 0 or 2^64 - 1 in it nobody
is woken. `OwnCalls` (the loop thread calls from its callbacks and tasks only) is the
strengthening.

**BufferProofs** assumes `BufferAssumption`. The inductive invariant adds to
`TypeOK` that an assert, once failed, is only the one in `retrieve`. `AssertsHold` and
`GrowthCorrect` follow for every `N`, every limit and every chunk. `Refinement`
additionally assumes that `memcpy` copies upwards (`MemcpyOrder = {"up"}`): the
standard leaves overlapping ranges undefined, and with a downward copy TLC refutes
the refinement, so the theorem states what the code relies on.

**TcpServerProofs** is about programs that are *careful*: an established callback
only without a pool, and no close from a timed task. `TcpServerAccept` refutes the
statement for the first kind; for the second a timed task may delete a connection
whose event is still in the batch (`EventLoop.h:30`). There is no assumption about
peers. The properties are not inductive alone. `IInv` strengthens them with

* `ConnsOK`: what the fields of one connection say about each other: a postponed
  close belongs to the thread of the owner, a live connection is registered, a
  deleted one was reported once and has no output;
* `BatchesOK`: a batch holds only live connections of its own loop, which is what
  makes deletion by that loop safe;
* `BacklogOK`: a connection waits once and before it has an object;
* `AcceptOK`: until `setReadable` nobody else reaches the new connection: it has no
  interest, so its revents have no "in" or "out".

The proof has a lemma per method of a connection (it keeps `ConnsOK` for that
connection), one lemma for everything that takes an event from a batch, and one
per action. The theorems are `TypeCorrect`, `MemoryCorrect`, `OutputCorrect`,
`CloseCorrect` and `ThreadCorrect`, and two that the liveness properties rest on.
`NoneIsForgotten`: whatever `accept(2)` returns, a peer that has connected is in the
backlog until there is a `TcpConnection` for it; only a connection that was reset in the
backlog, and one that was given descriptor 0, leave it otherwise (`InBacklog`, needed by
`IsAccepted`). `EndCorrect`: the end of a
live connection is ready at the loop that owns it, or `acceptCallback` is about to arm it,
or the connection was closed already and waits for a peer that does not read
(`EndIsHeard`, needed by `EofIsClosed` and `EofIsClosedByWorkers`). Its invariant `EndInv` says that a connection
listens to its peer or has its close before it, and that what a batch reports readable is
still listened to. It assumes that no timed task sends: `send()` clears `isWillClose_`
(`TcpConnection.cpp:41`), which forgets the close of a connection that no longer listens.

**TcpClientProofs** has the same layout: lemmas on `Send`, `CloseConnection`,
`Connected`, `SendNonblock`, then one per action. `ConnsOK` relates a connection to its
socket (output and a reported connect need a socket that is up, or one whose
`connect(2)` failed at once; a refused connect keeps
its error until the connection is deleted) and says when the write callback is still the
one of `connect`; `BatchOK` says that what a batch holds is live and was asked for.
`TypeCorrect`, `ToldCorrect` (which is `RefusalIsHeard`) and `CloseCorrect` hold for every
program; `OutputCorrect`
assumes `AskState`, without which it is false (see `TcpClient` above). The part of
`ConnsOK` that only holds under `AskState` is guarded by it, so that one invariant serves
both. `EndCorrect` is as for the server, but for every program: its exceptions are those of
the code, a close that waits for its output and one that a timed send made the connection
forget. `ConnectCorrect` says that a `connect(2)` that has ended is ready to be written and
still has the write callback that tells the user, if the program asks for `state()`
(`AskState`): otherwise a `send()` before the connect puts its own callback there. Both
follow from `KeptInv`, and `EofIsClosed` and `IsTold` rest on them.

**LoggerProofs** is for every number of messages, back threads and stoppers and every
size of a buffer. `OnePlace` says that a message is in one place only: the current
buffer, `buffers_` or what one back thread took. `PlacesOK` says who may hold anything:
a back thread past its loop keeps `mutex_`, and the `buffers_` it drained is not
counted again (`Queued`). With them each step maps to `LogFile`: `Log` is one accepted
message, `WriteBuffer` is a write of the messages of one buffer, and everything else
moves messages from place to place and stutters. `Refinement` is
`Spec => ImplementsLogFile`; `RescueCorrect` is the end of `backThread`. With the same
mapping `OnceCorrect` adds what the log file knows of its messages: the accepted ones are
those that are pending and those that are written, no message is both, and none is written
twice.

`OrderCorrect` needs to know where each message of each buffer stands in the order of
the calls: `Spells(bs, s, n)` says, without a recursive concatenation, that the buffers
`bs` one after the other are the sequence `s` from its position `n` on, with the place
of each buffer as a witness. While only the first back thread exists (`Alone`), what it
took, `buffers_` and the current buffer, in this order, spell what was accepted and is
not yet written (`InOrder`). `FitCorrect` is about a sum over a buffer, `Bytes`, which
is a recursive function: `AreSums` describes the partial sums of a buffer, `SumsExist`
and `BytesAreSums` show, by induction on the length (`EveryNumber`, from the
well-founded order of the numbers), that they exist and end in `Bytes`. With
`BytesOfLonger` (one more message, its size more) the test of `log()` for room, with the
unsigned difference that may wrap, is what `FitOK` needs (`RoomIsReal`).

**FreeServerClientProofs** is for every set of accepted and asked connections that have
none in common (`Apart`), and for every program: whatever its callbacks and timed tasks
do. Its lemmas are about the methods of one connection, which keep
`ConnOK`: a deleted connection has no interest, no output, and was told of its end once,
or never if it was asked for and `active`. `SockOK` relates a connection to its socket and
to the callbacks of the port:
whatever failed an assert, called an empty callback or was used after its delete has a
socket that is down, because an error is a reset that was not yet read and only a
`write(2)` to a peer that is lost returns -1, or belongs to a program that is `Careless`.
A deleted connection is in the batch only if a timed task has ended it.
`ToldCorrect` and `FailsCorrect` follow. `EndCorrect` is the theorem of
that name of `TcpClientProofs` for connections of both kinds on one loop (`AllAttend` is its
invariant); `EndIsClosed` rests on it.

**PartsProofs** is about `PartsSpec`, with the assumptions of `MCParts`.

* `StartIsReady` and `NoneIsLeft`, for any `MaxThreads \in Nat`. `cnt` says how many
  threads are ready, the property says which: `CountInv` makes it the cardinality of the
  set of workers past `init`, a subset of those created, and equal cardinality makes the
  two sets equal (`AllCounted`).
  `NoneIsAwaitedInVain`: while the owner waits on `cv_` without a notification some worker
  has yet to count itself; and the thread it joins has ended, is about to test a
  `looping_` that is false, or polls with its eventfd readable or its wake-up lost
  (`OwnerGoesOn`, with `WaitInv`: the predicate is tested under `mu_`, and no loop is
  initialised after it was stopped). `CallsReturn` rests on it.
* `LockExcludes`, for any set of threads: the inductive invariant adds `HeldIsLocked`
  (the flag is up while a thread holds the lock). `LockIsHeld` is the converse: the flag
  is up only while a thread holds the lock, so nobody spins for what no one will lower.
* `EndIsTold` and `OnlyLossFails` take the theorems of `FreeServerClientProofs` over:
  `PartsSpec` implies the specification of each part, whatever runs beside it
  (`PartIsFreeServerClient`, `PartIsSpinLock`). Its instance and the one of `MCParts` are
  two names for the same definitions, which `SameNext` and the lemmas before it spell out.

* `RequestsAreHandled`, `FramesAreKept` and `SurplusWaits` are for lists of messages of any
  length (no assumption on `MaxAsked`) and every way in which TCP cuts them. The invariant
  `RequestsInv` says, with `RestIsThere`, that what is in the buffer, followed by what is
  unsent, is `Left`: the text of the messages that were not handled. So the buffer is always
  a prefix of the text of the next message and those behind it, and a step needs to know
  what the codec and the parser make of such a prefix. `CheckIs` says that the codec sees a
  message exactly when it is all there (one byte later for a fixed length, of which
  `WaitsForSurplus` therefore says nothing); for HTTP because
  the first blank line of a request is its end (`BlankIsLast`, `FoundAtEnd`,
  `NotFoundBefore`). `RequestParsed` follows the pointer through the request: `SeekFacts`
  and `SkipFacts` say where its loops stop, `HeadersAreFrom` that the recursive `Headers`
  has a value at each position (the next header is always a later one, `NextIsLater`), and
  `HeadersParsed` where the headers end. With one word in each value they are those that
  were sent and the zero is the end; a last value of several words leads the search for the
  next colon past the zero (`"lost"`). The texts themselves are recursive (`FlattenSeq`):
  `AreJoins` describes the partial joins, and induction on the number of texts
  (`EveryNumber`) shows that they exist and that the first text is in front
  (`FlattenFirst`). `FewWait` counts: while the codec sees nothing, more is unsent than the
  messages behind the next one need, so none of them has arrived (`NoneWaits`). The messages
  are those of the model: four lists of headers, one digit of a length.

**TimingProofs** is about `TimingSpec`.

* `TypeCorrect`, `PointersCorrect`, `DeletesCorrect` and `SweepCorrect` are for every set
  of connections and every wheel of at least two buckets. Why no connection is deleted
  twice is not in any one action: the main thread may look at a connection only because
  nobody has claimed it for a delete, and claiming it is what takes it out of the wheel.
  `HoldsOnce` says so: the wheel and what is left of the sweep hold each live connection
  without a queued task, and hold it once. `ConnsOK` gives what may be queued (at most one
  task, and `"delete"` only for a closed connection). `SeenOK` carries the second read of
  the state over the steps that follow it: the connection is as it was seen, or was
  overtaken. `NeverDangling` and `TwiceIfOvertaken` follow. `FoundInTime` needs `AgesOK`: only the current bucket and the
  one before it hold anything, and between sweeps the current one holds what was put there
  this second. Its lemma `Turn` is the arithmetic of the hand: after `timeElasped` the
  bucket that was current is the one to be checked.
* `DescriptorIsOwn` and `CancelledIsOver` are for every finite set of timers. A descriptor
  number says nothing of its owner: it may be closed by a copy of a timer that was
  cancelled before, or its event removed by a task that runs late or has cancelled its own
  timer. `Owned` therefore
  speaks of the timers that *hold* their number: not cancelled, and nobody who had the
  same number was cancelled as a copy or ran late (`Clean`). Two of them never have the
  same number; each has its descriptor open, periodic if it has an interval, and with its
  own event if it is no heir. `RunningOK` is about the task at work: the number that
  will be unregistered at its end is held by itself or an heir only. A step of one timer
  (`OneTimerKeeps`) cannot disturb another one that holds its number: had both the same
  number, one of them would not hold it, and whoever does not has made it unclean.
  `Registrations` (the epoller has no event of a cancelled timer) is what makes a cancel
  final, since only `Poll` puts events in a batch.

**Only model-checked.** Liveness (`TaskIsExecuted`, `StopEndsLoop`, `IsAccepted`,
`EofIsClosed`, `EofIsClosedByWorkers`, `IsWritten`, `IsTold`, `CallsReturn`,
`IdleIsDeleted`, `OneTaskRuns`, `EndIsClosed`): fairness is out of the prover's reach. What is proved of several of them
is the invariant they rest on, for every value of the constants: whenever something has to
happen, the event, the wake-up or the notification that makes it happen is there, or the
property exempts that it is not (`StopCorrect`, `NoneIsForgotten`, `ConnectCorrect`, `NoneIsAwaitedInVain` and the theorems
`EndCorrect`). That it does happen, under the fairness of section 3, is what TLC checks.
Every safety invariant and action property that a passing run checks is a theorem.

## 5. What is not modelled

* `TcpServer::stop` and `FreeServerClient::stop` (every program of the repository ends
  with its process; `HttpServer.h:70` calls it in a destructor, after the loop), and
  the options of constructors.
* Worker threads in `TcpClient` and `FreeServerClient`: `connect()` arms the event before
  it returns, so that the main thread races with the loop of the connection over its
  state, its write callback and its life (`tests/example_client.cpp:17` describes the
  last).
* A second call of `setHelperThreadsNumAndStart`: `cnt` is never reset, so it would wait
  for a count that has been passed.
* What `stop()` of a loop that was never initialised writes to (`EventLoop.h:64`): its
  descriptor has no value.
* An error of `accept(2)` in `FreeServerClient`, which is logged and then used as a
  descriptor. (Those of `TcpServer` are modelled.)
* A `TcpServer` whose callbacks close before the first message or call `setData`
  (`TcpServer.h:196`), and one whose timed tasks close: `FreeServerClient` has that step.
* Error and close callbacks of an event: the library never sets them.
* `Logger::setOutputFile` and `setLogLevel`, called before the first message; the text
  of a message and of an HTTP response; services added while the server runs.
* The handler of a timer that outlives its `Timer`.
* The examples: the RTSP server, for one, calls `Buffer::retrieve` with a negative
  difference of pointers, which fails the assert that `Buffer` has for it.
* `ObjectPool`: both functions return before the pooling code.
* Wrappers of system calls, addresses and options, and vendored code (`fmt`).
* The C++ memory model: plain fields shared between threads (`looping_`,
  `isInTaskHanding_`, `state_`) are read and written as if atomic.

## 6. What would come next

1. `TcpClient` with a worker thread, and `TcpServer::stop` against loops that poll.
2. The pool started twice, and the replacement of the log file under the back thread.
3. Proofs for messages of any headers and any length, by an induction on the headers in place
   of the four lists of `Message`.
