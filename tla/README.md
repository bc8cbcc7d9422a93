# OrderEngine: TLA+ models, model checking and proofs

OrderEngine is a C++ network framework for an order service: a multi-reactor TCP
server (`src/network`), common services (`src/common`), a program that puts them
together (`src/main.cpp`) and a SQL schema with stored procedures
(`scripts/sql/init.sql`). The order, inventory and Redis services exist as
headers only. This directory models the network core, the common services, the
life of the process and the stock procedures, checks them with TLC, and proves
with TLAPS the safety properties that the runs check.

The build modelled is Linux with epoll and `-DNDEBUG` (asserts compiled out); the
`Poller` module has the `select` backend of the Windows build too. The
sources at this commit do not compile as they are (the `LOG_*` macros take one
argument and are called with several, `fillActiveChannels` is not declared in
`poller.h`, `CMakeLists.txt` names files that are missing); the models follow the
evident meaning of the code.

## 1. Inventory

| Component | State | Operations | Talks to |
|---|---|---|---|
| `Reactor` | `quit_`, `thread_id_`, `pending_tasks_` (mutex), `calling_pending_tasks_` (plain bool), eventfd, `active_channels_` | `loop`, `quit`, `runInLoop`, `queueInLoop`, `runAt/After/Every`, `updateChannel`, `removeChannel`, destructor | its `Poller`, its channels, callers in any thread, detached timer threads |
| `Poller` (`EpollPoller`, `SelectPoller`) | `channels_`, each channel's `index_`, the kernel's interest list | `poll`, `updateChannel`, `removeChannel` | kernel |
| `Channel` | `events_`, `revents_`, callbacks | `handleEvent`, `enable*/disable*` | its reactor, its owner's callbacks |
| `TcpConnection` | `state_`, `output_buffer_`, callbacks | `establishConnection`, `closeConnection`, `send`, `handleRead/Write/Error` | its channel, `TcpServer`, the kernel socket |
| `TcpServer` | `running_`, `sub_reactors_`, threads, `next_reactor_`, `connections_` under `connections_mutex_`, `accept_channel_`, `listen_fd_` | `start`, `stop`, `acceptConnection`, `handleNewConnection`, `removeConnection`, `broadcast` | main reactor, sub reactors (`runInLoop`), the application's callbacks |
| Application (`main.cpp`) | `running_`, `stats_counter_`, server, signal handlers | `initialize`, `run`, `stop`, `shutdown` | `TcpServer`, `Config`, `Logger` |
| `Config` | `configs_` under `config_mutex_`, `config_file_` | `load`, `reload`, typed getters and setters, `hasKey`, `getAllConfigs` | file system, any thread |
| `Logger` | `logger_` and two more, spdlog's queue and worker | `initialize`, the logging calls, `shutdown` | spdlog, every thread |
| Inventory (SQL) | stock, version, reservations, log | `DecrementInventory`, the log trigger, the clean-up event | MySQL, callers |
| Order / inventory service, Redis client | none: declarations only | none | |

### What is hard here

* **The task queue of a reactor.** A push, the read of
  `calling_pending_tasks_`, the write to the eventfd, the read of it, the swap of
  the batch and the next `poll()` interleave; one order in which the wakeup is
  skipped and a task waits a second for the timeout. `calling_pending_tasks_` is
  read without synchronisation, and `thread_id_` is the constructing thread,
  which `TcpServer` and the tests make a different one from the looping thread:
  there `runInLoop()` runs the constructing thread's tasks at once, beside the loop.
* **Timers** are detached threads with a raw pointer to the reactor; `runEvery`
  re-arms itself from inside the task it wraps.
* **Accepting** runs in the main reactor while the connection already lives in a
  sub reactor: registering, closing and erasing can overtake the insertion into
  `connections_`.
* **`stop()`** runs in the application thread against all the loops: it removes
  and frees the accept channel, waits for threads it does not wake, and closes
  connections while holding the mutex that their close callback needs.
* **Broadcast** reads `state_` and writes to sockets of connections that their
  sub reactors are closing.
* **Partial writes**: the rest of a write stays in `output_buffer_`, and `send()`
  can be called in two threads. A write to a peer that is gone raises `SIGPIPE`.
* **Interest in events** is kept three times (the channel's `events_`, the poller's
  `index_` and `channels_`, the kernel's list) by operations that each change some of
  them, with `epoll_ctl` failures only logged.
* **Configuration** is cleared and filled line by line under a mutex that covers
  neither the name of the file nor its reading.
* **Shutdown** must empty a bounded log queue that other threads still fill; signal
  handlers announce a shutdown that nothing performs.
* **Stock** is checked on a snapshot and changed later; the clean-up event is two
  statements, not one transaction, and finds its own work by a time window.

The complete list, each item at its line with the properties that answer it, is
`"hazards"` in `PROJECT.json`.

### What makes each component correct

* Reactor: no wakeup and no quit is lost; a batch taken is run to its end; each
  queued task is run exactly once, in order; one instance of a periodic task in
  flight; `quit()` ends the loop.
* TcpServer: callbacks of a connection in order; no broadcast to a connection
  reported closed; the table agrees with the established connections; every
  client is served and every departure noticed; `stop()` ends and is alone when it
  touches connections; a restart works.
* TcpConnection: the peer receives the accepted messages, whole and in order, and
  buffered bytes leave.
* Poller: poll() listens to what the channels ask for; a forgotten channel is watched
  nowhere; no ready channel starves.
* Config: readers see whole configurations, which mean what the file says; no key
  falls back to its default during a load.
* Application and Logger: no accepted message is lost or reordered; server threads
  are gone before the logger; `stop()` ends the program.
* Inventory: exactly the orders that were told of a success have taken stock; one call
  succeeds per version; the check on the snapshot is still true when it is used; the
  log accounts for the stock.

## 2. Modules

| Module | Models |
|---|---|
| `TaskExecutor` | the abstract promise of a reactor's queue: a FIFO of jobs, each run once, none left waiting while it runs |
| `Reactor` | `reactor.cpp` except channel registration, which is in `Poller`; implements `TaskExecutor` |
| `ReactorProofs` | the theorems about `Reactor` |
| `MCReactor` | `Reactor` for TLC |
| `TcpServer` | `tcp_server.cpp`, `Channel::handleEvent`, the life cycle of `TcpConnection` |
| `TcpServerProofs` | the theorems about `TcpServer` |
| `MCTcpServer` | `TcpServer` for TLC |
| `TcpConnection` | the output path of `tcp_connection.cpp` |
| `ConnectionProofs` | the theorems about `TcpConnection` |
| `Poller` | `poller.cpp` (both backends), interest in `channel.h`, registration in `reactor.cpp` |
| `PollerProofs` | the theorems about `Poller` |
| `Config`, `MCConfig` | `config.cpp`; two file contents for TLC |
| `ConfigProofs` | the theorems about `Config` |
| `Application` | `main.cpp` and `logger.cpp`, with the server threads seen from outside |
| `ApplicationProofs` | the theorems about `Application` |
| `Inventory`, `MCInventory` | the procedure, trigger and event of `init.sql`; quantities for TLC |
| `InventoryProofs` | the theorems about `Inventory` |

Variables carry the names of the members they stand for. `PROJECT.json` maps each
definition to its lines. A definition named `Mut_X` is a deliberately wrong form
of `X`, which shows that a property notices the mistake; no specification uses it.

### Reactor

`pc` is where the thread of `loop()` is: `created`, `check` (`while (!quit_)`),
`wait` (in `poll()`), `handle` (active channels), `run` (between tasks of a batch),
`intask`, `stopped`. `call[c]` is where another call is: `pushed` is between the
push and the end of `queueInLoop`, `quitting` between the store in `quit()` and its
wakeup. An entry of `pending_tasks_` records its task, its caller and whether it
came before `loop()`, while it ran, or after `quit()`; only the properties read
the last two.

* The eventfd counter is a boolean: one read takes all of it.
* `calling_pending_tasks_` is a data race: a thread other than the loop's may read
  either value.
* `poll()` returns because of the eventfd, after its timeout, or because of another
  channel; in the last case it may return without the eventfd (its array is full).
* The loop thread calls the API only from its callbacks and tasks; other threads at
  any time while the reactor exists.
* `runAfter` is a detached thread asleep on a task (`timer`). What a thread does that
  wakes after the destructor is undefined and not a step; that such a thread exists
  is what `NoTimerOutlivesReactor` is about.

`Reactor` implements `TaskExecutor` with `queue <- tasks \o pending_tasks_`,
`done <- executed` and `mode` from `alive` and `pc`.

### TcpServer

Three kinds of threads: `app` (start, stop, broadcast), `main` (accepting) and one
`sub[r]` per sub reactor. Each loop keeps its iteration (check, poll, handle,
tasks) as steps and takes the queue as `TaskExecutor` describes it. The kernel is
a backlog of clients; a client connects, sends, and leaves by FIN or RST. `seen[c]`
is what the application has been told of connection `c`. `connections_mutex_` is
explicit where the holder does something another thread can see, and a section
that is one step tests that it is free. `fault` records undefined behaviour, after
which no step is taken. A connection once registered stays registered, since
closing it removes the channel from nothing: its sub reactor finds it ready again
and again. `EPOLL_CTL_ADD` of a connection may fail (`SubRegister`), which is only
logged: the connection is announced but deaf, and `LeaveNoticed` excepts it. That the
accept channel and the eventfds are added is assumed.

Left out: a `start()` that fails (it changes nothing that lasts), bytes (see
`TcpConnection`), and reuse of a descriptor number. The counter `next_reactor_` is a
natural number.

### TcpConnection

`send()` is three steps: test of `state_` and `output_buffer_`, `write()`, append of
the rest. A byte is a message and a place in it, so the stream on the wire can be
compared with what was sent. `WriteInterest` says whether `enableWriting()` was
called: `FALSE` is the program as it is (nothing calls it), `TRUE` exercises
`handleWrite()` as its comments describe it. `TRUE` only adds behaviours, so what
`StreamIntact` says there holds for the program; that the buffer drains is asked of the
program alone, and fails (`connection_drain`). A peer that has reset its connection is
`gone`: a write to it ends the process by `SIGPIPE`, unless the error event that
comes with the reset closes the connection first.

### Poller

The registration of a channel is one step of the loop thread: `events_` changes,
then `updateChannel` of the backend chosen at build time (`backend`). `watched` and
`mask` are the kernel's interest list; `EPOLL_CTL_ADD` may fail, and `failed`
remembers it for the property. `remove()` comes after `disableAll()`, as its assert
and its callers have it. A condition at a descriptor (`ready`) stays until a callback
consumes it: both backends are level triggered. Reuse of a descriptor number by a new
channel is left out.

### Config

`load()` is four kinds of steps: the assignment of `config_file_`, opening and reading
the file, taking the mutex and clearing `configs_`, and one step per line. `reload()`
passes a reference to `config_file_` itself, so its name is read again at the open; a
read that races an assignment may give any name. A line is a record of what the parser
looks at and a name is the sequence of its dot-separated parts, so that `[a]` with
`b = 1` and `a.b = 1` meet in one key. `Meaning` is the reference: a pair counts under
the nearest section line above it, the last of equal keys wins. A comment does not end
a section, in `Meaning` as in `config.cpp:53-73`. This contradicts a test:
`test_config.cpp:39-41, 58-59, 102` expects that `app_name` after the comment
`# Global settings` is a global key, where the code stores `database.app_name`.
`WholeConfig` and its proof are about what the code does;
`config_global_comment` shows the disagreement.

### Application

The main thread's path through `main()`, `initialize()`, `run()` and `shutdown()` is
`pc`; each step logs, and waits for room in the queue when it is full. Server threads
log until `stop()` has joined them. `TcpServer` enters only by what that module shows:
its threads end once told to, and with an established connection left in its table
`stop()` does not return (`stuck`); entries that are closed or were never established do
not hold it up. spdlog is external: a bounded queue, one worker, a `shutdown()` that
joins the worker behind everything queued, and an error instead of a message once the
pool is gone. That every exit leaves an empty queue is spdlog's promise and so an
assumption here (`Drained`), not a result.

### Inventory

One product, one reservation per caller. The row starts with any available and any
reserved stock, as the rows of the script do (900 and 50 of 1000, the rest sold; no
statement reads or changes `total_stock` and `sold_stock` afterwards). The `SELECT` of `DecrementInventory` reads a
snapshot and its `UPDATE` the committed row, as InnoDB does by default; the statements
of the event commit one by one, and the server may go down between them. A statement
whose result leaves the range of an unsigned column fails. An update that joins the row
with several reservations changes it once. Reading the version, retrying and inserting
the reservation belong to callers that the repository does not have yet (external).
`SignedSubtraction` is the `sql_mode` flag without which the trigger's subtraction of
unsigned columns makes every decrement fail.

## 3. Runs

`tlc -workers 2 -config <cfg> <module>`; the configuration has the name of the run.

| Run | Module | Result | What it shows |
|---|---|---|---|
| `reactor_queue` | `MCReactor` | holds | constructing = looping thread, one other thread, two timers, a plain and a periodic task, as the asserts of `loop()` demand: no lost wakeup or quit, whole batches, one periodic instance, a FIFO executor (with its liveness) |
| `reactor_foreign_owner` | `MCReactor` | holds | constructed in another thread, as `TcpServer::start` does: no other thread loses a wakeup, and the poll timeout makes up for those the owner does not write |
| `server_callbacks` | `MCTcpServer` | holds | two clients, one sub reactor, a broadcast, a stop: order of notices, none after the close, table complete, `stop()` alone when it closes |
| `server_progress` | `MCTcpServer` | holds | one client, two sub reactors: clients announced, departures of registered connections noticed, threads joined |
| `server_stale_entry` | `MCTcpServer` | violated | a client that leaves before the insertion stays in `connections_` |
| `server_stop` | `MCTcpServer` | violated | `stop()` with an open connection waits for its own mutex |
| `connection_stream` | `TcpConnection` | holds | one sender, write events on: no byte lost, repeated or reordered by `send()` and `handleWrite()` |
| `connection_drain` | `TcpConnection` | violated | write events are never on, so the buffer never drains |
| `poller_watch` | `Poller` | holds | two channels, an event array of one, both backends: interest agrees after any sequence of operations, forgotten channels are watched nowhere, none starves |
| `config_reload` | `MCConfig` | holds | two threads, a file that changes: whole configurations with the file's meaning, no fall back to a default during a load |
| `inventory_orders` | `MCInventory` | holds | three orders for two pieces, clean-ups and crashes: exactly the successful orders have taken stock until one expires, one winner per version, the snapshot check sound, the log complete |
| `application_life` | `Application` | holds | every path from start to exit: no accepted message lost, server threads gone before the logger, `stop()` ends the program |

Each violated run states what a comment, a header or a test of the repository says;
`"findings"` in `PROJECT.json` quotes the line.

Further configurations ask what no line of the code guards against, or what a test
expects and the code does not do (`reactor_confinement`, `config_global_comment`). They
are not among the runs; each ends in a counterexample, and `"hazards"` or
`"components"` refers to it:

| Configuration | Module | Fails | Counterexample |
|---|---|---|---|
| `reactor_timer_lifetime` | `MCReactor` | `NoTimerOutlivesReactor` | a timer thread outlives the reactor it points to |
| `reactor_confinement` | `MCReactor` | `RunsInLoopOnly` | constructed in one thread and looped in another, as in `test_reactor.cpp:31, 55-58`: `runInLoop()` runs the task in the constructing thread |
| `server_accept_race` | `MCTcpServer` | `NoUseAfterFree` | the accept channel is freed while the main loop holds it |
| `server_restart` | `MCTcpServer` | `ClientServed` | after a restart clients go to stopped reactors |
| `connection_two_senders` | `TcpConnection` | `MessagesContiguous` | a broadcast splits a message that is being echoed |
| `connection_sigpipe` | `TcpConnection` | `SurvivesReset` | a send to a peer that has reset ends the process |
| `config_failed_load` | `MCConfig` | `ReloadsLoadedFile` | after a load that failed, `reload()` reads another file |
| `config_two_loads` | `MCConfig` | `NoRegress` | of two loads the older content wins |
| `config_global_comment` | `MCConfig` | `GlobalAfterComment` | after loading the file of `test_config.cpp:39-41` there is no key `app_name` (58, 102), only `database.app_name` |
| `inventory_cleanup` | `MCInventory` | `ReservedBacked` | one reservation is returned by two runs of the event, at the cost of a pending one |
| `application_signal` | `Application` | `SignalStops` | after `SIGINT` the program goes on |

**Bounds.** Two tasks are enough for order and for a task that queues while another
waits; a task is handed over once (`issued`), and a thread calls `quit()` once. Two
timers allow a plain and a periodic timer at once; `MaxRounds` = 2 makes a periodic
task re-arm. Three threads in `reactor_foreign_owner` are the loop, the owner and
anyone else, the three cases the code tells apart. Two connections on one sub
reactor make batches and event lists of two; two sub reactors make the round robin
turn. `MaxStarts` and `MaxBroadcasts` bound the calls of `start()` and
`broadcast()`. Three messages of two bytes over a kernel buffer of three make
writes complete, partial and empty. Two channels and an array of one make the array
full, and grow once. Two file contents differ in every construct the parser knows;
three calls and one edit allow a load, a reload and a set to overlap a change of the
file. Two pieces, two orders for one and one for both make every pair of orders
compete, and a third piece reserved from before lets a second return go through; four minutes allow a reservation to expire and the event to find it twice.
A log queue of two fills up, so that callers wait for room. `ConnSymmetry` and
`TimerSymmetry` are used only where no temporal property is checked.

**Fairness.** Weak fairness of the threads that are running (`LoopStep`,
`CallStep`, `AppStep`, `MainStep`, `SubStep`, the steps of `send()`): the operating
system schedules them, callbacks return, and `poll()` returns after a second at the
latest. `TimerFire` is fair because sleeps end. `MainAccepts` is strongly fair:
`accept4` may fail, but not for ever. `PeerReads` is fair because `OutputDrains`
is about a peer that keeps reading. The loop polls and handles fairly (`Poller`), and
spdlog's worker, the main thread and the server threads run (`Application`); the main
loop sleeps a second at a time. Nobody owes a call of `loop()`, `quit()`,
`start()`, `stop()`, `broadcast()`, `send()` or a destructor, and clients owe
nothing.

**Deadlock** is not checked where the system may stop: a stopped loop, a stopped
server, a closed connection, an ended process, and orders all settled when the clock is
at its bound. It is checked in `poller_watch` and `config_reload`. The one
deadlock of the code, in `stop()`, is found as a violation of `StopReturns`.

## 4. Proofs

### Reactor

`tlapm ReactorProofs.tla`. All results hold for any threads, timers, tasks and
`MaxRounds`, and for either choice of the constructing thread, from
`ThreadAssumption` (loop and owner are threads, timer threads are others) and
`TaskAssumption`.

* `TypeCorrect`: `Spec => []TypeOK`.
* `WakeupNeverLost`, `QuitNeverLost`, `BatchNeverCut`: `Spec => []NoLostWakeup`,
  `[]NoLostQuit`, `[]BatchCompletes`, from `Invariance`: `Spec => []Inv`.
* `ReactorIsFifoExecutor`: `Spec => Executor!SafeSpec`, the refinement step by step.

`NoLostWakeup` speaks of the moment the loop sleeps and is not inductive: a task
pushed during a batch must already have its wakeup when the batch ends. The
inductive invariant `Inv` adds

* `BatchInv`: `calling_pending_tasks_` is true exactly while a batch runs, and
  there is a batch only then. Without it the loop thread's own push could skip the
  wakeup, and a stopped loop could hold a batch.
* `PlaceInv`: the loop thread is inside a call only where user code runs, so it
  never reaches `poll()` between a push and its wakeup; a destroyed reactor does not
  loop.
* `WakeInv`: from the swap to the end of the next `poll()`, every finished push has
  the eventfd readable. Only between the read of the eventfd and the swap, when the
  swap takes everything, may it be unreadable.
* `QuitInv`: the flag is set when somebody has quit, with `NoLostQuit`.

`PeriodicIsSingle` (`Spec => []PeriodicSingleFlight`) has its own invariant
`SingleInv`. A task can be asleep in a timer thread, in the queue, in the batch or
running; `Once` says that it is in one of the four, at one index, and `Flight` that
this is so for every periodic task that was issued and for no other. `FlightStep` shows
that each step moves the task from one place to the next: the timer pushes it, the swap
takes the queue into the batch, the loop runs it, and it re-arms itself while it runs.
The count that the property asks for follows, since the four places are disjoint.

### TcpServer

`tlapm TcpServerProofs.tla`, for any finite set of connections, any number of sub
reactors, starts and broadcasts, from `ServerAssumption`.

* `TypeCorrect`, `NoticesAreInOrder`, `BroadcastIsTimely`, `EstablishedIsListed`,
  `StopIsAlone`: `Spec => []` of `TypeOK`, `NoticesInOrder`, `NoBroadcastAfterDown`,
  `ConnectedIsListed`, `StopClosesAlone`, from `Invariance`: `Spec => []IInv`.

None of the last four is inductive. `IInv` says what each thread relies on:

* `Control`: which threads are gone, and who has `connections_mutex_`, at each step of
  `stop()` and `broadcast()`. `StopClosesAlone` follows from it.
* `Accepting`: a client is in the backlog once and has no connection yet; a connection
  goes to one of the reactors of the first `start()`, which also explains
  `server_restart`.
* `Queues`: a connection waits for its registration in one place only (the main thread,
  the queue of its reactor or the batch), so that no reactor announces it twice; a
  round of events holds registered channels, each once; an error callback is made
  only for a peer that has reset; a connection being erased is `kDisconnecting` and
  its peer has left.
* `Listed`: what is or will be established is in the table, except what a stopped
  reactor will never register. `ConnectedIsListed` follows.
* `Seen`: what the application has heard is determined by the state of the connection.
  A connection is reported closed only when it is `kDisconnected`, which
  `removeConnection()` brings about after it has had the mutex; `broadcast()` holds the
  mutex from its test of `state_` to its write (`Writing`). This is the argument for
  `NoBroadcastAfterDown`.

### TcpConnection

`tlapm ConnectionProofs.tla`, for messages and kernel buffers of any size and with write
events on or off, from `ConnectionAssumption`.

* `TypeCorrect`: `Spec => []TypeOK`, with any number of sending threads, from `TInv`
  (a thread inside `send()` has a message and, at the append, has not written all of it).
* `OneSenderStream`: if the loop thread is the only sender, `Spec => []StreamIntact`.
  With a second sender the property is false (`connection_two_senders`), so the
  hypothesis is needed. The inductive part is `DirectInOrder`: between the test of
  `output_buffer_` and `write()` the buffer stays empty, because the thread that could
  fill it is the one that is writing.

`Delivers` is the arithmetic of the stream: byte `j` of message `k` is at
`Size * (k - 1) + j`. `DeliversMore` (a further part of the message), `DeliversAll` (its
last part) and `HandleWriteStream` (bytes go from the front of the buffer to the end of the
wire) are the three ways a step changes the stream.

### Poller

`tlapm PollerProofs.tla`, for any finite set of channels, any events, both backends, and an
event array of any size, from `PollerAssumption`.

* `TypeCorrect`, `PollerListensAsAsked`, `RemovedIsForgotten`: `Spec => []` of `TypeOK`,
  `WatchesWhatIsAsked`, `NoStaleWatch`, from `Invariance`: `Spec => []IInv`.

`IInv` adds how the three copies of the interest agree: with epoll (`EpollAgrees`) `kNew`
is exactly "not in the table", only an added channel is watched, with the events it asks
for, and one that is not added asks for nothing; with select (`SelectAgrees`) the vector
holds every channel of the table exactly once, so that erasing one entry forgets the
channel.

### Config

`tlapm ConfigProofs.tla`, for any threads, files, contents, calls and edits, from
`ConfigAssumption` and `ContentAssumption` (`Keys` and `Values` include those of the
files).

* `TypeCorrect`, `ConfigIsWhole`: `Spec => []` of `TypeOK` and `WholeConfig`, from
  `Invariance`: `Spec => []IInv`.
* `SnapshotIsWhole`: the action property `ReadsWhole`.
* `GettersDoNotFallBack`: `Spec => []NoFallback`, from `IInv` with `SteadyKept`: once a file
  is loaded, every steady key is in `current` with a value that converts.

`WholeConfig` speaks of the moments the mutex is free. `IInv` adds `Owned` (the thread that
parses holds the mutex, and has a file in its buffer) and `Parsed`: after `n` lines, the
parser's `section` and `configs_` are what the reference says of the first `n` lines.
`SectionNext` and `MeaningNext` show that the reference, which looks back for the nearest
section and the last pair, moves by one line as the parser does. No induction over the
file is needed: the steps of the parser are the induction.

### Application

`tlapm ApplicationProofs.tla`, for any server threads, any length of the log queue and any
number of messages, from `ApplicationAssumption`.

* `TypeCorrect`, `ServerIsHeard`, `LogHasNoGaps`: `Spec => []` of `TypeOK`,
  `ServerLogsKept`, `LogGapless`, from `Invariance`: `Spec => []IInv`. What is queued
  counts as kept by `LogGapless`, also when a signal ends the process with it.

`IInv` adds `FreshBefore` (nothing is logged before the logger exists), `ServingWhile` (a
server thread runs only between `start()` and the join), `PoolDownAfter` (the pool goes
only after that) and `DroppedSent` (only what was sent was refused). The second and third
together are why no server thread ever finds the pool gone.

### Inventory

`tlapm InventoryProofs.tla`. All results hold for any callers, quantities, stock and
times, and with either way of subtracting, from `InventoryAssumption`.

* `TypeCorrect`, `VersionIsLock`, `CheckIsSound`, `LogIsComplete`:
  `Spec => []` of `TypeOK`, `OneWinnerPerVersion`, `CheckStillHolds`,
  `LogExplains`, all from `Invariance`: `Spec => []IInv`.

`IInv` is their conjunction with `RowSum` and `VersionsBehind`: no call expects, and none was
successful for, a version that the row has not reached, and a version a call was
successful for is over. This makes the version a lock: the call that succeeds raises
the version above what every other call expects, so no other call at the same version
succeeds, and a call whose `UPDATE` still matches has seen no decrement since its
check. Clean-up does not raise the version, but it only adds stock. `MoveKeepsRow`
carries the arithmetic once for both statements that move stock: the two unsigned
columns bound each other through their sum (`RowSum`, which is only that: it says nothing
of stock returned twice or not at all, see `inventory_cleanup`), and the entry the trigger appends
continues the log.

## 5. Only model-checked

Liveness: `QuitStops`, the fairness part of `ImplementsExecutor`, `ClientServed`,
`LeaveNoticed`, `StopJoins`, `ReadyIsHandled`, `StopExits`. Liveness under
fairness is out of the prover's reach, as are `ENABLED`, induction over data and recursive
operators. `SuccessIsTaken` is model-checked too: it sums over a set of orders, and what
the sum is for every set would need induction. Every other invariant and every action
property of the passing runs is a theorem. The inductive invariants were checked by TLC, on the instances of the runs, before they
were proved.

The properties that fail are shown by TLC alone, by a counterexample.

## 6. Not modelled

* `last_active_time_` and `isTimeout()`: nobody calls them.
* Ownership by `shared_ptr`: a connection and its channel's callbacks own each
  other, so closed sockets are never released; only the visible effect (the channel
  stays registered) is modelled.
* Levels, patterns and sinks of the logger: I/O of spdlog. `setLevel` is not called.
* The tables, views and partitions of `init.sql` that no procedure, trigger or event
  uses. The script does not load as it is (`LEAVE root` without a label, the body of
  the event at 325-341 without a `DELIMITER`, keys that partitioned tables do not
  allow); its evident meaning is modelled.
* Order service, inventory service and Redis client: headers without code. There is
  nothing to translate until they are implemented.

## 7. Plan

The parts of the repository that have code are modelled, and the safety properties of the
runs are proved. What is left:

1. What holds in spite of the counterexamples, as theorems: with two senders, that no byte
   is lost or repeated although messages may be split; for `connections_`, that a stale
   entry is always a closed connection.
2. An abstract specification of the stock, which `Inventory` implements step by step.

When the order and inventory services are written, their calls of
`DecrementInventory` replace the external steps of `Inventory`.
