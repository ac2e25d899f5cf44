# utillib: models, checks and proofs

TLA+ modules for the concurrent core of *utillib* (C++): queues between threads
and processes, loggers with worker threads, syslog and "listen" servers,
supervision of processes.

## 1. The system

The library has no single program. Its parts are used by `listend` and
`serviced` (daemons), two graphical tools and any application. Most of it is
sequential; what is hard is in the parts with threads, processes and asio
handlers.

| Part (`src/src/` unless said otherwise) | State | Operations | Interacts with |
|---|---|---|---|
| `messagequeue.cpp`, `listenmessage.h`: shared-memory queue | segment under a well-known name: interprocess mutex, semaphore, `nof_messages`, `queue_in`, `queue_out`, 256 slots, `active`, `log_level`; per process: `task_stop_`, cached flags, polling thread | constructor, destructor, `Add`, `Get`, `Stop`, `SetActive`, `SetLogLevel`, `ClientTask`/`CheckQueue` | `ListenProxy` (client), `ListenServer` and `ListenConsole` (masters) |
| `include/util/threadsafequeue.h` | `std::queue`, mutex, condition variable, `stop_` | `Put`, `Get`, `Clear`, `Start`, `Stop`, destructor | the syslog servers (`ISyslogServer`) |
| `logfile.cpp`, `syslog.cpp`: loggers with a worker | `message_list_`, `locker_`, `stop_thread_`, the worker | `AddLogMessage`, `WorkerThread`, `Stop`, destructor | the log chain, in both directions |
| `logconfig.cpp`, `logging.cpp`, `logstream.cpp`: log chain | map of loggers, `locker_` | `AddLogger`, `DeleteLogger`, `AddLogMessage`, `DeleteLogChain`, `BackupFiles` | every logger; every part that logs |
| `logtolist.cpp`, `logconsole.cpp`, `listenlogger.cpp` | a bounded list; none; a level | `AddLogMessage` | log chain |
| `syslogpublisher.cpp`, `syslogconnection.cpp` | stored messages, connections (two locks), timers | `Start`, `Stop`, `AddMsg`, accept, cleanup, trim | remote subscribers |
| `syslogsubscriber.cpp` | asio context, socket, `stop_subscriber_` | lookup, connect, read, retry; `Start`, `Stop` | publisher, ThreadSafeQueue |
| `udpsyslogserver.cpp`, `tcpsyslogserver.cpp`, `isyslogserver.cpp` | socket, thread, ThreadSafeQueue | `Start`, `Stop`, `AddMsg`, `GetMsg` | ThreadSafeQueue |
| `listenserver.cpp`, `listenserverconnection.cpp`, `listenclient.cpp` | connections, message list, message queue, timers | accept, cleanup, forward, write chain; connect, read, retry, log level | MessageQueue, ListenConfig |
| `listenproxy.cpp`, `listenconsole.cpp` | a MessageQueue each | `AddMessage` (splits long texts); `Start`, `Stop`, worker | MessageQueue |
| `listenconfig.cpp` | table of 256 rows in shared memory | add, delete, list | all servers of the machine |
| `processmaster.cpp`, `processapplication.cpp` | list of applications, poll timer, process state | `Start`, `Stop`, poll, restart | operating system, `serviced` |
| `serviced/src`, `listend/src`, `consoleapp.cpp` | main state, condition variable | `OnInit`, main loop, `OnExit`, signal handler | the above |
| `csvwriter.cpp`, `stringparser.cpp`, `stringutil.cpp`, `timestamp.cpp`, `unithelper.cpp`, `idirectory.cpp`, `ifile.cpp`, XML, Gnuplot, system information, syslog message and parser | sequential | pure functions and file I/O | |
| `listenviewer`, `serviceexplorer` | wxWidgets front ends | | |

What makes the parts correct, and what is hard:

* *MessageQueue*: messages leave in the order they came, none is lost in the
  ring, overwritten or left behind without a token; a reader is woken by Stop.
  Hard: several processes, the count is read outside the lock, a full ring, a
  master that restarts under another segment, a process killed anywhere.
* *ThreadSafeQueue*: no wake-up is lost; Stop and the destructor release
  every reader. Hard: `stop_` is set and signalled without the mutex.
* *LogFile, Syslog*: an accepted message is handled once and in order; Stop
  saves what is queued; nobody is blocked for ever. Hard: the worker gives the
  lock up for each message, logs itself, and tests the flag outside the lock.
* *Log chain*: no deadlock between the chain's lock, a logger's lock and the
  join of a worker; the chain is stable while it is used.
* *Publisher*: a subscriber gets the stored messages and all later ones, each
  once and in order. Hard: store, replay, register and send hold two locks in
  turn; sockets are closed by one thread and used by another.
* *Subscriber, listen client*: after any failure a retry follows, after Stop
  none. *Listen server*: each connection gets every text once and in order, and
  the level that was set last; the server knows whether anybody listens. Hard:
  connections come and go between a message and its write, handlers outlive the
  connection they belong to, two processes and several clients write to one
  queue.
* *Servers*: GetMsg is released by Stop and never uses a deleted queue.
* *Supervision*: an application has one process at most; a stopped one is not
  restarted; restarts are limited. Hard: two threads start and stop the same
  process, each for seconds, without a lock.
* *ConsoleApp*: a signal ends the main loop, and the handler returns.

`PROJECT.json` lists every part, and under "hazards" each of these places with
its line and the properties that cover it.

## 2. The modules

| Module | Models |
|---|---|
| `ListenFifo` | abstract: what the shared-memory queue promises |
| `MessageQueue` | `messagequeue.cpp` and the segment of `listenmessage.h`; refines `ListenFifo` |
| `MessageQueueProofs`, `MessageQueueTokenProofs` | theorems about `MessageQueue` |
| `ThreadSafeQueue` | `threadsafequeue.h` |
| `ThreadSafeQueueProofs` | theorems about `ThreadSafeQueue` |
| `LogConfig` | `logconfig.cpp`: the chain's mutex, logging through it, deletion; and what the loggers share (AddLogMessage, Stop, destructor) |
| `LogFile`, `Syslog` | the worker loops of `logfile.cpp` and `syslog.cpp`, each EXTENDS `LogConfig` |
| `LogChain` | the composition: threads that log, a logger of either type with its worker, the owner |
| `LogChainProofs` | theorems about `LogChain` |
| `SyslogTcp` | external: the TCP connections as the next two use them |
| `SyslogPublisher` | `syslogpublisher.cpp`, `syslogconnection.cpp` |
| `SyslogSubscriber` | `syslogsubscriber.cpp` |
| `SyslogFeed` | the composition of the three |
| `SyslogFeedProofs` | theorems about `SyslogFeed`: both sides and the way between them |
| `ProcessApplication` | `processapplication.cpp`, the state of `isuperviseapplication.h` |
| `ProcessMaster` | `processmaster.cpp`, `isupervisemaster.cpp`: both threads; EXTENDS the former |
| `ProcessMasterProofs` | theorems about `ProcessMaster` |
| `ListenTcp` | external: the TCP connections as the next two use them |
| `ListenServer` | `listenserver.cpp`, `listenserverconnection.cpp`, and the call of `listenproxy.cpp` |
| `ListenClient` | `listenclient.cpp` |
| `ListenSystem` | the composition of the three |
| `ListenSystemProofs` | theorems about `ListenSystem` |
| `MC...` | instances for TLC |

Operators whose comment starts with "Fault:" are not part of any
specification. Each is the variant of the definition named in `PROJECT.json`
("mutants") that a plausible mistake would produce, and breaks the property
named there.

### MessageQueue

A *segment* is one shared memory object; segments are numbered by creation and
`name` is the one the well-known name is bound to. `Add` opens the segment by
name in every turn of its loop (`AddOpen`), tests `task_stop_`, takes the
lock, tests the count, stores, moves the index (`AddAdvance`), counts
(`AddCount`), posts, and unlocks. Each of these is an action, because other
processes read `nof_messages` and the semaphore without the lock, and because
the process may be killed between any two stores to the shared memory. A retry after a full ring takes the lock again before the scope ends
and then opens the name anew, as the code does. `Get` is wait or try_wait
(`GetToken`), the test outside the lock (`GetCheck`), the lock, the fetch
(`GetTake`), the count (`GetCount`) and the unlock. The copy of the message and
the move of `queue_out` are one step, as the copy goes to the reader's own
memory. A master's constructor removes the name first, its destructor
removes whatever has the name. `Stop` clears the flag and posts in the segment
that has the name *now*. A process may be killed at any point; what it had
locked stays locked, and an index it had moved without counting stays moved:
count and indices of that ring disagree for good, but nobody gets its mutex any
more. That is why `RingConsistent` speaks of the rings whose mutex is free.
`taken` is history: the segments whose oldest message has been fetched and is
still counted, so that `Contents` says what is left to fetch.

Taken as one step: the flag and the post of `Stop`, the destructor, the
constructor (a client that opens the object before it is constructed is not
modelled), and the two reads of `CheckQueue`. A client's `SetActive`, which
changes its own flag only until the next poll, is left out. The 256 slots are
`Capacity`, the byte's wrap is `Succ`, the 16-bit count wraps at `MaxNof`.

### ThreadSafeQueue

From its test of the queue to its end every operation holds the mutex and is
one step, except a `Get` that finds nothing: it holds the mutex (`GetDecide`)
until it falls asleep (`GetSleep`), and in between `Stop` may set the flag and
notify nobody. `notify_one` wakes any one sleeper; a sleeper may wake by
itself. The owner calls `Start`, `Stop`, `Clear` and the destructor, as far as
`Calls` allows.

### LogConfig, LogFile, Syslog, LogChain

Every thread that logs locks the chain (`LogLock`), and inside it the logger
tests its flag, takes its own mutex, tests again and pushes (`AddTest`,
`AddLock`, `AddPush`); then the chain is unlocked. The worker goes through the
*same* actions when it logs itself: `apc[Worker]` is its place in
AddLogMessage, and its own actions wait until that is "idle" again
(`WorkerAt`). So a second lock of a mutex it holds, and the wait for a chain
that its own destroyer holds, come out of the guards and are not written into
the model.

The worker of `LogFile` waits, pops with the lock and writes without it
(`HandleMessage`: a file that is not open is opened, and if that fails the
message is gone, `lost`), closes the file and may back it up *with the lock held*, tests the flag without it and
drains the list once more. The worker of `Syslog` has no second drain; it logs,
without its lock, that the host went out of service or came back.
`DeleteLogger` stops and joins the worker with the chain locked;
`DeleteLogChain` stops it without that lock, and then clears the chain. Whether
a datagram can be sent, a file be opened, or a backup fails is a choice; a worker logs at
most `MaxMsg` messages of its own. `accepted`, `due` and `lost` are history.
A message has a text: `HandleMessage` skips an empty one, which leaves nothing
to be found in the file. `Saved` is what the file holds.

The last drain of `LogFile` takes no lock while an `AddLogMessage` past its
tests may push: a data race in C++. The model orders the two either way. That
nobody logs while `DeleteLogChain` clears the map is taken as the application's
duty (the guard of `DeleteLogChainClear`). Replacing a logger by `AddLogger`
destroys the old one under the chain's lock, as `DeleteLogger` does.

`WaitsFor(x, y)` says who waits for whom: for a mutex its owner, for a join the
worker. `NoOtherKnot` says that outside the three knots below, who is waited for
is inside a call or a loop and can go on, and that waits are chained at most
twice: the owner waits for a thread in the chain, that thread for the logger's
mutex, and its owner for nobody.

### SyslogTcp, SyslogPublisher, SyslogSubscriber, SyslogFeed

`AddMsg` stores (`AddStore`) and then, under the other lock, goes through the
connections one by one (`AddLock` to `AddUnlock`). The server thread runs one
handler at a time. A new client is sent the stored messages in one step
(`RunAccept`) and registered in another (`RunRegister`), which waits for the
second lock: messages may be added in between. Both timers may fire whenever
the thread is free. The read of a connection ends when its client is gone
(`RunRead`); if the client's system has answered a write with a reset, the
shutdown in `Close` throws and the socket stays as it is.

The worker of the subscriber waits for one operation at a time, named by `upc`;
the owner's Stop is flag, Close, end of the context, join (`uopc`), and may be
followed by Start, whose worker ends at once because the context is never
restarted.

Two uses of an object that is gone are undefined in C++: AddMsg writes to a
socket the server thread has just closed, or the server thread runs the read
handler of a connection that Stop has deleted (`broken`); Stop closes a socket
the worker has just replaced (`subBroken`). Such a behaviour ends there, and
the liveness properties leave it out (`Sound`).

`conns` and `todo` are sets of connection numbers: connections are accepted and
registered one after the other, so that the order of the list is that of the
numbers, and the loop takes the least (`IsNext`). What a subscriber gets is
`Delivered(c)`: what has come over its connection into its queue, followed by
what is on its way. `SenderOrder` and `SentOnce` speak of that sequence.

Taken as given: a write sends all of a message; a lookup, a connect and an
accept may each fail or not. `got`, `before` and `rcvd` are history, and are
cleared when the client closes the connection, as nothing is said of it then.

### ProcessApplication, ProcessMaster

`ProcessApplication` holds what an application has and the pieces that both
threads use: the process, its start and stop, and the tail of a poll for each
startup mode. `ProcessMaster` holds the threads. The owner's `Call` is the
beginning of Start, Stop or the destructor, all of which stop the applications
one by one (`StopLook`, `StopEnd`, `StopLeave`), stop the context and join;
`StartReturn` and `DestroyReturn` are what follows. The poll thread is divided
where the other one can come in between with effect: after it has read the state
(`PollState`), before and after a launch, and while it waits for a process to
end (`PollStop`, `PollStopped`). Time is the flag `waiting` (the startup timer
lies ahead), which may fall whenever nothing prevents it. `waits` counts the
handlers of the poll timer, those that are queued when the context stops
included: they run when it is restarted.

That a thread uses `process_` after the other one has reset it is undefined in
C++ (`broken`); the behaviour ends there. `AppStart` is one step, as no poll
thread exists then. The limit of ten restarts is `RestartLimit`. `launched`,
`taken`, `late` and `starts` are history.

### ListenTcp, ListenServer, ListenClient, ListenSystem

One worker runs all handlers of the server, one at a time, each a single step:
accept, cleanup, the queue timer of the server (`Distribute`), and for each
connection the end of a read or a write and its own timer. `wpend` and `rpend`
are the operations whose handlers are still to come; those of a connection the
cleanup has erased are in `gone`, and the handler of one of them uses a freed
object (`broken`). Stop clears the flag (`StopActive`) and then stops and joins
the worker (`StopJoin`): in between the worker may set the flag again. The
client follows lookup, connect, read, and back to lookup after any failure.

Abstractions: the flag `active_` and its copy in the shared memory, which a
handler stores one after the other, are one variable, and the proxy's own copy,
which lags behind, is left open: it may add as soon as a client has ever
connected. A text that the proxy splits is one text. The proxy's SetLogLevel
is not modelled. SendLogLevel is one step, although the worker may replace the
socket under it. Endpoints are one; a lookup and a retry wait that end in another
lookup are not seen. What a closed connection has queued is dropped from the state, as nothing
reads it. `texts`, `handled` (every message that `HandleMessage` has taken,
texts and levels), `got` (what was written to a connection), `mark` (the length
of `handled` when the connection joined) and `inbox` are history.

`TextComplete` is said end to end: a connection that is served has got, or has
in its queue, a level and then exactly what was handled since it joined; and
while its client holds the connection, each text among what was written to it is
in the client's inbox or on the way there. `LevelLast`: the last level among
what a connection has got and has queued is the level of the server.

## 3. The runs

| Run | Question | Bound |
|---|---|---|
| `message_queue` | ring, tokens, order, refinement | 2 clients of 2 messages, 2 slots: the ring fills and wraps; stops; master and clients may be killed, the master comes back with a second segment |
| `message_queue_live` | delivery, return of Add, return of Get on Stop, no fetch from an empty ring, both polled copies (`CopiesFollow`) | 1 client of 2 messages and 1 slot, so that it waits; the master sets its flag and a level, is destroyed and comes back with a second segment; stops by both sides |
| `thread_safe_queue` | wake-ups, delivery | 1 putter of 2 items, 3 getters, any 2 calls of the owner |
| `thread_safe_queue_stop` | what the header says of Stop | **violated**; 1 putter, 1 getter |
| `log_chain` | once and in order, Stop leaves nothing in the list, no circle of waits but the three knots, nobody waits for ever outside them | both loggers; 2 threads and the worker log once each, turns of 1 message, 2 deletions |
| `log_chain_backup` | the queue is saved | **violated**; 1 thread, file logger |
| `log_chain_delete` | DeleteLogger returns | **violated**; 1 thread, syslog logger |
| `syslog_feed` | order and number of copies of what comes to the subscriber, one connection at a time, truth of IsOperable | 1 thread of 2 messages, 1 message kept, 2 connections one after the other |
| `syslog_feed_live` | a message arrives, both Stops return, cleanup | 1 thread of 2 messages, 1 connection |
| `syslog_feed_cleanup` | unused connections are cleaned up | **violated**; 1 message, 1 connection |
| `process_master` | one process each, launches counted, Stop leaves nothing else, waits of the timer, every application is launched or given up | 2 applications, of which the first takes each startup mode; 1 restart, 1 call into service, 2 starts |
| `listen_system` | order and completeness from the server to the client's inbox, the last level, truth of IsActive, arrival | 1 client with 2 connections one after the other, 2 texts, 1 log level of more than eight bits |

The bounds are small because the properties concern pairs: a writer against a
reader, two writers, a stop against either. Two clients with two messages and
two slots fill the ring, wrap both indices and let each process wait for the
other; the second segment is enough to be "another one". Three getters are
needed for a notification that hits the wrong sleeper. One message per turn
makes the limit of a `LogFile` turn bite. Two connections put a dead one in
front of a live one in the list of the publisher; two messages of which one is
kept make the trim and an early and a late copy meet.

Two applications let Stop be at one while the poll thread is at the other; the
second start is the one that meets what the first has left. In `listen_system`
the second connection of the client coexists with the server's end of the
first, which is the case a list of connections is for.

The liveness properties of `log_chain` allow an end in `OwnLock`, `LockOrder`
or `JoinLock`, three states from which there is no way on. They are real (the
violated runs reach the first and the third). That there is no fourth is
`NoOtherKnot`, checked on the passing run and proved for any number of threads.

The violated runs, with the line of the code and the quoted text, are
"findings" in `PROJECT.json`:

1. `ThreadSafeQueue::Stop` can miss a reader, and wakes one of several.
2. A failing backup in the loop of `LogFile` blocks the worker on its own lock,
   and with it every thread that logs.
3. `DeleteLogger` of a logger whose worker is about to log never returns.
4. A connection that its client has reset is never closed by the publisher and
   stays in the list; every later message is tried on it.

Seen while modelling, without a run: a message added between the replay and
the registration of a new connection may miss it, one added before may come
twice; a failed accept is the last one; Start after Stop of the subscriber
starts nothing; a connect that is under way while Stop calls Close leaves a
connection that is open until the destructor; with two masters on one name
`MessageQueue::Stop` wakes the segment that has the name, not the caller's
blocking Get (in `message_queue_live`, with one master, Get is always released);
`~ThreadSafeQueue` does not wait for a blocked `Get`; `Clear` after `Stop`
clears nothing.

In the loggers, where the docs of both Stops promise that "all messages in the
queue is saved to the file" (`src/src/logfile.cpp:210`, `src/src/syslog.cpp:100`):
`LogFile` drops what it takes out of the queue while the file cannot be opened
(`lost`; `StopHandlesAll` says that nothing else is missing), and a message
pushed just before `Syslog::Stop`, between the worker's last look at the list
and its test of the flag, is not sent. What is logged between `LogFile::Stop`
and the destructor is accepted and never written.

In the supervision: `ProcessMaster::Stop` may leave a process that a poll
launched meanwhile (`late`), although the comment at
`src/src/processmaster.cpp:46` says "Stops all processes"; the next Start or the
destructor ends it, the latter after the context it uses is gone. What holds is
`StopLeaves`. Both threads
may use `process_` when it is null. MaxRestarts is read nowhere: the limit is
ten. A master that is stopped and started keeps the old timer handler and polls
twice as often, once more for each start (`WaitPerStart` is the bound).

In the listen system: after Stop `active_` may be true again, and so may its
copy; the acceptor stays, so that clients connect to a server that never
accepts them. A failed accept is the last one. A handler of a connection that
the cleanup has erased uses freed memory. A log level is cut to eight bits for
the proxies and not for the clients; of several clients the last one to ask
decides. A client's retry calls Close after it has cleared the flag that Close
tests, and the handler of `DoConnect` captures a local variable by reference
(`src/src/listenclient.cpp:81`).

Deadlock is not checked: every bounded instance comes to an end when all calls
have been made, a stopped queue rests, and a reader may rightly wait for ever.
Blocking is covered by the liveness properties instead.

### Fairness

Threads that can go on are scheduled (weak fairness). A thread that waits for
a mutex gets it when it is free again and again (strong fairness): the mutexes
are those of the operating system. Timed waits end. `Get` of a master and of a
getter is called in a loop, as the worker threads do. No fairness is assumed
for calls of Add, Put, Stop, for spurious wake-ups, crashes, nor for the network.
In `SyslogFeed` each handler of the server thread has its turn, because an asio
context runs handlers in the order in which they become ready; locks need weak
fairness only there, the calls being bounded. In `ProcessMaster` the two threads
are scheduled and startup timers expire; nothing is assumed of processes, which
may run for ever or end, nor of those who call. In `ListenSystem` a worker that
has a handler to run runs one, which one being left open: the handlers are
finitely many for the bounded calls. Clients need not be closed and connections
need not break.

## 4. The proofs

All for any number of processes, slots, messages and restarts, from the named
assumptions on the constants.

* `MessageQueueProofs`: `TypeCorrect`, `RingSafe`, `NeverUnderflows`,
  `ImplementsFifo`. The ring's
  soundness is not inductive alone. The invariant `IInv` adds what a thread in
  the middle of Add or Get knows: only the holder of a segment's lock is
  between lock and unlock (`ClientInv`, `MasterInv`), and the count that Get saw
  outside the lock is still positive, because one thread fetches from a
  segment (`NoUnderflow`). `RingInv` says how far count and indices are apart at
  each point: in agreement under a free mutex (`SegmentRing`), the index ahead
  by one while a client is about to count, with the room that it has seen still
  there (`ClientRing`), and likewise for the fetch (`MasterRing`). A process
  that is killed keeps the mutex, so that nothing is said of its segment from
  then on. The refinement then goes step by step: storing into the free slot and
  moving the index are invisible, counting appends, fetching removes the head,
  all else stutters.
* `MessageQueueTokenProofs`: `NeverStranded`. On top of `IInv`, `TokenInv`
  counts: what a segment holds is covered by the semaphore, the one client
  that is about to post (one, because it holds the mutex) and the token in the
  hand of Get. A client killed with the mutex keeps it (`LostStays`), so that the
  exception once granted stays granted.
* `ThreadSafeQueueProofs`: `QueueTypeCorrect`, `NeverAllAsleep`,
  `WakeupsAlwaysSuffice`. The strengthening: a thread on its way to sleep holds
  the mutex over an empty queue (`DecidedInv`), and whoever is inside Put has
  an item of its own (`PutInv`). `WakeupsAlwaysSuffice` counts threads; it
  holds until the queue is stopped or deleted (the history variable `halted`).

* `LogChainProofs`: `ChainTypeCorrect`, `MessagesConserved`, `StopLeavesNothing`,
  `ChainNoOtherKnot`.
  `Conserved` needs that the worker's hand is empty when it takes a message
  (`HandInv`). `StopHandlesAll` (each message due at the stop is in the file, or was
  dropped because the file could not be opened) needs where the messages of the list at the
  stop may be meanwhile (`DueInv`: handled, in hand or in the list), and that
  the owner joins a worker that exists and that ends only with the flag up
  (`StopInv`). Each part has a lemma of its own with one step per action; what
  pushing, popping and writing do to the sequences is proved once, before.
  `NoOtherKnot` needs that a mutex is held by exactly the thread whose place in
  the code says so (`LockInv`); then whoever is waited for runs (`WaitedRuns`),
  and three waits in a row end in a knot (`NoThreeWaits`).

* `SyslogFeedProofs`: `SubscriberOneConnection`, `SubscriberOperable`. The
  invariant says at which points the socket has no connection: while the host is
  looked up, during the pause, and before a connect completes; unless the context
  is stopped, when the worker goes on no more (`SocketInv`). And a socket that
  is closed under a reading worker was closed by Stop (`ReadInv`).
  `FeedTypeCorrect`, `FeedSenderOrder`, `FeedSentOnce`, for any number of
  senders, messages, kept messages and connections. `DeliveryInv` is about what
  is written to a connection: one that is not accepted has no history
  (`Unaccepted`), who holds the list's mutex is in the loop and the loop's rest
  is part of the list (`Locked`), the connection between replay and registration
  (`Registering`), the store holds each message once and in order (`Kept`).
  `Counted` says how many copies there may be at each point of AddMsg: a message
  added before the registration may come from the store and from the call, one
  added later only from the call, which still has the connection ahead of it
  (`Awaits`) or has passed it. `ReceivedInv` then follows the bytes: while the
  client's end is open, what was written is what has come into the queue,
  followed by what is on its way; the queue is there as long as the worker
  is, and a new connection starts with nothing.

* `ListenSystemProofs`: `ListenTypeCorrect`, `ListenTextComplete`,
  `ListenLevelLast`, `ListenInOrder`, for any number of clients, connections,
  texts and levels. `ServerInv`: a connection that is not accepted is unknown to
  the server, and a connection joined no later than now. `ServedInv` is inductive
  over it: each message handled is queued for every served connection, and
  neither the end of a write nor the timer loses or repeats one. `TravelInv`
  leads on to the client: what was written is in its inbox or on the way, over
  the connection that it holds. `ListenInOrder` is about a client and not
  a connection: a text is in one place at a time, so that none is handled twice
  (`OnceInv`); what is on a connection was handled before what is queued for it
  (`FlowInv`), and what is in the inbox before what is on the way (`InboxInv`),
  also when the first connection is lost and the texts between the two are gone.

* `ProcessMasterProofs`: `MasterTypeCorrect`, `MasterOneProcess`,
  `MasterStopLeaves`, `MasterWaitPerStart`, `MasterLaunchesCounted`, for any
  number of applications and starts. `OneProcess` and `StopLeaves` need the same
  invariant `StopInv`: what the poll thread has read still holds when it acts
  (`PollerInv`), a process behind the state Stopped was launched under a Stop,
  and the poll thread is past it (`StoppedInv`), the flag is up while the
  owner is inside a call (`OwnerInv`), and what the owner has not stopped yet
  is ahead of it (`LeftInv`). `WaitInv` counts the wait that a Start is about to
  add. `LaunchInv` counts the launch that is due; behind Stop's back it is at
  most one, because the poll thread passes each application once before
  it ends (the last conjunct), and needs that until Stop nobody but the poll
  thread changes a state (`SeenInv`).

Every invariant, every action property and the refinement that a passing run
checks has a theorem. Only model-checked are the liveness properties (`Delivered`,
`AddReturns`, `StopReturnsGet`, `CopiesFollow`, `Handled`, `LogReturns`,
`OwnerReturns`, `Reaches`, `StopsReturn`, `CleanedUpOrReset`, `Supervised`,
`ActiveFollows`, `Arrives`): what must follow under fairness is out of the prover's
reach.

## 5. Not modelled, and what could follow

1. (done) `MessageQueue`, `ThreadSafeQueue`, the log chain, with proofs.
2. (done) publisher and subscriber, with proofs. Open: an abstract
   specification of what a subscriber sees; the UDP and TCP servers over
   `ThreadSafeQueue`.
3. (done) supervision, with proofs. Open: `ServiceHelper` on top, and the
   Windows back end.
4. (done) listen server and clients, with proofs. Open: the composition with
   `MessageQueue` (the two meet in first-in-first-out order here).
5. Open: `ConsoleApp`; `ListenConfig`; a second `InitLogFile`, and `AddLogger`
   over an existing name; `LogToList`, `BackupFiles`, the splitting in
   `ListenProxy` and the wildcard match as functions.

Not planned: the XML, Gnuplot, time, unit and hardware parts (pure conversions
and I/O), the generated parser, the graphical tools, and `CsvWriter`, which are
sequential. The implementation is C++ (`src/src`, `src/include`, the daemons);
the JavaScript of the repository is the search and navigation script that
Doxygen generates into `src/docs/manual/html`. It is output of a tool and
contains nothing of the library, so no module models it.
