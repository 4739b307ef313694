# NetLibrary: specification, model checking and proofs

TLA+ models of NetLibrary, a C++ reactor library: an epoll event loop with
timers, TCP connections and a server on it, byte buffers, a thread pool, a
rotating logger and daemon control. Every model is translated from the code in
`src/`; `PROJECT.json` maps each definition to the lines it stands for.

## 1. The system

| Part | Source | State | Operations |
|---|---|---|---|
| SafeQueue | `thread.h`, `thread.cc` | list of tasks, mutex, condition variable, capacity, atomic `m_exit` | `push`, `pop_wait` (no limit, timed, 0), `exit`, `size` |
| ThreadPool | `thread.h`, `thread.cc` | a SafeQueue, worker threads | constructor, `start`, `addTask`, `exit`, `join`, destructor |
| EventBase, tasks | `eventbase.h/.cc` | SafeQueue of tasks, wakeup pipe, `m_exit` | `safeCall`, `exit`, `wakeup`, `loop`, `loop_once` |
| EventBase, timers | `eventbase.h/.cc` | `m_timers`, `m_timerRepeats`, `m_nextTimeout`, `m_timerNum` | `runAt`, `runAfter`, `cancel`, `handleTimeout`, `repeatableTimeout`, `refreshNearest` |
| Poller, Channel | `poller.*`, `channel.*` | `m_liveChannels`, `m_activeEvents`, `m_lastActive`; a channel's descriptor, events, callbacks | `addChannel`, `updateChannel`, `removeChannel`, `loop_once`, `close`, destructors |
| Buffer | `buffer.h/.cpp` | block, `b_`, `e_`, `cap_`, `exp_` | `append`, `makeRoom`, `addSize`, `consume`, `absorb`, copying |
| TcpConn | `tcpConn.h/.cpp` | state, channel, `input_`, `output_` | `attach`, `handleHandshake`, `handleRead`, `handleWrite`, `send`, `isend`, `cleanup` |
| TcpServer | `tcpServer.h/.cpp` | listening channel, callback | `startServer`, `handleAccept`, `onConnRead`, destructor |
| Daemon, Signal | `daemon.h` | pid file, table of signal handlers | `daemonStart`, `daemonStop`, `daemonRestart`, `daemonProcess`, `signal` |
| Logger | `logging.h/.cc` | descriptor, `m_lastRotate`, `m_realRotate` | `logv`, `maybeRotate`, `setFileName` |
| Conf, LineScanner | `conf.h` | `m_values`, which lasts from one parse to the next; in `parse` a line buffer, section and key; a scan pointer and `err` | `parse`, `get`, `getStrings`, converting getters |
| File | `file.h` | the files and names of a directory | `renameSave` over `writeContent` and `renameFile`; other wrappers |
| Slice, Status, util, net, Ip4Addr, port | `slice.*`, `status.h`, `util.*`, `net.*`, `port.*` | none of their own | wrappers and pure functions |
| UnitTest, `main.cpp`, raw-example | | | tests and demonstrations |

How they interact. An application runs `EventBase::loop` in one thread. Each pass
waits in the poller, calls the callbacks of the ready channels, and then runs the
timers that are due. Other threads reach the loop through `safeCall`, which puts
a task into a SafeQueue and writes one byte to a pipe the loop polls. `TcpServer`
accepts in a channel callback and posts a task that attaches a `TcpConn`;
`TcpConn` lives in its channel's callbacks, reads into one `Buffer` and writes
out of another. Channels, connections and timers point to each other with raw
pointers. `ThreadPool` stands beside the loop and shares SafeQueue with it. All
threads log. Daemon commands are processes that meet in the pid file and in
signals only. Conf and File meet in the directory: a configuration is replaced
with `renameSave` by one process and parsed by another.

What is hard, and what makes each part correct:

- **SafeQueue**: `exit()` stores its flag *before* it takes the mutex, `push`
  notifies one thread only, waits may end spuriously or by timeout. Correct means
  no lost wakeup, nobody left asleep after `exit()`, and no early return from an
  unlimited wait.
- **ThreadPool**: test of the flag, pop and run are separate steps. A task is run
  once and in order, `exit()` makes `join()` return, and the queue is quiet when
  it is destroyed.
- **EventBase tasks**: one read of the pipe swallows many posters' bytes, the pipe
  blocks when it is full, `exit()` races with posts. A queued task always has a
  wakeup to come, and what was posted before `exit()` is run.
- **EventBase timers**: tasks change the maps while `handleTimeout` walks them; the
  sleep is computed when the maps change and used later; its `int` truncates.
- **Poller and Channel**: a batch of events holds raw pointers while callbacks
  close, destroy and create channels, and addresses and descriptors come back.
- **Buffer**: content is moved, reallocated and swapped; it must stay a byte queue.
- **TcpConn**: partial reads and writes, a full send queue, end of file or reset at
  any point. Bytes must stay in order and none may vanish.
- **TcpServer**: accepting and attaching are separate steps on a bounded queue, the
  callback may change between them, and descriptors may run out.
- **Daemon**: commands, crashes and reused process numbers over an unlocked file.
- **Logger**: rotation without a mutex by whichever threads notice it is due, in
  periods of seconds, to files named after minutes.
- **Conf**: section, key and values are carried from line to line and from parse
  to parse, the scanner's `err` from scan to scan, and the line buffer keeps the
  rest of longer lines. What is read must be what the lines mean.
- **File**: `renameSave` removes the target before it renames; between any two of
  its system calls it may crash, and others save and read.

## 2. Modules

| Module | Models | Extends / instantiates |
|---|---|---|
| `SafeQueue` | SafeQueue | |
| `Executor` | abstract: what a pool promises | |
| `ThreadPool` | ThreadPool over SafeQueue's steps | SafeQueue, Executor |
| `EventLoop` | EventBase: tasks, wakeup, `loop` | Executor |
| `TimerService` | abstract: what timers promise | |
| `Timers` | EventBase: timers and `loop` | TimerService |
| `Poller` | PollerEpoll and Channel | |
| `ByteQueue` | abstract: what a buffer promises | |
| `Buffer` | Buffer | ByteQueue |
| `TcpConn` | one connection with the echo callback | |
| `TcpServer` | accepting and attaching, on the event loop | EventLoop |
| `Daemon` | start, stop, restart, the pid file | |
| `Logger` | `logv` and `maybeRotate` | |
| `LineScanner` | LineScanner | |
| `Conf` | `parse` and the getters, line by line | LineScanner |
| `IniFile` | reference: what lines of each kind mean | |
| `File` | `renameSave`, system call by system call | |
| `ConfFile` | a configuration replaced while it is read | File, Conf, IniFile |
| `SafeQueueProofs` | theorems about SafeQueue | SafeQueue, TLAPS |
| `ThreadPoolProofs` | theorems about ThreadPool | ThreadPool, SafeQueueProofs (as `QP`) |
| `TcpServerProofs` | theorems about EventLoop, and about TcpServer on it | TcpServer, TLAPS |
| `TimersProofs` | theorems about Timers | Timers, TLAPS |
| `PollerProofs` | theorems about Poller | Poller, TLAPS |
| `BytePathProofs` | theorems about Buffer and TcpConn, the way of the bytes | Buffer, TcpConn |
| `LoggerProofs` | theorems about Logger | Logger, TLAPS |
| `SharedFileProofs` | theorems about ConfFile and Daemon, the files that processes share | ConfFile, Daemon |

`MCx.tla` and `MCx*.cfg` instantiate module `x`. Variables keep the names of the
members they stand for (`m_items`, `m_ready`, `cap_`); `pc`, `lpc`, `stage`,
`phase` say where a thread is. Variables marked "history" record what
happened and are read by properties, and by guards that post each task only once.
Operators whose comment begins with "Mutant" are broken variants
of the definition that follows them; each of them violates one property of a run,
which shows that the property depends on the code.

**Steps.** A step is the longest stretch of code no other actor can observe or
disturb. In SafeQueue a critical section that only touches what the mutex guards
is one step; but `m_exit` is written outside, so a thread that has tested the
condition and is about to sleep is a state of its own (`pc = "block"`), and
`exit()` is two steps, the store and the locked notification. `pop_wait` is: take
the mutex, test, sleep, resume (notified, spuriously, or late), take. EventLoop
uses `push` and `pop_wait(.., 0)` only, which never sleep, as single steps. In
Logger every access to a shared variable or file is a step; in Daemon every
system call is one, and so in File; in Conf a line is one; in TcpConn every read,
write and callback; in Poller every entry to and return from a callback or
destructor (the variable `stack`).

**Composition.** `TcpServer` is EventLoop with a listening channel: every step
of the loop thread is EventLoop's or lies inside one of its callbacks, and a
connection's attachment is one of EventLoop's tasks. Hence EventLoop's properties
are checked under the server, with posts made by `handleAccept` in the middle
of a pass. `ConfFile` puts savers and a reader on one directory; the reader keeps
the file it has opened, also when that has lost its name. `ThreadPool` runs on
SafeQueue's steps.

**The environment** is modelled from how the code uses it: the condition variable
and spurious wakeups, the pipe, epoll's interest list, sockets and peers,
processes and signals, the clock. `PROJECT.json` marks these definitions external.

**Refinements.** `ThreadPool` implements `Executor` with the pool's list as
`queue` and the workers that are running a task as `running`. `EventLoop`
implements the same `Executor` with a single worker, never closed: the loop
accepts tasks after `exit()` too. `Timers` implements `TimerService`: the two maps
and the moving ids become one set of armed timers. Calls of tasks are visible in
both (`running`), and so is what `cancel` has removed (`cancelled`): a timer
leaves the set by a call of its task when it is due and none is due before it,
by `cancel`, or at the end of the loop, and one kind of step cannot pass for
another. `Buffer` implements
`ByteQueue` with the bytes from `b_` to `e_`. `parse` is compared with `IniFile`,
a definition that looks at whole files at once and knows neither characters,
scanners nor a current section: a file is given as lines of known kinds, the
parser gets one of the ways to write them, and both must agree on every value, on
every name that has none, and on the number of the wrong line.

## 3. Runs

| Run | Configuration | Shows |
|---|---|---|
| `queue` | 3 threads, 3 tasks, capacity 2, all waits, 1 spurious wakeup | `NoLostWakeup`, `ExitReleasesAll`, `EmptyHandedOnlyAfterExit` |
| `pool` | 2 workers, owner, 3 tasks, capacity 2, 1 spurious wakeup | `JoinedMeansQuiet`, `ImplementsExecutor`, `AcceptedIsRun`, `ExitEndsJoin` |
| `timers` | 3 `runAt` calls for times 1, 2, 12 with periods 0 or 2, clock up to 4, `int` of 16 values, longest poll 3 | `RepeatsArmedOnce`, `NoTimerAfterLoop`, `AllDueFired`, `SleepsNoLonger`, `ImplementsTimerService`, `DueFires` |
| `poller` | 2 addresses, 2 descriptors, batches of 2, nesting of 3 | `NoStaleEvent`, `InterestIsLive`, `EofOnce`, `NothingAfterDestroy` |
| `buffer` | 2 buffers, content up to 4, suggested size 2 | `ReadHasRoom`, `ImplementsByteQueue` |
| `conn_echo` | 5 bytes, send queue of 2 | `EchoInOrder`, `ClosedAfterAllData`, `EveryByteComesBack` |
| `conn_just_full` | the same, smaller | **violated**: `JustFull` |
| `server` | the loop thread, 1 poster, 3 connections and 1 other task, queue of 2, pipe of 3 bytes read up to two at a time, 1 exit, 2 descriptors, 2 calls of `onConnRead` | `NoStrandedTask`, `ExitKeepsPosted`, `ConnsInOrder`, `CallbacksInOrder`, `ImplementsExecutor`, `PostedIsRun`, `ExitEndsLoop`, `Served` |
| `daemon` | 3 process numbers, all commands, starts one at a time | `AtMostOneDaemon`, `FileNamesDaemon`, `CommandsEnd` |
| `daemon_stale_pidfile` | the same, without stop | **violated**: `RefusedOnlyIfExists` |
| `log_rotation` | 3 threads, periods of 4 seconds, minutes of 2, clock up to 9 seconds | `NoLineLost`, `OneRotationPerPeriod`, `FdIsCurrent` |
| `conf_file` | 2 savers, 2 saves, 2 faults, 2 parses into one Conf, lines of every kind in 5 surroundings, all files of up to 4 plain lines | `ParsesAsWritten`, `GoneOnlyInSave`, `OneFaultLosesNothing` |

`queue` also checks `TypeOK`, of which the capacity is a part and which the proofs
use. The `TypeOK` of the other modules documents the values of the variables.
Every passing run explores its instance completely; in `conf_file` the instance
is what its constraint `Bound` leaves: saves and a second parse only for files
of two lines that are a section, a pair or a continued value, and all other
files in one parse without saves. The constraint cuts a file's behaviour at its
first save or second parse, so it hides no state of what it leaves. In
`log_rotation` the constraint `Timely` stops where a thread has been overtaken
while deciding: all three properties are about the time before that and hold of
every later state by their own condition.

**Bounds, and why they are enough.** Three threads give a sleeper, a pusher, and
either an exiting thread or a rival that steals the task; one spurious wakeup
shows whether a wait tests its condition again. Three tasks on a capacity of two fill the queue and
leave one to refuse. Four bytes (two
connections that have got a descriptor, another task, an exit) from the poster and the loop thread itself overfill a pipe of three, and a read of up
to two takes the bytes of several posts or leaves one behind. A 16-value `int` truncates time
12 minus now to a negative number, as 2^32 does 25 days ahead; period 2 repeats
within the clock's 4 ticks. Two addresses and two descriptors are enough for
a new channel to get the address or descriptor of one destroyed in the same
batch. A send queue of two is full in the middle of a write. Three process
numbers allow a daemon, a stop and a start at a time, and reuse of the
daemon's number. Nine seconds cover two ends of a period of four; a minute of half a period makes
two rotations at different seconds share a name or not. Of three connections
on two descriptors the first two never lack one and must be attached, unless a full queue or a reset loses them; if the third
comes while they hold theirs, `accept` fails in every pass from then on with a connection waiting. Two
calls of `onConnRead` let one connection have a callback and the next have a newer one or, after a clearing call, none.
Every line of the grammar stands alone,
before, after and between others; a name in two spellings shows whether case is
ignored; fresh memory holds an ordinary character or the end of a string. Two
savers with two faults are enough for a crash that
leaves a temporary file and a failure of the next save. All the other
bounds (`MaxSpurious`, `MaxExits`, `MaxNum`, `MaxTime`, `MaxCalls`, `MaxDepth`, `MaxSize`,
`MaxCap`, `MaxBytes`, `MaxSaves`, `MaxFaults`, `MaxParses`) appear as guards and are named in the modules.

**Deadlock** is not checked where a system may really stop: when all posters are
done, the peer is silent, or no command is given. `MCx.cfg` says
`CHECK_DEADLOCK FALSE` there; the liveness properties cover what must not stop.
The symmetry sets are used only in runs without liveness properties.

### Fairness

- `ThreadPool`: runnable threads run and mutexes are handed out (weak fairness of
  the workers' steps, `StartReturns`, `JoinReturns`, `ExitReturns`), and every task
  returns after finitely many calls (strong fairness of `TaskReturns`: a task may
  call `exit()` again and again, but not for ever). Nothing makes the owner start,
  exit, join or destroy.
- `EventLoop`: the loop thread goes on, its callbacks and tasks return, and a
  writer that finds room in the pipe writes. Nobody has to call `exit`.
- `Timers`: time passes and the loop thread goes on. Only its own timeout ends a
  poll, so that `DueFires` depends on the timeout the code computed.
- `TcpConn`: the loop thread runs and the peer receives what arrives.
- `TcpServer`: the same as `EventLoop`, whose loop step now includes
  `handleAccept`. `Served` excepts a connection only while it still waits and no
  descriptor is left: one that has got a descriptor is attached even when the next
  `accept` fails in every pass. No strong fairness is assumed: the drain loop
  `while(m_tasks.pop_wait(&task, 0))` (`eventbase.cc:26`) ends because a model has
  finitely many tasks. The code bounds it by nothing: a task that always posts
  another one keeps the loop there, and `PostedIsRun`, `Served` and `ExitEndsLoop` say nothing of
  applications that do that.
- `Daemon`: commands run. The daemon may ignore SIGQUIT for ever.

### What the violated runs show

- **`JustFull`** (`tcpConn.cpp:167`). `isend` enables the write event when the
  socket is full and then retries until all is written; nothing disables the
  event again, and `handleWrite` does nothing once connected. From then on `send`
  takes the branch commented "just full" with room in the socket, and puts the
  data into `output_`, which nobody sends.
- **`RefusedOnlyIfExists`** (`daemon.h:72`). The `return -1` looks as if it
  belonged to the `if` above it, but does not: any number in the pid file refuses
  start and restart, also that of a process that is gone.

More observations that the models make visible, without a run of their own.
`daemonStop` waits 300 times 10 microseconds, while its message speaks of 3
seconds. A thread that has read the clock before a period's end may go on in `maybeRotate`
after another has stored a later time: it sets `m_lastRotate` or `m_realRotate` back,
or compares with a period that is not its own, and several threads may rotate in
one period and rename over each other's file. The history variable `overtaken`
marks exactly this; drop its conditions from `NoLineLost` and
`OneRotationPerPeriod` and TLC finds both violated, and no code prevents it.
Rotated files are named after minutes while periods are counted in seconds: when the interval is not a
number of whole minutes (the 5 seconds of `main.cpp`'s test, but also 90) two
periods begin in one minute, and the second rotation renames its file over the first.
Without `MinutesApart` TLC finds `NoLineLost` violated with one thread. The loop thread blocks
itself when it posts to its own full pipe (`LoopWaitsForItself`, the exception of
`PostedIsRun`, `ExitEndsLoop` and `Served`). A connection accepted in the last pass, behind
the wakeup channel, is never attached. Savers that share their temporary name, as
in `main.cpp:147` where it is "tmp", truncate and rename each other's file: give
`s1` and `s2` the same name in `MCConfFile` and all three properties of
`conf_file` fail. After a crash between `unlink` and `rename` the only complete
version has the temporary name, and the next save begins by truncating it: two
faults lose every version. A short `write` counts as success (`torn`). `k:v`
loses the first character of the value, and a value scan behind `k:` at
the end of a line without newline reads what an earlier line has left in the buffer.
A second parse into the same Conf appends to the values of the first.

### Assumptions

The properties hold under these, which the code does not enforce: timers are set
for positive times with periods of at least 0 and from the loop thread only; only
live periodic timers are cancelled; no timer runs more than 24 days late (`FitsInt`); no channel has descriptor 0 and descriptors
are not duplicated; SIGPIPE is ignored (the default action ends the process at
the first write to a connection that was reset); a TcpServer outlives the tasks it has
posted; starts and restarts of a daemon are issued one at a time (`Serial`);
no thread in `maybeRotate` decides with the
time of an earlier period (`overtaken`), the log's periods are whole minutes (`MinutesApart`, for
`NoLineLost` only), and so is the offset of local time, which does not change; the system clock is not set back
(timers use it too); `onConnRead` is called in the loop thread or before `loop()`; a write to the wakeup
pipe waits but does not fail (a signal's EINTR would only be logged, `eventbase.cc:160`); the pool's `addTask` and
`exit` are called by its owner and by its tasks; tasks are distinct objects, so each value is posted once;
savers use temporary names of their own (`OwnNames`), on one file system, and the machine does
not lose power; in a configuration a colon is followed by a blank and lines are
shorter than the buffer (1024 in the code, 16 in the run).

## 4. Proofs

TLC checks the instances of section 3; the theorems hold for every value of the
constants that the modules' assumptions allow: any finite set of threads, any tasks, any
capacity, any size of pipe, block, batch or `int`, any clock. Of the 40 different
properties of the passing runs, 31 are stated by a theorem:

| Module | Theorem | States |
|---|---|---|
| `SafeQueueProofs` | `TypeCorrect` | `Spec => []TypeOK`; with it, the list never exceeds its capacity |
| | `ExitReleases`, `EmptyHanded`, `WakeupsKept` | `[]ExitReleasesAll`, `[]EmptyHandedOnlyAfterExit`, `[]NoLostWakeup` |
| `ThreadPoolProofs` | `JoinedQuiet`, `TaskOnce` | `[]JoinedMeansQuiet`, `[]TaskInOnePlace` |
| | `PoolIsExecutor` | `Spec => ImplementsExecutor` |
| | `PoolTypeCorrect`, `JoinIsFinal` | `[]TypeOK`; once joined, queue and finished tasks stay as they are |
| `TcpServerProofs` | `NoneStranded`, `PostedKept` | `Spec => []NoStrandedTask`, `[]ExitKeepsPosted` |
| | `LoopIsExecutor` | `Spec => ImplementsExecutor` |
| | `ServerNoneStranded`, `ServerLoopIsExecutor` | the same two of the loop under a server (`ServerSpec`) |
| | `ConnsKeepOrder`, `CallbacksKeepOrder` | `ServerSpec => []ConnsInOrder`, `[]CallbacksInOrder` |
| | `LoopTaskOnce`, `ServerTaskOnce` | `[]TaskInOnePlace` of the loop, alone and under a server |
| | `DescriptorsCounted`, `DestroyedStaysQuiet` | `[](HeldCounted /\ HeldLimited)`, `[]DestroyedQuiet` |
| | `LoopTypeCorrect`, `ServerTypeCorrect` | `Spec => []TypeOK`, `ServerSpec => [](TypeOK /\ ServerTypeOK)` |
| `TimersProofs` | `ArmedOnce`, `NoneAfterLoop`, `NoneLeftDue` | `[]RepeatsArmedOnce`, `[]NoTimerAfterLoop`, `[]AllDueFired` |
| | `NoOversleep` | `Spec /\ []FitsInt => []SleepsNoLonger` |
| | `MapsAreService` | `Spec => ImplementsTimerService` |
| | `IdsApart`, `IdsNotReused` | `[]OnePerId`; for every id, `[](Gone(id) => []Gone(id))` |
| | `BeatKept`, `TimersTypeCorrect` | `Spec => KeepsBeat`, `[]TypeOK` |
| `PollerProofs` | `EventsAreFresh`, `InterestMatches` | `[]NoStaleEvent`, `[]InterestIsLive` |
| | `EofAnnouncedOnce`, `DestroyedClean` | `[]EofOnce`, `[]NothingAfterDestroy` |
| | `LiveAreOpen`, `PollerTypeCorrect` | `[]LiveIsOpen`, `[]TypeOK` |
| `BytePathProofs` | `RoomForRead`, `BufferTypeCorrect` | Buffer: `[]ReadHasRoom`, `[]TypeOK` |
| | `IsByteQueue` | Buffer: `Spec => ImplementsByteQueue` |
| | `EchoOrdered`, `ClosedComplete` | TcpConn: `ConnSpec => []EchoInOrder`, `[]ClosedAfterAllData` |
| | `GotInOrder`, `ConnTypeCorrect` | TcpConn: `[]GotWhatWasSent`, `[]ConnTypeOK` |
| | `OutputStuck` | TcpConn, for every n: `[](StuckAt(n) => [](StuckAt(n) /\ Len(peerGot) <= n))` |
| `LoggerProofs` | `LinesKept`, `RotatedOnce`, `FdFollows` | `Spec => []NoLineLost`, `[]OneRotationPerPeriod`, `[]FdIsCurrent` |
| | `LoggerTypeCorrect`, `NamesAreOne` | `[](TypeOK /\ DupHasFile)`, `[]OneName` |
| `SharedFileProofs` | `FileGone`, `FileKept` | ConfFile, if `OwnNames`: `[]GoneOnlyInSave`, `[]OneFaultLosesNothing` |
| | `OneVersionRead`, `OpenFileKept` | ConfFile, if `OwnNames`: `[]ReadsOneVersion`, `OpenFileStays` |
| | `ParseAdvances`, `ParseResult` | ConfFile, if `OwnNames`: `RoundsAdvance`, `[]ResultIsLine` |
| | `ValuesStay` | ConfFile, if `OwnNames`: `[](KeysHaveValues /\ ValuesKept)` |
| | `ConfFileTypeCorrect` | ConfFile: `[]TypeOK` |
| | `FileNames`, `OneDaemon` | Daemon, if `Serial`: `DaemonSpec => []FileNamesDaemon`, `[]AtMostOneDaemon` |
| | `DaemonTypeCorrect`, `SignalsAimed` | Daemon: `[]DaemonTypeOK`, `[]SignalsHaveTargets` |

Theorems that name a property which no run lists (`ReadsOneVersion`, `OutputStuck` and the like) define
it in the proof module, where it stands next to the argument; TLC has agreed to each on the instance of its
component's run before it was proved.

The specifications are those of the runs; their fairness is not used. TcpConn's
and Daemon's are named after the component (`ConnSpec`, `DaemonSpec`, as `ServerSpec`
is), since the proof modules extend two components each.

**Hypotheses.** Besides the modules' assumptions about their constants, three
hypotheses stand in the theorems that need them, each an assumption of section 3
that the runs make too: `Serial` (no start or restart while another is under way),
`OwnNames` (each saver has a temporary name of its own; without it a saver may
truncate the very file that a reader has open), and `FitsInt` (no timer
is late by more than half the range of the `int` of milliseconds, 24 days for
32 bits: beyond that a negative difference would come out as a positive one and be
taken for a long sleep). With any of the three
dropped TLC finds violations of the runs' properties in question; for `FitsInt` a clock that
goes further past the first timer than half of `IntMod` is enough. The properties of
Logger carry their own conditions (`overtaken`, `MinutesApart`) and need no hypothesis.

### The inductive invariants

**SafeQueue.** `ExitReleasesAll` and `EmptyHandedOnlyAfterExit` are not inductive
alone. The invariant is `IInv`: the types; `MutexInv`, that exactly the thread
between lock and unlock owns the mutex and only threads inside `pop_wait` sleep;
`BlockEmpty`, that a thread about to sleep has seen an empty list and, since it
holds the mutex, the list is still empty; and the two properties. `exit()` may
slip between another thread's test and its sleep; but then that thread owns the
mutex, so `exit()` has to wait with `notify_all` until it sleeps. `MutexStep`
and `ExitStep` carry this through every action.
`NoLostWakeup` counts: while somebody sleeps, the queued tasks are no more than the
threads on their way to the list (`Awake`). `push` adds one to both sides,
if it finds a sleeper to notify; `Take` removes one from both; a thread that goes to sleep does so
on an empty list (`BlockEmpty`); `notify_all` empties the left side. `AwakeGrows`
states the step of the cardinality once. It needs finite thread sets, which is why
`SafeQueueAssumption` asks for one.

**ThreadPool.** The pool's queue is not proved again. `PoolStepIsQueueStep` shows
that each step of the pool is one of SafeQueue's or none of it, so that the lemma
`IInvStep` of `SafeQueueProofs`, instantiated for the pool's threads, gives the
queue's invariant (`QueueInv`). `PoolInv` adds where the workers are, relative to
their stage and to the owner's; from it `JoinIsFinal` follows, since after `join()` no
worker is left to take a task and `m_exit` refuses new ones. For the refinement, the workers in
`last` have taken a task after `exit()` and are running it or on their way out (`LastOnes`). `PlaceInv` says that what
is queued, run or finished was issued, once.

**EventLoop and TcpServer.** `LoopInv` strengthens `NoStrandedTask` by what makes
`exit()` safe: an accepted task is queued, at work or done (`NothingDropped`); a
task that is settled (its `safeCall` has returned) and still queued has its byte in the
pipe or the loop is draining (`SettledWoken`); and the last pass, which begins with
the flag seen, leaves nothing settled behind (`LastPass`).
`ServerStepIsLoopStep` shows that a step of the server is a step of the loop
or leaves the loop alone, so that `LoopInv` and the refinement hold under the server as
well. `LineInv` cuts the way of a connection into its parts (attached, at work,
queued, in the backlog), each in order and each ahead of the next; `PartsMakeTheLine`
puts them together to `ConnsInOrder`. `CallTypes` adds to `CallbacksInOrder` that
the server holds what the last `onConnRead` gave, that no connection has a callback from a call that was
an empty one, and none before it is attached; that the connection attached last is behind all others is `LineInv`'s. A descriptor that was lost (a failed
`getpeername` or a refused post) is in `lost` and nowhere on the way.
`PlaceInv` is the loop's counterpart of the pool's: what is queued, at work or done was
posted, and is in one of these places only. `HeldInv` counts: the connections attached, queued, at
work or lost are as many as there are descriptors, so that together with the backlog they
make all that have arrived; `accept` moves one from the backlog to the way and
nothing ever closes one, so that `HeldLimited` is kept by `accept`'s own test alone.
`GoneWait`, that only connections still in the backlog are known to be reset, is what the types of the server need.

**Timers.** `MapsInv` is `RepeatsArmedOnce` with the types of the two maps and that no
id carries a number that has not been given out yet (`NumsUsed`): a new id is new to both.
`SleepInv` relates `m_nextTimeout`, and the time that is left of the poll, to every
timer in the map rather than to the first. For the refinement the armed set
is split into the timers that fire once and those that repeat; each action of the
maps is shown to arm, disarm, move or fire exactly one, or to leave the set alone.
`CallInv` says that a task is being called in its phase only, which is what firing needs, and that
cancelled ids have numbers given out before, which makes a newly armed id none of them.
`BeatKept` is read off the refinement: what the service's steps do to a timer with a given id is
all that the maps can do to it. `IdsNotReused` needs that numbers only grow.
For the types, the poll's timeout is bounded whatever the conversion to `int`
does, without `FitsInt`: `refreshNearest` makes 0 of a negative result.

**Poller.** `ChannelInv` relates `m_liveChannels` to the open channels (`LiveIsOpen`)
and both to the kernel's list. `StackInv` says that a channel whose destructor is on
the stack is closed, exists, and has only that destructor (`DtorsShut`). This is
what keeps the memory of a channel from being given to a new one while its
destructor is still calling back.

**Buffer and TcpConn.** Every buffer is a `Block`: its first and last positions
are in order and inside its capacity. `PairKeeps` states once what setting
one or two buffers does to all others; `MakeRoom`, `Write`, `Consume`,
`Absorb` and copying each get a lemma that says what becomes of the content.
For the connection, the property's one concatenation is replaced by `Numbered`: each queue is a
run of consecutive numbers, beginning where the one before it ends. Moving bytes from one queue to the
next then changes two runs and no others. `SendOrder` says that nothing is
held back in `output_` while `send` writes to the socket directly, which is what keeps
the order when `output_` is never drained. `EndsEmpty` follows the last call of the
callback through `cleanup`. After a reset
the runs are cut, but `peerGot` stays the front of what was sent (`GotWhatWasSent`). `StuckAt` stays because
bytes come to `output_` only with the write event enabled (`SendOrder`), which nothing disables
again: from then on `send` absorbs and never writes. The two components share a proof module because
together they are the way of the bytes; they have no state in common.

**Daemon.** `DaemonInv` adds to the property that only one process is on the way from
start to daemon (`OneStarter`), and that a start that found no number in the
file goes on while nobody has one in it (`StartsAlone`): the window between reading the
file and writing it, which `Serial` keeps for one process. `CommandInv` does without
`Serial`: each record by itself is `Sane`, that is, whoever sends a signal has read a number for
it and the rounds are counted within `Polls`; a signal changes two records at once (`SaneQuit`).

**Logger.** As long as no deciding thread is overtaken (`DecisionInv`), no deciding thread is
behind `m_lastRotate`, and `m_realRotate` is not ahead of it (`TimesInStep`); this makes the exchange
decide: each period has one `Chosen` thread at most, which comes after the exchange that brought
`m_realRotate` to its period and before the period's rotation (`OneChosen`), so that the rotations are of
different periods (`RotationsApart`). Several periods may have a chosen thread each, since one
may take any time to rename, open and turn `m_fd`. `NameInv` then keeps every file that a thread can write to named:
a name comes from a rotation of its minute (`RotatedNames`), so that with `MinutesApart` a new
rotation finds its name free. Only `FdIsCurrent` needs that nobody is overtaken while renaming
(`CalmInv`): then one thread at a time renames, and opens in the period of `m_lastRotate`. Types and
`OneName` hold without conditions: a thread that comes late may rename a file over another, but `rename`
moves a name and `open` makes a new file.

**ConfFile.** `SaveInv` follows each saver: its temporary file exists inside
`renameSave` (`TemporaryThere`), is complete after the write (`CompleteOrTorn`) and has
one name (`NamesApart`). A fault that takes the target therefore leaves the saver's
file. No bound on savers, saves or faults is used. The reader changes nothing
(`ReaderKeeps`). `ReadInv` is about the reader: the file it has open is no saver's
temporary one (`ReaderApart`), so that no saver writes to it, and a new file does not get its number while it
is open; it was the target when it was opened and therefore complete. Inside `parse` the place in the
text bounds the number of the line (`ParseInside`), each `fgets` takes at least a character
(`NextLineTakes`), and a value is only ever added behind a list (`PushBackKeeps`).
The types (`FileInv`) hold with shared temporary names as well.

Each of these invariants also holds in every state of the instance of its
component's run: given to TLC as an INVARIANT it passes.

### Model-checked only

- **Liveness**: `AcceptedIsRun`, `ExitEndsJoin`, `PostedIsRun`, `ExitEndsLoop`,
  `Served`, `DueFires`, `EveryByteComesBack`, `CommandsEnd`. Fairness needs ENABLED,
  which the prover does not handle.
- **`ParsesAsWritten`**: that the parser, folding over characters, agrees with
  `IniFile` on all files is an induction over data, which is out of the prover's reach.
  What is proved around it: the parser reads one complete version, gets further in it with each round, returns the
  number of a line it has reached, and keeps the values that the Conf
  had. What a line means is only checked.
- **The two violated properties**, which are counterexamples.

## 5. Not modelled

- **Conf**: `getInteger`, `getReal`, `getBoolean`, which convert what `get`
  returns, and lines of more than 1023 characters, which `fgets` cuts (`NextLine`
  does so too, but no file of the run is that long).
- **File**: the functions other than `renameSave` wrap one system call or only read.
- **Slice**: pure functions on character ranges.
- **util, ExitCaller, net, Ip4Addr, port, Status**: wrappers without state.
- **UnitTest**, `main.cpp`, raw-example: drivers, read as documentation of usage.
- In modelled parts: self-assignment of a Buffer (it corrupts itself), different
  suggested sizes, `TcpConn::connect` and `createConnect` (never instantiated),
  failing `socket`/`bind`/`listen` calls, signals other than SIGQUIT, log levels and
  formatting, a later `setFileName`, and uses that are undefined behaviour (cancelling an
  unknown periodic id, timers from other threads, a destroyed server with
  queued tasks).

A buffer that is read into and never emptied grows without limit (`makeRoom`
doubles the block even when the content is small), and a connection's descriptor
is never closed after `cleanup`: both are so in the models (`Buffer` under
`MaxCap`, `TcpServer` as descriptors that stay `Held`).

## 6. Plan

Order of the modules: SafeQueue first, since pool and loop stand on it; then
ThreadPool, EventLoop and Timers, the library's core; then Poller, Buffer,
TcpConn, TcpServer, Daemon and Logger; then TcpServer on EventLoop, and Conf and
File with their composition. These are written, and every safety property of
their runs but `ParsesAsWritten` is proved. What is left:

1. Models: `Slice::split`; a TcpServer composed with TcpConn, over Poller; cancel
   from inside a timer's own task.
2. Proofs: nothing that the prover can do is left of the properties of the
   runs; new models need theirs.
