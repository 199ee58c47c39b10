# A verification development for the SCX providers

SCX is the set of CIM providers with which Microsoft System Center monitors
UNIX and Linux: shared libraries that a CIM server (OpenPegasus) loads, with a
portability layer, `scxcorelib`, a system abstraction layer, `scxsystemlib`, and
the providers on top. The own code is `src/source/code` (295 files, about 82,700
lines of C++); `src/source/ext` is vendored. This directory has TLA+ models of
its concurrent and failure-prone parts, the TLC configurations that check them,
and TLAPS proofs about eight of them.

`PROJECT.json` lists, in machine-readable form, the components, the runs, the
mutants, which lines of the source each definition stands for, the findings, the
hazards and the theorems.

## 1. Inventory

### The parts and their state

| Part | Source | State | Operations |
|---|---|---|---|
| Thread lock handle | `scxcorelib/pal/scxthreadlockhandle.cpp`, `scxthreadlock.cpp` | a native mutex, `m_lockCount`, `m_threadID` | `Lock`, `Unlock`, `TryLock`, `HaveLock`, `IsLocked`, the end of a scope |
| Threads and conditions | `scxcorelib/pal/scxthread.cpp`, `scxcondition.cpp` | thread id, terminate flag, mutex and condition of the thread's parameter | `Start`, `RequestTerminate`, `Wait`, `Signal`, timed `Wait` |
| Sampled enumerations | `scxsystemlib/{process,cpu,disk}` | instances, a table or vector of them, a lock, a sampler thread | a pass of the sampler, `Update`, `Size`, `GetInstance`, `CleanUp` |
| Provider base | `provsup_lib/cmpibase.cpp`, `include/scxproviderlib/cmpibase.h` | one singleton per provider class: broker, `m_initDone`, `m_cleanupDone`, capabilities, `m_result`, a lock | creation of the two management interfaces, requests, cleanup |
| Providers | `providers/*` | an enumeration each | `DoInit`, `DoEnumInstances`, `DoGetInstance`, `DoInvokeMethod`, `DoCleanup` |
| Log framework | `scxcorelib/util/log` | handles with a cached threshold and version; configurator with backends, a minimum and a version; mediator with consumers; a filter per backend | log, set, clear, restore, reread the file |
| Log file provider | `providers/logfile_provider` | a persisted position per client and file | `GetMatchedRows`: a reader process per call |
| Persistence | `scxcorelib/util/persist` | a file per name | create a writer or reader, unpersist |
| Child processes | `scxcorelib/pal/scxprocess.cpp` | three pipes, a pid, `m_waitCompleted`, a monitor thread | `Run` with or without a time limit, `Kill` |
| Log rotation | `scxloghandlefactory.cpp`, `scxlogfilebackend.cpp` | a stream per file backend, a signal handler | open, write, close and open again |
| Application servers | `providers/appserver_provider` | instances and a cache file | update, merge with the cache, set deep monitoring, write the cache |
| Data sampler, memory | `include/scxsystemlib/datasampler.h`, `scxsystemlib/memory` | two rings of samples, a sampler thread with a deadline | add, averages, deltas |
| Text, files, time, XML, network, disks, OS, RAID | `scxcorelib/pal`, `scxcorelib/util`, `scxsystemlib` | none or a snapshot | conversions and wrapped system calls |
| Tools | `shared/tools` | none | `scx_admin`, `scx_ssl_config` |

### How they interact

The CIM server calls a provider from many threads, through C functions of two
management interfaces that share one `SingleProvider`. Those check the classes
*before* and run the Do function *under* the provider's lock. A Do function calls
its enumeration, which has a second lock, shared with the sampler thread that the
enumeration started; the sampler in turn holds the mutex of its `SCXCondition`
whenever it is not asleep. `DoCleanup` stops the sampler and joins it. Every part
logs: a log handle consults the configurator (lock 1) and the mediator (lock 2,
which calls each backend under its own lock), and the configurator's thread
rereads the configuration file and rebuilds the backends meanwhile. The log file
provider and the run-as provider start child processes through `SCXProcess`; the
log file reader persists where it was, in a process that may be killed. The
application server provider keeps its list in the same kind of file while it is not
loaded. When `logrotate` has renamed the agent's log file, `scx_admin` sends a
signal, whose handler runs in whichever thread gets it and goes through the log
framework's own locks.

### What is hard here

- interleavings: locks that are tested without being held (`HaveLock`), a method
  that locks "if not locked yet", two locks taken one after the other for one
  answer, a provider deleted without a lock;
- ordering: stat, seek, read, stat, save on a log file others write and rotate;
- failure: exceptions in the middle of a thread body, of a walk through the process
  list, of a reread, of `DoInit` and `DoCleanup`; a stream that goes bad in the middle
  of a file; a reader killed between saving and answering; a record truncated by a
  crash; calls of the system that a signal interrupts;
- signals: a handler that takes locks the interrupted thread may have;
- time: deadlines on a wall clock that is set, sleeps that end early or late;
- liveness: joining a sampler that waits, two processes that write to each other
  through pipes, a time limit that races the end of a child.

`PROJECT.json` has them at their lines, with the properties that catch them or
the reason why none does.

## 2. The models

Every module models whole handlers: an action is what the code does between two
points at which another thread, process or message can interfere, and includes
every assignment in between. Locks are explicit where their use is in question.
Mutants (`X_Something`, marked as such) are the plausible bugs with which each
property is tested; no specification uses them.

### MutexObject, ThreadLock, ThreadLockProofs

`MutexObject` is what a lock handle promises: each call takes effect in one
instant; it is not recursive; `Lock` by the holder and `Unlock` by anyone else are
refused; `HaveLock` is exact for its caller. `ThreadLock` is the code: the native
mutex, `m_lockCount` and `m_threadID`, with every read and every write a step of
its own (`ReadCount`, `ReadId`, `Acquire`, `Increment`, `SetId`, `ClearId`,
`Decrement`, `Release`). The fields are read without a lock, so a thread sees any
interleaving of another's writes; that a torn read cannot happen is assumed (both
are word-sized). `ImplementsMutexObject` is the refinement, under the mapping at
the end of the module: a call takes effect when the mutex is acquired or
released, or when it is refused.

### ProcessEnumeration, MCProcessEnumeration, ProcessEnumerationProofs

The process table between the sampler's pass (`StartPass`, `Visit`, and `Sweep` or
`BreakOff`) and the provider's request (`Begin`, `Copy`, `Updated`, `Size`, `Row`,
`Leave`), while the system starts and ends processes and reuses pids (`Fork`, `Exit`).
Every value in an instance carries the pass of the sampler that wrote it and the birth
of the process it was read from: that is all the properties need. `Size` is modelled
with what it does to its caller's lock: `HaveLock` is true, so the object made on the
spot is not locked, and its destructor, which looks at the same handle, gives the
caller's lock back.

A pass ends in one of two ways. `Sweep` is the end of `SampleData`. `BreakOff` is an
exception of `nextProc`, which `SampleData` calls in the condition of its loop, outside
of the `try` block of the loop's body: the scope gives back the lock in the middle of
the walk, what the pass has found keeps its flag, nothing is swept, and the sampler goes
on to sleep. The history variables `swept` and `before` are the last two passes that
came to their end. With them it can be said how old the table may be (`TableIsRecent`):
no entry is older than the last but one of these. It would be wrong to say "the last
pass", or even "the last one that came to its end": a flag that a broken pass has left
takes an entry through the next sweep although that pass did not find it.

### SamplerThread, SamplerProofs

An owner (a provider under its lock) and any number of enumerations with
sampler threads: start, a request, `CleanUp` (`LockCondition`, `SetFlag`,
`SignalCondition`, `UnlockCondition`, `Join`), the destructor; and the thread's
body: `BeginCondition`, `TestFlag`, `BeginSample`, `EndSample`, `EnterWait`,
`Timeout` or `SpuriousWakeup`, `LeaveWait`, `EndThread`. Two bodies exist: those
that catch what `SampleData` throws (`Catching`) and the CPU sampler's, which does
not. Time is left out here, so a timeout may come at any moment; `MemorySampler` has it.

### ProviderLifecycle, ProviderLifecycleProofs

`SingleProvider` and `BaseProvider` under the CIM server: the two interfaces are
created one after the other (`CreateMI`, `SetBroker`, `LockInit`, `DoInit` or
`DoInitThrows`, `Register`), requests go through `BeginRequest`,
`CheckClassSupport`, `LockRequest`, a Do function that returns or throws, and
`Convert`; unloading goes through `TestInstance`, `LockCleanup`, `DoCleanup` or
`DoCleanupThrows`, `Delete` and `Forget`. Deleting and forgetting the singleton are
two steps, since the code does both without a lock, and memory that a request
still points to is not reused. How the server unloads is taken from OpenPegasus
(`CMPIProvider::tryTerminate`, `_terminate`), which lets requests finish first
unless it is being stopped (`Forced`). `Prepared` says what a Do method may rely on:
the broker and its enumeration; it is reached only through `CheckClassSupport`,
which is asked without the lock.

### LogFramework, MCLogFramework, LogFrameworkProofs

Callers with a handle each log, refresh, set and clear severities; the updater
thread notices that the configuration file has changed, restores the
configuration and parses the file block by block, the configurator's lock held,
while callers go on with the mediator's. `CheckVersion`, `StartScan`,
`ScanConsumer`, `EndScan` and `ReadVersion` are the refresh of a handle;
`BeginSet`/`SetBackend`/`EndSet` and `BeginClear`/`ClearBackend`/`EndClear` the calls of
the configurator; `RestoreConfiguration`, `DeRegister`, `Refresh`, `ReadLines`,
`ReadThrows`, `ParseBlock`, `EndBlocks`, `UseDefault`, `Publish` the rereading. A
configuration file is a sequence of blocks, each a filter and how it ends: with an
initialised backend, with one that is not, or without an end. `IInv` relates the
parts at every step: who has which lock (`LocksKnown`), which backends are registered
while a configuration is taken down and built up (`ConsumersKnown`), what is published
(`PublishedKnown`), the minimum (`MinKnown`), and what a caller in the middle of a
refresh or of a set may rely on (`HandlesKnown`).

A handle with the current version need not hold the effective severity itself.
`GetEffectiveSeverity` stops at the first backend at `eHysterical`
(`scxlogmediatorsimple.cpp:113`), in the order of the addresses, and a backend that it
has not asked may be at `eNotSet`, which is lower. For a handle the two let the same
items pass (`SameItems`), and that is what `CurrentUnlessRaced` says; that they are equal
does not hold, which came to light when its proof failed, and the run has such a
configuration since.

### LogFilePosition, LogFileProofs

The reader of a log file: `Open`, `Position` (`Recover`, `IsFileNew`, the seeks),
`UpdateStatData`, `ReadRow` and `GoBad`, `StopReading`, `BeginSave` (which truncates
the record in place), `EndSave`, `Reply`, with appends, a rotation, a truncation, a
failure and a kill between any two. Rows are numbers and every row matches. What the
code cannot know is kept in history: how often a row was `delivered`, the rows
`excused` (there before the first invocation, lost with a killed reader whose position
was saved, or in a file whose stat data equal those of its predecessor), and the rows
`overlapped` by a reader. A row of `Slow` is written in two pieces, and a position
counts pieces: `ReadRow` takes what there is up to a newline or the end of the file,
as `ReadLine` does. `unfinished` are the rows that someone could see, or that were cut
off, before their second piece was there, and `split` those of which a reply had one
piece only.

The loop of `ReadLogFile` ends when the stream is not good, and nothing tells an end of
the file from a byte that cannot be decoded or a read error. `GoBad` is the latter two:
between two rows, or within one, of which `ReadPartialLine` then returns a part as a row
(`cut`). `tellg` is -1 after it, so the reader saves the position of the end it found
when it opened the file, and what is between is `PassedOver`: those rows are `excused`,
the row that was cut is `unfinished`. `SavedPositionWasReached`, which the code breaks, is
what its comment takes for granted.

Contents are what is written between two rotations or truncations, numbered by
`born`; a record or a reader is `of` the contents that its position and its stat data
are about, or of none when the file was changed between the two. The code has no such
number, but everything that can be said of a position depends on it. `PosInv` is the
inductive invariant; section 5 goes through its parts.

### ChildCall, ProcessRun, ProcessRunProofs

`SCXProcess::Run`: the thread that polls, feeds and reads (`Poll`, `ServeInput`,
`ServeOutput`, `CheckChild`, `WaitForChild`, `SetTerminated`, `Join`), its calls of the
system that fail (`PollFails`, `TransferFails`, and `WaitFails`, since the handler of
the log rotate signal is installed without `SA_RESTART` and interrupts a `waitpid` that
waits), the monitor of a time limit (`SeeTerminated`, `TimeIsUp`, `Kill`), and a child that
is any program: it reads, writes, closes, leaves a daemon with its pipes, hangs,
exits or dies. A pipe holds `Capacity` chunks, so that both sides can block. `IInv`
relates the parts: what the child still holds to what can be read (`ChildKnown`),
the monitor to `m_waitCompleted` and the flag they share (`MonitorKnown`), the
result of `waitpid` to who has it (`ResultKnown`). A chunk is what `m_stdinChars`
holds, 1000 bytes, which is less than the `PIPE_BUF` bytes that a pipe takes when poll
says `POLLOUT` on the systems the code is built for: so one chunk fits.

`ChildCall` is what a caller of `Run` sees: a child that reads what it was given,
writes and ends, and one answer with how it ended and with all it wrote, or a failure.
`ImplementsChildCall` is the refinement; the input not read yet is what is left to
send and what is in the pipe, and the call takes effect in `WaitForChild`.

### MonitoredServers, AppServerCache, MCAppServerCache, AppServerCacheProofs

`MonitoredServers` is what the application server provider promises: a setting is
kept until it is changed, saving is all or nothing, and a start finds what was saved
last or nothing. `AppServerCache` is the code: `ListProcesses` and `MergeProcesses`
are the two halves of `Update`; `Merged` says what sorting by path with the running
entries first, copying the flag from the next entry of the same path and `unique`
come to; `EraseFromDisk`, `WriteMetadata`, `WriteInstance` and `DoneWriting` are
`WriteInstancesToDisk`, each of which may fail (`WriteFails`) or be the last thing the
agent does (`Crash`). The order that `PathOrdering` gives two running entries of one
path is not specified, nor is what `std::sort` does with entries that are neither
running (`Stable`). Those are the `ambiguous` paths of the abstraction: two
processes of one server, or two servers of one WebSphere profile, make an update
take the flag of the wrong neighbour. `manipulateappserverinstances.cpp:83` says that
"the Deep Monitored flag should be copied from the previous known state to the
current one", which holds for all other paths only.

Servers of two kinds get into the list of running instances. A WebSphere, Tomcat or
JBoss process names its server (`FoundByProcess`); a WebLogic process names an
installation, whose servers are all read from its configuration (`InConfig`) and are
instances that do not run, the one whose process was found included. So
`RunningIsWhatWasFound` says that the list says running where a process was found that
names its server, and never of a server of WebLogic; `AllThatRunIsRunning`, the assumption
under which the merge was written, is false.

### MemorySampler, SamplerProofs

A sampler thread with time. Time passes (`Tick`), the wall clock is set (`SetClock`),
a thread that is ready runs before `MaxLate` is over, and waits may end early
(`Wakeup`). `Advanced` is the deadline of the next wait; `m_bRecomputeSleep` is never
reset, so a wait that ended early advances it too, although
`scxcondition.cpp:184,210` says that it is recomputed for timeouts only. The ring is
modelled with its memory and its lock, `pop_back` and both halves of `push_front`
apart, since a request tests the size (`TestSize`) before it has the lock
(`ReadRing`). A sample is the time at which the counter was read, so that a rate
tells the span that it is about.

### LogRotation, LogFileProofs

The agent's threads go through the two locks that the handler uses (`BeginInstance`
and `BeginLog`, `Acquire`, `Record`, `WriteItem`, `ClearId`, `Release`); `logrotate`
renames the file and a signal follows; the handler runs on top of any thread, takes
the lock of the factory and then of the mediator, and has every backend close and
reopen its stream. `Lock` called by a thread that has the lock is refused with an
exception (`HandlerThrows`), or not, between the mutex and the fields that record the
owner: then the handler waits for the thread it interrupts (`Stuck`). A backend
without a stream is `NoStream`: a call on a null pointer, taken to end the agent.

## 3. The runs

| Run | What it asks | Bounds |
|---|---|---|
| `thread_lock` | Is the handle an atomic lock object, and can its unlocked checks mislead? | 3 threads; each may call anything at any time, without a bound |
| `process_enumeration` | How old can an entry of the table be, and is the table copied whole, under the lock? | 2 pids, 3 passes, each of which may break off, 2 births; pids symmetric |
| `process_reply` (violated) | Do the deltas of a row go with its newest sample? | as above |
| `sampler_thread` | Does `CleanUp` come back, and does no sample follow it? | 2 enumerations, one of each kind of thread body; no bound on time or calls |
| `provider_lifecycle` | Do requests return, and find a provider that is alive and initialised? | 2 requesters, 2 interfaces, 2 addresses, everything may throw; no bound on calls |
| `log_framework` | Do configurator, mediator, backends and handles agree, and do calls return? | 2 callers, on a module and on the root; 3 files and an unreadable one; 4 backends at a time; 1 edit, 1 change at run time, severities 1 and 5 |
| `log_file_position` | Is no row skipped, and which can repeat or be split? | 3 rows, one of them in two pieces, 2 per reply, 1 rotation or truncation, 1 failure, kill or bad stream, 2 inode numbers |
| `process_run` | Is `Run` one call to a child, with all its output, does no write block, is the child reaped once, and does `Run` come back? | 2 chunks per stream, pipes of 1 chunk, 1 call of the system that fails |
| `app_server_cache` | Are settings kept, is a save all or nothing, and is listed as running what was found, and WebLogic never? | 2 WebSphere servers of one profile and a WebLogic server, 2 running at a time, 2 settings; no bound on requests, saves and crashes |
| `memory_sampler` | Is a rate what it is said to be a rate of, and recent? | ring of 3, period 2, lateness 2, the clock set by 2 once, 1 wait that ends early, time 9 |
| `log_rotation` | Is no backend left with a renamed file, and does a rotation end? | 2 threads, 2 file backends, one of them unwritable at times, 2 rotations |
| `log_rotation_survived` (violated) | Does a rotation leave the agent alive? | 2 threads, 1 backend, 1 rotation |

Why they are enough. In the lock, the sampler and the provider nothing is bounded but
the number of actors: two actors and the one that disturbs them are there, and the
safety properties are proved for any number. Three passes let an entry be made,
updated and swept, with a request over any two of them, and let a flag that a broken
pass has left meet the next sweep; two births let a pid be reused. One edit suffices
to race one change or one refresh, and the file that is first read is any of the
three. Three rows with two per reply, one of them in two pieces, need two invocations
to be read and one or two more when a rotation or a kill meets a full reply or the
middle of a row; two inode numbers let a rotated file get its predecessor's number
back, and which of them the first file has (`FirstInode`) makes no difference.
Two chunks through a pipe of one block the writer while the reader has something to do.
Two servers at one path and one at another are what the merge can tell apart,
and both kinds of discovery. Time 9 lets the ring fill, drop its oldest sample and be
read after a jump of the clock, a late sample and an early wakeup. Two rotations let a
signal come while the handler of the one before runs, or while it is still pending.
The bound constants (`MaxPasses`, `MaxBirths`, `MaxEdits`, `MaxChanges`, `MaxRows`,
`MaxFailures`, `Chunks`, `MaxRunning`, `Twice`, `MaxTime`, `MaxLate`, `Jumps`,
`MaxJumped`, `MaxWakeups`, `MaxRotations`) guard what the environment does and what
begins an activity (a pass, a call that sets a severity), never a step within one.

Deadlock is checked everywhere but in `process_run`, where `Run` is a call that ends -
an unlimited `Run` of a child that hangs also stops, as in the code - and in
`log_rotation`, where the agent may be gone. In the runs with bounds the last states
have a step because the environment can still go on (a pass that finds nothing, a
refresh, an invocation).

### Fairness

- `ThreadLock`: weak for every statement; strong only for leaving a scope while
  holding the lock. No order among waiters is assumed.
- `SamplerThread`, `ProviderLifecycle`, `LogFramework`: threads are scheduled (weak)
  and a mutex that is free again and again is eventually had (strong, only for the
  steps that take one; in `LogFramework`, where one disjunction has them all, for the
  steps of a thread as a whole). A timeout, an edit, a new call
  are never owed, except that a call that began is carried on.
- `LogRotation`: strong for what a thread or a handler does, since both wait for
  mutexes; a pending signal is delivered (weak). Nobody has to log or to rotate.
- `MemorySampler` has no fairness: that a ready thread runs in time is a guard of
  `Tick`, with the bound `MaxLate`.
- `LogFilePosition`: the method is called again and again (the server polls) and a
  reader runs unless it is killed; nobody has to write.
- `ProcessRun`: both threads run; a child that does not hang writes what it has to
  write, but need not read before it has written all, nor end before it has read
  all. That is the least a program has to do, and it is what deadlocks a naive parent.

## 4. What the runs show

The lock handle is sound: reading one's own id with a positive count means having the
lock, at any point of anybody's `Lock` and `Unlock`, and the handle refines the atomic
object. Shutting a sampler down always comes back and no sample follows it. The Do
functions of a provider exclude each other, are only called on a provider that was
initialised, and every request returns; results are not mixed although `m_result` is
shared and stale after an exception. Consumers and backends agree whenever the
configurator is unlocked, also after a file that breaks off or cannot be read. No row
of a log file is skipped, only rows that a reader overlapped are repeated and only a
row that was read before it was finished comes in two parts, wherever the reader is
killed, with the exceptions named above, a stream that goes bad among them. `Run`
neither loses input or output nor deadlocks with its child, never waits in a write to
it, and fails only when a call of the system fails. A cache of application servers is
read as a whole or not at all. Lateness of a sampler does not add up: the span of a
rate is off by what the clock was set by and one lateness, and one period for each
wait that ended early. No backend keeps a renamed log file, however signals come.

Three statements of the code's own comments do not hold, and a run shows each:

1. `ReplyIsOneSample`: `ProcessEnumeration::Size` (`processenumeration.cpp:373`) gives
   up the lock its caller has, so the rest of a reply is made without the lock, and the
   sampler gets between the deltas of an instance and its values. `ListIsTheTable` is
   what holds while the lock is still there.
2. `RotationIsSurvived`: the handler of the log rotate signal
   (`scxloghandlefactory.cpp:137`) asks for locks that the thread under it may have,
   and closes streams that do not exist (`scxlogfilebackend.cpp:136`): the agent ends
   or hangs. `RotationEnds` exempts exactly these cases.
3. "Assumption #2: the runningProcesses all have IsRunning set to true"
   (`manipulateappserverinstances.cpp:70`): the servers of WebLogic are put into the list
   of running servers as not running (`weblogicappserverenumeration.cpp:422`), and
   `RunningIsWhatWasFound` shows that they stay so, the one whose process was found
   included.

Five more are definitions of the modules that no run checks, because the code breaks
them and the models say so. Each is false: TLC finds a counterexample when it is added
to the configuration of its module, as an `INVARIANT` (`AllThatRunIsRunning` as a
`PROPERTY`), in the place of the properties there.

- `ListIsOfOnePass` (`ProcessEnumeration`): when the process list cannot be read to its
  end, `SampleData` is left in the middle by the exception of `nextProc`
  (`processenumeration.cpp:499`), and the next list has the values of two passes.
  `TableIsRecent` is what remains.
- `InstanceIsOneProcess` (`ProcessEnumeration`): the entry of a pid that is reused between
  two passes keeps the owner of the process that is gone (`processenumeration.cpp:509`,
  `processinstance.cpp:321`).
- `SavedPositionWasReached` (`LogFilePosition`): a stream that goes bad in the middle of a
  log file makes the reader save the position of the end (`logfileutils.cpp:487`,
  `PersistState`): the rows in between are passed over for ever, without an error.
- `LimitIsKept` (`ProcessRun`): when `poll`, a transfer or `waitpid` fails, for which a log
  rotate signal is enough, `Run` throws and tells the monitor that the child has ended
  (`scxprocess.cpp:183`): the child runs on without a limit.
- `AllThatRunIsRunning` (`AppServerCache`): the third statement above, as an action
  property.

Other limits of the code are part of the models, and the property named with each
is stated so that it holds in spite of it:

- an exception of `CPUEnumeration::SampleData` ends the CPU sampler for good
  (`cpuenumeration.cpp:1118`), and one failed reading the memory sampler
  (`memoryinstance.cpp:1180`): `SamplesKeepComing` is about the bodies that catch,
  `RateIsRecent` about a thread that lives;
- a change between the two reads of a refresh is cached under the new version and
  stays wrong until the next change (`scxloghandle.cpp:63`): `CurrentUnlessRaced`;
- when `DoCleanup` throws once, one interface can have deleted the singleton while
  the server keeps both, and the next request gets a new instance without a broker
  (`cmpibase.h:471`): `DoIsPrepared` says that it is refused before a Do method;
- a row within which a stream goes bad is delivered in part (`scxstream.cpp:372`):
  `OnlyUnfinishedRowsAreSplit` counts it among the unfinished;
- the monitoring flag of a server can be taken from the wrong neighbour
  (`manipulateappserverinstances.cpp:144`): the `ambiguous` paths of `MonitoredServers`;
- the deadline is moved by waits that ended early (`scxcondition.cpp:186`):
  `RateIsPerPeriod` counts them.

## 5. What is proved

Eight modules have proofs, for every value of their constants (the assumptions are the
named `ASSUME`s of the modules: distinct special values, `Catching \subseteq
Samplers`, bounds that are numbers, a reply and a pipe of at least one row or chunk, a
ring of at least two samples, finitely many paths of servers; for the log framework,
that modules are named by sequences of names, that severities are those of the
enumeration, that the default of the log policy is not `eHysterical`, and that there
are more identities for backends than blocks in any file). Each follows one argument:
an inductive invariant `IInv`, checked by TLC first, a lemma for the initial states,
one for every action, and PTL for the temporal step.

- `ThreadLockProofs`. `IInv` says which statements only the owner of the mutex
  executes, and that the two fields tell exactly how far the owner has come
  (`OwnershipRecorded`). The second is needed: that a thread which reads its own id
  is the owner follows from nothing weaker, since the id might be left over.
  Proved: `IInv`, `OnlyOwnerWrites`, `NoSelfDeadlock`, `IdMatchIsOwnership`, and
  that every step is a step or a stutter of `MutexObject`
  (`HandleImplementsMutexObject`).
- `ProcessEnumerationProofs`. The invariant says what a flag in the table means
  (`FlagsSinceSweep`): an entry that has one was read and sampled since the last sweep,
  by this pass or by one that broke off; an entry that has none is still no older than
  the table may be. From it: how old the table is (`TableIsRecent`), and that it is
  walked only under the lock (`TableIsExclusive`) - in spite of `Size`.
  `ListIsTheTable` needs one thing more, that a request which has the lock has a list of
  the table as it is (`OneList`).
- `SamplerProofs`, of both models of a sampler thread; it extends the two, which
  therefore share no name. For `SamplerThread` the invariant relates who has which lock
  to where owner and sampler are (`LocksRecorded`) and the life of the thread to that of
  its owner (`Lifecycle`). From it: `NoSampleAfterCleanUp`, `LockOrder`,
  `CatchingEndsWhenTold` and the action property `NoSampleAfterRequest`.
  For `MemorySampler` the invariant (`MemInv`) says that all deadlines lie a whole
  number of periods after the first sleep (`Base`, which no step changes), so that each
  sample is in time by itself (`InTime`) whatever happened to those before it, and that
  between two samples of the ring there is a wait for each sample and one for each wait
  that ended early (`SamplesKnown`). From it: `RateIsPerPeriod` and `RateIsRecent`, and
  that a rate is never divided by zero. `Back` and `Forth`, what the clock was set by in
  either direction, are needed because the properties have only their sum.
- `ProviderLifecycleProofs`. The invariant adds who has a pointer to an instance
  (`PointersKnown`), that classes are registered only with the broker and
  an enumeration (`ClassesArePrepared`), and what
  holds because the server lets requests finish (`Undisturbed`). From it:
  `LockIsInDo` and `SendsToOwnRequest` also under a forced cleanup, and, without one,
  `NoUseAfterDelete` and `DoIsPrepared`.
- `LogFileProofs`, of both models of a log file; it extends the two, which therefore
  share no name. For `LogFilePosition` the parts of `PosInv` are:
  - `FilesInOrder`: a file holds pieces that were written one after another, the one at
    the path the last. Without it a row in two places of the file could be new at one
    and delivered at the other.
  - `RecordFits`, `ReaderFits`: what is saved, and what the reader is about to save, is
    no position behind what was there, if it is about the contents at the path. This is
    why a file that shrank is always recognised, and it takes the last line of
    `StopReading`, which raises the size to the position: rows appended between the stat
    and the reading are before the position and not in the size.
  - `NothingIsAhead`: no row from which a reader goes on, or would from what will be
    saved, was in an answer, but for the overlapped; `ReadIsBehind`: what the reader has
    and has not answered is before its position. The first alone is not inductive:
    `Reply` delivers what the reader has.
  - `NothingIsMissing`: what is before a position was delivered, is excused or is with
    the reader; when the stream is bad, only what is before the place it was read to,
    until saving excuses the rest.
  - `CutsAreKnown`: every row a position may be inside of, and every row that a file has
    without its end or its beginning, is in `unfinished`.

  From it: `NothingIsSkipped`, `OnlyOverlappedRowsRepeat` and
  `OnlyUnfinishedRowsAreSplit`, for any number of inode numbers, rows, changes and
  failures and any limit.

  For `LogRotation` the invariant says that the owner of a lock is the thread that
  is between its ends (`LocksRecorded`), on its own account or in the handler but
  never both (`InsideOnce`: without it a handler that leaves would free the lock of
  the thread under it), and that nothing is open before the factory was made
  (`MadeFirst`: a signal that comes earlier has no effect). From it, by a second
  induction, `NoStreamIsLeftBehind`: no signal is lost.
- `LogFrameworkProofs`. From the invariant above, with lemmas about the filter
  (`PutFilter`: setting a severity again changes nothing; `ThresholdOf`; `MinActiveOf`),
  about sequences without repetition, and about what a step leaves alone
  (`HandleSame`), what it overlaps (`HandleOverlapped`) and what it makes out of date
  (`HandleOutdated`): `ConsumersAreBackends`, `VersionTellsConfiguration`,
  `CurrentUnlessRaced` and `MinIsLowerBound`. That a caller in the middle of setting a
  severity has set it in every backend that it has visited, and that one in the middle
  of a refresh that nothing overlapped has found the lowest threshold of those that it
  has visited, are the parts without which the rest is not inductive.
- `ProcessRunProofs`. The invariant says that chunks are neither lost nor made up on
  their way (`StreamsKnown`), that after the last read nothing is left in a pipe
  (`LastReadKnown`), who has the result of `waitpid` (`ResultKnown`) and that the monitor
  is joined (`MonitorKnown`). From it: `OutputIsComplete`, `NoMonitorIsLeft`,
  `NoWriteBlocks` (what poll saw of the pipe to the child stays true up to the write) and,
  by a second induction, `FailsOnlyWithTheSystem`; and that every step is a step
  or a stutter of `ChildCall` (`RunImplementsChildCall`). Its one step that is not obvious
  is `WaitForChild`, where all that was written must have been read (`LastReadKnown`).
- `AppServerCacheProofs`. The invariant says that entries are filed under their own
  path, and that a file under construction has the size of the list in its first
  entry and nothing but what is in the list; so it is read as a whole only if it is
  whole. From it: `RunningIsWhatWasFound`, and that every step is a step or a stutter
  of `MonitoredServers` (`CacheImplementsMonitoredServers`).

A few of the theorems (`MutualExclusion`, `TableExclusion`, `LocksAreOrdered`,
`CatchingSamplersLive`, `RequestIsHeeded`, `DoIsExclusive`, `ResultsAreNotMixed`,
`MonitorIsJoined`, `WritesFit`, `OutputComplete`) state consequences of the invariants
that have no run of their own: the runs check the invariants they follow from.

Every safety property that a passing run checks is proved as well. Only model-checked
is liveness (`LockIsReleased`, `CleanUpReturns`, `SamplesKeepComing`,
`RequestsReturn`, `CallsReturn`, `LastEditIsApplied`, `RowsAreDelivered`,
`RunReturns`, `RotationEnds`), which needs fairness and `ENABLED`, out of reach of the
installed prover. What a recursive definition computes for every input cannot be
proved with it either; the modules have none.

## 6. What is not modelled

Left out of the modelled parts: what a sample measures, the conversion of instances
to and from CMPI, regular expressions and marshalling, how a log item is formatted,
`chroot` and command splitting, failing `fork`, `pipe` and `pthread_create`. A pid
recycled while `Kill` is on its way and the content of a child's input (`SendInput`
moves it with `strncpy`) are left out too; both are hazards with a note. Signals
other than the one of log rotation do not interrupt threads. Where a failure has many
causes the models have the failure and not its cause: which bytes a locale cannot
decode, why `readdir`, `poll` or a write fails.

Not modelled at all, with the reason in `PROJECT.json`: text, files, XML, the calendar
and system information (sequential conversions and system calls without state between
calls); network and OS providers (snapshots under the provider's lock); disk, LVM and
RAID discovery; the command line tools; the lock factory and the reference counts of
`SCXHandle`; class definitions, build files and installer; vendored code, except the
unloading of providers.

The share of all source lines that the models stand for is small because nine tenths
of the tree is vendored OpenPegasus and generated code. Of the SCX code itself most
is what this section names: readers and parsers of system data in as many variants as
there are platforms, which keep no state and wait for nobody.

## 7. Plan

The order was by how much depends on a part: the lock handle that everything uses,
the enumeration and its sampler, the provider base, then logs, log files and child
processes, then the application servers, time and log rotation. What comes next:

1. **An abstract log reader**: a sequence of rows handed out once each, with the
   exceptions as nondeterminism, refined by `LogFilePosition`, from the parts of `PosInv`.
2. **Composition**: requests of `ProviderLifecycle` over the locks of
   `ProcessEnumeration` and `SamplerThread`, so that the order of the three locks is
   a theorem and not an assumption of each.
3. The percentages over the samplers' rings and wrap-around of the counters at 2^w;
   the lock factory and the counts of `SCXHandle`, whose pointer and counter are two
   members (`scxhandle.h:65`); recycled pids.
