# Verification of pcie-sim

TLA+ models of the PCIe simulator in `src/`, model-checked with TLC on small
instances. What they say of safety is also proved with TLAPS, for every value of the
constants. Source lines are cited as `file:line` relative to `src/`.

## The system

| Part | Source | State | Operations |
|---|---|---|---|
| descriptor ring | `kernel/ringbuffer.c` | head, tail, count, descriptors, counters, spinlock | submit, complete, count, space |
| ioctl interface, DMA engine | `kernel/chardev.c`, `kernel/dma.c` | per-device statistics, `dev->mutex` | TRANSFER, GET_STATS, RESET_STATS, unknown commands |
| proc file | `kernel/procfs.c` | none (reads the statistics) | show |
| module load and unload | `kernel/driver.c`, `char_init`, `proc_init` | device numbers, class, driver, platform devices, per-device structures | init, exit, probe, remove, open, release |
| register file | `kernel/mmio.c` | registers, pending interrupt | init, cleanup, read32, write32, update_dma |
| Linux backend | `sim/linux_sim.c` | device table, one mutex per device, init mutex | open, close, transfer, get and reset statistics |
| Windows backend | `sim/windows_sim.c` | the same with an active flag, a critical section, mutex objects | the same, and cleanup |
| C API, C++ wrapper | `lib/core.c`, `lib/device.hpp` | a handle | forward to a backend |
| performance monitor, benchmark | `lib/monitor.hpp` | polling thread, atomic flag | start, stop, destroy, run_benchmark |
| configuration, options | `utils/config.c`, `utils/options.cpp` | option values, configuration | parse, to_config, setters, validate |
| CSV log | `utils/csv_logger.cpp` | file, record count, mutex | log, flush, session start and end |
| test session | `examples/cpp_test.cpp` | main, worker threads, log | pattern and stress tests, report, exit |

They interact at few places. Users reach the kernel device through ioctls that
one mutex serialises; the proc file reads the same statistics without it. The
module's load creates what ioctls and the proc file use while users may already
open nodes. In user space the C API forwards each call to one backend, whose
devices are shared by the application's threads. The test program turns options
into a configuration that decides what it asks of a backend; its threads own
devices and share one log. A monitor polls a device that the program uses, moves
or benchmarks meanwhile. The ring and the register file are not called by the
rest of the driver.

What is hard in it: the window between check and use under each lock; indices
that wrap around; unlocked readers (ring space, proc file, the Windows active
flag); registers changed by read-modify-write without a lock; initialisation on
first use; failures half-way through a load, an initialisation, an open or the
start of the workers; timeouts on a busy mutex; exceptions that are swallowed and
ones that nobody catches; a thread that must see a flag to be joined; two layers
of range checks whose results are partly ignored. `PROJECT.json` lists these hazards with the
line where each one bites and the properties that would catch it.

## Modules

| Module | Models | Kind |
|---|---|---|
| `BoundedQueue` | what a ring promises: an atomic bounded first-in first-out queue | abstract |
| `Ring` | `kernel/ringbuffer.c` | detailed, refines `BoundedQueue` |
| `RingProofs` | theorems about `Ring` | TLAPS |
| `StatsObject` | what a device promises: atomic operations on its statistics | abstract |
| `KernelDevice` | `chardev.c` ioctl, `dma.c`, the reads of `procfs.c` | detailed, refines `StatsObject` |
| `KernelDeviceProofs` | theorems about `KernelDevice` | TLAPS |
| `LinuxSim` | `sim/linux_sim.c` | detailed, refines `StatsObject` |
| `LinuxSimProofs` | theorems about `LinuxSim` | TLAPS |
| `WindowsSim` | `sim/windows_sim.c` | detailed, refines `StatsObject` |
| `WindowsSimProofs` | theorems about `WindowsSim` | TLAPS |
| `DriverLifecycle` | `driver.c`, registrations of `chardev.c` and `procfs.c` | detailed |
| `DriverLifecycleProofs` | theorems about `DriverLifecycle` | TLAPS |
| `Options` | `utils/config.c`, `utils/options.cpp`, start and arithmetic of `cpp_test.cpp` | detailed |
| `Mmio` | `kernel/mmio.c` | detailed |
| `MmioProofs` | theorems about `Mmio` | TLAPS |
| `Session` | `cpp_test.cpp` from the log's opening to the exit, `csv_logger.cpp`, the `Device` it uses | detailed, on atomic devices |
| `TestProgramProofs` | theorems about `Options` and `Session`, and that the one's results are the other's configurations | TLAPS |
| `Monitor` | `lib/monitor.hpp`, the moved-from `Device` | detailed, on an atomic device |
| `MonitorProofs` | theorems about `Monitor` | TLAPS |
| `MC...` | constants of the instances, symmetry | TLC only |

### How the models correspond to the code

*Threads.* A context, user or thread is a process with a program counter; the
labels lie where another thread can observe a difference: at a lock or an
unlock, and between two writes to shared fields. Local variables appear only
where they live across a label. Every early return and error path is an action.

*Ring.* `head`, `tail`, `count`, `descriptors` and the statistics are those of
`struct pcie_sim_ring`; `lock` holds its owner. `ring_submit`,
`ring_submit_lock`, `ring_submit_fill` (or `ring_submit_overrun`) and
`ring_submit_advance` are the parts of one submission. `credit` is a history
variable: what a context may still rely on after reading the free space. `now`
is `ktime_get_ns`, which does not go backwards (external).

*KernelDevice.* `update_transfer_stats` writes five fields one after the other,
and the memset of a reset clears them in any order; each is a step, because the
proc file reads between them. `committed` is a history variable: the statistics
at the last `mutex_unlock`. Signals interrupt the wait for the mutex; each user
copy may fault. `mutex_lock_interruptible`, `copy_from_user` and `copy_to_user`
are modelled from how they are used.

*LinuxSim, WindowsSim.* `handle` is what `pcie_sim_open` returned to a thread.
In `WindowsSim` threads may share a handle; it is closed when no call uses it,
as the library's free of the handle requires. `started` tells a program whose
first open is over from one that has not called the library; the latter has the
threads `Starters`: one in `windows_sim`, where it also cleans up and begins again,
two in `windows_race`. For the refinement an open that initialises the table is a
reset of its devices.
`WaitForSingleObject` may time out whenever another thread owns the mutex.

*DriverLifecycle.* `res[d]` is what the driver has made for a device, `held` what
it has registered for all. Each kernel call succeeds or fails; a failure goes
to the label the code goes to, and removes exactly what that label removes. The
driver core is external: `platform_device_add` probes and succeeds even when the
probe fails, and remove is called only for a probed device. Files whose device
was freed are counted in `stale`.

*Options.* Option values are split into numbers (`NaN` where `std::stoi` throws)
and texts. An option without a value gets the text `"true"` unvalidated, as in
`options.cpp:49-52`; `phase = "terminated"` is an exception that leaves `main`. The
module's specification is `OptionsSpec`, so that the proofs can use it beside `Session`.

*Mmio.* Every `readl`, `writel` and atomic operation is a step (the flag and the rate of the
error injection, which no register read returns, are set in one). The engine, which
reports transfers, is one context, because a transfer is made under the device's
mutex. A register's value is the set of its bits. `history` remembers what
indivisible calls would have left, and in which of the three read-modify-write
sections calls have overlapped.

*Session.* Main is thread 0; it runs the same test steps as the workers, then
starts them. `counted` is the one statistic kept of a device, `csv` the log with its
file. The rows of the file are a set: what tells two rows of a thread apart, their times and
measurements, is the number of the attempt. A worker's look at the clock may come after its end time at once. A
configuration also says which backend it runs on: the Windows one opens
exclusively and may throw. The crash of the process is a state (`crashed`).

*Monitor.* `caller` is where each thread of the program is in a call of the monitor
or a benchmark, `poller` where each polling thread is. Joining a thread twice is
undefined behaviour: the process dies, or the call goes on. Storing a started thread
is a step of its own, so that two overlapping starts can lose one. `serial` and `threw` are
history: no two calls of the monitor overlapped, a poll threw.

*Composition.* `LinuxSim` and `WindowsSim` refine `StatsObject`, so a call on a device
takes effect in one step between its beginning and its return. `Session` and
`Monitor` rest on that: there a device call is one step, which may throw. `Session`
begins where `Options` ends: `RunsAreSessions` proves that every configuration that
passes validation is one that `Session` is about.

*Mutants.* Definitions named after an action with a suffix
(`ring_submit_fill_full`) are faulty variants of it, for checking that the
properties can fail. No specification uses them.

## Runs

| Run | Instance | Distinct states | Properties |
|---|---|---|---|
| `ring` | 2 contexts, 2 slots, 3 submissions, 2 times | 158 k | `RingIndices`, `PendingIntact`, `TimestampsOrdered`, `SpaceIsPromised`, `ImplementsQueue`, `CallsReturn` |
| `kernel` | 2 users, all ioctls, 5 requests, 2 latencies, 2 transfers | 165 k | `OneWriterAtATime`, `SnapshotsConsistent`, `ImplementsStatsObject`, `IoctlsReturn` |
| `kernel_reader` | 2 users transferring 3 times, 1 reader | 294 k | `ProcLagsByOneTransfer` |
| `linux_sim` | 2 threads, 2 devices, numbers out of range | 196 k | `SectionsAreAtomic`, `InitialisedBeforeUse`, `SnapshotsConsistent`, `ImplementsStatsObject`, `MutexesAreReleased` |
| `windows_sim` | 2 threads on an initialised table, or 1 from the start; 2 devices of which 1 is opened, 2 mutex objects, 2 transfers | 96 k | `ActiveMeansInUse`, `SnapshotsConsistent`, `ActiveDevicesHaveMutexes`, `ImplementsStatsObject`, `CallsReturn` |
| `driver` | 3 devices, 2 files each | 1 k | `NothingIsLeft`, `LoadedDevicesAreWhole`, `Rests`, `FreedUnderFilesOnlyByFailedLoads`, `LoadsAndUnloadsEnd` |
| `options` | both ends of every range and the numbers outside | 548 k | `RunsAreDefined`, `OptionsAreHonoured` |
| `mmio` | engine and 2 users (symmetric), the values that matter of 4 registers | 1.5 M | `InterruptsExact`, `RegistersExact`, `ReadsAreCurrent` |
| `session` | 1 or 2 devices, 0 or 2 workers of up to 2 transfers, log or none, either backend | 247 k | `RecordsAreComplete`, `RowsMatchDevices`, `BusyOnlyIfShared`, `DiesOnlyOf`, `SessionEnds` |
| `monitor` | 2 threads, 2 polling threads, benchmarks of 1 + 2 transfers | 489 k | `OnePoller`, `DiesOnlyOfPolls`, `BenchmarkIsExact`, `StopReturns` |
| `kernel_proc` | violation | | `ProcCountersBelongTogether` |
| `windows_race` | violation | | `ExclusiveOpen` from an uninitialised table |

The type invariants of `LinuxSim`, `WindowsSim`, `DriverLifecycle` and `Options` are the
first conjunct of one of their invariants; those of `Ring` and `KernelDevice` are
theorems of their own, and those of `Mmio`, `Monitor` and `Session` are part of the
inductive invariants below.

What three of the runs say of the code:

- **`mmio`**: without a lock the registers can be wrong. An overlap of an update with
  an acknowledging write can lose an interrupt, bring one back or leave the pending
  flag wrong, one with a status write can lose the write, and two overlapping writes
  of the injection register can leave the flag of the one and the value of the other
  (TLC finds each when the condition on `history` is dropped). That is the only way:
  as long as no two such sections overlap the registers are exact, and the next
  clear of all interrupts, or write, that nobody disturbs makes them exact again.
- **`session`**: the log has one row for every attempt, failed ones too, its closing
  total is the number of rows, and the devices have counted exactly the rows that
  are not exceptions. The process dies in two ways only: in the report, when the log
  could not be opened (`cpp_test.cpp:357` uses the logger that
  `SessionLogger` gave up), and by a division by zero, when a worker's time is over
  before its first transfer (243). (Divisions by a configured number, such as
  the burst count, are the business of `Options`.) A failing `std::async` leaves no worker behind.
- **`monitor`**: called from one thread at a time the monitor has at most one polling
  thread, a stop returns with none, and nothing but a throwing poll ends the process,
  which moving the device under a running monitor provokes. None of these survives
  overlapping calls: TLC finds two polling threads, one that nobody owns or that
  outlives the monitor, a terminated process and a stop that never returns once the
  condition `serial` is dropped. Likewise a benchmark is exact only while no other
  thread uses the device (`alone` in `BenchmarkIsExact`): with other transfers or
  resets in between it reports theirs too.

*Bounds.* A ring of two slots with three submissions fills, drains, refuses and
reuses a slot after wrapping. The theorems below hold without these bounds, so
what the runs add for safety is that the instances really reach the interesting
cases, and that the mutants are caught. Two users or
threads suffice for every pairwise race; the mutexes and the table treat all
threads alike. Two transfers separate the first one (which sets the minimum)
from a later one, and two latencies order them both ways. In `linux_sim`
the cap of one transfer stops a call only at its start, so both threads may be
inside one and a device counts two. `MaxTransfers`,
`MaxErrors`, `MaxSubmissions`, `MaxOverruns`, `MaxTime` and `MaxFiles` are caps
on counters that the code leaves unbounded; they appear in guards only.
`windows_sim` opens one of its two devices: the other one is there for
initialisations that fail half-way. `StatusValues`, `ControlValues`, `ClearValues` and
`InjectValues` are the values users write: a status without the error bit, a reset,
one interrupt or both, injection off and on with more than the byte that counts. Two workers on one device share it, on two they
do not; `MaxTransfers` lets a worker log a second row while the other is in its
first. `Pollers` has room for a stray thread beside the current one.
`MCMaxSize` stands for 1 MB, `UINT64_MAX` for a value above every latency.
Three devices let a load fail at the first, a middle and the last one.

*Fairness.* Weak fairness of a thread inside a call: the scheduler runs it
eventually, and a callback or delay ends. Taking the kernel's mutex and the
ring's spinlock is strongly fair, because the kernel hands a mutex over to a
starving waiter and its spinlocks are queued. The pthread mutexes give no such
guarantee, so `LinuxSim` has weak fairness only, and claims that mutexes are
released, not that every caller gets one. A Windows wait ends by its timeout, so
there weak fairness is enough for every call on a device to return. A load and an
unload are steps of one thread, weakly fair, whatever users do. Each thread of a
session runs when it can, and so does a thread inside a call of the monitor or in
the polling loop; the lock of the log needs no more, since each thread takes it
finitely often. `Mmio` claims no liveness: nothing in it waits. No fairness is
assumed of users beginning calls.

*Deadlock* is checked except where the program really stops: `options` and `session`
(the program ends), `monitor` (the process is terminated, or the monitor is
destroyed) and `windows_race` (the violating instance only opens).

## What the violations show

- **`kernel_proc`**: `procfs.c:44` says "Read statistics atomically". Each counter
  is read atomically, the set of them is not: when both are read while a transfer is
  between `dma.c:70` and 71 the file reports one transfer and no bytes. (The opposite,
  bytes of a transfer that is not reported, happens when the transfer begins between
  the two reads.) `ProcLagsByOneTransfer` bounds the damage: absent resets, the
  bytes lack at most one of the transfers reported.
- **`windows_race`**: `windows_sim_init` tests and sets its flag without a lock, so
  two overlapping first opens can both succeed on one device. Once a first open
  is over the opens are exclusive (`windows_sim`).

The docs say otherwise, and a passing run shows what the code does:

- `IMPLEMENTATION_OVERVIEW.md:186-203` lists a lock-free `pcie_sim_ring_submit` that
  refuses when the next head is the tail, a ring of `size - 1` entries, and
  `kernel/README.md:159` speaks of lock-free operations. The code takes a spinlock and
  compares the count with the size (`ringbuffer.c:114-117`): a queue of `size` entries
  (`ImplementsQueue`).
- `IMPLEMENTATION_OVERVIEW.md:281-293` lists a Windows open that succeeds on an active
  device and clears the statistics of one that is not. The code refuses an active device
  (`windows_sim.c:173`) and clears nothing (`ActiveMeansInUse`, `ImplementsStatsObject`).
- The running average of the driver starts at 0, so after the first transfer it is
  half of the minimum (`dma.c:81`); `IMPLEMENTATION_OVERVIEW.md:222-225` sets all three
  fields from the first transfer. `SnapshotsConsistent` of `KernelDevice` therefore bounds
  the average from below by half of the minimum only.
- `sim/README.md:468` gives `--duration` without `--threads`; the code reads the duration
  only for more than one thread (`options.cpp:170-177`), and `OptionsAreHonoured` speaks of
  it only there.

Met while modelling, without a run of their own:

- The large-burst pattern asks for 1 to 4 MB (`config.c:25`), the Windows backend
  (`windows_sim.c:221`) and the driver (`dma.c:32`) accept at most 1 MB; `README.md:15` offers
  the pattern without that limit. `Session` shows what follows: rows with
  EXCEPTION that no device counted, and a test that ends as usual.
- `PCIE_SIM_IOC_SET_ERROR` is defined and documented (`kernel/README.md:228`) but answered
  with `-ENOTTY` (`chardev.c:109-112`).
- The verbose flag is always set, since the option's default `"false"` makes
  `has_option` true (`options.cpp:188`).
- `--threads` without a value ends in an uncaught exception of `std::stoi`.
- Nothing ever sets `dma_active` (`mmio.c:139`), so the busy bit never reads as 1, and the
  values that `update_dma` stores in the performance registers are never read back.

## Proofs

| Theorem | States |
|---|---|
| `RingProofs`: `RingTypes`, `IndicesAgree`, `SubmissionTimesOrdered`, `LockProtectsChecks`, `SpaceReadingIsSafe` | `[]P` for each safety invariant of `Ring` |
| `PendingDescriptorsIntact` | the action property `PendingIntact` |
| `RingImplementsQueue` | `Ring` implements `BoundedQueue` |
| `KernelDeviceProofs`: `DeviceTypes`, `MutexSerialisesIoctls`, `StatisticsConsistent` | `[]P` for the types, `OneWriterAtATime`, `SnapshotsConsistent` |
| `DeviceImplementsStatsObject` | `KernelDevice` implements `StatsObject` |
| `ProcReadersLagByOne` | `[]ProcLagsByOneTransfer`, when no `RESET_STATS` is issued |
| `LinuxSimProofs`: `DeviceMutexesWork`, `TableIsInitialisedOnce`, `StatisticsConsistent` | `[]P` for `SectionsAreAtomic`, `InitialisedBeforeUse`, `SnapshotsConsistent` |
| `BackendImplementsStatsObject` | each device of `LinuxSim` implements `StatsObject` |
| `WindowsSimProofs`: `OpensExclude`, `StatisticsConsistent`, `MutexesAreAccounted` | `[]P` for `ActiveMeansInUse`, `SnapshotsConsistent`, `ActiveDevicesHaveMutexes`, under `Solo` |
| `BackendImplementsStatsObject` | each device of `WindowsSim` implements `StatsObject`, under `Solo` |
| `DriverLifecycleProofs`: `LoadsAndUnloadsLeaveNothing`, `LoadedModulesAreWhole`, `DependentsGoFirst` | `[]P` for `NothingIsLeft`, `LoadedDevicesAreWhole`, `Rests` |
| `UnloadsFreeNothingInUse` | the action property `FreedUnderFilesOnlyByFailedLoads` |
| `MmioProofs`: `InterruptsAreExact`, `RegistersAreExact`, `UndisturbedReadsAreCurrent` | `[]P` for `InterruptsExact`, `RegistersExact`, `ReadsAreCurrent` |
| `TestProgramProofs`: `RunsHaveNoZeroDivisor`, `TheTestRunIsTheOneAskedFor` | `[]P` for `RunsAreDefined`, `OptionsAreHonoured` |
| `TheLogIsComplete`, `TheLogAgreesWithTheDevices`, `OnlySharingMakesBusy`, `TheSessionDiesOnlyThere` | `[]P` for `RecordsAreComplete`, `RowsMatchDevices`, `BusyOnlyIfShared`, `DiesOnlyOf` |
| `RunsAreSessions` | what the options let through is a configuration of a session |
| `MonitorProofs`: `OneThreadPolls`, `OnlyPollsTerminate`, `BenchmarksAreExact` | `[]P` for `OnePoller`, `DiesOnlyOfPolls`, `BenchmarkIsExact` |

They hold for every number of contexts, users, threads, workers, devices, files and
polling threads, every ring size, request, option value, register value and latency, and
every bound. The modules' assumptions on their constants are all they use
(`RingAssumption`, `KernelAssumption`, `LinuxAssumption`, `WindowsAssumption`,
`LifecycleAssumption`, `ContextsAssumption`, `ValuesAssumption`, `OptionsAssumption`,
`ConfigsAssumption`, `CountsAssumption`, `NoneAssumption`): numbers are numbers, the mark for "nobody" is not a
thread, a ring has a slot, a session has a device, a kernel transfer takes some time, a Windows latency
is below `UINT64_MAX`. Five theorems have a hypothesis besides, which
the code makes necessary:

- *`Solo`* (`WindowsSimProofs`): at most one thread makes calls before the table is
  initialised; programs that begin with an initialised table may have any number. Without it
  the theorems are false, as `windows_race` shows.
- *no resets* (`ProcReadersLagByOne`): a reader that has read the transfer count
  before a reset and the byte count after it lags by any number of transfers.

Integers are unbounded in the models: the 64-bit counters of the statistics do not
wrap around.

`SimInv`, `WinInv`, `LifeInv`, `MmioInv`, `OptionsInv`, `SessionInv` and `MonitorInv` below were
checked by TLC on small instances before they were proved.

*Ring.* The inductive invariant `RingInv` conjoins six invariants (the run checks
three; the types, `CheckedStaysTrue` and `OnlyOldestMarked` are proved only). None is
inductive alone: that a slot is free when it is filled needs the indices to agree
with the count; that the oldest descriptor alone may be marked needs the lock to
have one holder; that times are ordered needs the time of a filled but not yet
counted slot (`CheckedStaysTrue`). The lemmas on `Slot` do the modular
arithmetic once. `PendingIntact` is a property of steps: the slot at the head, the only one
filled, is none of the pending ones as long as there is space, and the one at the tail,
the only one marked, is the oldest. The refinement maps the queue to the slots from the tail on, and
an operation takes effect when it moves its index.

*KernelDevice.* `DeviceInv` conjoins types, `OneWriterAtATime`, `SnapshotsConsistent`
and, per user, `CallState`: how far the call under way has come, as the last
committed statistics with a prefix of the transfer's updates, or a subset of the
fields cleared. Frame lemmas say what a step of one user leaves of the others. The
refinement maps the abstract statistics to `committed`: an ioctl takes effect when
it unlocks. For the proc file `ProcInv` adds what a reader may rely on at each
point of its reading (`ReaderOK`): the bytes never fall behind what it has read of
the transfers by more than one, and no later maximum is below the minimum it has
read. Each assignment of `update_transfer_stats` keeps that (`Grows`), because of the
order in which the fields are written.

*LinuxSim.* `SimInv` adds to the invariants `CallState`, what a thread knows at each
point of its call, and `Untouched`: a device that no one has opened has empty
statistics, so that clearing them in the first open is no step of the abstract
object. That the average lies between minimum and maximum needs some arithmetic on the quotient,
done once in a lemma.

*WindowsSim.* `WinInv` has one part for an initialised table (`Guarded`: distinct
mutexes, owned exactly by the thread that is past the wait, statistics
committed when nobody owns them; `Marked`: a device is active just when one thread
uses it) and one for a table that is not (`Unmade`: no device is active, and the
mutexes that exist are those the initialising thread has made so far). `Phases`
says which threads may be where meanwhile. `Solo` is used for one thing only: a thread in a
call on a table that is not initialised is alone. A device's
statistics are mapped to `committed`; the initialisation is a reset by the thread
that makes the first open, and takes effect when `g_initialized` is set.

*DriverLifecycle.* `LifeInv` says for each point of `pcie_sim_init` and `pcie_sim_exit`
which registrations are held (`Phase`) and, relative to the loop variable, which
devices are complete, in the making, or gone (`DeviceInv`). The four
properties follow from it; `Rests` alone is not inductive, since the order of an
unload is a matter of where the code is.

*Mmio.* `MmioInv` says for each read-modify-write section what the one context inside it
knows, provided that no overlap has happened (`IrqInv`, `StatusInv`, `InjectInv`), and
what a context knows whose call nobody has disturbed (`QuietInv`). The latter
restores the former after an undisturbed write.

*Options.* `OptionsInv` says that every stored number has passed its validator and
that the configuration is the one `to_config` makes of the stored values (`Converted`, `LogAsked`).
Lemmas give the effect of each setter. `RunsAreSessions` follows from the same invariant: a
run has 1 to 8 devices, and no stress test or one of 2 to 64 workers.

*Session.* `SessionInv` adds to the four properties what makes them inductive. `SelfOK`
says of each thread which device it holds at which point, that a worker's tries are its
attempts, and that the record on its way to the log is the one of its last attempt. `Phases`
says that there are no workers while main tests and none left once main has waited. `LogInv` says
who may write: the thread writing its row or the count owns the mutex, and the count it has read is
still the count. `RowsInv` says that a row's number is that of an attempt that is over, so the row
being written is a new one and the number of rows grows by one. Numbers of rows change by one
element at a time, so the library's facts on the cardinality of finite sets are enough, and no
sum over a set is needed. Frame lemmas (`RecordsFrame`, `CountFrame`, `BusyFrame`) say what the steps
outside the log leave alone.

*Monitor.* `MonitorState` describes, while no calls of the monitor have overlapped,
the flag and the thread between calls (`Quiet`) and at each point of a call (`During`);
`CountInv` ties a benchmark's loop counter to the device's count.

*Only model-checked:*

- All liveness: `CallsReturn` (twice), `IoctlsReturn`, `MutexesAreReleased`,
  `LoadsAndUnloadsEnd`, `SessionEnds`, `StopReturns`. Fairness is beyond the prover.
- That the mutants violate the properties, and the two violations.

## Not modelled

- Unbinding a device through sysfs while a file is open, and hot removal.
- Data: the bytes transferred, texts, units, floating point.
- The memory of the rings (`ringbuffer.c`, allocation and freeing): it happens before
  and after the operations that `Ring` models.
- The plain-storage registers of `mmio.c`; overflow of the 32-bit performance registers.
- `CSVLogger::log_transfers` and `flush`, `DeviceManager::open_all_devices`, the move
  assignment of `Device`: no program uses them.
- The order of the log's rows: a row's time is read before the lock
  (`csv_logger.cpp:79`), so rows need not be in the order of their times.
- The generator that the workers share without a lock (`cpp_test.cpp:78`): a data race
  whose outcome is an injected error or none, and either is allowed at each transfer.
- A callback of the monitor that calls the monitor: stopping it there would join the
  thread with itself.
- Closing a handle after `pcie_sim_windows_cleanup`: the close enters a critical section that
  was deleted (`windows_sim.c:208`), which is undefined. In `WindowsSim` a handle is closed
  only while the table is initialised; transfers, gets and resets with a handle that
  has outlived the cleanup are modelled, and refused.
- The debug message that reads a descriptor after the unlock (`ringbuffer.c:187`).
- `basic_test.c` (a sequential demonstration) and `cpp_test_old.cpp` (built by no
  makefile, and out of date with the headers).
