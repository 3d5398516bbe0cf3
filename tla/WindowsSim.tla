----------------------------- MODULE WindowsSim -----------------------------
(***************************************************************************)
(* The userspace backend for Windows (sim/windows_sim.c).  A device can be *)
(* opened by one handle at a time; g_global_lock guards that flag, and the *)
(* mutex of a device guards its transfers and statistics, waited for with  *)
(* a timeout.  The first open initialises the table without any lock.      *)
(* Threads may share a handle, and close it when no call is using it.      *)
(***************************************************************************)
EXTENDS Integers, FiniteSets, Functions

CONSTANTS
  Threads,       \* the application's threads
  NumDevices,    \* MAX_DEVICES
  DeviceIds,     \* device numbers passed to pcie_sim_open, valid or not
  Offered,       \* the library calls the application makes
  Sizes,         \* transfer sizes
  MaxSize,       \* 1 MB
  Latencies,     \* timestamp differences across the simulated transfer
  UINT64_MAX,    \* above every latency
  MutexIds,      \* kernel mutex objects
  Starters,      \* the threads of a program that begins with its first open
  Starts,        \* which programs: TRUE for one that has opened a device before
  Free,          \* holder of a free lock
  Nil,           \* no lock: not created, deleted or closed
  Watched,       \* the device whose refinement is checked
  MaxTransfers   \* bound: no transfer starts beyond this many on a device

Devices == 0 .. NumDevices - 1
Closed == -1     \* no handle

ASSUME WindowsAssumption ==
  /\ NumDevices \in Nat
  /\ DeviceIds \subseteq Int
  /\ Offered \subseteq {"open", "close", "transfer", "get", "reset", "cleanup"}
  /\ Sizes \subseteq Nat /\ MaxSize \in Nat
  /\ UINT64_MAX \in Nat
  /\ Latencies \subseteq 0 .. UINT64_MAX - 1
  /\ MutexIds \subseteq Nat \ {0}
  /\ Starters \subseteq Threads /\ Starts \subseteq BOOLEAN
  /\ Free \notin Threads /\ Nil \notin Threads /\ Nil # Free
  /\ Watched \in Devices

VARIABLES
  started,       \* the program had initialised the table when it began
  initialized,   \* g_initialized
  globalLock,    \* who holds g_global_lock
  active,        \* g_devices[d].active
  mutex,         \* g_devices[d].mutex: a mutex object, or 0 for NULL
  owner,         \* who owns each mutex object
  stats,         \* g_devices[d].stats
  pc,            \* where each thread is
  op,            \* the library call it is in
  dev,           \* the device that call is for
  using,         \* the thread that opened the handle that call uses
  handle,        \* the device of the handle a thread has opened, or Closed
  loop,          \* the loop variable of windows_sim_init
  size,          \* its transfer size
  lat,           \* its transfer_latency
  ret,           \* what its call returns
  committed      \* history: each device's statistics at its last release or initialisation

table == <<initialized, globalLock, active, mutex>>
locals == <<op, dev, using, loop, size, lat>>
vars == <<started, table, owner, stats, pc, locals, handle, ret, committed>>

Fields == {"transfers", "bytes", "errors", "avg", "min", "max"}
Zero == [f \in Fields |-> IF f = "min" THEN UINT64_MAX ELSE 0]

Ok(v) == [code |-> "ok", val |-> v]
OkStats(s) == [code |-> "ok", stats |-> s]
Error(e) == [code |-> e]
NoAnswer == [code |-> "none"]

Goto(t, l) == pc' = [pc EXCEPT ![t] = l]
Answer(t, a) == ret' = [ret EXCEPT ![t] = a]

-----------------------------------------------------------------------------
\* The mutexes before the first initialisation, or after an undisturbed one.
Mutexes(made) == IF made THEN Injection(Devices, MutexIds) ELSE [Devices -> {0}]

\* The program has not called the library yet, or one thread has opened and
\* closed a device before it started the others.
Init ==
  /\ started \in Starts
  /\ initialized = started
  /\ globalLock = IF started THEN Free ELSE Nil
  /\ active = [d \in Devices |-> FALSE]
  /\ mutex \in Mutexes(started)
  /\ owner = [m \in MutexIds |-> IF \E d \in Devices : mutex[d] = m THEN Free ELSE Nil]
  /\ stats = [d \in Devices |-> IF started THEN Zero ELSE [f \in Fields |-> 0]]
  /\ pc = [t \in Threads |-> "idle"]
  /\ op = [t \in Threads |-> "none"]
  /\ dev = [t \in Threads |-> Closed]
  /\ using = [t \in Threads |-> t]
  /\ handle = [t \in Threads |-> Closed]
  /\ loop = [t \in Threads |-> 0]
  /\ size = [t \in Threads |-> 0]
  /\ lat = [t \in Threads |-> 0]
  /\ ret = [t \in Threads |-> NoAnswer]
  /\ committed = [d \in Devices |-> Zero]

\* A library call o, through the handle of u, for device d; it rejects its
\* parameters at once unless ok.
Call(t, o, u, d, ok, start) ==
  /\ pc[t] = "idle" /\ o \in Offered
  /\ op' = [op EXCEPT ![t] = o]
  /\ using' = [using EXCEPT ![t] = u]
  /\ dev' = [dev EXCEPT ![t] = d]
  /\ Goto(t, IF ok THEN start ELSE "param")
  /\ UNCHANGED <<table, owner, stats, loop, lat, ret, committed>>

\* PCIE_SIM_ERROR_PARAM.
param_error(t) ==
  /\ pc[t] = "param"
  /\ Answer(t, Error("PARAM"))
  /\ Goto(t, "return")
  /\ UNCHANGED <<table, owner, stats, locals, handle, committed>>

Return(t) ==
  /\ pc[t] = "return"
  /\ Goto(t, "idle")
  /\ op' = [op EXCEPT ![t] = "none"]
  /\ using' = [using EXCEPT ![t] = t]
  /\ dev' = [dev EXCEPT ![t] = Closed]
  /\ loop' = [loop EXCEPT ![t] = 0]
  /\ size' = [size EXCEPT ![t] = 0]
  /\ lat' = [lat EXCEPT ![t] = 0]
  /\ Answer(t, NoAnswer)
  /\ UNCHANGED <<table, owner, stats, handle, committed>>

-----------------------------------------------------------------------------
pcie_sim_open_impl(t, d) ==
  /\ handle[t] = Closed
  /\ Call(t, "open", t, d, d >= 0 /\ d < NumDevices, "init")
  /\ UNCHANGED <<size, handle>>

\* windows_sim_init looks at the flag ...
windows_sim_init(t) ==
  /\ pc[t] = "init"
  /\ Goto(t, IF initialized THEN "enter" ELSE "section")
  /\ UNCHANGED <<table, owner, stats, locals, handle, ret, committed>>

\* ... and sets up the lock, free whatever it was, ...
init_section(t) ==
  /\ pc[t] = "section"
  /\ globalLock' = Free
  /\ Goto(t, "loop")
  /\ UNCHANGED <<initialized, active, mutex, owner, stats, locals, handle, ret, committed>>

\* ... then each device: inactive, with a new mutex and cleared statistics.
init_device(t) ==
  /\ pc[t] = "loop" /\ loop[t] < NumDevices
  /\ active' = [active EXCEPT ![loop[t]] = FALSE]
  /\ \E m \in MutexIds :
       /\ owner[m] = Nil
       /\ mutex' = [mutex EXCEPT ![loop[t]] = m]
       /\ owner' = [owner EXCEPT ![m] = Free]
  /\ stats' = [stats EXCEPT ![loop[t]] = Zero]
  /\ loop' = [loop EXCEPT ![t] = @ + 1]
  /\ UNCHANGED <<initialized, globalLock, pc, op, dev, using, size, lat, handle, ret,
                 committed>>

\* Mutant: the mutexes created before the failure are kept.
init_device_fails_leak(t) ==
  /\ pc[t] = "loop" /\ loop[t] < NumDevices
  /\ active' = [active EXCEPT ![loop[t]] = FALSE]
  /\ mutex' = [mutex EXCEPT ![loop[t]] = 0]
  /\ globalLock' = Nil
  /\ Answer(t, Error("SYSTEM"))
  /\ Goto(t, "return")
  /\ UNCHANGED <<initialized, owner, stats, locals, handle, committed>>

\* CreateMutex fails: the mutexes created so far are closed, the lock deleted.
init_device_fails(t) ==
  LET created == {mutex[d] : d \in 0 .. loop[t] - 1}
  IN  /\ pc[t] = "loop" /\ loop[t] < NumDevices
      /\ active' = [active EXCEPT ![loop[t]] = FALSE]
      /\ mutex' = [mutex EXCEPT ![loop[t]] = 0]
      /\ owner' = [m \in MutexIds |-> IF m \in created THEN Nil ELSE owner[m]]
      /\ globalLock' = Nil
      /\ Answer(t, Error("SYSTEM"))
      /\ Goto(t, "return")
      /\ UNCHANGED <<initialized, stats, locals, handle, committed>>

init_done(t) ==
  /\ pc[t] = "loop" /\ loop[t] = NumDevices
  /\ initialized' = TRUE
  /\ committed' = [d \in Devices |-> Zero]
  /\ Goto(t, "enter")
  /\ UNCHANGED <<globalLock, active, mutex, owner, stats, locals, handle, ret>>

\* EnterCriticalSection and LeaveCriticalSection of an open or a close.
Enter(t) ==
  /\ pc[t] = "enter"
  /\ globalLock = Free
  /\ globalLock' = t
  /\ Goto(t, "section_body")
  /\ UNCHANGED <<initialized, active, mutex, owner, stats, locals, handle, ret, committed>>

Leave(t) ==
  /\ pc[t] = "leave"
  /\ globalLock' = Free
  /\ Goto(t, IF op[t] = "open" /\ ret[t] = NoAnswer THEN "malloc" ELSE "return")
  /\ UNCHANGED <<initialized, active, mutex, owner, stats, locals, handle, ret, committed>>

\* A device in use is refused, any other marked active.
open_check(t) ==
  /\ pc[t] = "section_body" /\ op[t] = "open"
  /\ active' = [active EXCEPT ![dev[t]] = TRUE]
  /\ Answer(t, IF active[dev[t]] THEN Error("DEVICE") ELSE NoAnswer)
  /\ Goto(t, "leave")
  /\ UNCHANGED <<initialized, globalLock, mutex, owner, stats, locals, handle, committed>>

\* The handle is allocated, or the device released again without the lock.
open_malloc(t) ==
  /\ pc[t] = "malloc"
  /\ handle' = [handle EXCEPT ![t] = dev[t]]
  /\ Answer(t, Ok(0))
  /\ Goto(t, "return")
  /\ UNCHANGED <<table, owner, stats, locals, committed>>

\* Mutant: the device stays active.
open_malloc_fails_active(t) ==
  /\ pc[t] = "malloc"
  /\ Answer(t, Error("MEMORY"))
  /\ Goto(t, "return")
  /\ UNCHANGED <<table, owner, stats, locals, handle, committed>>

open_malloc_fails(t) ==
  /\ pc[t] = "malloc"
  /\ active' = [active EXCEPT ![dev[t]] = FALSE]
  /\ Answer(t, Error("MEMORY"))
  /\ Goto(t, "return")
  /\ UNCHANGED <<initialized, globalLock, mutex, owner, stats, locals, handle, committed>>

\* A thread closes the handle it opened once no call is using it (and not after
\* the cleanup, which has deleted the lock).
pcie_sim_close_impl(t) ==
  /\ handle[t] # Closed /\ initialized
  /\ \A u \in Threads \ {t} : pc[u] = "idle" \/ using[u] # t
  /\ Call(t, "close", t, handle[t], TRUE, "enter")
  /\ handle' = [handle EXCEPT ![t] = Closed]
  /\ UNCHANGED size

close_body(t) ==
  /\ pc[t] = "section_body" /\ op[t] = "close"
  /\ active' = [active EXCEPT ![dev[t]] = FALSE]
  /\ Answer(t, Ok(0))
  /\ Goto(t, "leave")
  /\ UNCHANGED <<initialized, globalLock, mutex, owner, stats, locals, handle, committed>>

\* pcie_sim_windows_cleanup, at a point where no call is running, in a program
\* that also begins again.
pcie_sim_windows_cleanup ==
  /\ "cleanup" \in Offered /\ initialized /\ ~started
  /\ \A t \in Threads : pc[t] = "idle"
  /\ owner' = [m \in MutexIds |-> IF \E d \in Devices : mutex[d] = m THEN Nil ELSE owner[m]]
  /\ mutex' = [d \in Devices |-> 0]
  /\ active' = [d \in Devices |-> FALSE]
  /\ initialized' = FALSE
  /\ globalLock' = Nil
  /\ UNCHANGED <<stats, pc, locals, handle, ret, committed>>

-----------------------------------------------------------------------------
\* A transfer through the handle of u, which may be null; b: the buffer is not.
pcie_sim_transfer_impl(t, u, n, b) ==
  /\ handle[u] # Closed => stats[handle[u]]["transfers"] < MaxTransfers
  /\ Call(t, "transfer", u, handle[u],
          handle[u] # Closed /\ b /\ n # 0 /\ n <= MaxSize, "active")
  /\ size' = [size EXCEPT ![t] = n]
  /\ UNCHANGED handle

pcie_sim_get_stats_impl(t, u) ==
  Call(t, "get", u, handle[u], handle[u] # Closed, "active") /\ UNCHANGED <<size, handle>>

pcie_sim_reset_stats_impl(t, u) ==
  Call(t, "reset", u, handle[u], handle[u] # Closed, "active") /\ UNCHANGED <<size, handle>>

\* The flag is read without the lock.
check_active(t) ==
  /\ pc[t] = "active" /\ active[dev[t]]
  /\ Goto(t, "wait")
  /\ UNCHANGED <<table, owner, stats, locals, handle, ret, committed>>

check_active_fails(t) ==
  /\ pc[t] = "active" /\ ~active[dev[t]]
  /\ Answer(t, Error("DEVICE"))
  /\ Goto(t, "return")
  /\ UNCHANGED <<table, owner, stats, locals, handle, committed>>

Owner(d) == IF mutex[d] = 0 THEN Nil ELSE owner[mutex[d]]

\* Mutant: reading the statistics does not look at the result of the wait.
WaitForSingleObject_unchecked(t) ==
  /\ pc[t] = "wait"
  /\ Owner(dev[t]) = Free \/ op[t] = "get"
  /\ owner' = IF Owner(dev[t]) = Free THEN [owner EXCEPT ![mutex[dev[t]]] = t] ELSE owner
  /\ Goto(t, "body")
  /\ UNCHANGED <<table, stats, locals, handle, ret, committed>>

\* WaitForSingleObject gets the mutex, ...
WaitForSingleObject(t) ==
  /\ pc[t] = "wait"
  /\ Owner(dev[t]) = Free
  /\ owner' = [owner EXCEPT ![mutex[dev[t]]] = t]
  /\ Goto(t, "body")
  /\ UNCHANGED <<table, stats, locals, handle, ret, committed>>

\* Mutant: the wait is INFINITE, and fails only without a mutex.
wait_timeout_infinite(t) ==
  /\ pc[t] = "wait"
  /\ Owner(dev[t]) = Nil
  /\ Answer(t, Error("TIMEOUT"))
  /\ Goto(t, "return")
  /\ UNCHANGED <<table, owner, stats, locals, handle, committed>>

\* ... or somebody else has it for the whole timeout, or it does not exist.
wait_timeout(t) ==
  /\ pc[t] = "wait"
  /\ Owner(dev[t]) # Free
  /\ Answer(t, Error("TIMEOUT"))
  /\ Goto(t, "return")
  /\ UNCHANGED <<table, owner, stats, locals, handle, committed>>

\* The mutex is released; a mutex object owned by somebody else is not.
ReleaseMutex(t) ==
  /\ pc[t] = "release"
  /\ owner' = IF Owner(dev[t]) = t THEN [owner EXCEPT ![mutex[dev[t]]] = Free] ELSE owner
  /\ committed' = [committed EXCEPT ![dev[t]] = stats[dev[t]]]
  /\ Goto(t, "return")
  /\ UNCHANGED <<table, stats, locals, handle, ret>>

Counted(s, n) == [s EXCEPT !["transfers"] = @ + 1, !["bytes"] = @ + n]
Timed(s, l) ==
  [s EXCEPT !["min"] = IF l < @ THEN l ELSE @,
            !["max"] = IF l > @ THEN l ELSE @,
            !["avg"] = IF s["transfers"] = 1 THEN l
                       ELSE (@ * (s["transfers"] - 1) + l) \div s["transfers"]]

\* Statistics s after a transfer of n bytes in time l.
Account(s, n, l) == Timed(Counted(s, n), l)

\* The data is touched, the delay passes and the transfer is counted.
transfer_count(t) ==
  /\ pc[t] = "body" /\ op[t] = "transfer"
  /\ \E l \in Latencies : lat' = [lat EXCEPT ![t] = l]
  /\ stats' = [stats EXCEPT ![dev[t]] = Counted(@, size[t])]
  /\ Goto(t, "latency")
  /\ UNCHANGED <<table, owner, op, dev, using, loop, size, handle, ret, committed>>

transfer_latency(t) ==
  /\ pc[t] = "latency"
  /\ stats' = [stats EXCEPT ![dev[t]] = Timed(@, lat[t])]
  /\ Answer(t, Ok(lat[t]))
  /\ Goto(t, "release")
  /\ UNCHANGED <<table, owner, locals, handle, committed>>

get_copy(t) ==
  /\ pc[t] = "body" /\ op[t] = "get"
  /\ Answer(t, OkStats(stats[dev[t]]))
  /\ Goto(t, "release")
  /\ UNCHANGED <<table, owner, stats, locals, handle, committed>>

\* Mutant: memset alone leaves a minimum of zero.
reset_clear_all(t) ==
  /\ pc[t] = "body" /\ op[t] = "reset"
  /\ stats' = [stats EXCEPT ![dev[t]] = [f \in Fields |-> 0]]
  /\ Answer(t, Ok(0))
  /\ Goto(t, "release")
  /\ UNCHANGED <<table, owner, locals, handle, committed>>

\* memset, then the minimum is set to UINT64_MAX.
reset_clear(t) ==
  /\ pc[t] = "body" /\ op[t] = "reset"
  /\ stats' = [stats EXCEPT ![dev[t]] = Zero]
  /\ Answer(t, Ok(0))
  /\ Goto(t, "release")
  /\ UNCHANGED <<table, owner, locals, handle, committed>>

-----------------------------------------------------------------------------
Calling(t) ==
  \/ \E d \in DeviceIds : pcie_sim_open_impl(t, d)
  \/ pcie_sim_close_impl(t)
  \/ \E u \in Threads, n \in Sizes, b \in BOOLEAN : pcie_sim_transfer_impl(t, u, n, b)
  \/ \E u \in Threads : pcie_sim_get_stats_impl(t, u) \/ pcie_sim_reset_stats_impl(t, u)

Initialising(t) ==
  \/ windows_sim_init(t)
  \/ init_section(t)
  \/ init_device(t)
  \/ init_device_fails(t)
  \/ init_done(t)

Sectioning(t) ==
  \/ open_check(t)
  \/ close_body(t)
  \/ Leave(t)
  \/ open_malloc(t)
  \/ open_malloc_fails(t)

Accessing(t) ==
  \/ check_active(t)
  \/ check_active_fails(t)
  \/ WaitForSingleObject(t)
  \/ wait_timeout(t)
  \/ transfer_count(t)
  \/ transfer_latency(t)
  \/ get_copy(t)
  \/ reset_clear(t)
  \/ ReleaseMutex(t)

Running(t) ==
  \/ Initialising(t)
  \/ Enter(t)
  \/ Sectioning(t)
  \/ Accessing(t)
  \/ param_error(t)
  \/ Return(t)

Next ==
  /\ \/ \E t \in Threads : ((started \/ t \in Starters) /\ Calling(t)) \/ Running(t)
     \/ pcie_sim_windows_cleanup
  /\ UNCHANGED started

Spec == Init /\ [][Next]_vars

\* A thread that can take a step in the library eventually does.
Fairness == \A t \in Threads : WF_vars(Running(t) /\ UNCHANGED started)

FairSpec == Spec /\ Fairness

-----------------------------------------------------------------------------
Labels == {"idle", "param", "init", "section", "loop", "enter", "section_body", "leave",
           "malloc", "active", "wait", "body", "latency", "release", "return"}
Ops == {"none", "open", "close", "transfer", "get", "reset"}
ErrorCodes == {"PARAM", "SYSTEM", "DEVICE", "MEMORY", "TIMEOUT"}
Statistics == [Fields -> Nat]

AnswerOK(t) ==
  IF op[t] = "get" /\ ret[t].code = "ok"
  THEN ret[t] = OkStats(ret[t].stats) /\ ret[t].stats \in Statistics
  ELSE ret[t] \in {NoAnswer, Ok(0), Ok(lat[t])} \cup {Error(e) : e \in ErrorCodes}

TypeOK ==
  /\ {started, initialized} \subseteq BOOLEAN /\ globalLock \in Threads \cup {Free, Nil}
  /\ active \in [Devices -> BOOLEAN]
  /\ mutex \in [Devices -> MutexIds \cup {0}]
  /\ owner \in [MutexIds -> Threads \cup {Free, Nil}]
  /\ stats \in [Devices -> Statistics] /\ committed \in [Devices -> Statistics]
  /\ pc \in [Threads -> Labels] /\ op \in [Threads -> Ops]
  /\ dev \in [Threads -> DeviceIds \cup Devices \cup {Closed}]
  /\ using \in [Threads -> Threads]
  /\ handle \in [Threads -> Devices \cup {Closed}]
  /\ loop \in [Threads -> 0 .. NumDevices]
  /\ size \in [Threads -> Sizes \cup {0}] /\ lat \in [Threads -> Latencies \cup {0}]
  /\ DOMAIN ret = Threads /\ \A t \in Threads : AnswerOK(t)

\* t has device d open, is about to receive its handle, or has not yet let go
\* of it in a close.
InUse(t, d) ==
  \/ handle[t] = d
  \/ /\ dev[t] = d /\ op[t] = "open"
     /\ pc[t] = "malloc" \/ (pc[t] = "leave" /\ ret[t] = NoAnswer)
  \/ dev[t] = d /\ op[t] = "close" /\ pc[t] \in {"enter", "section_body"}

\* A device is in use by one thread at a time: "Check if device is already in
\* use" (windows_sim.c:172).
ExclusiveOpen ==
  \A d \in Devices, t \in Threads, u \in Threads : InUse(t, d) /\ InUse(u, d) => t = u

\* Once the table is initialised, a device that is marked active is in use by
\* exactly one thread, and any other by none: opens exclude each other, and a
\* failed open or a close leaves the device free for the next open
\* (windows_sim.c:172-188 and 209-211).
ActiveMeansInUse ==
  initialized => \A d \in Devices :
    Cardinality({t \in Threads : InUse(t, d)}) = IF active[d] THEN 1 ELSE 0

\* What the statistics of an initialised device satisfy between calls: sizes
\* within the limit, and the average between the minimum and the maximum, with
\* the minimum at UINT64_MAX until there is one (windows_sim.c:221, 261-277).
Consistent(s) ==
  /\ s["transfers"] <= s["bytes"] /\ s["bytes"] <= s["transfers"] * MaxSize
  /\ s["transfers"] = 0 => s = Zero
  /\ s["transfers"] > 0 =>
       s["min"] <= s["avg"] /\ s["avg"] <= s["max"] /\ s["max"] < UINT64_MAX

\* Whatever other threads do, pcie_sim_get_stats returns consistent statistics
\* (windows_sim.c:304-309).
SnapshotsConsistent ==
  /\ initialized => \A d \in Devices : Consistent(committed[d])
  /\ \A t \in Threads : op[t] = "get" /\ ret[t].code = "ok" => Consistent(ret[t].stats)

\* An active device has a mutex that exists, and nobody keeps one after a failed
\* initialisation or a cleanup (windows_sim.c:67-75 and 102-108).
ActiveDevicesHaveMutexes ==
  /\ TypeOK
  /\ \A d \in Devices : active[d] => Owner(d) # Nil
  /\ initialized => \A d, e \in Devices : mutex[d] = mutex[e] => d = e
  /\ (\A t \in Threads : pc[t] # "loop") /\ ~initialized => \A m \in MutexIds : owner[m] = Nil

\* Refinement: a call on the watched device takes effect when it releases the
\* mutex; refusals and timeouts have no effect.  An open that initialises the
\* table is a reset, which may fail.
Watching(t) == op[t] \in {"transfer", "get", "reset"} /\ dev[t] = Watched
Initialised(t) == op[t] = "open" /\ pc[t] = "enter" /\ loop[t] = NumDevices
InitFailed(t) == op[t] = "open" /\ ret[t] = Error("SYSTEM")

SimCall(t) ==
  CASE Initialised(t) \/ InitFailed(t) \/ (Watching(t) /\ pc[t] = "return") ->
         [op |-> "returning"]
    [] op[t] = "open" /\ pc[t] \in {"section", "loop"} -> [op |-> "reset"]
    [] Watching(t) /\ pc[t] # "return" ->
         IF op[t] = "transfer" THEN [op |-> "transfer", size |-> size[t]] ELSE [op |-> op[t]]
    [] OTHER -> [op |-> "idle"]

SimAnswer(t) ==
  CASE Initialised(t) -> Ok(0)
    [] InitFailed(t) \/ (Watching(t) /\ pc[t] = "return") -> ret[t]
    [] OTHER -> NoAnswer

Calls == [t \in Threads |-> SimCall(t)]
Answers == [t \in Threads |-> SimAnswer(t)]

\* This backend counts no failed transfers.
Failed(s) == s

Device == INSTANCE StatsObject WITH
  Procs <- Threads,
  Errors <- ErrorCodes,
  stats <- committed[Watched],
  call <- Calls,
  answer <- Answers

\* Each device is an atomic statistics object, with calls that a timeout may
\* refuse (windows_sim.c:217-338).
ImplementsStatsObject == Device!Spec

\* A call on an open device returns even when others keep its mutex busy: the
\* waits end by a timeout (windows_sim.c:235, 304 and 330).
CallsReturn ==
  \A t \in Threads : op[t] \in {"transfer", "get", "reset"} ~> op[t] = "none"
=============================================================================
