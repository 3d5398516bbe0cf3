------------------------------ MODULE LinuxSim ------------------------------
(***************************************************************************)
(* The userspace backend for Linux (sim/linux_sim.c), reached through the  *)
(* library calls of lib/core.c.  Threads open devices, transfer, read and  *)
(* reset statistics.  g_init_mutex guards the lazy initialisation of the   *)
(* device table; every device has a mutex of its own.  A thread owns the   *)
(* handle it opened (lib/device.hpp: a Device is not copied).              *)
(***************************************************************************)
EXTENDS Integers

CONSTANTS
  Threads,       \* the application's threads
  NumDevices,    \* MAX_DEVICES
  DeviceIds,     \* device numbers passed to pcie_sim_open, valid or not
  Sizes,         \* transfer sizes passed to pcie_sim_transfer
  Latencies,     \* differences of CLOCK_MONOTONIC across the delay
  Free,          \* holder of a free mutex
  Watched,       \* the device whose refinement is checked
  MaxTransfers   \* bound: no transfer starts beyond this many on a device

Devices == 0 .. NumDevices - 1
Closed == -1     \* no handle

\* The delay may be cut short by a signal, so that a latency may be zero.
ASSUME LinuxAssumption ==
  /\ NumDevices \in Nat
  /\ DeviceIds \subseteq Int
  /\ Sizes \subseteq Nat
  /\ Latencies \subseteq Nat
  /\ Free \notin Threads
  /\ Watched \in Devices

VARIABLES
  initialized,   \* g_sim_initialized
  initMutex,     \* who holds g_init_mutex
  active,        \* g_sim_devices[d].active
  mutex,         \* who holds g_sim_devices[d].mutex
  stats,         \* g_sim_devices[d].stats
  pc,            \* where each thread is
  op,            \* the library call it is in
  dev,           \* the device that call is for
  handle,        \* the device of its handle, or Closed
  loop,          \* the loop variable of linux_sim_init
  size,          \* its transfer size
  lat,           \* its current_latency
  ret,           \* what its call returns
  committed      \* history: each device's statistics at its last release

table == <<initialized, initMutex, active>>
locals == <<op, dev, loop, size, lat>>
vars == <<table, mutex, stats, pc, locals, handle, ret, committed>>

Fields == {"transfers", "bytes", "errors", "avg", "min", "max"}
Zero == [f \in Fields |-> 0]

Ok(v) == [code |-> "ok", val |-> v]
OkStats(s) == [code |-> "ok", stats |-> s]
Error(e) == [code |-> e]
NoAnswer == [code |-> "none"]

Goto(t, l) == pc' = [pc EXCEPT ![t] = l]
Answer(t, a) == ret' = [ret EXCEPT ![t] = a]

-----------------------------------------------------------------------------
\* The device table is static: all zero.
Init ==
  /\ initialized = FALSE /\ initMutex = Free
  /\ active = [d \in Devices |-> FALSE]
  /\ mutex = [d \in Devices |-> Free]
  /\ stats = [d \in Devices |-> Zero]
  /\ pc = [t \in Threads |-> "idle"]
  /\ op = [t \in Threads |-> "none"]
  /\ dev = [t \in Threads |-> Closed]
  /\ handle = [t \in Threads |-> Closed]
  /\ loop = [t \in Threads |-> 0]
  /\ size = [t \in Threads |-> 0]
  /\ lat = [t \in Threads |-> 0]
  /\ ret = [t \in Threads |-> NoAnswer]
  /\ committed = stats

\* A library call o for device d, which rejects its parameters at once unless ok.
Call(t, o, d, ok, start) ==
  /\ pc[t] = "idle"
  /\ op' = [op EXCEPT ![t] = o]
  /\ dev' = [dev EXCEPT ![t] = d]
  /\ Goto(t, IF ok THEN start ELSE "param")
  /\ UNCHANGED <<table, mutex, stats, loop, lat, handle, ret, committed>>

\* PCIE_SIM_ERROR_PARAM.
param_error(t) ==
  /\ pc[t] = "param"
  /\ Answer(t, Error("PARAM"))
  /\ Goto(t, "return")
  /\ UNCHANGED <<table, mutex, stats, locals, handle, committed>>

Return(t) ==
  /\ pc[t] = "return"
  /\ Goto(t, "idle")
  /\ op' = [op EXCEPT ![t] = "none"]
  /\ dev' = [dev EXCEPT ![t] = Closed]
  /\ loop' = [loop EXCEPT ![t] = 0]
  /\ size' = [size EXCEPT ![t] = 0]
  /\ lat' = [lat EXCEPT ![t] = 0]
  /\ Answer(t, NoAnswer)
  /\ UNCHANGED <<table, mutex, stats, handle, committed>>

-----------------------------------------------------------------------------
pcie_sim_open_linux(t, d) ==
  /\ handle[t] = Closed
  /\ Call(t, "open", d, d >= 0 /\ d < NumDevices, "init_lock")
  /\ UNCHANGED size

\* Mutant: linux_sim_init does not take g_init_mutex.
linux_sim_init_lock_missing(t) ==
  /\ pc[t] = "init_lock"
  /\ Goto(t, IF initialized THEN "init_unlock" ELSE "init_loop")
  /\ UNCHANGED <<table, mutex, stats, locals, handle, ret, committed>>

linux_sim_init_lock(t) ==
  /\ pc[t] = "init_lock"
  /\ initMutex = Free
  /\ initMutex' = t
  /\ Goto(t, IF initialized THEN "init_unlock" ELSE "init_loop")
  /\ UNCHANGED <<initialized, active, mutex, stats, locals, handle, ret, committed>>

\* One round of the loop: pthread_mutex_init, active = 0.
linux_sim_init_device(t) ==
  /\ pc[t] = "init_loop" /\ loop[t] < NumDevices
  /\ mutex' = [mutex EXCEPT ![loop[t]] = Free]
  /\ active' = [active EXCEPT ![loop[t]] = FALSE]
  /\ loop' = [loop EXCEPT ![t] = @ + 1]
  /\ UNCHANGED <<initialized, initMutex, stats, pc, op, dev, size, lat, handle, ret, committed>>

linux_sim_init_done(t) ==
  /\ pc[t] = "init_loop" /\ loop[t] = NumDevices
  /\ initialized' = TRUE
  /\ Goto(t, "init_unlock")
  /\ UNCHANGED <<initMutex, active, mutex, stats, locals, handle, ret, committed>>

linux_sim_init_unlock(t) ==
  /\ pc[t] = "init_unlock"
  /\ initMutex' = Free
  /\ Goto(t, "malloc")
  /\ UNCHANGED <<initialized, active, mutex, stats, locals, handle, ret, committed>>

\* The handle is allocated, or not: PCIE_SIM_ERROR_MEMORY.
open_malloc(t) ==
  /\ pc[t] = "malloc"
  /\ Goto(t, "lock")
  /\ UNCHANGED <<table, mutex, stats, locals, handle, ret, committed>>

open_malloc_fails(t) ==
  /\ pc[t] = "malloc"
  /\ Answer(t, Error("MEMORY"))
  /\ Goto(t, "return")
  /\ UNCHANGED <<table, mutex, stats, locals, handle, committed>>

\* Mutant: every open clears the statistics.
open_activate_again(t) ==
  /\ pc[t] = "body" /\ op[t] = "open"
  /\ active' = [active EXCEPT ![dev[t]] = TRUE]
  /\ stats' = [stats EXCEPT ![dev[t]] = Zero]
  /\ Answer(t, Ok(0))
  /\ Goto(t, "unlock")
  /\ UNCHANGED <<initialized, initMutex, mutex, locals, handle, committed>>

\* The first open of a device activates it and clears its statistics.
open_activate(t) ==
  /\ pc[t] = "body" /\ op[t] = "open"
  /\ active' = [active EXCEPT ![dev[t]] = TRUE]
  /\ stats' = [stats EXCEPT ![dev[t]] = IF active[dev[t]] THEN @ ELSE Zero]
  /\ Answer(t, Ok(0))
  /\ Goto(t, "unlock")
  /\ UNCHANGED <<initialized, initMutex, mutex, locals, handle, committed>>

\* pcie_sim_close_linux frees the handle and touches nothing else.
pcie_sim_close_linux(t) ==
  /\ pc[t] = "idle" /\ handle[t] # Closed
  /\ handle' = [handle EXCEPT ![t] = Closed]
  /\ UNCHANGED <<table, mutex, stats, pc, locals, ret, committed>>

-----------------------------------------------------------------------------
\* Mutant: nobody waits for the mutex.
Lock_missing(t) ==
  /\ pc[t] = "lock"
  /\ mutex' = [mutex EXCEPT ![dev[t]] = t]
  /\ Goto(t, "body")
  /\ UNCHANGED <<table, stats, locals, handle, ret, committed>>

\* pthread_mutex_lock and pthread_mutex_unlock on the device of the call; an
\* open hands out its handle after that.
Lock(t) ==
  /\ pc[t] = "lock"
  /\ mutex[dev[t]] = Free
  /\ mutex' = [mutex EXCEPT ![dev[t]] = t]
  /\ Goto(t, "body")
  /\ UNCHANGED <<table, stats, locals, handle, ret, committed>>

\* Mutant: the mutex is kept.
Unlock_missing(t) ==
  /\ pc[t] = "unlock"
  /\ committed' = [committed EXCEPT ![dev[t]] = stats[dev[t]]]
  /\ handle' = [handle EXCEPT ![t] = IF op[t] = "open" THEN dev[t] ELSE @]
  /\ Goto(t, "return")
  /\ UNCHANGED <<table, mutex, stats, locals, ret>>

Unlock(t) ==
  /\ pc[t] = "unlock"
  /\ mutex' = [mutex EXCEPT ![dev[t]] = Free]
  /\ committed' = [committed EXCEPT ![dev[t]] = stats[dev[t]]]
  /\ handle' = [handle EXCEPT ![t] = IF op[t] = "open" THEN dev[t] ELSE @]
  /\ Goto(t, "return")
  /\ UNCHANGED <<table, stats, locals, ret>>

\* A call with the thread's handle, which may be null; b: the buffer is not.
pcie_sim_transfer_linux(t, n, b) ==
  /\ handle[t] # Closed => stats[handle[t]]["transfers"] < MaxTransfers
  /\ Call(t, "transfer", handle[t], handle[t] # Closed /\ b /\ n # 0, "delay")
  /\ size' = [size EXCEPT ![t] = n]

\* The delay passes outside the mutex.
transfer_delay(t) ==
  /\ pc[t] = "delay"
  /\ \E l \in Latencies : lat' = [lat EXCEPT ![t] = l]
  /\ Goto(t, "lock")
  /\ UNCHANGED <<table, mutex, stats, op, dev, loop, size, handle, ret, committed>>

Counted(s, n) == [s EXCEPT !["transfers"] = @ + 1, !["bytes"] = @ + n]

\* Mutant: the first transfer sets the extremes and leaves the average to the
\* formula for the later ones.
Timed_unset(s, l) ==
  [s EXCEPT !["avg"] = (@ + l) \div 2,
            !["min"] = IF s["transfers"] = 1 \/ l < @ THEN l ELSE @,
            !["max"] = IF s["transfers"] = 1 \/ l > @ THEN l ELSE @]

Timed(s, l) ==
  IF s["transfers"] = 1
  THEN [s EXCEPT !["avg"] = l, !["min"] = l, !["max"] = l]
  ELSE [s EXCEPT !["avg"] = (@ + l) \div 2,
                 !["min"] = IF l < @ THEN l ELSE @,
                 !["max"] = IF l > @ THEN l ELSE @]

\* Statistics s after a transfer of n bytes in time l.
Account(s, n, l) == Timed(Counted(s, n), l)

transfer_count(t) ==
  /\ pc[t] = "body" /\ op[t] = "transfer"
  /\ stats' = [stats EXCEPT ![dev[t]] = Counted(@, size[t])]
  /\ Goto(t, "latency")
  /\ UNCHANGED <<table, mutex, locals, handle, ret, committed>>

transfer_latency(t) ==
  /\ pc[t] = "latency"
  /\ stats' = [stats EXCEPT ![dev[t]] = Timed(@, lat[t])]
  /\ Answer(t, Ok(lat[t]))
  /\ Goto(t, "unlock")
  /\ UNCHANGED <<table, mutex, locals, handle, committed>>

pcie_sim_get_stats_linux(t) ==
  Call(t, "get", handle[t], handle[t] # Closed, "lock") /\ UNCHANGED size

get_copy(t) ==
  /\ pc[t] = "body" /\ op[t] = "get"
  /\ Answer(t, OkStats(stats[dev[t]]))
  /\ Goto(t, "unlock")
  /\ UNCHANGED <<table, mutex, stats, locals, handle, committed>>

pcie_sim_reset_stats_linux(t) ==
  Call(t, "reset", handle[t], handle[t] # Closed, "lock") /\ UNCHANGED size

reset_clear(t) ==
  /\ pc[t] = "body" /\ op[t] = "reset"
  /\ stats' = [stats EXCEPT ![dev[t]] = Zero]
  /\ Answer(t, Ok(0))
  /\ Goto(t, "unlock")
  /\ UNCHANGED <<table, mutex, locals, handle, committed>>

-----------------------------------------------------------------------------
Calling(t) ==
  \/ \E d \in DeviceIds : pcie_sim_open_linux(t, d)
  \/ \E n \in Sizes, b \in BOOLEAN : pcie_sim_transfer_linux(t, n, b)
  \/ pcie_sim_get_stats_linux(t)
  \/ pcie_sim_reset_stats_linux(t)

Opening(t) ==
  \/ linux_sim_init_lock(t)
  \/ linux_sim_init_device(t)
  \/ linux_sim_init_done(t)
  \/ linux_sim_init_unlock(t)
  \/ open_malloc(t)
  \/ open_malloc_fails(t)

Inside(t) ==
  \/ open_activate(t)
  \/ transfer_count(t)
  \/ transfer_latency(t)
  \/ get_copy(t)
  \/ reset_clear(t)

Running(t) ==
  \/ Opening(t)
  \/ transfer_delay(t)
  \/ Lock(t)
  \/ Inside(t)
  \/ Unlock(t)
  \/ param_error(t)
  \/ Return(t)

Next == \E t \in Threads : Calling(t) \/ pcie_sim_close_linux(t) \/ Running(t)

Spec == Init /\ [][Next]_vars

\* A thread that can take a step in the library eventually does.  (Pthread
\* mutexes promise a waiter no more than that.)
Fairness == \A t \in Threads : WF_vars(Running(t))

FairSpec == Spec /\ Fairness

-----------------------------------------------------------------------------
Labels == {"idle", "param", "init_lock", "init_loop", "init_unlock", "malloc", "delay",
           "lock", "body", "latency", "unlock", "return"}
Ops == {"none", "open", "transfer", "get", "reset"}
ErrorCodes == {"PARAM", "MEMORY"}

AnswerOK(t) ==
  IF op[t] = "get" /\ ret[t].code = "ok"
  THEN ret[t] = OkStats(ret[t].stats) /\ ret[t].stats \in [Fields -> Nat]
  ELSE ret[t] \in {NoAnswer, Ok(0), Ok(lat[t])} \cup {Error(e) : e \in ErrorCodes}

TypeOK ==
  /\ initialized \in BOOLEAN /\ initMutex \in Threads \cup {Free}
  /\ active \in [Devices -> BOOLEAN]
  /\ mutex \in [Devices -> Threads \cup {Free}]
  /\ stats \in [Devices -> [Fields -> Nat]] /\ committed \in [Devices -> [Fields -> Nat]]
  /\ pc \in [Threads -> Labels] /\ op \in [Threads -> Ops]
  /\ dev \in [Threads -> DeviceIds \cup Devices \cup {Closed}]
  /\ handle \in [Threads -> Devices \cup {Closed}]
  /\ loop \in [Threads -> 0 .. NumDevices]
  /\ size \in [Threads -> Sizes \cup {0}] /\ lat \in [Threads -> Latencies \cup {0}]
  /\ DOMAIN ret = Threads /\ \A t \in Threads : AnswerOK(t)

Holding == {"body", "latency", "unlock"}
Initialising == {"init_loop", "init_unlock"}

\* What the call of t has done to its device when it is about to release it.
Outcome(t) ==
  LET s == stats[dev[t]]
      c == committed[dev[t]]
  IN  \/ op[t] = "open" /\ s = c /\ ret[t] = Ok(0) /\ active[dev[t]]
      \/ /\ op[t] = "transfer" /\ lat[t] \in Latencies
         /\ s = Account(c, size[t], lat[t]) /\ ret[t] = Ok(lat[t])
      \/ op[t] = "get" /\ s = c /\ ret[t] = OkStats(c)
      \/ op[t] = "reset" /\ s = Zero /\ ret[t] = Ok(0)

Progress(t) ==
  /\ pc[t] = "body" => stats[dev[t]] = committed[dev[t]]
  /\ pc[t] = "latency" =>
       op[t] = "transfer" /\ stats[dev[t]] = Counted(committed[dev[t]], size[t])
  /\ pc[t] = "unlock" => Outcome(t)

\* On each device at most one thread is between lock and unlock, and the
\* statistics are those of the last release with that thread's assignments so
\* far applied; on a device nobody holds they are those of the last release
\* (linux_sim.c:134-143, 197-215, 233-235 and 249-251).
SectionsAreAtomic ==
  /\ TypeOK
  /\ \A d \in Devices : mutex[d] = Free => stats[d] = committed[d]
  /\ \A t \in Threads :
       /\ pc[t] \in Holding => dev[t] \in Devices
       /\ \A d \in Devices : mutex[d] = t <=> pc[t] \in Holding /\ dev[t] = d
       /\ Progress(t)

\* The table is initialised by one thread, once, before anyone uses a device:
\* while it is not initialised no device is active, no mutex is held, no handle
\* exists and no thread is past linux_sim_init (linux_sim.c:70-81), so that no
\* mutex is initialised while it is held and no active device is deactivated.
\* Nor does close deactivate a device under another thread's handle (152-160).
InitialisedBeforeUse ==
  /\ \A t \in Threads : handle[t] # Closed => active[handle[t]]
  /\ \A t \in Threads : pc[t] \in Initialising <=> initMutex = t
  /\ \A t \in Threads : pc[t] = "init_loop" => ~initialized
  /\ ~initialized =>
       /\ \A d \in Devices : mutex[d] = Free /\ ~active[d]
       /\ \A t \in Threads :
            handle[t] = Closed /\ pc[t] \notin Holding \cup {"init_unlock", "malloc", "lock", "delay"}

\* What the statistics of a device satisfy between calls: every transfer has at
\* least one byte, nothing is set before the first, and the average lies between
\* the minimum and the maximum (linux_sim.c:198-214).
Consistent(s) ==
  /\ s["errors"] = 0
  /\ s["transfers"] <= s["bytes"]
  /\ s["transfers"] = 0 => s = Zero
  /\ s["transfers"] > 0 => s["min"] <= s["avg"] /\ s["avg"] <= s["max"]

\* Whatever other threads do, pcie_sim_get_stats returns consistent statistics
\* (linux_sim.c:233-235).
SnapshotsConsistent ==
  /\ \A d \in Devices : Consistent(committed[d])
  /\ \A t \in Threads : op[t] = "get" /\ ret[t].code = "ok" => Consistent(ret[t].stats)

\* Refinement: a call on the watched device takes effect when it releases the
\* device's mutex; parameter errors have no effect.
SimCall(t) ==
  IF op[t] \notin {"transfer", "get", "reset"} \/ dev[t] # Watched THEN [op |-> "idle"]
  ELSE IF pc[t] = "return" THEN [op |-> "returning"]
  ELSE IF op[t] = "transfer" THEN [op |-> "transfer", size |-> size[t]]
  ELSE [op |-> op[t]]

SimAnswer(t) ==
  IF op[t] \in {"transfer", "get", "reset"} /\ dev[t] = Watched /\ pc[t] = "return"
  THEN ret[t]
  ELSE NoAnswer

Calls == [t \in Threads |-> SimCall(t)]
Answers == [t \in Threads |-> SimAnswer(t)]

\* This backend counts no failed transfers.
Failed(s) == s

Device == INSTANCE StatsObject WITH
  Procs <- Threads,
  Errors <- ErrorCodes,
  stats <- committed[Watched],
  call <- Calls,
  answer <- Answers

\* Each device of the backend is an atomic statistics object: its mutex makes a
\* transfer's accounting, a reading and a reset indivisible (linux_sim.c:165-254).
ImplementsStatsObject == Device!Spec

\* Whoever takes a mutex releases it, on every path (linux_sim.c:70-81, 135-143,
\* 197-215).
MutexesAreReleased ==
  \A t \in Threads :
    /\ initMutex = t ~> initMutex # t
    /\ \A d \in Devices : mutex[d] = t ~> mutex[d] # t
=============================================================================
