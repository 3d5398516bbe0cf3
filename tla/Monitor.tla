------------------------------ MODULE Monitor ------------------------------
(***************************************************************************)
(* The performance monitor and the benchmark of the C++ library            *)
(* (lib/monitor.hpp) on one device (lib/device.hpp): a polling thread that *)
(* is started and stopped through an atomic flag, by the threads of a      *)
(* program that also transfer, run benchmarks and may move the device.     *)
(*                                                                         *)
(* The backend's calls are indivisible (shown in LinuxSim and WindowsSim)  *)
(* and may throw; of the statistics only the number of transfers is kept.  *)
(* The callback, which is the program's, only looks at the metrics.        *)
(***************************************************************************)
EXTENDS Naturals, FiniteSets

CONSTANTS
  Callers,           \* threads of the program
  Pollers,           \* identities of polling threads
  None,              \* a std::thread that is not joinable
  Warmup,            \* config.warmup_transfers
  NumTransfers,      \* config.num_transfers
  MaxTransfers       \* a bound for the device's count

ASSUME CountsAssumption == {Warmup, NumTransfers, MaxTransfers} \subseteq Nat
ASSUME NoneAssumption == None \notin Pollers

VARIABLES
  monitoring,        \* monitoring_
  monitor_thread,    \* the thread monitor_thread_ owns, or None
  poller,            \* where each polling thread is
  caller,            \* where each thread of the program is; see Init
  transfers,         \* the device's count of transfers
  valid,             \* the device has its handle
  life,              \* "running", "destroyed" (the monitor), "terminated" (the process)
  serial,            \* history: no two calls of the monitor overlapped
  threw              \* history: a poll threw

vars == <<monitoring, monitor_thread, poller, caller, transfers, valid, life, serial, threw>>
device == <<transfers, valid>>
monitor == <<monitoring, monitor_thread>>

\* A caller: where it is, the call it makes, the std::thread it has yet to store
\* and the loop counter of a benchmark; as history, whether it had the device to
\* itself during the benchmark.
Idle == [pc |-> "idle", op |-> "none", thread |-> None, i |-> 0, alone |-> FALSE]

Init ==
  /\ monitoring = FALSE /\ monitor_thread = None
  /\ poller = [p \in Pollers |-> "none"]
  /\ caller = [c \in Callers |-> Idle]
  /\ transfers = 0 /\ valid = TRUE
  /\ life = "running" /\ serial = TRUE /\ threw = FALSE

At(c, label) == caller[c].pc = label
Goto(c, label) == caller' = [caller EXCEPT ![c].pc = label]
Alive(p) == poller[p] \notin {"none", "ended"}
InMonitor(c) == caller[c].op \in {"start", "stop", "destroy"}

-----------------------------------------------------------------------------
\* Mutant: start_monitoring does not stop the monitor first.
Call_unstopped(c, op) ==
  /\ At(c, "idle") /\ life = "running"
  /\ op = "destroy" => ~\E b \in Callers : InMonitor(b)
  /\ caller' = [caller EXCEPT ![c] = [Idle EXCEPT !.pc = IF op = "start" THEN "set" ELSE "test",
                                                  !.op = op]]
  /\ serial' = (serial /\ ~\E b \in Callers : InMonitor(b))
  /\ UNCHANGED <<monitor, poller, device, life, threw>>

\* start_monitoring, stop_monitoring and the destructor begin with stop_monitoring.
\* The program destroys the monitor when no other thread is in a call of it.
Call(c, op) ==
  /\ At(c, "idle") /\ life = "running"
  /\ op = "destroy" => ~\E b \in Callers : InMonitor(b)
  /\ caller' = [caller EXCEPT ![c] = [Idle EXCEPT !.pc = "test", !.op = op]]
  /\ serial' = (serial /\ ~\E b \in Callers : InMonitor(b))
  /\ UNCHANGED <<monitor, poller, device, life, threw>>

\* After stop_monitoring; the destructor of a std::thread that is still joinable
\* terminates the process.
Stopped(c) ==
  /\ caller' = [caller EXCEPT ![c] = IF @.op = "start" THEN [@ EXCEPT !.pc = "set"] ELSE Idle]
  /\ life' = IF caller[c].op # "destroy" THEN life
             ELSE IF monitor_thread' = None THEN "destroyed" ELSE "terminated"

stop_test(c) ==
  /\ At(c, "test")
  /\ IF monitoring THEN Goto(c, "clear") /\ UNCHANGED <<monitor, life>>
                   ELSE UNCHANGED monitor /\ Stopped(c)
  /\ UNCHANGED <<poller, device, serial, threw>>

\* Mutant: the flag is left set until the thread is joined.
stop_clear_late(c) ==
  /\ At(c, "clear")
  /\ Goto(c, "joinable")
  /\ UNCHANGED <<monitor, poller, device, life, serial, threw>>

stop_clear(c) ==
  /\ At(c, "clear")
  /\ monitoring' = FALSE
  /\ Goto(c, "joinable")
  /\ UNCHANGED <<monitor_thread, poller, device, life, serial, threw>>

\* Mutant: the thread is detached and not joined.
stop_joinable_detached(c) ==
  /\ At(c, "joinable")
  /\ monitor_thread' = None /\ UNCHANGED monitoring
  /\ Stopped(c)
  /\ UNCHANGED <<poller, device, serial, threw>>

stop_joinable(c) ==
  /\ At(c, "joinable")
  /\ UNCHANGED monitor
  /\ IF monitor_thread # None THEN Goto(c, "join") /\ UNCHANGED life ELSE Stopped(c)
  /\ UNCHANGED <<poller, device, serial, threw>>

stop_join(c) ==
  /\ At(c, "join") /\ monitor_thread # None /\ poller[monitor_thread] = "ended"
  /\ monitor_thread' = None /\ UNCHANGED monitoring
  /\ poller' = [poller EXCEPT ![monitor_thread] = "none"]
  /\ Stopped(c)
  /\ UNCHANGED <<device, serial, threw>>

\* Another thread has joined it meanwhile: undefined behaviour.
stop_join_twice(c) ==
  /\ At(c, "join") /\ monitor_thread = None
  /\ UNCHANGED monitor
  /\ \/ Stopped(c)
     \/ life' = "terminated" /\ UNCHANGED caller
  /\ UNCHANGED <<poller, device, serial, threw>>

start_set(c) ==
  /\ At(c, "set")
  /\ monitoring' = TRUE
  /\ Goto(c, "spawn")
  /\ UNCHANGED <<monitor_thread, poller, device, life, serial, threw>>

\* std::thread starts, and finds monitor_thread_ joinable, which terminates the
\* process, or not; or it cannot be started, and start_monitoring throws.
start_spawn(c, p) ==
  /\ At(c, "spawn") /\ poller[p] = "none"
  /\ poller' = [poller EXCEPT ![p] = "check"]
  /\ IF monitor_thread = None
     THEN caller' = [caller EXCEPT ![c] = [@ EXCEPT !.pc = "assign", !.thread = p]] /\ UNCHANGED life
     ELSE life' = "terminated" /\ UNCHANGED caller
  /\ UNCHANGED <<monitor, device, serial, threw>>

\* The assignment is no atomic operation: of two that overlap the later one wins,
\* and nobody owns the other thread.
start_assign(c) ==
  /\ At(c, "assign")
  /\ monitor_thread' = caller[c].thread /\ UNCHANGED monitoring
  /\ caller' = [caller EXCEPT ![c] = Idle]
  /\ UNCHANGED <<poller, device, life, serial, threw>>

start_fails(c) ==
  /\ At(c, "spawn")
  /\ caller' = [caller EXCEPT ![c] = Idle]
  /\ UNCHANGED <<monitor, poller, device, life, serial, threw>>

-----------------------------------------------------------------------------
\* The polling thread's loop.  get_current_metrics throws when the device has
\* no handle any more, or its mutex is not to be had in time; nobody catches it.
poll_check(p) ==
  /\ poller[p] = "check"
  /\ poller' = [poller EXCEPT ![p] = IF monitoring THEN "poll" ELSE "ended"]
  /\ UNCHANGED <<monitor, caller, device, life, serial, threw>>

get_current_metrics(p) ==
  /\ poller[p] = "poll" /\ valid
  /\ poller' = [poller EXCEPT ![p] = "check"]
  /\ UNCHANGED <<monitor, caller, device, life, serial, threw>>

poll_throws(p) ==
  /\ poller[p] = "poll"
  /\ life' = "terminated" /\ threw' = TRUE
  /\ UNCHANGED <<monitor, poller, caller, device, serial>>

-----------------------------------------------------------------------------
\* The count becomes n, under the other callers' benchmarks.
Change(n) == transfers' = n /\ UNCHANGED <<monitor, poller, valid, life, serial, threw>>
Disturbed(c) == [b \in Callers |-> IF b = c THEN caller[b] ELSE [caller[b] EXCEPT !.alone = FALSE]]

transfer(c) ==
  /\ At(c, "idle") /\ valid /\ transfers < MaxTransfers
  /\ Change(transfers + 1)
  /\ caller' = Disturbed(c)

\* The program moves the device to another object: this one has no handle.
move ==
  /\ valid
  /\ valid' = FALSE
  /\ UNCHANGED <<monitor, poller, caller, transfers, life, serial, threw>>

\* BenchmarkRunner::run_benchmark: reset, transfers to warm up, reset, the
\* transfers to measure, get_statistics.
run_benchmark(c) ==
  /\ At(c, "idle")
  /\ caller' = [caller EXCEPT ![c] = [Idle EXCEPT !.pc = "reset", !.op = "benchmark",
                                                  !.alone = TRUE]]
  /\ UNCHANGED <<monitor, poller, device, life, serial, threw>>

benchmark_reset(c) ==
  /\ At(c, "reset") /\ valid
  /\ Change(0)
  /\ \E warmup \in {TRUE, FALSE} :
       caller' = [Disturbed(c) EXCEPT ![c].pc = IF warmup THEN "warmup" ELSE "run"]

benchmark_warmup(c) ==
  /\ At(c, "warmup") /\ valid /\ caller[c].i < Warmup /\ transfers < MaxTransfers
  /\ Change(transfers + 1)
  /\ caller' = [Disturbed(c) EXCEPT ![c].i = @ + 1]

\* Mutant: the statistics are not reset after the warm-up.
benchmark_reset_missing(c) ==
  /\ At(c, "warmup") /\ valid /\ caller[c].i = Warmup
  /\ caller' = [caller EXCEPT ![c].pc = "run", ![c].i = 0]
  /\ UNCHANGED <<monitor, poller, device, life, serial, threw>>

benchmark_reset_again(c) ==
  /\ At(c, "warmup") /\ valid /\ caller[c].i = Warmup
  /\ Change(0)
  /\ caller' = [Disturbed(c) EXCEPT ![c] = [@ EXCEPT !.pc = "run", !.i = 0]]

benchmark_transfer(c) ==
  /\ At(c, "run") /\ valid /\ caller[c].i < NumTransfers /\ transfers < MaxTransfers
  /\ Change(transfers + 1)
  /\ caller' = [Disturbed(c) EXCEPT ![c].i = @ + 1]

\* The metrics are returned in i.
benchmark_metrics(c) ==
  /\ At(c, "run") /\ valid /\ caller[c].i = NumTransfers
  /\ caller' = [caller EXCEPT ![c] = [@ EXCEPT !.pc = "metrics", !.i = transfers]]
  /\ UNCHANGED <<monitor, poller, device, life, serial, threw>>

\* It returns, or a call of the device throws and the exception leaves it.
benchmark_return(c) ==
  /\ caller[c].op = "benchmark"
  /\ caller' = [caller EXCEPT ![c] = Idle]
  /\ UNCHANGED <<monitor, poller, device, life, serial, threw>>

-----------------------------------------------------------------------------
Running(c) ==
  \/ stop_test(c) \/ stop_clear(c) \/ stop_joinable(c) \/ stop_join(c) \/ stop_join_twice(c)
  \/ start_set(c) \/ (\E p \in Pollers : start_spawn(c, p)) \/ start_assign(c)
  \/ start_fails(c)

Polling(p) == poll_check(p) \/ get_current_metrics(p) \/ poll_throws(p)

Benchmark(c) ==
  \/ run_benchmark(c) \/ benchmark_reset(c) \/ benchmark_warmup(c) \/ benchmark_reset_again(c)
  \/ benchmark_transfer(c) \/ benchmark_metrics(c) \/ benchmark_return(c)

Next ==
  /\ life # "terminated"
  /\ \/ \E c \in Callers :
          \/ \E op \in {"start", "stop", "destroy"} : Call(c, op)
          \/ Running(c) \/ transfer(c) \/ Benchmark(c)
     \/ \E p \in Pollers : Polling(p)
     \/ move

Spec == Init /\ [][Next]_vars

\* Every thread that is in a call of the monitor, or polls, runs on.
Fairness ==
  /\ \A c \in Callers : WF_vars(life # "terminated" /\ Running(c))
  /\ \A p \in Pollers : WF_vars(life # "terminated" /\ Polling(p))

FairSpec == Spec /\ Fairness

-----------------------------------------------------------------------------
\* As long as the calls of the monitor do not overlap: there is at most one
\* polling thread; between calls it is there only while monitoring is on, and
\* owned by the monitor; when stop_monitoring or the destructor has returned,
\* nothing polls the device any more (monitor.hpp:81-114).
OnePoller ==
  serial /\ life # "terminated" =>
    /\ Cardinality({p \in Pollers : Alive(p)}) <= 1
    /\ (\A c \in Callers : ~InMonitor(c)) =>
         \A p \in Pollers : Alive(p) => monitoring /\ monitor_thread = p
    /\ life = "destroyed" => \A p \in Pollers : ~Alive(p)

\* The monitor ends the process only when a poll throws or its calls overlap:
\* start_monitoring on a running monitor, a failure to start the thread and a
\* destruction in any state do not (monitor.hpp:83, 86 and 112).
DiesOnlyOfPolls ==
  life = "terminated" => threw \/ ~serial

\* A benchmark that no other thread's transfers or resets disturbed reports
\* exactly the transfers it measured, none of the warm-up's and none made before
\* it, whatever the monitor polls meanwhile (monitor.hpp:138-163).
BenchmarkIsExact ==
  \A c \in Callers : At(c, "metrics") /\ caller[c].alone => caller[c].i = NumTransfers

\* stop_monitoring returns: the polling thread sees the flag, unless another call
\* of the monitor interferes (monitor.hpp:103-110).
StopReturns ==
  \A c \in Callers : At(c, "join") ~> ~At(c, "join") \/ ~serial \/ life = "terminated"
=============================================================================
