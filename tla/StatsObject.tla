----------------------------- MODULE StatsObject -----------------------------
(***************************************************************************)
(* What every backend promises about the statistics of one device: they    *)
(* change as if each operation happened at a single instant between its    *)
(* call and its return.  A transfer is accounted completely or not at all, *)
(* a reader gets the statistics of one instant, a reset clears them all.   *)
(* The backends differ in how they account a transfer, which is a          *)
(* parameter, and in how they lock, which is not visible here.             *)
(***************************************************************************)
EXTENDS Integers

CONSTANTS
  Procs,            \* the callers
  Sizes,            \* transfer sizes
  Latencies,        \* transfer times
  Errors,           \* error codes an operation may return
  Zero,             \* statistics right after a reset
  Account(_, _, _), \* Account(s, size, latency): s after a successful transfer
  Failed(_)         \* Failed(s): s after a failed transfer that is counted

VARIABLES
  stats,            \* the statistics of the device
  call,             \* what each caller is executing
  answer            \* what an operation that took effect will return

svars == <<stats, call, answer>>

Idle == [op |-> "idle"]
Returning == [op |-> "returning"]
Operations == [op : {"transfer"}, size : Sizes] \cup [op : {"get", "reset", "other"}]

Ok(v) == [code |-> "ok", val |-> v]
OkStats(s) == [code |-> "ok", stats |-> s]
Error(e) == [code |-> e]
NoAnswer == [code |-> "none"]

Init ==
  /\ stats = Zero
  /\ call = [p \in Procs |-> Idle]
  /\ answer = [p \in Procs |-> NoAnswer]

Invoke(p, o) ==
  /\ call[p] = Idle
  /\ call' = [call EXCEPT ![p] = o]
  /\ UNCHANGED <<stats, answer>>

Effect(p, a) ==
  /\ call' = [call EXCEPT ![p] = Returning]
  /\ answer' = [answer EXCEPT ![p] = a]

\* The transfer is accounted; its caller learns the latency or, when that
\* cannot be delivered, an error.
Transfer(p) ==
  /\ call[p].op = "transfer"
  /\ \E l \in Latencies :
       /\ stats' = Account(stats, call[p].size, l)
       /\ Effect(p, Ok(l)) \/ \E e \in Errors : Effect(p, Error(e))

\* The transfer fails and is counted as an error.
Fail(p) ==
  /\ call[p].op = "transfer"
  /\ stats' = Failed(stats)
  /\ \E e \in Errors : Effect(p, Error(e))

\* The operation is refused without leaving a trace in the statistics.
Refuse(p) ==
  /\ call[p] \in Operations
  /\ \E e \in Errors : Effect(p, Error(e))
  /\ UNCHANGED stats

Get(p) ==
  /\ call[p].op = "get"
  /\ Effect(p, OkStats(stats))
  /\ UNCHANGED stats

Reset(p) ==
  /\ call[p].op = "reset"
  /\ stats' = Zero
  /\ Effect(p, Ok(0))

Return(p) ==
  /\ call[p] = Returning
  /\ call' = [call EXCEPT ![p] = Idle]
  /\ answer' = [answer EXCEPT ![p] = NoAnswer]
  /\ UNCHANGED stats

Next ==
  \E p \in Procs :
    \/ \E o \in Operations : Invoke(p, o)
    \/ Transfer(p)
    \/ Fail(p)
    \/ Refuse(p)
    \/ Get(p)
    \/ Reset(p)
    \/ Return(p)

Spec == Init /\ [][Next]_svars
=============================================================================
