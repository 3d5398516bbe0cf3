---------------------------- MODULE LinuxSimProofs ----------------------------
(***************************************************************************)
(* Theorems about LinuxSim, for any number of threads and devices, any     *)
(* device numbers, sizes and latencies.  The inductive invariant SimInv    *)
(* adds to the checked invariants what each thread knows about its call    *)
(* (CallState) and that a device nobody has opened yet has no statistics   *)
(* (Untouched), which makes the clearing in the first open a no-op.        *)
(***************************************************************************)
EXTENDS LinuxSim, TLAPS

-----------------------------------------------------------------------------
\* What the two assignments of a transfer's accounting yield.

LEMMA CountedValues ==
  ASSUME NEW s \in [Fields -> Nat], NEW n \in Nat
  PROVE  /\ Counted(s, n) \in [Fields -> Nat]
         /\ Counted(s, n)["transfers"] = s["transfers"] + 1
         /\ Counted(s, n)["bytes"] = s["bytes"] + n
         /\ \A f \in {"errors", "avg", "min", "max"} : Counted(s, n)[f] = s[f]
<1> DEFINE a == [s EXCEPT !["transfers"] = s["transfers"] + 1]
<1>1. a \in [Fields -> Nat] /\ a["bytes"] = s["bytes"]
  BY DEF Fields
<1>2. Counted(s, n) = [a EXCEPT !["bytes"] = a["bytes"] + n]
  BY DEF Counted
<1> QED BY <1>1, <1>2 DEF Fields

LEMMA TimedValues ==
  ASSUME NEW s \in [Fields -> Nat], NEW l \in Nat
  PROVE  /\ Timed(s, l) \in [Fields -> Nat]
         /\ \A f \in {"transfers", "bytes", "errors"} : Timed(s, l)[f] = s[f]
         /\ s["transfers"] = 1 =>
              Timed(s, l)["avg"] = l /\ Timed(s, l)["min"] = l /\ Timed(s, l)["max"] = l
         /\ s["transfers"] # 1 =>
              /\ Timed(s, l)["avg"] = (s["avg"] + l) \div 2
              /\ Timed(s, l)["min"] = IF l < s["min"] THEN l ELSE s["min"]
              /\ Timed(s, l)["max"] = IF l > s["max"] THEN l ELSE s["max"]
<1>1. s["avg"] \in Nat /\ s["min"] \in Nat /\ s["max"] \in Nat /\ (s["avg"] + l) \div 2 \in Nat
  BY DEF Fields
<1> DEFINE a == IF s["transfers"] = 1 THEN l ELSE (s["avg"] + l) \div 2
           b == IF s["transfers"] = 1 \/ l < s["min"] THEN l ELSE s["min"]
           c == IF s["transfers"] = 1 \/ l > s["max"] THEN l ELSE s["max"]
<1>2. a \in Nat /\ b \in Nat /\ c \in Nat
  BY <1>1
<1>3. Timed(s, l) = [s EXCEPT !["avg"] = a, !["min"] = b, !["max"] = c]
  <2>1. CASE s["transfers"] = 1
    BY <2>1 DEF Timed
  <2>2. CASE s["transfers"] # 1
    BY <2>2, Zenon DEF Timed
  <2> QED BY <2>1, <2>2
<1>4. /\ s["transfers"] = 1 => a = l /\ b = l /\ c = l
      /\ s["transfers"] # 1 => /\ a = (s["avg"] + l) \div 2
                               /\ b = IF l < s["min"] THEN l ELSE s["min"]
                               /\ c = IF l > s["max"] THEN l ELSE s["max"]
  OBVIOUS
<1> HIDE DEF a, b, c
<1>5. /\ Timed(s, l) \in [Fields -> Nat]
      /\ \A f \in {"transfers", "bytes", "errors"} : Timed(s, l)[f] = s[f]
      /\ Timed(s, l)["avg"] = a /\ Timed(s, l)["min"] = b /\ Timed(s, l)["max"] = c
  BY <1>2, <1>3 DEF Fields
<1> QED BY <1>4, <1>5

LEMMA Mean ==
  ASSUME NEW a \in Nat, NEW l \in Nat, NEW low \in Nat, NEW high \in Nat,
         low <= a, low <= l, a <= high, l <= high
  PROVE  low <= (a + l) \div 2 /\ (a + l) \div 2 <= high
OBVIOUS

LEMMA ZeroConsistent == Zero \in [Fields -> Nat] /\ Consistent(Zero)
BY DEF Zero, Fields, Consistent

\* Accounting a transfer of at least one byte keeps the statistics consistent.
LEMMA AccountConsistent ==
  ASSUME NEW s \in [Fields -> Nat], Consistent(s), NEW n \in Nat, n # 0, NEW l \in Nat
  PROVE  Account(s, n, l) \in [Fields -> Nat] /\ Consistent(Account(s, n, l))
<1> DEFINE c == Counted(s, n)
           v == Timed(c, l)
<1>1. /\ c \in [Fields -> Nat] /\ c["transfers"] = s["transfers"] + 1
      /\ c["bytes"] = s["bytes"] + n /\ c["errors"] = s["errors"]
      /\ c["avg"] = s["avg"] /\ c["min"] = s["min"] /\ c["max"] = s["max"]
  BY CountedValues
<1>2. /\ v \in [Fields -> Nat] /\ v["transfers"] = c["transfers"] /\ v["bytes"] = c["bytes"]
      /\ v["errors"] = c["errors"]
      /\ c["transfers"] = 1 => v["avg"] = l /\ v["min"] = l /\ v["max"] = l
      /\ c["transfers"] # 1 =>
           /\ v["avg"] = (c["avg"] + l) \div 2
           /\ v["min"] = IF l < c["min"] THEN l ELSE c["min"]
           /\ v["max"] = IF l > c["max"] THEN l ELSE c["max"]
  <2> HIDE DEF c
  <2> QED BY <1>1, TimedValues, Zenon
<1>3. Account(s, n, l) = v
  BY DEF Account
<1>4. /\ s["transfers"] \in Nat /\ s["bytes"] \in Nat /\ s["avg"] \in Nat
      /\ s["min"] \in Nat /\ s["max"] \in Nat
  BY DEF Fields
<1>5. /\ s["errors"] = 0 /\ s["transfers"] <= s["bytes"]
      /\ s["transfers"] > 0 => s["min"] <= s["avg"] /\ s["avg"] <= s["max"]
  BY DEF Consistent
<1> HIDE DEF c, v
<1>6. v["errors"] = 0 /\ v["transfers"] <= v["bytes"] /\ v["transfers"] # 0
  BY <1>1, <1>2, <1>4, <1>5
<1>7. v["min"] <= v["avg"] /\ v["avg"] <= v["max"]
  <2>1. CASE s["transfers"] = 0
    BY <1>1, <1>2, <2>1
  <2>2. CASE s["transfers"] # 0
    <3>1. c["transfers"] # 1 /\ s["min"] <= s["avg"] /\ s["avg"] <= s["max"]
      BY <1>1, <1>4, <1>5, <2>2
    <3>2. /\ v["avg"] = (s["avg"] + l) \div 2
          /\ v["min"] \in Nat /\ v["min"] <= s["avg"] /\ v["min"] <= l
          /\ v["max"] \in Nat /\ s["avg"] <= v["max"] /\ l <= v["max"]
      BY <1>1, <1>2, <1>4, <3>1
    <3> QED BY <1>4, <3>2, Mean
  <2> QED BY <2>1, <2>2
<1> QED BY <1>2, <1>3, <1>6, <1>7 DEF Consistent

-----------------------------------------------------------------------------
\* What a thread's variables say about its call at each point of it.
CallState(t) ==
  /\ pc[t] = "idle" <=> op[t] = "none"
  /\ op[t] \in {"transfer", "get", "reset"} => dev[t] = handle[t]
  /\ pc[t] \notin {"idle", "param", "return"} => dev[t] \in Devices
  /\ pc[t] \in Initialising \cup {"init_lock", "malloc"} => op[t] = "open"
  /\ pc[t] \in {"delay", "latency"} => op[t] = "transfer"
  /\ op[t] = "transfer" => size[t] \in Sizes
  /\ op[t] = "transfer" /\ pc[t] \notin {"param", "return"} => size[t] # 0
  /\ op[t] = "transfer" /\ pc[t] \in Holding \cup {"lock"} => lat[t] \in Latencies
  /\ pc[t] \notin {"unlock", "return"} => ret[t] = NoAnswer

Untouched == \A d \in Devices : ~active[d] => stats[d] = Zero

SimInv ==
  /\ SectionsAreAtomic
  /\ InitialisedBeforeUse
  /\ SnapshotsConsistent
  /\ \A t \in Threads : CallState(t)
  /\ Untouched

\* Closed is not a device.
LEMMA ClosedIsNoDevice == Closed \notin Devices /\ Free \notin Threads
BY LinuxAssumption DEF Closed, Devices

LEMMA SimInvInit == Init => SimInv
<1> SUFFICES ASSUME Init PROVE SimInv
  OBVIOUS
<1>1. TypeOK
  <2>1. DOMAIN ret = Threads /\ \A t \in Threads : AnswerOK(t)
    BY DEF Init, AnswerOK, NoAnswer
  <2>2. stats \in [Devices -> [Fields -> Nat]] /\ committed \in [Devices -> [Fields -> Nat]]
    BY ZeroConsistent DEF Init
  <2>3. loop \in [Threads -> 0 .. NumDevices]
    BY LinuxAssumption DEF Init
  <2> QED BY <2>1, <2>2, <2>3, Zenon DEF Init, TypeOK, Labels, Ops
<1>2. SectionsAreAtomic
  BY <1>1, LinuxAssumption DEF Init, SectionsAreAtomic, Progress, Holding
<1>3. InitialisedBeforeUse
  BY LinuxAssumption DEF Init, InitialisedBeforeUse, Initialising, Holding
<1>4. SnapshotsConsistent
  BY ZeroConsistent DEF Init, SnapshotsConsistent
<1>5. \A t \in Threads : CallState(t)
  BY DEF Init, CallState, Initialising, Holding
<1>6. Untouched
  BY DEF Init, Untouched
<1> QED BY <1>2, <1>3, <1>4, <1>5, <1>6 DEF SimInv

-----------------------------------------------------------------------------
\* Steps of one thread seen by the others.

Kept(u) ==
  /\ pc'[u] = pc[u] /\ op'[u] = op[u] /\ dev'[u] = dev[u] /\ handle'[u] = handle[u]
  /\ size'[u] = size[u] /\ lat'[u] = lat[u] /\ ret'[u] = ret[u]

\* The states of calls in which nothing happens stay as they are.
LEMMA OthersCalls ==
  ASSUME \A u \in Threads : CallState(u), NEW t \in Threads, CallState(t)',
         \A u \in Threads \ {t} : Kept(u)
  PROVE  \A u \in Threads : CallState(u)'
<1>1. ASSUME NEW u \in Threads \ {t} PROVE CallState(u)'
  <2>1. CallState(u) /\ Kept(u)
    OBVIOUS
  <2> QED BY <2>1 DEF CallState, Kept
<1> QED BY <1>1

\* ... and so do their answers.
LEMMA OthersAnswer ==
  ASSUME TypeOK, NEW t \in Threads, AnswerOK(t)', DOMAIN ret' = Threads,
         \A u \in Threads \ {t} : Kept(u)
  PROVE  DOMAIN ret' = Threads /\ \A u \in Threads : AnswerOK(u)'
<1>1. ASSUME NEW u \in Threads \ {t} PROVE AnswerOK(u)'
  <2>1. AnswerOK(u) /\ Kept(u)
    BY DEF TypeOK
  <2> QED BY <2>1, Zenon DEF AnswerOK, Kept
<1> QED BY <1>1

\* The statistics handed out stay consistent when no thread gets new ones.
LEMMA OthersSnapshots ==
  ASSUME SnapshotsConsistent, NEW t \in Threads, \A d \in Devices : Consistent(committed'[d]),
         op'[t] = "get" /\ ret'[t].code = "ok" => Consistent(ret'[t].stats),
         \A u \in Threads \ {t} : Kept(u)
  PROVE  SnapshotsConsistent'
BY Zenon DEF SnapshotsConsistent, Kept

\* The progress of a thread depends on its own device only.
LEMMA SameProgress ==
  ASSUME NEW u \in Threads, Progress(u), Kept(u),
         pc[u] \in Holding =>
           /\ stats'[dev[u]] = stats[dev[u]] /\ committed'[dev[u]] = committed[dev[u]]
           /\ active'[dev[u]] = active[dev[u]]
  PROVE  Progress(u)'
<1>1. CASE pc[u] \notin Holding
  BY <1>1, Zenon DEF Progress, Kept, Holding
<1>2. CASE pc[u] \in Holding
  BY <1>2, Zenon DEF Progress, Outcome, Kept
<1> QED BY <1>1, <1>2

\* A step outside the mutexes leaves the sections as they are.
LEMMA OutsideSections ==
  ASSUME SectionsAreAtomic, TypeOK', NEW t \in Threads, \A u \in Threads \ {t} : Kept(u),
         pc[t] \notin Holding, pc'[t] \notin Holding,
         UNCHANGED <<active, mutex, stats, committed>>
  PROVE  SectionsAreAtomic'
<1>1. \A u \in Threads \ {t} : Progress(u)'
  BY SameProgress DEF SectionsAreAtomic
<1>2. Progress(t)'
  BY DEF Progress, Holding
<1>3. \A u \in Threads \ {t} : pc'[u] = pc[u] /\ dev'[u] = dev[u]
  BY DEF Kept
<1>4. \A d \in Devices : mutex'[d] = Free => stats'[d] = committed'[d]
  BY DEF SectionsAreAtomic
<1>5. ASSUME NEW u \in Threads
      PROVE  /\ pc'[u] \in Holding => dev'[u] \in Devices
             /\ \A d \in Devices : mutex'[d] = u <=> pc'[u] \in Holding /\ dev'[u] = d
  BY <1>3 DEF SectionsAreAtomic
<1> QED BY <1>1, <1>2, <1>4, <1>5 DEF SectionsAreAtomic

\* Neither does it disturb the initialisation, unless it is part of it.
LEMMA OutsideInit ==
  ASSUME InitialisedBeforeUse, NEW t \in Threads, \A u \in Threads \ {t} : Kept(u),
         UNCHANGED <<initialized, initMutex, active, mutex>>,
         handle'[t] \in {handle[t], Closed},
         pc[t] \notin Initialising, pc'[t] \notin Initialising,
         pc'[t] \in Holding \cup {"malloc", "lock", "delay"} => initialized
  PROVE  InitialisedBeforeUse'
<1>1. \A u \in Threads : handle'[u] # Closed => active'[handle'[u]]
  BY Zenon DEF InitialisedBeforeUse, Kept
<1>2. \A u \in Threads : pc'[u] \in Initialising <=> initMutex' = u
  BY DEF InitialisedBeforeUse, Kept
<1>3. \A u \in Threads : pc'[u] = "init_loop" => ~initialized'
  BY DEF InitialisedBeforeUse, Kept, Initialising
<1>4. ~initialized' =>
       /\ \A d \in Devices : mutex'[d] = Free /\ ~active'[d]
       /\ \A u \in Threads :
            handle'[u] = Closed /\ pc'[u] \notin Holding \cup {"init_unlock", "malloc", "lock", "delay"}
  BY DEF InitialisedBeforeUse, Kept, Initialising
<1> QED BY <1>1, <1>2, <1>3, <1>4 DEF InitialisedBeforeUse

\* What an answer is not.
LEMMA AnswerFields ==
  /\ NoAnswer.code # "ok"
  /\ \A e \in ErrorCodes : Error(e).code # "ok"
  /\ \A v : Ok(v).code = "ok" /\ OkStats(v).code = "ok" /\ OkStats(v).stats = v
BY DEF NoAnswer, Error, ErrorCodes, Ok, OkStats

\* The well-typed answers.
LEMMA AnswerTypes ==
  ASSUME NEW t \in Threads,
         \/ ret'[t] = NoAnswer
         \/ \E e \in ErrorCodes : ret'[t] = Error(e)
         \/ op'[t] # "get" /\ ret'[t] \in {Ok(0), Ok(lat'[t])}
         \/ \E s \in [Fields -> Nat] : op'[t] = "get" /\ ret'[t] = OkStats(s)
  PROVE  AnswerOK(t)'
<1>1. CASE ret'[t] = NoAnswer \/ \E e \in ErrorCodes : ret'[t] = Error(e)
  BY <1>1, AnswerFields, Zenon DEF AnswerOK
<1>2. CASE op'[t] # "get" /\ ret'[t] \in {Ok(0), Ok(lat'[t])}
  BY <1>2, Zenon DEF AnswerOK
<1>3. CASE \E s \in [Fields -> Nat] : op'[t] = "get" /\ ret'[t] = OkStats(s)
  BY <1>3, AnswerFields, Zenon DEF AnswerOK
<1> QED BY <1>1, <1>2, <1>3

\* A step outside the mutexes that is not part of the initialisation.
LEMMA OutsideStep ==
  ASSUME SimInv, TypeOK', NEW t \in Threads, \A u \in Threads \ {t} : Kept(u),
         pc[t] \notin Holding \cup Initialising, pc'[t] \notin Holding \cup Initialising,
         UNCHANGED <<table, mutex, stats, committed>>,
         handle'[t] \in {handle[t], Closed},
         pc'[t] \in {"malloc", "lock", "delay"} => initialized,
         op'[t] = "get" /\ ret'[t].code = "ok" => Consistent(ret'[t].stats),
         CallState(t)'
  PROVE  SimInv'
<1> USE DEF SimInv
<1>1. UNCHANGED <<initialized, initMutex, active>>
  BY DEF table
<1>2. SectionsAreAtomic'
  BY <1>1, OutsideSections
<1>3. InitialisedBeforeUse'
  BY <1>1, OutsideInit
<1>4. SnapshotsConsistent'
  BY OthersSnapshots DEF SnapshotsConsistent
<1>5. (\A u \in Threads : CallState(u)') /\ Untouched'
  BY <1>1, OthersCalls DEF Untouched
<1> QED BY <1>2, <1>3, <1>4, <1>5

-----------------------------------------------------------------------------
\* Calls, returns and the paths that never take a mutex.

\* A library call begins: the thread is about to run it, or to reject it.
LEMMA CallStep ==
  ASSUME SimInv, NEW t \in Threads, NEW o \in {"open", "transfer", "get", "reset"},
         NEW d \in DeviceIds \cup Devices \cup {Closed},
         NEW l \in {"param", "init_lock", "delay", "lock"},
         pc[t] = "idle", pc' = [pc EXCEPT ![t] = l],
         op' = [op EXCEPT ![t] = o], dev' = [dev EXCEPT ![t] = d],
         size' \in [Threads -> Sizes \cup {0}], \A u \in Threads \ {t} : size'[u] = size[u],
         UNCHANGED <<table, mutex, stats, loop, lat, handle, ret, committed>>,
         o # "open" => d = handle[t],
         l # "param" => d \in Devices,
         l = "init_lock" => o = "open",
         l = "delay" => o = "transfer",
         l = "lock" => o \in {"get", "reset"},
         o = "transfer" => size'[t] \in Sizes /\ (l # "param" => size'[t] # 0)
  PROVE  SimInv'
<1> USE DEF SimInv
<1>1. TypeOK
  BY Zenon DEF SectionsAreAtomic
<1>2. /\ pc'[t] = l /\ op'[t] = o /\ dev'[t] = d
      /\ \A u \in Threads \ {t} : pc'[u] = pc[u] /\ op'[u] = op[u] /\ dev'[u] = dev[u]
  BY <1>1 DEF TypeOK
<1>3. \A u \in Threads \ {t} : Kept(u)
  BY <1>2 DEF Kept
<1>4. ret'[t] = NoAnswer
  BY DEF CallState
<1>5. TypeOK'
  <2>1. \A u \in Threads : AnswerOK(u)'
    BY <1>1, <1>3, <1>4, AnswerTypes, OthersAnswer, Zenon DEF TypeOK
  <2>2. pc' \in [Threads -> Labels] /\ op' \in [Threads -> Ops]
    BY <1>1 DEF TypeOK, Labels, Ops
  <2> QED BY <1>1, <2>1, <2>2, Zenon DEF TypeOK, table
<1>6. CallState(t)'
  BY <1>2, <1>4, Zenon DEF CallState, Initialising, Holding
<1>7. l \in {"lock", "delay"} => initialized
  BY ClosedIsNoDevice DEF InitialisedBeforeUse
<1>8. pc[t] \notin Holding \cup Initialising /\ l \notin Holding \cup Initialising
  BY Zenon DEF Holding, Initialising
<1> QED BY <1>2, <1>3, <1>4, <1>5, <1>6, <1>7, <1>8, AnswerFields, OutsideStep, Zenon

LEMMA CallingStep ==
  ASSUME SimInv, NEW t \in Threads, Calling(t)
  PROVE  SimInv'
<1>1. TypeOK
  BY Zenon DEF SimInv, SectionsAreAtomic
<1>2. handle[t] \in Devices \cup {Closed} /\ size \in [Threads -> Sizes \cup {0}]
  BY <1>1 DEF TypeOK
<1>3. ASSUME NEW d \in DeviceIds, pcie_sim_open_linux(t, d) PROVE SimInv'
  <2> DEFINE l == IF d >= 0 /\ d < NumDevices THEN "init_lock" ELSE "param"
  <2>1. /\ pc[t] = "idle" /\ pc' = [pc EXCEPT ![t] = l]
        /\ op' = [op EXCEPT ![t] = "open"] /\ dev' = [dev EXCEPT ![t] = d]
        /\ UNCHANGED <<table, mutex, stats, loop, lat, handle, ret, committed, size>>
    BY <1>3 DEF pcie_sim_open_linux, Call, Goto
  <2>2. l \in {"param", "init_lock"} /\ (l # "param" => d \in Devices)
    BY LinuxAssumption DEF Devices
  <2> HIDE DEF l
  <2> QED BY <1>2, <2>1, <2>2, CallStep, Zenon
<1>4. ASSUME NEW n \in Sizes, NEW b \in BOOLEAN, pcie_sim_transfer_linux(t, n, b) PROVE SimInv'
  <2> DEFINE l == IF handle[t] # Closed /\ b /\ n # 0 THEN "delay" ELSE "param"
  <2>1. /\ pc[t] = "idle" /\ pc' = [pc EXCEPT ![t] = l]
        /\ op' = [op EXCEPT ![t] = "transfer"] /\ dev' = [dev EXCEPT ![t] = handle[t]]
        /\ size' = [size EXCEPT ![t] = n]
        /\ UNCHANGED <<table, mutex, stats, loop, lat, handle, ret, committed>>
    BY <1>4 DEF pcie_sim_transfer_linux, Call, Goto
  <2>2. l \in {"param", "delay"} /\ (l # "param" => handle[t] # Closed /\ n # 0)
    OBVIOUS
  <2>3. /\ size' \in [Threads -> Sizes \cup {0}] /\ size'[t] = n
        /\ \A u \in Threads \ {t} : size'[u] = size[u]
    BY <1>2, <2>1
  <2> HIDE DEF l
  <2> QED BY <1>2, <2>1, <2>2, <2>3, CallStep, Zenon
<1>5. ASSUME pcie_sim_get_stats_linux(t) \/ pcie_sim_reset_stats_linux(t) PROVE SimInv'
  <2> DEFINE l == IF handle[t] # Closed THEN "lock" ELSE "param"
  <2>1. PICK o \in {"get", "reset"} :
          /\ pc[t] = "idle" /\ pc' = [pc EXCEPT ![t] = l]
          /\ op' = [op EXCEPT ![t] = o] /\ dev' = [dev EXCEPT ![t] = handle[t]]
          /\ UNCHANGED <<table, mutex, stats, loop, lat, handle, ret, committed, size>>
    BY <1>5 DEF pcie_sim_get_stats_linux, pcie_sim_reset_stats_linux, Call, Goto
  <2>2. l \in {"param", "lock"} /\ (l # "param" => handle[t] # Closed)
    OBVIOUS
  <2> HIDE DEF l
  <2> QED BY <1>2, <2>1, <2>2, CallStep, Zenon
<1> QED BY <1>3, <1>4, <1>5 DEF Calling

\* A call fails without having touched a device.
LEMMA ErrorStep ==
  ASSUME SimInv, NEW t \in Threads, param_error(t) \/ open_malloc_fails(t)
  PROVE  SimInv'
<1> USE DEF SimInv
<1>1. TypeOK
  BY DEF SectionsAreAtomic
<1>2. /\ pc[t] \in {"param", "malloc"} /\ pc' = [pc EXCEPT ![t] = "return"] /\ pc'[t] = "return"
      /\ \A u \in Threads \ {t} : pc'[u] = pc[u] /\ ret'[u] = ret[u]
      /\ DOMAIN ret' = Threads
      /\ UNCHANGED <<table, mutex, stats, op, dev, loop, size, lat, handle, committed>>
  BY <1>1 DEF param_error, open_malloc_fails, Goto, Answer, locals, TypeOK
<1>3. \E e \in ErrorCodes : ret'[t] = Error(e)
  BY <1>1 DEF param_error, open_malloc_fails, Answer, TypeOK, ErrorCodes
<1>4. \A u \in Threads \ {t} : Kept(u)
  BY <1>2 DEF Kept
<1>5. TypeOK'
  <2>1. AnswerOK(t)'
    BY <1>3, AnswerTypes, Zenon
  <2>2. DOMAIN ret' = Threads /\ \A u \in Threads : AnswerOK(u)'
    BY <1>1, <1>2, <1>4, <2>1, OthersAnswer, Zenon
  <2> QED BY <1>1, <1>2, <2>2, Zenon DEF TypeOK, Labels, table
<1>6. CallState(t)'
  BY <1>2, Zenon DEF CallState, Initialising, Holding
<1>7. pc[t] \notin Holding \cup Initialising /\ pc'[t] \notin Holding \cup Initialising
  BY <1>2, Zenon DEF Holding, Initialising
<1>8. ret'[t].code # "ok"
  BY <1>3, AnswerFields
<1> QED BY <1>2, <1>4, <1>5, <1>6, <1>7, <1>8, OutsideStep, Zenon

LEMMA ReturnStep ==
  ASSUME SimInv, NEW t \in Threads, Return(t)
  PROVE  SimInv'
<1> USE DEF SimInv
<1>1. TypeOK
  BY DEF SectionsAreAtomic
<1>2. /\ pc[t] = "return" /\ pc' = [pc EXCEPT ![t] = "idle"] /\ pc'[t] = "idle"
      /\ op' = [op EXCEPT ![t] = "none"] /\ op'[t] = "none"
      /\ dev' = [dev EXCEPT ![t] = Closed]
      /\ loop' = [loop EXCEPT ![t] = 0]
      /\ size' = [size EXCEPT ![t] = 0]
      /\ lat' = [lat EXCEPT ![t] = 0]
      /\ ret'[t] = NoAnswer /\ DOMAIN ret' = Threads
      /\ \A u \in Threads \ {t} : ret'[u] = ret[u]
      /\ UNCHANGED <<table, mutex, stats, handle, committed>>
  BY <1>1 DEF Return, Goto, Answer, TypeOK
<1>3. \A u \in Threads \ {t} : Kept(u)
  BY <1>1, <1>2, Zenon DEF Kept, TypeOK
<1>4. TypeOK'
  <2>1. AnswerOK(t)'
    BY <1>2, AnswerTypes, Zenon
  <2>2. DOMAIN ret' = Threads /\ \A u \in Threads : AnswerOK(u)'
    BY <1>1, <1>2, <1>3, <2>1, OthersAnswer, Zenon
  <2>3. pc' \in [Threads -> Labels] /\ op' \in [Threads -> Ops]
    BY <1>1, <1>2, Zenon DEF TypeOK, Labels, Ops
  <2>4. loop' \in [Threads -> 0 .. NumDevices]
    BY <1>1, <1>2, LinuxAssumption DEF TypeOK
  <2>5. /\ dev' \in [Threads -> DeviceIds \cup Devices \cup {Closed}]
        /\ size' \in [Threads -> Sizes \cup {0}] /\ lat' \in [Threads -> Latencies \cup {0}]
    BY <1>1, <1>2, Zenon DEF TypeOK
  <2> QED BY <1>1, <1>2, <2>2, <2>3, <2>4, <2>5, Zenon DEF TypeOK, table
<1>5. CallState(t)'
  BY <1>2, Zenon DEF CallState, Initialising, Holding
<1>6. pc[t] \notin Holding \cup Initialising /\ pc'[t] \notin Holding \cup Initialising
  BY <1>2, Zenon DEF Holding, Initialising
<1> QED BY <1>2, <1>3, <1>4, <1>5, <1>6, OutsideStep, Zenon

LEMMA CloseStep ==
  ASSUME SimInv, NEW t \in Threads, pcie_sim_close_linux(t)
  PROVE  SimInv'
<1> USE DEF SimInv
<1>1. TypeOK
  BY DEF SectionsAreAtomic
<1>2. /\ pc[t] = "idle" /\ handle' = [handle EXCEPT ![t] = Closed] /\ handle'[t] = Closed
      /\ \A u \in Threads \ {t} : handle'[u] = handle[u]
      /\ UNCHANGED <<table, mutex, stats, pc, op, dev, loop, size, lat, ret, committed>>
  BY <1>1 DEF pcie_sim_close_linux, locals, TypeOK
<1>3. \A u \in Threads \ {t} : Kept(u)
  BY <1>2 DEF Kept
<1>4. ret[t] = NoAnswer /\ op[t] = "none"
  BY <1>2, Zenon DEF CallState
<1>5. TypeOK'
  <2>1. \A u \in Threads : AnswerOK(u)'
    BY <1>1, <1>2, <1>3, <1>4, AnswerTypes, OthersAnswer, Zenon DEF TypeOK
  <2> QED BY <1>1, <1>2, <2>1, Zenon DEF TypeOK, table
<1>6. CallState(t)'
  BY <1>2, <1>4, Zenon DEF CallState, Initialising, Holding
<1>7. pc[t] \notin Holding \cup Initialising
  BY <1>2 DEF Holding, Initialising
<1> QED BY <1>2, <1>3, <1>4, <1>5, <1>6, <1>7, OutsideStep, Zenon

\* Allocating the handle of an open, and the delay of a transfer.
LEMMA WaitingStep ==
  ASSUME SimInv, NEW t \in Threads, open_malloc(t) \/ transfer_delay(t)
  PROVE  SimInv'
<1> USE DEF SimInv
<1>1. TypeOK
  BY DEF SectionsAreAtomic
<1>2. /\ pc[t] \in {"malloc", "delay"} /\ pc' = [pc EXCEPT ![t] = "lock"] /\ pc'[t] = "lock"
      /\ \A u \in Threads \ {t} : pc'[u] = pc[u] /\ lat'[u] = lat[u]
      /\ lat' \in [Threads -> Latencies \cup {0}]
      /\ pc[t] = "delay" => lat'[t] \in Latencies
      /\ UNCHANGED <<table, mutex, stats, op, dev, loop, size, handle, ret, committed>>
  BY <1>1 DEF open_malloc, transfer_delay, Goto, locals, TypeOK
<1>3. \A u \in Threads \ {t} : Kept(u)
  BY <1>2, Zenon DEF Kept
<1>4. ret[t] = NoAnswer /\ initialized
  BY <1>2, Zenon DEF CallState, InitialisedBeforeUse
<1>5. TypeOK'
  <2>1. \A u \in Threads : AnswerOK(u)'
    BY <1>1, <1>2, <1>3, <1>4, AnswerTypes, OthersAnswer, Zenon DEF TypeOK
  <2> QED BY <1>1, <1>2, <2>1, Zenon DEF TypeOK, Labels, table
<1>6. CallState(t)'
  BY <1>2, <1>4, Zenon DEF CallState, Initialising, Holding
<1>7. pc[t] \notin Holding \cup Initialising /\ pc'[t] \notin Holding \cup Initialising
  BY <1>2 DEF Holding, Initialising
<1> QED BY <1>2, <1>3, <1>4, <1>5, <1>6, <1>7, AnswerFields, OutsideStep, Zenon

-----------------------------------------------------------------------------
\* The lazy initialisation of the device table.

\* While the table is being initialised its mutexes are free and its devices
\* inactive already: the loop changes nothing but its own variable.
LEMMA InitDeviceKeeps ==
  ASSUME SimInv, NEW t \in Threads, linux_sim_init_device(t)
  PROVE  /\ UNCHANGED <<mutex, active, initialized, initMutex, pc>> /\ pc[t] = "init_loop"
         /\ loop' \in [Threads -> 0 .. NumDevices]
<1>1. TypeOK
  BY DEF SimInv, SectionsAreAtomic
<1>2. pc[t] = "init_loop" /\ ~initialized
  BY Zenon DEF linux_sim_init_device, SimInv, InitialisedBeforeUse
<1>3. loop[t] \in Nat /\ loop[t] < NumDevices /\ loop[t] \in Devices /\ loop[t] + 1 \in 0 .. NumDevices
  BY <1>1, LinuxAssumption DEF linux_sim_init_device, TypeOK, Devices
<1>4. mutex[loop[t]] = Free /\ active[loop[t]] = FALSE
  BY <1>1, <1>2, <1>3 DEF SimInv, InitialisedBeforeUse, TypeOK
<1>5. mutex' = mutex /\ active' = active
  BY <1>1, <1>4, Zenon DEF linux_sim_init_device, TypeOK
<1>6. loop' \in [Threads -> 0 .. NumDevices]
  BY <1>1, <1>3, Zenon DEF linux_sim_init_device, TypeOK
<1> QED BY <1>2, <1>5, <1>6 DEF linux_sim_init_device

LEMMA InitStep ==
  ASSUME SimInv, NEW t \in Threads,
         \/ linux_sim_init_lock(t) \/ linux_sim_init_device(t)
         \/ linux_sim_init_done(t) \/ linux_sim_init_unlock(t)
  PROVE  SimInv'
<1> USE DEF SimInv
<1>1. TypeOK
  BY Zenon DEF SectionsAreAtomic
<1>2. /\ pc[t] \in {"init_lock", "init_loop", "init_unlock"}
      /\ pc'[t] \in {"init_loop", "init_unlock", "malloc"}
      /\ pc' \in [Threads -> Labels] /\ \A u \in Threads \ {t} : pc'[u] = pc[u]
      /\ initialized' \in BOOLEAN /\ initMutex' \in Threads \cup {Free}
      /\ loop' \in [Threads -> 0 .. NumDevices]
      /\ UNCHANGED <<active, mutex, stats, op, dev, size, lat, handle, ret, committed>>
  <2>1. CASE linux_sim_init_device(t)
    BY <1>1, <2>1, InitDeviceKeeps, Zenon DEF linux_sim_init_device, TypeOK
  <2>2. CASE linux_sim_init_lock(t)
    BY <1>1, <2>2, Zenon DEF linux_sim_init_lock, Goto, locals, TypeOK, Labels
  <2>3. CASE linux_sim_init_done(t) \/ linux_sim_init_unlock(t)
    BY <1>1, <2>3, Zenon DEF linux_sim_init_done, linux_sim_init_unlock, Goto, locals, TypeOK, Labels
  <2> QED BY <2>1, <2>2, <2>3, Zenon
<1>3. \A u \in Threads \ {t} : Kept(u)
  BY <1>2, Zenon DEF Kept
<1>4. ret[t] = NoAnswer /\ op[t] = "open" /\ dev[t] \in Devices
  BY <1>2, Zenon DEF CallState, Initialising
<1>5. TypeOK'
  <2>1. \A u \in Threads : AnswerOK(u)'
    BY <1>1, <1>2, <1>3, <1>4, AnswerTypes, OthersAnswer, Zenon DEF TypeOK
  <2> QED BY <1>1, <1>2, <2>1, Zenon DEF TypeOK
<1>6. CallState(t)'
  BY <1>2, <1>4, Zenon DEF CallState, Initialising, Holding
<1>7. SectionsAreAtomic'
  <2>1. pc[t] \notin Holding /\ pc'[t] \notin Holding
    BY <1>2 DEF Holding
  <2> QED BY <1>2, <1>3, <1>5, <2>1, OutsideSections
<1>8. InitialisedBeforeUse'
  <2>1. \A u \in Threads : handle'[u] # Closed => active'[handle'[u]]
    BY <1>2, Zenon DEF InitialisedBeforeUse
  <2>2. CASE linux_sim_init_lock(t)
    <3>1. /\ initMutex = Free /\ initMutex' = t /\ initialized' = initialized
          /\ pc'[t] = IF initialized THEN "init_unlock" ELSE "init_loop"
      BY <1>1, <2>2, Zenon DEF linux_sim_init_lock, Goto, TypeOK
    <3>2. \A u \in Threads : pc'[u] \in Initialising <=> initMutex' = u
      BY <1>2, <3>1, LinuxAssumption, Zenon DEF InitialisedBeforeUse, Initialising
    <3>3. \A u \in Threads : pc'[u] = "init_loop" => ~initialized'
      BY <1>2, <3>1, Zenon DEF InitialisedBeforeUse
    <3>4. ~initialized' => \A u \in Threads :
            pc'[u] \notin Holding \cup {"init_unlock", "malloc", "lock", "delay"}
      BY <1>2, <3>1, Zenon DEF InitialisedBeforeUse, Holding
    <3> QED BY <1>2, <2>1, <3>1, <3>2, <3>3, <3>4, Zenon DEF InitialisedBeforeUse
  <2>3. CASE linux_sim_init_device(t)
    <3>1. UNCHANGED <<mutex, active, initialized, initMutex, pc>>
      BY <2>3, InitDeviceKeeps
    <3> QED BY <1>2, <3>1 DEF InitialisedBeforeUse
  <2>4. CASE linux_sim_init_done(t)
    <3>1. /\ pc[t] = "init_loop" /\ pc'[t] = "init_unlock" /\ initialized' = TRUE
          /\ initMutex' = initMutex
      BY <1>1, <2>4, Zenon DEF linux_sim_init_done, Goto, TypeOK
    <3>2. initMutex = t
      BY <3>1, Zenon DEF InitialisedBeforeUse, Initialising
    <3>3. \A u \in Threads : pc'[u] \in Initialising <=> initMutex' = u
      BY <1>2, <3>1, <3>2, Zenon DEF InitialisedBeforeUse, Initialising
    <3>4. \A u \in Threads : pc'[u] # "init_loop"
      BY <1>2, <3>1, <3>2, Zenon DEF InitialisedBeforeUse, Initialising
    <3> QED BY <2>1, <3>1, <3>3, <3>4, Zenon DEF InitialisedBeforeUse
  <2>5. CASE linux_sim_init_unlock(t)
    <3>1. /\ pc[t] = "init_unlock" /\ pc'[t] = "malloc" /\ initialized' = initialized
          /\ initMutex' = Free
      BY <1>1, <2>5, Zenon DEF linux_sim_init_unlock, Goto, TypeOK
    <3>2. initMutex = t /\ initialized
      BY <3>1, Zenon DEF InitialisedBeforeUse, Initialising
    <3>3. \A u \in Threads : pc'[u] \notin Initialising /\ initMutex' # u
      BY <1>2, <3>1, <3>2, LinuxAssumption, Zenon DEF InitialisedBeforeUse, Initialising
    <3> QED BY <2>1, <3>1, <3>2, <3>3, Zenon DEF InitialisedBeforeUse, Initialising
  <2> QED BY <2>2, <2>3, <2>4, <2>5
<1>9. SnapshotsConsistent' /\ Untouched'
  BY <1>2, Zenon DEF SnapshotsConsistent, Untouched
<1> QED BY <1>3, <1>6, <1>7, <1>8, <1>9, OthersCalls

-----------------------------------------------------------------------------
\* Inside a device's mutex.

\* Who holds which mutex.
LEMMA Owner ==
  ASSUME SectionsAreAtomic, NEW u \in Threads
  PROVE  /\ pc[u] \in Holding => dev[u] \in Devices
         /\ \A d \in Devices : mutex[d] = u <=> pc[u] \in Holding /\ dev[u] = d
BY Zenon DEF SectionsAreAtomic

\* The thread in a section is alone on its device.
LEMMA Alone ==
  ASSUME SectionsAreAtomic, NEW t \in Threads, pc[t] \in Holding
  PROVE  /\ dev[t] \in Devices /\ mutex[dev[t]] = t
         /\ \A u \in Threads \ {t} : pc[u] \in Holding => dev[u] # dev[t]
<1>1. dev[t] \in Devices /\ mutex[dev[t]] = t
  BY Owner, Zenon
<1> QED BY <1>1, Owner, Zenon

LEMMA LockStep ==
  ASSUME SimInv, NEW t \in Threads, Lock(t)
  PROVE  SimInv'
<1> USE DEF SimInv
<1>1. TypeOK
  BY DEF SectionsAreAtomic
<1>2. /\ pc[t] = "lock" /\ pc' = [pc EXCEPT ![t] = "body"] /\ pc'[t] = "body"
      /\ \A u \in Threads \ {t} : pc'[u] = pc[u]
      /\ mutex[dev[t]] = Free /\ mutex' = [mutex EXCEPT ![dev[t]] = t]
      /\ UNCHANGED <<initialized, initMutex, active, stats, op, dev, loop, size, lat, handle, ret, committed>>
  BY <1>1, Zenon DEF Lock, Goto, locals, table, TypeOK
<1>3. \A u \in Threads \ {t} : Kept(u)
  BY <1>2, Zenon DEF Kept
<1>4. ret[t] = NoAnswer /\ dev[t] \in Devices /\ initialized
  BY <1>2, Zenon DEF CallState, InitialisedBeforeUse
<1>5. /\ mutex' \in [Devices -> Threads \cup {Free}] /\ mutex'[dev[t]] = t
      /\ \A d \in Devices \ {dev[t]} : mutex'[d] = mutex[d]
  BY <1>1, <1>2, <1>4, Zenon DEF TypeOK
<1>6. TypeOK'
  <2>1. \A u \in Threads : AnswerOK(u)'
    BY <1>1, <1>2, <1>3, <1>4, AnswerTypes, OthersAnswer, Zenon DEF TypeOK
  <2> QED BY <1>1, <1>2, <1>5, <2>1, Zenon DEF TypeOK, Labels
<1>7. SectionsAreAtomic'
  <2>1. \A u \in Threads : pc[u] \in Holding => dev[u] # dev[t]
    <3>1. ASSUME NEW u \in Threads, pc[u] \in Holding PROVE dev[u] # dev[t]
      <4>1. mutex[dev[t]] # u
        BY <1>2, ClosedIsNoDevice, Zenon
      <4> QED BY <1>4, <3>1, <4>1, Owner, Zenon
    <3> QED BY <3>1, Zenon
  <2>2. \A d \in Devices : mutex'[d] = Free => stats'[d] = committed'[d]
    BY <1>2, <1>5, LinuxAssumption, Zenon DEF SectionsAreAtomic
  <2>3. \A u \in Threads \ {t} : Progress(u)'
    BY <1>2, <1>3, SameProgress, Zenon DEF SectionsAreAtomic
  <2>4. Progress(t)'
    BY <1>2, <1>4, Zenon DEF Progress, SectionsAreAtomic
  <2>5. ASSUME NEW u \in Threads
        PROVE  /\ pc'[u] \in Holding => dev'[u] \in Devices
               /\ \A d \in Devices : mutex'[d] = u <=> pc'[u] \in Holding /\ dev'[u] = d
    <3>1. /\ pc[u] \in Holding => dev[u] \in Devices
          /\ \A d \in Devices : mutex[d] = u <=> pc[u] \in Holding /\ dev[u] = d
      BY Owner, Zenon
    <3>2. CASE u = t
      <4>1. pc[t] \notin Holding /\ pc'[t] \in Holding
        BY <1>2 DEF Holding
      <4> QED BY <1>2, <1>4, <1>5, <3>1, <3>2, <4>1, Zenon
    <3>3. CASE u # t
      <4>1. pc'[u] = pc[u] /\ dev'[u] = dev[u] /\ mutex'[dev[t]] # u
        BY <1>2, <1>5, <3>3, Zenon
      <4> QED BY <1>5, <2>1, <3>1, <4>1, Zenon
    <3> QED BY <3>2, <3>3, Zenon
  <2> QED BY <1>6, <2>2, <2>3, <2>4, <2>5, Zenon DEF SectionsAreAtomic
<1>8. InitialisedBeforeUse'
  <2>1. \A u \in Threads : pc'[u] \in Initialising <=> pc[u] \in Initialising
    BY <1>2 DEF Initialising
  <2>2. \A u \in Threads : pc'[u] = "init_loop" => pc[u] = "init_loop"
    BY <1>2
  <2> QED BY <1>2, <1>4, <2>1, <2>2, Zenon DEF InitialisedBeforeUse
<1>9. CallState(t)'
  BY <1>2, <1>4, Zenon DEF CallState, Initialising, Holding
<1>10. SnapshotsConsistent' /\ Untouched'
  BY <1>2, Zenon DEF SnapshotsConsistent, Untouched
<1> QED BY <1>3, <1>7, <1>8, <1>9, <1>10, OthersCalls

\* A step between lock and unlock concerns the thread and its device alone.
LEMMA InsideFrame ==
  ASSUME SimInv, NEW t \in Threads, NEW l \in {"latency", "unlock"}, pc[t] \in Holding,
         pc' = [pc EXCEPT ![t] = l],
         UNCHANGED <<initialized, initMutex, mutex, locals, handle, committed>>,
         stats' \in [Devices -> [Fields -> Nat]],
         \A d \in Devices \ {dev[t]} : stats'[d] = stats[d] /\ active'[d] = active[d],
         active' \in [Devices -> BOOLEAN],
         active'[dev[t]] = (active[dev[t]] \/ op[t] = "open"),
         ~active'[dev[t]] => stats'[dev[t]] = Zero,
         DOMAIN ret' = Threads, \A u \in Threads \ {t} : ret'[u] = ret[u],
         AnswerOK(t)', Progress(t)',
         l = "latency" => op[t] = "transfer" /\ ret'[t] = NoAnswer,
         op[t] = "get" /\ ret'[t].code = "ok" => Consistent(ret'[t].stats)
  PROVE  SimInv'
<1> USE DEF SimInv
<1>1. TypeOK /\ UNCHANGED <<op, dev, loop, size, lat>>
  BY Zenon DEF SectionsAreAtomic, locals
<1>2. pc'[t] = l /\ \A u \in Threads \ {t} : pc'[u] = pc[u]
  BY <1>1, Zenon DEF TypeOK
<1>3. \A u \in Threads \ {t} : Kept(u)
  BY <1>1, <1>2, Zenon DEF Kept
<1>4. /\ dev[t] \in Devices /\ mutex[dev[t]] = t
      /\ \A u \in Threads \ {t} : pc[u] \in Holding => dev[u] # dev[t]
  BY Alone, Zenon
<1>5. initialized
  BY Zenon DEF InitialisedBeforeUse
<1>6. TypeOK'
  <2>1. DOMAIN ret' = Threads /\ \A u \in Threads : AnswerOK(u)'
    BY <1>1, <1>3, OthersAnswer, Zenon
  <2>2. pc' \in [Threads -> Labels]
    BY <1>1, Zenon DEF TypeOK, Labels
  <2> QED BY <1>1, <2>1, <2>2, Zenon DEF TypeOK
<1>7. SectionsAreAtomic'
  <2>1. \A u \in Threads \ {t} : Progress(u)'
    BY <1>3, <1>4, SameProgress, Zenon DEF SectionsAreAtomic
  <2>2. \A d \in Devices : mutex'[d] = Free => stats'[d] = committed'[d]
    <3>1. mutex'[dev[t]] # Free /\ mutex' = mutex /\ committed' = committed
      BY <1>4, ClosedIsNoDevice, Zenon
    <3>2. ASSUME NEW d \in Devices, mutex'[d] = Free PROVE stats'[d] = committed'[d]
      <4>1. d # dev[t] /\ mutex[d] = Free
        BY <3>1, <3>2, Zenon
      <4>2. stats'[d] = stats[d]
        BY <4>1, Zenon
      <4>3. stats[d] = committed[d]
        BY <4>1, Zenon DEF SectionsAreAtomic
      <4> QED BY <3>1, <4>2, <4>3, Zenon
    <3> QED BY <3>2, Zenon
  <2>3. l \in Holding
    BY Zenon DEF Holding
  <2>4. ASSUME NEW u \in Threads
        PROVE  /\ pc'[u] \in Holding => dev'[u] \in Devices
               /\ \A d \in Devices : mutex'[d] = u <=> pc'[u] \in Holding /\ dev'[u] = d
    <3>1. pc'[u] \in Holding <=> pc[u] \in Holding
      BY <1>2, <2>3, Zenon
    <3>2. /\ pc[u] \in Holding => dev[u] \in Devices
          /\ \A d \in Devices : mutex[d] = u <=> pc[u] \in Holding /\ dev[u] = d
      BY Owner, Zenon
    <3>3. dev'[u] = dev[u] /\ mutex' = mutex
      BY <1>1, Zenon
    <3> QED BY <3>1, <3>2, <3>3, Zenon
  <2> QED BY <1>6, <2>1, <2>2, <2>4, Zenon DEF SectionsAreAtomic
<1>8. InitialisedBeforeUse'
  <2>1. \A u \in Threads : pc'[u] \in Initialising <=> pc[u] \in Initialising
    BY <1>2, Zenon DEF Initialising, Holding
  <2>2. \A u \in Threads : pc'[u] = "init_loop" => pc[u] = "init_loop"
    BY <1>2, Zenon
  <2>3. \A d \in Devices : active[d] => active'[d]
    BY <1>4, Zenon
  <2>4. \A u \in Threads : handle'[u] # Closed => active'[handle'[u]]
    <3>1. \A u \in Threads : handle[u] # Closed => handle[u] \in Devices
      BY <1>1, Zenon DEF TypeOK
    <3> QED BY <2>3, <3>1, Zenon DEF InitialisedBeforeUse
  <2> QED BY <1>5, <2>1, <2>2, <2>4, Zenon DEF InitialisedBeforeUse
<1>9. CallState(t)'
  BY <1>1, <1>2, <1>4, Zenon DEF CallState, Initialising, Holding
<1>10. SnapshotsConsistent'
  BY <1>1, <1>3, OthersSnapshots, Zenon DEF SnapshotsConsistent
<1>11. Untouched'
  BY <1>4, Zenon DEF Untouched
<1> QED BY <1>3, <1>7, <1>8, <1>9, <1>10, <1>11, OthersCalls, Zenon

\* A thread that reaches the end of its section has done all of it.
LEMMA ProgressAtUnlock ==
  ASSUME NEW t \in Threads, pc'[t] = "unlock", Outcome(t)'
  PROVE  Progress(t)'
BY Zenon DEF Progress

\* What holds in a section: its device is open, and its answer not yet given.
LEMMA InsideState ==
  ASSUME SimInv, NEW t \in Threads, pc[t] \in Holding
  PROVE  /\ dev[t] \in Devices /\ stats[dev[t]] \in [Fields -> Nat]
         /\ committed[dev[t]] \in [Fields -> Nat] /\ Consistent(committed[dev[t]])
         /\ op[t] \in Ops \ {"none"}
         /\ op[t] # "open" => active[dev[t]]
         /\ op[t] = "transfer" =>
              size[t] \in Nat /\ size[t] # 0 /\ lat[t] \in Nat /\ lat[t] \in Latencies
         /\ pc[t] = "body" => ret[t] = NoAnswer /\ stats[dev[t]] = committed[dev[t]]
<1> USE DEF SimInv
<1>1. TypeOK /\ CallState(t) /\ Progress(t)
  BY Zenon DEF SectionsAreAtomic
<1>2. dev[t] \in Devices /\ pc[t] \notin {"idle", "param", "return"}
  BY <1>1, Zenon DEF CallState, Holding
<1>3. op[t] \in Ops \ {"none"}
  BY <1>1, <1>2, Zenon DEF CallState, TypeOK
<1>4. op[t] # "open" => active[dev[t]]
  BY <1>1, <1>2, <1>3, ClosedIsNoDevice, Zenon DEF CallState, InitialisedBeforeUse, Ops
<1>5. op[t] = "transfer" =>
        size[t] \in Nat /\ size[t] # 0 /\ lat[t] \in Nat /\ lat[t] \in Latencies
  BY <1>1, <1>2, LinuxAssumption, Zenon DEF CallState
<1>6. pc[t] = "body" => ret[t] = NoAnswer /\ stats[dev[t]] = committed[dev[t]]
  BY <1>1, Zenon DEF CallState, Progress
<1> QED BY <1>1, <1>2, <1>3, <1>4, <1>5, <1>6, Zenon DEF TypeOK, SnapshotsConsistent

LEMMA OpenStep ==
  ASSUME SimInv, NEW t \in Threads, open_activate(t)
  PROVE  SimInv'
<1>1. TypeOK
  BY DEF SimInv, SectionsAreAtomic
<1>2. /\ pc[t] = "body" /\ op[t] = "open" /\ pc' = [pc EXCEPT ![t] = "unlock"] /\ pc'[t] = "unlock"
      /\ active' = [active EXCEPT ![dev[t]] = TRUE]
      /\ stats' = [stats EXCEPT ![dev[t]] = IF active[dev[t]] THEN stats[dev[t]] ELSE Zero]
      /\ UNCHANGED <<initialized, initMutex, mutex, locals, handle, committed>>
      /\ ret'[t] = Ok(0) /\ DOMAIN ret' = Threads /\ \A u \in Threads \ {t} : ret'[u] = ret[u]
  BY <1>1, Zenon DEF open_activate, Goto, Answer, TypeOK
<1>3. pc[t] \in Holding
  BY <1>2 DEF Holding
<1>4. dev[t] \in Devices /\ stats[dev[t]] = committed[dev[t]]
  BY <1>2, <1>3, InsideState, Zenon
<1>5. (IF active[dev[t]] THEN stats[dev[t]] ELSE Zero) = stats[dev[t]]
  BY <1>4, Zenon DEF SimInv, Untouched
<1>6. stats' = stats
  BY <1>1, <1>2, <1>4, <1>5, Zenon DEF TypeOK
<1>7. /\ active' \in [Devices -> BOOLEAN] /\ active'[dev[t]] = TRUE
      /\ \A d \in Devices \ {dev[t]} : active'[d] = active[d]
  BY <1>1, <1>2, <1>4, Zenon DEF TypeOK
<1>8. UNCHANGED <<op, dev, lat>>
  BY <1>2 DEF locals
<1>9. AnswerOK(t)'
  BY <1>2, <1>8, AnswerTypes, Zenon
<1>10. Progress(t)'
  BY <1>2, <1>4, <1>6, <1>7, <1>8, ProgressAtUnlock, Zenon DEF Outcome
<1>11. stats' \in [Devices -> [Fields -> Nat]]
  BY <1>1, <1>6, Zenon DEF TypeOK
<1> QED BY <1>2, <1>3, <1>6, <1>7, <1>9, <1>10, <1>11, InsideFrame, Zenon

LEMMA CountStep ==
  ASSUME SimInv, NEW t \in Threads, transfer_count(t)
  PROVE  SimInv'
<1>1. TypeOK
  BY DEF SimInv, SectionsAreAtomic
<1>2. /\ pc[t] = "body" /\ op[t] = "transfer"
      /\ pc' = [pc EXCEPT ![t] = "latency"] /\ pc'[t] = "latency"
      /\ stats' = [stats EXCEPT ![dev[t]] = Counted(stats[dev[t]], size[t])]
      /\ UNCHANGED <<initialized, initMutex, active, mutex, locals, handle, ret, committed>>
  BY <1>1, Zenon DEF transfer_count, Goto, table, TypeOK
<1>3. pc[t] \in Holding
  BY <1>2, Zenon DEF Holding
<1>4. /\ dev[t] \in Devices /\ stats[dev[t]] = committed[dev[t]] /\ ret[t] = NoAnswer
      /\ stats[dev[t]] \in [Fields -> Nat] /\ size[t] \in Nat /\ active[dev[t]]
  BY <1>2, <1>3, InsideState, Zenon
<1>5. Counted(stats[dev[t]], size[t]) \in [Fields -> Nat]
  BY <1>4, CountedValues, Zenon
<1>6. /\ stats' \in [Devices -> [Fields -> Nat]]
      /\ stats'[dev[t]] = Counted(committed[dev[t]], size[t])
      /\ \A d \in Devices \ {dev[t]} : stats'[d] = stats[d]
  BY <1>1, <1>2, <1>4, <1>5, Zenon DEF TypeOK
<1>7. UNCHANGED <<op, dev, size, lat>>
  BY <1>2, Zenon DEF locals
<1>8. AnswerOK(t)'
  BY <1>2, <1>4, AnswerTypes, Zenon
<1>9. Progress(t)'
  BY <1>2, <1>6, <1>7, Zenon DEF Progress
<1>10. active' \in [Devices -> BOOLEAN] /\ DOMAIN ret' = Threads
       /\ active'[dev[t]] = (active[dev[t]] \/ op[t] = "open")
  BY <1>1, <1>2, <1>4, Zenon DEF TypeOK
<1> QED BY <1>2, <1>3, <1>4, <1>6, <1>8, <1>9, <1>10, InsideFrame, Zenon

LEMMA LatencyStep ==
  ASSUME SimInv, NEW t \in Threads, transfer_latency(t)
  PROVE  SimInv'
<1>1. TypeOK
  BY DEF SimInv, SectionsAreAtomic
<1>2. /\ pc[t] = "latency" /\ pc' = [pc EXCEPT ![t] = "unlock"] /\ pc'[t] = "unlock"
      /\ stats' = [stats EXCEPT ![dev[t]] = Timed(stats[dev[t]], lat[t])]
      /\ UNCHANGED <<initialized, initMutex, active, mutex, locals, handle, committed>>
      /\ ret'[t] = Ok(lat[t]) /\ DOMAIN ret' = Threads /\ \A u \in Threads \ {t} : ret'[u] = ret[u]
  BY <1>1, Zenon DEF transfer_latency, Goto, Answer, table, TypeOK
<1>3. pc[t] \in Holding /\ op[t] = "transfer"
      /\ stats[dev[t]] = Counted(committed[dev[t]], size[t])
  BY <1>2, Zenon DEF Holding, SimInv, SectionsAreAtomic, Progress
<1>4. /\ dev[t] \in Devices /\ stats[dev[t]] \in [Fields -> Nat]
      /\ lat[t] \in Nat /\ lat[t] \in Latencies /\ active[dev[t]]
  BY <1>3, InsideState, Zenon
<1>5. Timed(stats[dev[t]], lat[t]) \in [Fields -> Nat]
  BY <1>4, TimedValues, Zenon
<1>6. /\ stats' \in [Devices -> [Fields -> Nat]]
      /\ stats'[dev[t]] = Timed(stats[dev[t]], lat[t])
      /\ \A d \in Devices \ {dev[t]} : stats'[d] = stats[d]
  BY <1>1, <1>2, <1>4, <1>5, Zenon DEF TypeOK
<1>7. UNCHANGED <<op, dev, size, lat>>
  BY <1>2, Zenon DEF locals
<1>8. AnswerOK(t)'
  BY <1>2, <1>3, <1>7, AnswerTypes, Zenon
<1>9. stats'[dev'[t]] = Account(committed'[dev'[t]], size'[t], lat'[t])
  BY <1>2, <1>3, <1>6, <1>7, Zenon DEF Account
<1>10. Progress(t)'
  BY <1>2, <1>3, <1>4, <1>7, <1>9, ProgressAtUnlock, Zenon DEF Outcome
<1>11. active' \in [Devices -> BOOLEAN] /\ active'[dev[t]] = (active[dev[t]] \/ op[t] = "open")
  BY <1>1, <1>2, <1>4, Zenon DEF TypeOK
<1> QED BY <1>2, <1>3, <1>4, <1>6, <1>8, <1>10, <1>11, InsideFrame, Zenon

LEMMA GetStep ==
  ASSUME SimInv, NEW t \in Threads, get_copy(t)
  PROVE  SimInv'
<1>1. TypeOK
  BY DEF SimInv, SectionsAreAtomic
<1>2. /\ pc[t] = "body" /\ op[t] = "get" /\ pc' = [pc EXCEPT ![t] = "unlock"] /\ pc'[t] = "unlock"
      /\ UNCHANGED <<initialized, initMutex, active, mutex, stats, locals, handle, committed>>
      /\ ret'[t] = OkStats(stats[dev[t]]) /\ DOMAIN ret' = Threads
      /\ \A u \in Threads \ {t} : ret'[u] = ret[u]
  BY <1>1, Zenon DEF get_copy, Goto, Answer, table, TypeOK
<1>3. pc[t] \in Holding
  BY <1>2, Zenon DEF Holding
<1>4. /\ dev[t] \in Devices /\ stats[dev[t]] \in [Fields -> Nat] /\ active[dev[t]]
      /\ stats[dev[t]] = committed[dev[t]] /\ Consistent(stats[dev[t]])
  BY <1>2, <1>3, InsideState, Zenon
<1>5. UNCHANGED <<op, dev, lat>>
  BY <1>2, Zenon DEF locals
<1>6. AnswerOK(t)'
  BY <1>2, <1>4, <1>5, AnswerTypes, Zenon
<1>7. Progress(t)'
  BY <1>2, <1>4, <1>5, ProgressAtUnlock, Zenon DEF Outcome
<1>8. Consistent(ret'[t].stats)
  BY <1>2, <1>4, AnswerFields, Zenon
<1>9. /\ stats' \in [Devices -> [Fields -> Nat]] /\ active' \in [Devices -> BOOLEAN]
      /\ active'[dev[t]] = (active[dev[t]] \/ op[t] = "open")
  BY <1>1, <1>2, <1>4, Zenon DEF TypeOK
<1> QED BY <1>2, <1>3, <1>4, <1>6, <1>7, <1>8, <1>9, InsideFrame, Zenon

LEMMA ResetStep ==
  ASSUME SimInv, NEW t \in Threads, reset_clear(t)
  PROVE  SimInv'
<1>1. TypeOK
  BY DEF SimInv, SectionsAreAtomic
<1>2. /\ pc[t] = "body" /\ op[t] = "reset" /\ pc' = [pc EXCEPT ![t] = "unlock"] /\ pc'[t] = "unlock"
      /\ stats' = [stats EXCEPT ![dev[t]] = Zero]
      /\ UNCHANGED <<initialized, initMutex, active, mutex, locals, handle, committed>>
      /\ ret'[t] = Ok(0) /\ DOMAIN ret' = Threads /\ \A u \in Threads \ {t} : ret'[u] = ret[u]
  BY <1>1, Zenon DEF reset_clear, Goto, Answer, table, TypeOK
<1>3. pc[t] \in Holding
  BY <1>2, Zenon DEF Holding
<1>4. dev[t] \in Devices /\ active[dev[t]]
  BY <1>2, <1>3, InsideState, Zenon
<1>5. /\ stats' \in [Devices -> [Fields -> Nat]] /\ stats'[dev[t]] = Zero
      /\ \A d \in Devices \ {dev[t]} : stats'[d] = stats[d]
  BY <1>1, <1>2, <1>4, ZeroConsistent, Zenon DEF TypeOK
<1>6. UNCHANGED <<op, dev, lat>>
  BY <1>2, Zenon DEF locals
<1>7. AnswerOK(t)'
  BY <1>2, <1>6, AnswerTypes, Zenon
<1>8. Progress(t)'
  BY <1>2, <1>5, <1>6, ProgressAtUnlock, Zenon DEF Outcome
<1>9. active' \in [Devices -> BOOLEAN] /\ active'[dev[t]] = (active[dev[t]] \/ op[t] = "open")
  BY <1>1, <1>2, <1>4, Zenon DEF TypeOK
<1> QED BY <1>2, <1>3, <1>4, <1>5, <1>7, <1>8, <1>9, InsideFrame, Zenon

\* Whatever a call did, it releases consistent statistics of an active device.
LEMMA OutcomeConsistent ==
  ASSUME SimInv, NEW t \in Threads, pc[t] = "unlock"
  PROVE  Consistent(stats[dev[t]]) /\ active[dev[t]] /\ Outcome(t)
<1> DEFINE s == stats[dev[t]]
           c == committed[dev[t]]
<1>1. pc[t] \in Holding /\ Outcome(t)
  BY Zenon DEF Holding, SimInv, SectionsAreAtomic, Progress
<1>2. /\ c \in [Fields -> Nat] /\ Consistent(c) /\ (op[t] # "open" => active[dev[t]])
      /\ op[t] = "transfer" => size[t] \in Nat /\ size[t] # 0 /\ lat[t] \in Nat
  BY <1>1, InsideState, Zenon
<1>3. \/ op[t] = "open" /\ s = c /\ active[dev[t]]
      \/ op[t] = "transfer" /\ s = Account(c, size[t], lat[t])
      \/ op[t] = "get" /\ s = c
      \/ op[t] = "reset" /\ s = Zero
  BY <1>1, Zenon DEF Outcome
<1> HIDE DEF s, c
<1>4. Consistent(s) /\ active[dev[t]]
  <2>1. CASE op[t] = "transfer" /\ s = Account(c, size[t], lat[t])
    BY <1>2, <2>1, AccountConsistent, Zenon
  <2> QED BY <1>2, <1>3, <2>1, ZeroConsistent, Zenon
<1> QED BY <1>1, <1>4, Zenon DEF s

LEMMA UnlockStep ==
  ASSUME SimInv, NEW t \in Threads, Unlock(t)
  PROVE  SimInv'
<1> USE DEF SimInv
<1>1. TypeOK
  BY DEF SectionsAreAtomic
<1>2. /\ pc[t] = "unlock" /\ pc' = [pc EXCEPT ![t] = "return"] /\ pc'[t] = "return"
      /\ \A u \in Threads \ {t} : pc'[u] = pc[u]
      /\ mutex' = [mutex EXCEPT ![dev[t]] = Free]
      /\ committed' = [committed EXCEPT ![dev[t]] = stats[dev[t]]]
      /\ handle' = [handle EXCEPT ![t] = IF op[t] = "open" THEN dev[t] ELSE handle[t]]
      /\ UNCHANGED <<initialized, initMutex, active, stats, op, dev, loop, size, lat, ret>>
  BY <1>1, Zenon DEF Unlock, Goto, locals, table, TypeOK
<1>3. pc[t] \in Holding
  BY <1>2, Zenon DEF Holding
<1>4. /\ dev[t] \in Devices /\ mutex[dev[t]] = t
      /\ \A u \in Threads \ {t} : pc[u] \in Holding => dev[u] # dev[t]
  BY <1>3, Alone, Zenon
<1>5. Consistent(stats[dev[t]]) /\ active[dev[t]]
  BY <1>2, OutcomeConsistent, Zenon
<1>6. /\ mutex' \in [Devices -> Threads \cup {Free}] /\ mutex'[dev[t]] = Free
      /\ \A d \in Devices \ {dev[t]} : mutex'[d] = mutex[d] /\ committed'[d] = committed[d]
      /\ committed' \in [Devices -> [Fields -> Nat]] /\ committed'[dev[t]] = stats[dev[t]]
  BY <1>1, <1>2, <1>4, Zenon DEF TypeOK
<1>7. /\ handle' \in [Threads -> Devices \cup {Closed}]
      /\ handle'[t] = IF op[t] = "open" THEN dev[t] ELSE handle[t]
      /\ \A u \in Threads \ {t} : handle'[u] = handle[u]
  BY <1>1, <1>2, <1>4, Zenon DEF TypeOK
<1>8. \A u \in Threads \ {t} : Kept(u)
  BY <1>2, <1>7, Zenon DEF Kept
<1>9. TypeOK'
  <2>1. \A u \in Threads : AnswerOK(u)'
    BY <1>1, <1>2, Zenon DEF AnswerOK, TypeOK
  <2>2. pc' \in [Threads -> Labels]
    BY <1>1, <1>2, Zenon DEF TypeOK, Labels
  <2> QED BY <1>1, <1>2, <1>6, <1>7, <2>1, <2>2, Zenon DEF TypeOK
<1>10. SectionsAreAtomic'
  <2>1. \A u \in Threads \ {t} : Progress(u)'
    <3>1. ASSUME NEW u \in Threads \ {t}, pc[u] \in Holding
          PROVE  committed'[dev[u]] = committed[dev[u]]
      BY <1>4, <1>6, <3>1, Zenon DEF SectionsAreAtomic
    <3> QED BY <1>2, <1>8, <3>1, SameProgress, Zenon DEF SectionsAreAtomic
  <2>2. Progress(t)'
    BY <1>2, Zenon DEF Progress
  <2>3. \A d \in Devices : mutex'[d] = Free => stats'[d] = committed'[d]
    BY <1>2, <1>4, <1>6, Zenon DEF SectionsAreAtomic
  <2>4. pc'[t] \notin Holding
    BY <1>2, Zenon DEF Holding
  <2>5. ASSUME NEW u \in Threads
        PROVE  /\ pc'[u] \in Holding => dev'[u] \in Devices
               /\ \A d \in Devices : mutex'[d] = u <=> pc'[u] \in Holding /\ dev'[u] = d
    <3>1. /\ pc[u] \in Holding => dev[u] \in Devices
          /\ \A d \in Devices : mutex[d] = u <=> pc[u] \in Holding /\ dev[u] = d
      BY Owner, Zenon
    <3>2. CASE u = t
      <4>1. \A d \in Devices : mutex'[d] # t
        BY <1>3, <1>6, <3>1, <3>2, LinuxAssumption, Zenon
      <4> QED BY <2>4, <3>2, <4>1, Zenon
    <3>3. CASE u # t
      <4>1. pc'[u] = pc[u] /\ dev'[u] = dev[u] /\ mutex'[dev[t]] # u
        BY <1>2, <1>6, <3>3, LinuxAssumption, Zenon
      <4>2. pc[u] \in Holding => dev[u] # dev[t]
        BY <1>4, <3>3, Zenon
      <4> QED BY <1>6, <3>1, <4>1, <4>2, Zenon
    <3> QED BY <3>2, <3>3, Zenon
  <2> QED BY <1>9, <2>1, <2>2, <2>3, <2>5, Zenon DEF SectionsAreAtomic
<1>11. InitialisedBeforeUse'
  <2>1. initialized
    BY <1>3, Zenon DEF InitialisedBeforeUse
  <2>2. \A u \in Threads : pc'[u] \in Initialising <=> pc[u] \in Initialising
    BY <1>2, Zenon DEF Initialising
  <2>3. \A u \in Threads : pc'[u] = "init_loop" => pc[u] = "init_loop"
    BY <1>2, Zenon
  <2>4. \A u \in Threads : handle'[u] # Closed => active'[handle'[u]]
    BY <1>2, <1>5, <1>7, Zenon DEF InitialisedBeforeUse
  <2> QED BY <1>2, <2>1, <2>2, <2>3, <2>4, Zenon DEF InitialisedBeforeUse
<1>12. CallState(t)'
  BY <1>2, <1>7, Zenon DEF CallState, Initialising, Holding
<1>13. SnapshotsConsistent'
  <2>1. \A d \in Devices : Consistent(committed'[d])
    BY <1>5, <1>6, Zenon DEF SnapshotsConsistent
  <2> QED BY <1>2, <1>8, <2>1, OthersSnapshots, Zenon DEF SnapshotsConsistent
<1>14. Untouched'
  BY <1>2, Zenon DEF Untouched
<1> QED BY <1>8, <1>10, <1>11, <1>12, <1>13, <1>14, OthersCalls, Zenon

-----------------------------------------------------------------------------
LEMMA SimInvStutters == SimInv /\ UNCHANGED vars => SimInv'
<1> SUFFICES ASSUME SimInv, UNCHANGED vars PROVE SimInv'
  OBVIOUS
<1> USE DEF SimInv, vars, table, locals
<1>1. TypeOK'
  <2>1. \A u \in Threads : AnswerOK(u)'
    BY Zenon DEF AnswerOK, SectionsAreAtomic, TypeOK
  <2> QED BY <2>1, Zenon DEF SectionsAreAtomic, TypeOK
<1>2. \A u \in Threads : Kept(u)
  BY Zenon DEF Kept
<1>3. \A u \in Threads : Progress(u)'
  BY <1>2, SameProgress, Zenon DEF SectionsAreAtomic
<1>4. SectionsAreAtomic'
  BY <1>1, <1>3, Zenon DEF SectionsAreAtomic
<1>5. InitialisedBeforeUse' /\ SnapshotsConsistent' /\ Untouched'
  BY Zenon DEF InitialisedBeforeUse, SnapshotsConsistent, Untouched
<1>6. \A u \in Threads : CallState(u)'
  BY Zenon DEF CallState
<1> QED BY <1>4, <1>5, <1>6

LEMMA SimInvStep == SimInv /\ [Next]_vars => SimInv'
<1> SUFFICES ASSUME SimInv, NEW t \in Threads,
                    Calling(t) \/ pcie_sim_close_linux(t) \/ Running(t)
             PROVE  SimInv'
  BY SimInvStutters DEF Next
<1>1. CASE Calling(t) \/ pcie_sim_close_linux(t)
  BY <1>1, CallingStep, CloseStep
<1>2. CASE Opening(t)
  BY <1>2, InitStep, WaitingStep, ErrorStep DEF Opening
<1>3. CASE Inside(t)
  BY <1>3, OpenStep, CountStep, LatencyStep, GetStep, ResetStep DEF Inside
<1>4. CASE transfer_delay(t) \/ Lock(t) \/ Unlock(t) \/ param_error(t) \/ Return(t)
  BY <1>4, WaitingStep, LockStep, UnlockStep, ErrorStep, ReturnStep, Zenon
<1> QED BY <1>1, <1>2, <1>3, <1>4 DEF Running

LEMMA SimInvariant == Spec => []SimInv
BY SimInvInit, SimInvStep, PTL DEF Spec

\* One thread at a time is between lock and unlock of a device, and what it has
\* done to the statistics is a prefix of its section (linux_sim.c:134-143,
\* 197-215, 233-235, 249-251), for any number of threads and devices.
THEOREM DeviceMutexesWork == Spec => []SectionsAreAtomic
BY SimInvariant, PTL DEF SimInv

\* The device table is initialised once, by one thread, before any device is
\* used, and a handle's device is active (linux_sim.c:70-81, 152-160).
THEOREM TableIsInitialisedOnce == Spec => []InitialisedBeforeUse
BY SimInvariant, PTL DEF SimInv

\* pcie_sim_get_stats returns consistent statistics (linux_sim.c:198-214, 233-235),
\* for any number of threads and devices, sizes and latencies.
THEOREM StatisticsConsistent == Spec => []SnapshotsConsistent
BY SimInvariant, PTL DEF SimInv

-----------------------------------------------------------------------------
\* The calls on a device implement the atomic statistics object.

\* The calls that the object sees: those on the watched device, except opens.
Visible(t) == op[t] \in {"transfer", "get", "reset"} /\ dev[t] = Watched

LEMMA ObjectInit == Init => Device!Init
<1> SUFFICES ASSUME Init PROVE Device!Init
  OBVIOUS
<1>1. ASSUME NEW t \in Threads
      PROVE  SimCall(t) = Device!Idle /\ SimAnswer(t) = Device!NoAnswer
  <2>1. op[t] = "none"
    BY DEF Init
  <2> QED BY <2>1, Zenon DEF SimCall, SimAnswer, Device!Idle, NoAnswer, Device!NoAnswer
<1>2. committed[Watched] = Zero
  BY LinuxAssumption DEF Init
<1> QED BY <1>1, <1>2, Zenon DEF Init, Device!Init, Calls, Answers

\* The part of a thread that the mapping reads.
Same(u) ==
  /\ pc'[u] = pc[u] /\ op'[u] = op[u] /\ dev'[u] = dev[u]
  /\ size'[u] = size[u] /\ ret'[u] = ret[u]

\* A step of one thread keeps the calls and answers of the others.
LEMMA OthersKeep ==
  ASSUME NEW t \in Threads, \A u \in Threads \ {t} : Same(u)
  PROVE  /\ Calls' = [Calls EXCEPT ![t] = SimCall(t)']
         /\ Answers' = [Answers EXCEPT ![t] = SimAnswer(t)']
         /\ Calls[t] = SimCall(t) /\ Answers[t] = SimAnswer(t)
         /\ SimCall(t)' = SimCall(t) => Calls' = Calls
         /\ SimAnswer(t)' = SimAnswer(t) => Answers' = Answers
<1>1. \A u \in Threads \ {t} : SimCall(u)' = SimCall(u) /\ SimAnswer(u)' = SimAnswer(u)
  BY Zenon DEF SimCall, SimAnswer, Same
<1> QED BY <1>1, Zenon DEF Calls, Answers

\* The answers of the backend and of the object are the same values.
LEMMA SameAnswers ==
  /\ \A v : Ok(v) = Device!Ok(v) /\ OkStats(v) = Device!OkStats(v) /\ Error(v) = Device!Error(v)
  /\ NoAnswer = Device!NoAnswer
BY Zenon DEF Ok, OkStats, Error, NoAnswer, Device!Ok, Device!OkStats, Device!Error, Device!NoAnswer

\* What the object sees of a thread.
LEMMA CallOf ==
  ASSUME NEW t \in Threads
  PROVE  /\ ~Visible(t) => SimCall(t) = Device!Idle /\ SimAnswer(t) = NoAnswer
         /\ pc[t] # "return" => SimAnswer(t) = NoAnswer
         /\ Visible(t) /\ pc[t] = "return" =>
              SimCall(t) = Device!Returning /\ SimAnswer(t) = ret[t]
         /\ Visible(t) /\ pc[t] # "return" =>
              /\ op[t] = "transfer" => SimCall(t) = [op |-> "transfer", size |-> size[t]]
              /\ op[t] = "get" => SimCall(t) = [op |-> "get"]
              /\ op[t] = "reset" => SimCall(t) = [op |-> "reset"]
BY Zenon DEF Visible, SimCall, SimAnswer, Device!Idle, Device!Returning

\* The fields of a call.
LEMMA TransferCall ==
  ASSUME NEW c, NEW s, c = [op |-> "transfer", size |-> s]
  PROVE  c.op = "transfer" /\ c.size = s
OBVIOUS

LEMMA PlainCall ==
  ASSUME NEW c, NEW o, c = [op |-> o]
  PROVE  c.op = o
OBVIOUS

LEMMA CallIsOperation ==
  ASSUME NEW t \in Threads, Visible(t), pc[t] # "return", op[t] = "transfer" => size[t] \in Sizes
  PROVE  SimCall(t) \in Device!Operations
<1>1. CASE op[t] = "transfer"
  <2>1. SimCall(t) = [op |-> "transfer", size |-> size[t]] /\ size[t] \in Sizes
    BY <1>1, CallOf, Zenon
  <2> QED BY <2>1 DEF Device!Operations
<1>2. CASE op[t] \in {"get", "reset"}
  <2>1. SimCall(t) = [op |-> "get"] \/ SimCall(t) = [op |-> "reset"]
    BY <1>2, CallOf, Zenon
  <2> QED BY <2>1 DEF Device!Operations
<1> QED BY <1>1, <1>2, Zenon DEF Visible

\* The same in the next state.
LEMMA NextCallIsOperation ==
  ASSUME NEW t \in Threads, Visible(t)', pc'[t] # "return", op'[t] = "transfer" => size'[t] \in Sizes
  PROVE  SimCall(t)' \in Device!Operations
<1>1. CASE op'[t] = "transfer"
  <2>1. SimCall(t)' = [op |-> "transfer", size |-> size'[t]] /\ size'[t] \in Sizes
    BY <1>1, Zenon DEF Visible, SimCall
  <2> QED BY <2>1 DEF Device!Operations
<1>2. CASE op'[t] \in {"get", "reset"}
  <2>1. SimCall(t)' \in [op : {"get", "reset", "other"}]
    BY <1>2, Zenon DEF Visible, SimCall
  <2> QED BY <2>1, Zenon DEF Device!Operations
<1> QED BY <1>1, <1>2, Zenon DEF Visible

Stutter == UNCHANGED <<committed[Watched], Calls, Answers>>

\* Calls are the invocations of the object, or invisible to it.
LEMMA CallRefines ==
  ASSUME SimInv, NEW t \in Threads, Calling(t)
  PROVE  Device!Next \/ Stutter
<1>1. TypeOK
  BY DEF SimInv, SectionsAreAtomic
<1>2. /\ pc[t] = "idle" /\ pc'[t] # "return" /\ UNCHANGED <<ret, committed>>
      /\ op'[t] = "transfer" => size'[t] \in Sizes
      /\ \A u \in Threads \ {t} : Same(u)
  BY <1>1, Zenon DEF Calling, pcie_sim_open_linux, pcie_sim_transfer_linux, pcie_sim_get_stats_linux,
              pcie_sim_reset_stats_linux, Call, Goto, TypeOK, Same
<1>3. op[t] = "none" /\ ~Visible(t)
  BY <1>2, Zenon DEF SimInv, CallState, Visible
<1>4. SimCall(t) = Device!Idle /\ SimAnswer(t) = NoAnswer /\ SimAnswer(t)' = NoAnswer
  BY <1>2, <1>3, CallOf, Zenon DEF SimAnswer
<1>5. CASE Visible(t)'
  <2>1. SimCall(t)' \in Device!Operations
    BY <1>2, <1>5, NextCallIsOperation, Zenon
  <2>2. Device!Invoke(t, SimCall(t)')
    BY <1>2, <1>4, OthersKeep, Zenon DEF Device!Invoke
  <2> QED BY <2>1, <2>2 DEF Device!Next
<1>6. CASE ~Visible(t)'
  <2>1. SimCall(t)' = SimCall(t)
    BY <1>4, <1>6, Zenon DEF Visible, SimCall, Device!Idle
  <2> QED BY <1>2, <1>4, <2>1, OthersKeep, Zenon DEF Stutter
<1> QED BY <1>5, <1>6

\* Everything before a call's release of the mutex is invisible, and so is an open.
Invisible(t) ==
  /\ UNCHANGED <<op, dev, size, committed>>
  /\ \A u \in Threads \ {t} : pc'[u] = pc[u] /\ ret'[u] = ret[u]
  /\ ~Visible(t) \/ (pc[t] # "return" /\ pc'[t] # "return")

LEMMA InvisibleStutters ==
  ASSUME NEW t \in Threads, Invisible(t)
  PROVE  Stutter
<1>1. \A u \in Threads \ {t} : Same(u)
  BY Zenon DEF Invisible, Same
<1>2. SimCall(t)' = SimCall(t) /\ SimAnswer(t)' = SimAnswer(t)
  BY Zenon DEF Invisible, SimCall, SimAnswer, Visible
<1> QED BY <1>1, <1>2, OthersKeep, Zenon DEF Invisible, Stutter

LEMMA InsideInvisible ==
  ASSUME SimInv, NEW t \in Threads,
         pcie_sim_close_linux(t) \/ Opening(t) \/ transfer_delay(t) \/ Lock(t) \/ Inside(t)
  PROVE  Invisible(t)
<1>1. TypeOK /\ CallState(t)
  BY Zenon DEF SimInv, SectionsAreAtomic
<1>2. DOMAIN pc = Threads /\ DOMAIN ret = Threads
  BY <1>1, Zenon DEF TypeOK
<1>3. CASE pcie_sim_close_linux(t)
  BY <1>3, Zenon DEF pcie_sim_close_linux, locals, Invisible
<1>4. CASE linux_sim_init_lock(t) \/ linux_sim_init_device(t)
  BY <1>2, <1>4, Zenon DEF linux_sim_init_lock, linux_sim_init_device, Goto, locals, Invisible
<1>5. CASE linux_sim_init_done(t) \/ linux_sim_init_unlock(t) \/ open_malloc(t)
  BY <1>2, <1>5, Zenon DEF linux_sim_init_done, linux_sim_init_unlock, open_malloc, Goto, locals, Invisible
<1>6. CASE open_malloc_fails(t)
  <2>1. op[t] = "open"
    BY <1>1, <1>6, Zenon DEF open_malloc_fails, CallState
  <2>2. /\ UNCHANGED <<op, dev, size, committed>>
        /\ \A u \in Threads \ {t} : pc'[u] = pc[u] /\ ret'[u] = ret[u]
    BY <1>2, <1>6, Zenon DEF open_malloc_fails, Goto, Answer, locals
  <2>3. ~Visible(t)
    BY <2>1, Zenon DEF Visible
  <2> QED BY <2>2, <2>3, Zenon DEF Invisible
<1>7. CASE transfer_delay(t) \/ Lock(t)
  BY <1>2, <1>7, Zenon DEF transfer_delay, Lock, Goto, locals, Invisible
<1>8. CASE open_activate(t) \/ transfer_count(t) \/ transfer_latency(t)
  BY <1>2, <1>8, Zenon DEF open_activate, transfer_count, transfer_latency, Goto, Answer, locals, Invisible
<1>9. CASE get_copy(t) \/ reset_clear(t)
  BY <1>2, <1>9, Zenon DEF get_copy, reset_clear, Goto, Answer, locals, Invisible
<1> QED BY <1>3, <1>4, <1>5, <1>6, <1>7, <1>8, <1>9, Zenon DEF Opening, Inside

\* A visible call that takes effect answers what it will return.
LEMMA EffectRefines ==
  ASSUME SimInv, NEW t \in Threads, Visible(t), pc[t] # "return", pc' = [pc EXCEPT ![t] = "return"],
         UNCHANGED <<op, dev, size>>, \A u \in Threads \ {t} : ret'[u] = ret[u]
  PROVE  /\ Device!Effect(t, ret'[t])
         /\ Calls[t] = SimCall(t) /\ Calls[t] \in Device!Operations
<1>1. pc'[t] = "return" /\ \A u \in Threads \ {t} : Same(u)
  BY Zenon DEF SimInv, SectionsAreAtomic, TypeOK, Same
<1>2. SimCall(t)' = Device!Returning /\ SimAnswer(t)' = ret'[t]
  BY <1>1, Zenon DEF Visible, SimCall, SimAnswer, Device!Returning
<1>3. SimCall(t) \in Device!Operations
  BY CallIsOperation, Zenon DEF SimInv, CallState
<1> QED BY <1>1, <1>2, <1>3, OthersKeep, Zenon DEF Device!Effect

\* A call with bad parameters is refused.
LEMMA ParamRefines ==
  ASSUME SimInv, NEW t \in Threads, param_error(t)
  PROVE  Device!Next \/ Stutter
<1>1. /\ pc[t] = "param" /\ pc' = [pc EXCEPT ![t] = "return"] /\ pc'[t] = "return"
      /\ UNCHANGED <<op, dev, size, committed>>
      /\ ret'[t] = Error("PARAM") /\ \A u \in Threads \ {t} : pc'[u] = pc[u] /\ ret'[u] = ret[u]
  BY Zenon DEF param_error, Goto, Answer, locals, SimInv, SectionsAreAtomic, TypeOK
<1>2. CASE Visible(t)
  <2>1. Device!Effect(t, Device!Error("PARAM")) /\ Calls[t] \in Device!Operations
    BY <1>1, <1>2, EffectRefines, SameAnswers, Zenon
  <2>2. "PARAM" \in ErrorCodes
    BY DEF ErrorCodes
  <2>3. Device!Refuse(t)
    BY <1>1, <2>1, <2>2, Zenon DEF Device!Refuse
  <2> QED BY <2>3 DEF Device!Next
<1>3. CASE ~Visible(t)
  <2>1. Invisible(t)
    BY <1>1, <1>3, Zenon DEF Invisible
  <2> QED BY <2>1, InvisibleStutters
<1> QED BY <1>2, <1>3

\* Releasing the mutex is the instant at which a call takes effect.
LEMMA UnlockRefines ==
  ASSUME SimInv, NEW t \in Threads, Unlock(t)
  PROVE  Device!Next \/ Stutter
<1> DEFINE s == stats[dev[t]]
           c == committed[dev[t]]
<1>1. /\ pc[t] = "unlock" /\ pc' = [pc EXCEPT ![t] = "return"] /\ pc'[t] = "return"
      /\ \A u \in Threads \ {t} : pc'[u] = pc[u]
      /\ committed' = [committed EXCEPT ![dev[t]] = s]
      /\ UNCHANGED <<op, dev, size, lat, ret>>
  BY Zenon DEF Unlock, Goto, locals, SimInv, SectionsAreAtomic, TypeOK
<1>2. /\ dev[t] \in Devices /\ op[t] \in Ops \ {"none"} /\ Outcome(t)
      /\ committed \in [Devices -> [Fields -> Nat]]
  <2>1. pc[t] \in Holding
    BY <1>1, Zenon DEF Holding
  <2>2. dev[t] \in Devices /\ op[t] \in Ops \ {"none"}
    BY <2>1, InsideState, Zenon
  <2> QED BY <1>1, <2>2, OutcomeConsistent, Zenon DEF SimInv, SectionsAreAtomic, TypeOK
<1>3. CASE ~Visible(t)
  <2>1. committed'[Watched] = committed[Watched]
    <3>1. CASE dev[t] # Watched
      BY <1>1, <1>2, <3>1, LinuxAssumption, Zenon
    <3>2. CASE op[t] = "open"
      <4>1. s = c
        BY <1>2, <3>2, Zenon DEF Outcome
      <4> QED BY <1>1, <1>2, <4>1, Zenon
    <3> QED BY <1>2, <1>3, <3>1, <3>2, Zenon DEF Visible, Ops
  <2>2. \A u \in Threads \ {t} : Same(u)
    BY <1>1, Zenon DEF Same
  <2>3. SimCall(t)' = SimCall(t) /\ SimAnswer(t)' = SimAnswer(t)
    BY <1>1, <1>3, Zenon DEF SimCall, SimAnswer, Visible
  <2> QED BY <2>1, <2>2, <2>3, OthersKeep, Zenon DEF Stutter
<1>4. CASE Visible(t)
  <2>1. dev[t] = Watched /\ committed'[Watched] = s /\ committed[Watched] = c
    BY <1>1, <1>2, <1>4, Zenon DEF Visible
  <2>2. /\ Device!Effect(t, ret[t]) /\ Calls[t] = SimCall(t)
        /\ pc[t] # "return"
    BY <1>1, <1>4, EffectRefines, Zenon
  <2>3. CASE op[t] = "transfer" /\ lat[t] \in Latencies /\ s = Account(c, size[t], lat[t])
             /\ ret[t] = Ok(lat[t])
    <3>1. Calls[t] = [op |-> "transfer", size |-> size[t]]
      BY <1>4, <2>2, <2>3, CallOf, Zenon
    <3>2. Calls[t].op = "transfer" /\ Calls[t].size = size[t]
      BY <3>1, TransferCall, Zenon
    <3>3. Device!Effect(t, Device!Ok(lat[t]))
      BY <2>2, <2>3, SameAnswers, Zenon
    <3>4. Device!Transfer(t)
      BY <2>1, <2>3, <3>2, <3>3, Zenon DEF Device!Transfer
    <3> QED BY <3>4 DEF Device!Next
  <2>4. CASE op[t] = "get" /\ s = c /\ ret[t] = OkStats(c)
    <3>1. Calls[t] = [op |-> "get"]
      BY <1>4, <2>2, <2>4, CallOf, Zenon
    <3>2. Calls[t].op = "get"
      BY <3>1, PlainCall, Zenon
    <3>3. Device!Effect(t, Device!OkStats(committed[Watched]))
      BY <2>1, <2>2, <2>4, SameAnswers, Zenon
    <3>4. Device!Get(t)
      BY <2>1, <2>4, <3>2, <3>3, Zenon DEF Device!Get
    <3> QED BY <3>4 DEF Device!Next
  <2>5. CASE op[t] = "reset" /\ s = Zero /\ ret[t] = Ok(0)
    <3>1. Calls[t] = [op |-> "reset"]
      BY <1>4, <2>2, <2>5, CallOf, Zenon
    <3>2. Calls[t].op = "reset"
      BY <3>1, PlainCall, Zenon
    <3>3. Device!Effect(t, Device!Ok(0))
      BY <2>2, <2>5, SameAnswers, Zenon
    <3>4. Device!Reset(t)
      BY <2>1, <2>5, <3>2, <3>3, Zenon DEF Device!Reset
    <3> QED BY <3>4 DEF Device!Next
  <2>6. op[t] # "open"
    BY <1>4, Zenon DEF Visible
  <2> QED BY <1>2, <2>3, <2>4, <2>5, <2>6, Zenon DEF Outcome
<1> QED BY <1>3, <1>4

LEMMA ReturnRefines ==
  ASSUME SimInv, NEW t \in Threads, Return(t)
  PROVE  Device!Next \/ Stutter
<1>1. /\ pc[t] = "return" /\ op'[t] = "none" /\ committed' = committed
      /\ \A u \in Threads \ {t} : Same(u)
  BY Zenon DEF Return, Goto, Answer, SimInv, SectionsAreAtomic, TypeOK, Same
<1>2. SimCall(t)' = Device!Idle /\ SimAnswer(t)' = Device!NoAnswer
  BY <1>1, SameAnswers, Zenon DEF SimCall, SimAnswer, Device!Idle
<1>3. CASE Visible(t)
  <2>1. SimCall(t) = Device!Returning
    BY <1>1, <1>3, CallOf, Zenon
  <2>2. Device!Return(t)
    BY <1>1, <1>2, <2>1, OthersKeep, Zenon DEF Device!Return
  <2> QED BY <2>2 DEF Device!Next
<1>4. CASE ~Visible(t)
  <2>1. SimCall(t) = Device!Idle /\ SimAnswer(t) = Device!NoAnswer
    BY <1>4, CallOf, SameAnswers, Zenon
  <2> QED BY <1>1, <1>2, <2>1, OthersKeep, Zenon DEF Stutter
<1> QED BY <1>3, <1>4

\* Every step of the backend is a step of the object or leaves it unchanged.
LEMMA StepRefines == SimInv /\ [Next]_vars => [Device!Next]_(Device!svars)
<1> SUFFICES ASSUME SimInv, [Next]_vars
             PROVE  Device!Next \/ Stutter
  BY DEF Device!svars, Stutter
<1>1. CASE UNCHANGED vars
  BY <1>1, Zenon DEF vars, locals, Stutter, Calls, Answers, SimCall, SimAnswer
<1>2. ASSUME NEW t \in Threads, Calling(t) \/ pcie_sim_close_linux(t) \/ Running(t)
      PROVE  Device!Next \/ Stutter
  <2>1. CASE Calling(t)
    BY <2>1, CallRefines
  <2>2. CASE pcie_sim_close_linux(t) \/ Opening(t) \/ transfer_delay(t) \/ Lock(t) \/ Inside(t)
    BY <2>2, InsideInvisible, InvisibleStutters, Zenon
  <2>3. CASE Unlock(t) \/ param_error(t) \/ Return(t)
    BY <2>3, UnlockRefines, ParamRefines, ReturnRefines
  <2> QED BY <1>2, <2>1, <2>2, <2>3, Zenon DEF Running
<1> QED BY <1>1, <1>2 DEF Next

\* Each device of the backend implements an atomic statistics object: a call
\* takes effect at one instant, on its own device only, and a rejected call not
\* at all (linux_sim.c:165-254), for any number of threads and devices.
THEOREM BackendImplementsStatsObject == Spec => ImplementsStatsObject
BY ObjectInit, StepRefines, SimInvariant, PTL DEF Spec, ImplementsStatsObject, Device!Spec
=============================================================================
