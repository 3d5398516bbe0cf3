--------------------------- MODULE WindowsSimProofs ---------------------------
(***************************************************************************)
(* Theorems about WindowsSim, for any number of threads, devices and mutex *)
(* objects, any device numbers, sizes and latencies, in programs that have *)
(* initialised the table before they start their threads, or that use the  *)
(* library from one thread (Solo).  Without that condition they are false: *)
(* two first opens race in windows_sim_init.  The inductive invariant      *)
(* WinInv says what each thread knows about its call (CallState), who may  *)
(* be where while the table is not initialised (Phases), and what the      *)
(* table is before, during and after its initialisation.                   *)
(***************************************************************************)
EXTENDS WindowsSim, FiniteSetTheorems, TLAPS

-----------------------------------------------------------------------------
\* One thread makes the first calls.
Solo == \A t \in Starters, u \in Starters : t = u

Holding == {"body", "latency", "release"}
AtDevice == {"active", "wait"} \cup Holding
Opened == {"enter", "section_body", "leave", "malloc"}

\* What a thread knows about its call.
CallState(t) ==
  /\ pc[t] = "idle" <=> op[t] = "none"
  /\ pc[t] \in {"init", "section", "loop", "malloc"} => op[t] = "open"
  /\ pc[t] \in {"enter", "section_body", "leave"} => op[t] \in {"open", "close"}
  /\ pc[t] \in AtDevice => op[t] \in {"transfer", "get", "reset"}
  /\ pc[t] \notin {"idle", "param", "return"} => dev[t] \in Devices
  /\ op[t] = "open" /\ pc[t] # "return" => handle[t] = Closed
  /\ op[t] = "close" => handle[t] = Closed
  /\ pc[t] \notin {"leave", "release", "return"} => ret[t] = NoAnswer
  /\ pc[t] = "leave" => ret[t] \in {NoAnswer, Ok(0), Error("DEVICE")}
  /\ op[t] = "transfer" => size[t] \in Sizes
  /\ op[t] = "transfer" /\ pc[t] \in AtDevice => size[t] # 0 /\ size[t] <= MaxSize
  /\ pc[t] \notin Opened \cup {"loop", "return"} => loop[t] = 0

\* Which threads may be where before and after the initialisation.
Phases ==
  /\ started => initialized
  /\ \A t \in Threads :
       /\ pc[t] \in {"section", "loop"} => ~initialized
       /\ pc[t] \in Opened \cup Holding \cup {"wait"} => initialized
  /\ ~started => \A t \in Threads \ Starters : pc[t] = "idle" /\ handle[t] = Closed

\* The mutexes and statistics of an initialised table.
Guarded ==
  /\ \A d \in Devices : mutex[d] \in MutexIds /\ owner[mutex[d]] # Nil
  /\ \A d \in Devices, e \in Devices : mutex[d] = mutex[e] => d = e
  /\ \A m \in MutexIds : owner[m] # Nil => \E d \in Devices : mutex[d] = m
  /\ \A d \in Devices, t \in Threads :
       owner[mutex[d]] = t <=> pc[t] \in Holding /\ dev[t] = d
  /\ \A d \in Devices : owner[mutex[d]] = Free => stats[d] = committed[d]
  /\ \A d \in Devices : Consistent(committed[d])

\* Its active flags.
Marked ==
  /\ ExclusiveOpen
  /\ \A d \in Devices : active[d] <=> \E t \in Threads : InUse(t, d)

\* What t has built of a table it is initialising.
Built(t) ==
  /\ \A d \in 0 .. loop[t] - 1 :
       mutex[d] \in MutexIds /\ owner[mutex[d]] = Free /\ stats[d] = Zero
  /\ \A d \in 0 .. loop[t] - 1, e \in 0 .. loop[t] - 1 : mutex[d] = mutex[e] => d = e
  /\ \A m \in MutexIds : owner[m] # Nil => \E d \in 0 .. loop[t] - 1 : mutex[d] = m

\* The table while it is not initialised.
Unmade ==
  /\ \A d \in Devices : ~active[d]
  /\ (\A t \in Threads : pc[t] # "loop") => \A m \in MutexIds : owner[m] = Nil
  /\ \A t \in Threads : pc[t] = "loop" => Built(t)

\* What the call of t has done to its device when it is about to release it.
Outcome(t) ==
  LET s == stats[dev[t]]
      c == committed[dev[t]]
  IN  \/ /\ op[t] = "transfer" /\ lat[t] \in Latencies
         /\ s = Account(c, size[t], lat[t]) /\ ret[t] = Ok(lat[t])
      \/ op[t] = "get" /\ s = c /\ ret[t] = OkStats(c)
      \/ op[t] = "reset" /\ s = Zero /\ ret[t] = Ok(0)

Progress(t) ==
  /\ pc[t] = "body" => stats[dev[t]] = committed[dev[t]]
  /\ pc[t] = "latency" =>
       /\ op[t] = "transfer" /\ lat[t] \in Latencies
       /\ stats[dev[t]] = Counted(committed[dev[t]], size[t])
  /\ pc[t] = "release" => Outcome(t)

Snapshot(t) == op[t] = "get" /\ ret[t].code = "ok" => Consistent(ret[t].stats)

WinInv ==
  /\ TypeOK
  /\ Phases
  /\ initialized => Guarded /\ Marked
  /\ ~initialized => Unmade
  /\ \A t \in Threads : CallState(t) /\ Progress(t) /\ Snapshot(t)

-----------------------------------------------------------------------------
\* Arithmetic of the running average.

LEMMA Quotient ==
  ASSUME NEW x \in Nat, NEW k \in Nat, k # 0
  PROVE  /\ x \div k \in Nat
         /\ k * (x \div k) <= x /\ x < k * (x \div k) + k
OBVIOUS

\* Products keep the order.
LEMMA ProductOrder ==
  ASSUME NEW a \in Nat, NEW b \in Nat, NEW k \in Nat, a <= b
  PROVE  a * k \in Nat /\ a * k <= b * k
OBVIOUS

\* A quotient lies between two bounds when the dividend lies between their
\* multiples.
LEMMA QuotientBounds ==
  ASSUME NEW x \in Nat, NEW k \in Nat, k # 0, NEW low \in Nat, NEW high \in Nat,
         low * k <= x, x <= high * k
  PROVE  low <= x \div k /\ x \div k <= high
<1>1. PICK q : q = x \div k
  BY Zenon
<1>2. q \in Nat /\ k * q <= x /\ x < k * q + k
  BY <1>1, Quotient
<1>3. low <= q
  <2>1. SUFFICES ASSUME q + 1 <= low PROVE FALSE
    BY <1>2
  <2>2. (q + 1) * k <= low * k
    BY <1>2, <2>1, ProductOrder
  <2>3. (q + 1) * k = k * q + k
    BY <1>2
  <2> QED BY <1>2, <2>2, <2>3
<1>4. q <= high
  <2>1. SUFFICES ASSUME high + 1 <= q PROVE FALSE
    BY <1>2
  <2>2. (high + 1) * k <= q * k
    BY <1>2, <2>1, ProductOrder
  <2>3. (high + 1) * k = high * k + k /\ q * k = k * q
    BY <1>2
  <2> QED BY <1>2, <2>2, <2>3
<1> QED BY <1>1, <1>3, <1>4, Zenon

\* The average of k - 1 transfers of mean a and one of l.
LEMMA WeightedMean ==
  ASSUME NEW a \in Nat, NEW l \in Nat, NEW k \in Nat, k # 0,
         NEW low \in Nat, low <= a, low <= l,
         NEW high \in Nat, a <= high, l <= high
  PROVE  /\ (a * (k - 1) + l) \div k \in Nat
         /\ low <= (a * (k - 1) + l) \div k
         /\ (a * (k - 1) + l) \div k <= high
<1>1. PICK j \in Nat : j = k - 1
  OBVIOUS
<1>2. a * j \in Nat /\ low * j <= a * j /\ a * j <= high * j
  BY ProductOrder
<1>3. PICK x : x = a * j + l
  BY Zenon
<1>4. x \in Nat
  BY <1>2, <1>3
<1>5. low * k = low * j + low /\ high * k = high * j + high
  <2>1. k = j + 1
    BY <1>1
  <2> QED BY <2>1
<1>6. low * j \in Nat /\ high * j \in Nat
  OBVIOUS
<1>7. low * k <= x /\ x <= high * k
  BY <1>2, <1>3, <1>5, <1>6
<1>8. x \div k \in Nat /\ low <= x \div k /\ x \div k <= high
  BY <1>4, <1>7, QuotientBounds, Quotient
<1> QED BY <1>1, <1>3, <1>8, Zenon

-----------------------------------------------------------------------------
\* What the assignments of a transfer's accounting yield.

LEMMA ClosedIsNoDevice ==
  Closed \notin Devices /\ Free \notin Threads /\ Nil \notin Threads /\ Nil # Free
BY WindowsAssumption DEF Closed, Devices

LEMMA TimesAndSizes ==
  /\ \A n \in Sizes : n \in Nat
  /\ \A l \in Latencies : l \in Nat /\ l < UINT64_MAX
<1>1. ASSUME NEW l \in Latencies PROVE l \in Nat /\ l < UINT64_MAX
  <2>1. l \in 0 .. UINT64_MAX - 1 /\ UINT64_MAX \in Nat
    BY WindowsAssumption, Zenon
  <2> QED BY <2>1
<1> QED BY <1>1, WindowsAssumption, Zenon

LEMMA ZeroConsistent ==
  /\ Zero \in Statistics /\ Consistent(Zero)
  /\ [f \in Fields |-> 0] \in Statistics
  /\ Zero["min"] = UINT64_MAX /\ Zero["max"] = 0 /\ Zero["avg"] = 0
  /\ Zero["transfers"] = 0 /\ Zero["bytes"] = 0
<1>1. Zero \in Statistics /\ [f \in Fields |-> 0] \in Statistics
  BY WindowsAssumption DEF Zero, Statistics
<1>2. /\ Zero["min"] = UINT64_MAX /\ Zero["max"] = 0 /\ Zero["avg"] = 0
      /\ Zero["transfers"] = 0 /\ Zero["bytes"] = 0
  BY DEF Zero, Fields
<1>3. 0 <= 0 * MaxSize
  BY WindowsAssumption
<1>4. Consistent(Zero)
  BY <1>2, <1>3 DEF Consistent
<1> QED BY <1>1, <1>2, <1>4, Zenon

LEMMA CountedValues ==
  ASSUME NEW s \in Statistics, NEW n \in Nat
  PROVE  /\ Counted(s, n) \in Statistics
         /\ Counted(s, n)["transfers"] = s["transfers"] + 1
         /\ Counted(s, n)["bytes"] = s["bytes"] + n
         /\ \A f \in {"errors", "avg", "min", "max"} : Counted(s, n)[f] = s[f]
<1> DEFINE a == [s EXCEPT !["transfers"] = s["transfers"] + 1]
<1>1. a \in Statistics /\ a["bytes"] = s["bytes"]
  BY DEF Fields, Statistics
<1>2. Counted(s, n) = [a EXCEPT !["bytes"] = a["bytes"] + n]
  BY DEF Counted
<1> QED BY <1>1, <1>2 DEF Fields, Statistics

\* The average after a transfer in time l.
Mean(s, l) ==
  IF s["transfers"] = 1 THEN l
  ELSE (s["avg"] * (s["transfers"] - 1) + l) \div s["transfers"]

LEMMA TimedValues ==
  ASSUME NEW s \in Statistics, NEW l \in Nat, Mean(s, l) \in Nat
  PROVE  /\ Timed(s, l) \in Statistics
         /\ \A f \in {"transfers", "bytes", "errors"} : Timed(s, l)[f] = s[f]
         /\ Timed(s, l)["min"] = IF l < s["min"] THEN l ELSE s["min"]
         /\ Timed(s, l)["max"] = IF l > s["max"] THEN l ELSE s["max"]
         /\ Timed(s, l)["avg"] = Mean(s, l)
<1> DEFINE low == IF l < s["min"] THEN l ELSE s["min"]
           high == IF l > s["max"] THEN l ELSE s["max"]
           a == [s EXCEPT !["min"] = low]
           b == [a EXCEPT !["max"] = high]
           c == [b EXCEPT !["avg"] = Mean(s, l)]
<1>1. low \in Nat /\ high \in Nat
  BY DEF Statistics, Fields
<1>2. s \in [Fields -> Nat]
  BY Zenon DEF Statistics
<1>3. a["max"] = s["max"] /\ b["avg"] = s["avg"]
  BY <1>2, Zenon DEF Fields
<1>4. Timed(s, l) = c
  BY <1>3 DEF Timed, Mean
<1> HIDE DEF low, high
<1>5. c \in [Fields -> Nat]
  BY <1>1, <1>2, Zenon DEF Fields
<1>6. /\ \A f \in {"transfers", "bytes", "errors"} : c[f] = s[f]
      /\ c["min"] = low /\ c["max"] = high /\ c["avg"] = Mean(s, l)
  BY <1>2, Zenon DEF Fields
<1> HIDE DEF a, b, c
<1> QED BY <1>4, <1>5, <1>6, Zenon DEF low, high, Statistics

LEMMA MeanType ==
  ASSUME NEW s \in Statistics, s["transfers"] # 0, NEW l \in Nat
  PROVE  Mean(s, l) \in Nat
<1>1. PICK a, k : a = s["avg"] /\ k = s["transfers"]
  BY Zenon
<1>2. a \in Nat /\ k \in Nat /\ k # 0
  BY <1>1 DEF Statistics, Fields
<1>3. (a * (k - 1) + l) \div k \in Nat
  <2>1. a + l \in Nat /\ 0 <= a /\ 0 <= l /\ a <= a + l /\ l <= a + l
    BY <1>2
  <2> QED BY <1>2, <2>1, WeightedMean
<1> QED BY <1>1, <1>3 DEF Mean

LEMMA AccountTypes ==
  ASSUME NEW s \in Statistics, NEW n \in Nat, NEW l \in Nat
  PROVE  Counted(s, n) \in Statistics /\ Account(s, n, l) \in Statistics
<1>1. PICK c : c = Counted(s, n)
  BY Zenon
<1>2. c \in Statistics /\ c["transfers"] = s["transfers"] + 1
  BY <1>1, CountedValues, Zenon
<1>3. s["transfers"] \in Nat
  BY DEF Statistics, Fields
<1>4. c["transfers"] # 0
  BY <1>2, <1>3
<1>5. Timed(c, l) \in Statistics
  BY <1>2, <1>4, MeanType, TimedValues, Zenon
<1> QED BY <1>1, <1>2, <1>5, Zenon DEF Account

\* Accounting a valid transfer keeps the statistics consistent.
LEMMA AccountConsistent ==
  ASSUME NEW s \in Statistics, Consistent(s), NEW n \in Nat, n # 0, n <= MaxSize,
         NEW l \in Nat, l < UINT64_MAX
  PROVE  Consistent(Account(s, n, l))
<1>1. PICK c : c = Counted(s, n)
  BY Zenon
<1>2. PICK v : v = Timed(c, l)
  BY Zenon
<1>3. /\ c \in Statistics
      /\ c["transfers"] = s["transfers"] + 1 /\ c["bytes"] = s["bytes"] + n
      /\ c["avg"] = s["avg"] /\ c["min"] = s["min"] /\ c["max"] = s["max"]
  BY <1>1, CountedValues, Zenon
<1>4. /\ s["transfers"] \in Nat /\ s["bytes"] \in Nat /\ s["avg"] \in Nat
      /\ s["min"] \in Nat /\ s["max"] \in Nat
  BY DEF Statistics, Fields
<1>5. Mean(c, l) \in Nat
  <2>1. c["transfers"] # 0
    BY <1>3, <1>4
  <2> QED BY <1>3, <2>1, MeanType, Zenon
<1>6. /\ v["transfers"] = c["transfers"] /\ v["bytes"] = c["bytes"]
      /\ v["min"] = (IF l < c["min"] THEN l ELSE c["min"])
      /\ v["max"] = (IF l > c["max"] THEN l ELSE c["max"])
      /\ v["avg"] = Mean(c, l)
  BY <1>2, <1>3, <1>5, TimedValues, Zenon
<1>7. UINT64_MAX \in Nat /\ MaxSize \in Nat
  BY WindowsAssumption
<1>8. v["transfers"] <= v["bytes"] /\ v["bytes"] <= v["transfers"] * MaxSize
  <2>1. PICK t, b : t = s["transfers"] /\ b = s["bytes"]
    BY Zenon
  <2>2. t \in Nat /\ b \in Nat /\ t <= b /\ b <= t * MaxSize
    BY <1>4, <2>1, Zenon DEF Consistent
  <2>3. (t + 1) * MaxSize = t * MaxSize + MaxSize /\ t * MaxSize \in Nat
    BY <1>7, <2>2
  <2>4. t + 1 <= b + n /\ b + n <= (t + 1) * MaxSize
    BY <1>7, <2>2, <2>3
  <2> QED BY <1>3, <1>6, <2>1, <2>4, Zenon
<1>9. v["min"] <= v["avg"] /\ v["avg"] <= v["max"] /\ v["max"] < UINT64_MAX
  <2>1. CASE s["transfers"] = 0
    <3>1. s["min"] = UINT64_MAX /\ s["max"] = 0
      BY <2>1, ZeroConsistent, Zenon DEF Consistent
    <3>2. v["min"] = l /\ v["max"] = l
      BY <1>3, <1>6, <1>7, <3>1
    <3>3. v["avg"] = l
      BY <1>3, <1>6, <2>1 DEF Mean
    <3> QED BY <3>2, <3>3
  <2>2. CASE s["transfers"] # 0
    <3>1. /\ s["min"] <= s["avg"] /\ s["avg"] <= s["max"] /\ s["max"] < UINT64_MAX
      BY <1>4, <2>2 DEF Consistent
    <3>2. /\ v["min"] \in Nat /\ v["min"] <= s["avg"] /\ v["min"] <= l
          /\ v["max"] \in Nat /\ s["avg"] <= v["max"] /\ l <= v["max"]
          /\ v["max"] < UINT64_MAX
      BY <1>3, <1>4, <1>6, <3>1
    <3>3. PICK a, k : a = c["avg"] /\ k = c["transfers"]
      BY Zenon
    <3>4. a = s["avg"] /\ a \in Nat /\ k \in Nat /\ k # 0 /\ k # 1
      BY <1>3, <1>4, <2>2, <3>3
    <3>5. v["avg"] = (a * (k - 1) + l) \div k
      BY <1>6, <3>3, <3>4 DEF Mean
    <3>6. PICK low, high : low = v["min"] /\ high = v["max"]
      BY Zenon
    <3>7. /\ low \in Nat /\ low <= a /\ low <= l /\ high \in Nat /\ a <= high /\ l <= high
      BY <3>2, <3>4, <3>6, Zenon
    <3>8. low <= (a * (k - 1) + l) \div k /\ (a * (k - 1) + l) \div k <= high
      BY <3>4, <3>7, WeightedMean, Zenon
    <3> QED BY <3>2, <3>5, <3>6, <3>8, Zenon
  <2> QED BY <2>1, <2>2
<1>10. v["transfers"] # 0
  BY <1>3, <1>4, <1>6
<1>11. Consistent(v)
  BY <1>8, <1>9, <1>10 DEF Consistent
<1> QED BY <1>1, <1>2, <1>11, Zenon DEF Account

-----------------------------------------------------------------------------
LEMMA WinInvInit == Init => WinInv
<1> SUFFICES ASSUME Init PROVE WinInv
  OBVIOUS
<1>1. started \in BOOLEAN /\ initialized = started
  BY WindowsAssumption DEF Init
<1>2. started => mutex \in [Devices -> MutexIds] /\ \A d, e \in Devices : mutex[d] = mutex[e] => d = e
  <2>1. started => mutex \in Injection(Devices, MutexIds)
    BY Zenon DEF Init, Mutexes
  <2>2. ASSUME NEW f \in Injection(Devices, MutexIds)
        PROVE  f \in [Devices -> MutexIds] /\ \A d, e \in Devices : f[d] = f[e] => d = e
    BY Zenon DEF Injection, IsInjective
  <2> QED BY <2>1, <2>2, Zenon
<1>3. ~started => mutex \in [Devices -> {0}]
  BY Zenon DEF Init, Mutexes
<1>4. 0 \notin MutexIds
  BY WindowsAssumption
<1>5. /\ started => \A d \in Devices : owner[mutex[d]] = Free
      /\ \A m \in MutexIds : owner[m] # Nil => \E d \in Devices : mutex[d] = m
      /\ ~started => \A m \in MutexIds : owner[m] = Nil
  <2>1. owner = [m \in MutexIds |-> IF \E d \in Devices : mutex[d] = m THEN Free ELSE Nil]
    BY Zenon DEF Init
  <2>2. started => \A d \in Devices : mutex[d] \in MutexIds
    BY <1>2, Zenon
  <2>3. ~started => \A d \in Devices : mutex[d] = 0
    BY <1>3
  <2>4. ~started => \A m \in MutexIds : owner[m] = Nil
    BY <1>4, <2>1, <2>3, Zenon
  <2> QED BY <2>1, <2>2, <2>4, Zenon
<1>6. TypeOK
  <2>1. DOMAIN ret = Threads /\ \A t \in Threads : AnswerOK(t)
    BY DEF Init, AnswerOK, NoAnswer
  <2>2. stats \in [Devices -> Statistics] /\ committed \in [Devices -> Statistics]
    BY ZeroConsistent, Zenon DEF Init
  <2>3. loop \in [Threads -> 0 .. NumDevices]
    BY WindowsAssumption DEF Init
  <2>4. mutex \in [Devices -> MutexIds \cup {0}]
    BY <1>1, <1>2, <1>3
  <2>5. owner \in [MutexIds -> Threads \cup {Free, Nil}]
    BY Zenon DEF Init
  <2>6. globalLock \in Threads \cup {Free, Nil}
    BY Zenon DEF Init
  <2>7. {started, initialized} \subseteq BOOLEAN
    BY <1>1
  <2> QED BY <2>1, <2>2, <2>3, <2>4, <2>5, <2>6, <2>7, Zenon DEF Init, TypeOK, Labels, Ops
<1>7. Phases
  BY <1>1 DEF Init, Phases, Opened, Holding
<1>8. /\ \A t \in Threads, d \in Devices : ~InUse(t, d)
      /\ \A d \in Devices : ~active[d]
  BY ClosedIsNoDevice DEF Init, InUse
<1>9. started => Guarded
  <2>1. started => \A d \in Devices : stats[d] = Zero
    BY Zenon DEF Init
  <2>2. \A d \in Devices : committed[d] = Zero
    BY Zenon DEF Init
  <2>3. \A t \in Threads : pc[t] \notin Holding
    BY DEF Init, Holding
  <2> QED BY <1>2, <1>5, <2>1, <2>2, <2>3, ZeroConsistent, ClosedIsNoDevice, Zenon DEF Guarded
<1>10. Marked
  BY <1>8, Zenon DEF Marked, ExclusiveOpen
<1>11. ~started => Unmade
  <2>1. \A t \in Threads : pc[t] # "loop"
    BY DEF Init
  <2> QED BY <1>5, <1>8, <2>1, Zenon DEF Unmade
<1>12. ASSUME NEW t \in Threads PROVE CallState(t) /\ Progress(t) /\ Snapshot(t)
  <2>1. /\ pc[t] = "idle" /\ op[t] = "none" /\ ret[t] = NoAnswer /\ loop[t] = 0
    BY DEF Init
  <2> QED BY <2>1 DEF CallState, Progress, Snapshot, AtDevice, Holding, Opened
<1> QED BY <1>1, <1>6, <1>7, <1>9, <1>10, <1>11, <1>12, Zenon DEF WinInv

-----------------------------------------------------------------------------
\* Steps of one thread seen by the others.

Kept(u) ==
  /\ pc'[u] = pc[u] /\ op'[u] = op[u] /\ dev'[u] = dev[u] /\ handle'[u] = handle[u]
  /\ size'[u] = size[u] /\ lat'[u] = lat[u] /\ ret'[u] = ret[u] /\ loop'[u] = loop[u]

LEMMA OthersCalls ==
  ASSUME \A u \in Threads : CallState(u), NEW t \in Threads, CallState(t)',
         \A u \in Threads \ {t} : Kept(u)
  PROVE  \A u \in Threads : CallState(u)'
<1>1. ASSUME NEW u \in Threads \ {t} PROVE CallState(u)'
  <2>1. CallState(u) /\ Kept(u)
    OBVIOUS
  <2> QED BY <2>1, Zenon DEF CallState, Kept
<1> QED BY <1>1, Zenon

LEMMA OthersAnswer ==
  ASSUME TypeOK, NEW t \in Threads, AnswerOK(t)', DOMAIN ret' = Threads,
         \A u \in Threads \ {t} : Kept(u)
  PROVE  DOMAIN ret' = Threads /\ \A u \in Threads : AnswerOK(u)'
<1>1. ASSUME NEW u \in Threads \ {t} PROVE AnswerOK(u)'
  <2>1. AnswerOK(u) /\ Kept(u)
    BY Zenon DEF TypeOK
  <2> QED BY <2>1, Zenon DEF AnswerOK, Kept
<1> QED BY <1>1, Zenon

LEMMA OthersSnapshots ==
  ASSUME \A u \in Threads : Snapshot(u), NEW t \in Threads, Snapshot(t)',
         \A u \in Threads \ {t} : Kept(u)
  PROVE  \A u \in Threads : Snapshot(u)'
BY Zenon DEF Snapshot, Kept

\* The progress of a thread depends on its own device only.
LEMMA SameProgress ==
  ASSUME NEW u \in Threads, Progress(u), Kept(u),
         pc[u] \in Holding =>
           stats'[dev[u]] = stats[dev[u]] /\ committed'[dev[u]] = committed[dev[u]]
  PROVE  Progress(u)'
<1>1. CASE pc[u] \notin Holding
  BY <1>1, Zenon DEF Progress, Kept, Holding
<1>2. CASE pc[u] \in Holding
  BY <1>2, Zenon DEF Progress, Outcome, Kept
<1> QED BY <1>1, <1>2

LEMMA SameUse ==
  ASSUME NEW u \in Threads, Kept(u), NEW d
  PROVE  InUse(u, d)' <=> InUse(u, d)
BY Zenon DEF InUse, Kept

\* Nobody's use of a device changes, and no flag does.
LEMMA MarkedFrame ==
  ASSUME Marked, NEW t \in Threads, \A u \in Threads \ {t} : Kept(u),
         \A d \in Devices : InUse(t, d)' <=> InUse(t, d),
         active' = active
  PROVE  Marked'
<1>1. \A u \in Threads, d \in Devices : InUse(u, d)' <=> InUse(u, d)
  BY SameUse, Zenon
<1>2. ExclusiveOpen'
  BY <1>1, Zenon DEF ExclusiveOpen, Marked
<1>3. \A d \in Devices : active'[d] <=> \E u \in Threads : InUse(u, d)'
  BY <1>1, Zenon DEF Marked
<1> QED BY <1>2, <1>3, Zenon DEF Marked

LEMMA GuardedFrame ==
  ASSUME Guarded, NEW t \in Threads, \A u \in Threads \ {t} : Kept(u),
         pc[t] \notin Holding, pc'[t] \notin Holding,
         UNCHANGED <<mutex, owner, stats, committed>>
  PROVE  Guarded'
<1>1. ASSUME NEW d \in Devices, NEW u \in Threads
      PROVE  owner'[mutex'[d]] = u <=> pc'[u] \in Holding /\ dev'[u] = d
  <2>1. owner[mutex[d]] = u <=> pc[u] \in Holding /\ dev[u] = d
    BY Zenon DEF Guarded
  <2>2. CASE u = t
    BY <2>1, <2>2, Zenon
  <2>3. CASE u # t
    <3>1. pc'[u] = pc[u] /\ dev'[u] = dev[u]
      BY <2>3, Zenon DEF Kept
    <3> QED BY <2>1, <3>1, Zenon
  <2> QED BY <2>2, <2>3
<1>2. mutex' = mutex /\ owner' = owner /\ stats' = stats /\ committed' = committed
  OBVIOUS
<1>3. /\ \A d \in Devices : mutex'[d] \in MutexIds /\ owner'[mutex'[d]] # Nil
      /\ \A d \in Devices, e \in Devices : mutex'[d] = mutex'[e] => d = e
      /\ \A m \in MutexIds : owner'[m] # Nil => \E d \in Devices : mutex'[d] = m
  <2>1. \A d \in Devices : mutex[d] \in MutexIds /\ owner[mutex[d]] # Nil
    BY Zenon DEF Guarded
  <2>2. \A d \in Devices, e \in Devices : mutex[d] = mutex[e] => d = e
    BY Zenon DEF Guarded
  <2>3. \A m \in MutexIds : owner[m] # Nil => \E d \in Devices : mutex[d] = m
    BY Zenon DEF Guarded
  <2>4. \A d \in Devices : mutex'[d] = mutex[d]
    BY <1>2, Zenon
  <2>5. \A m : owner'[m] = owner[m]
    BY <1>2, Zenon
  <2>6. ASSUME NEW d \in Devices PROVE mutex'[d] \in MutexIds /\ owner'[mutex'[d]] # Nil
    BY <2>1, <2>4, <2>5, Zenon
  <2>7. ASSUME NEW d \in Devices, NEW e \in Devices, mutex'[d] = mutex'[e] PROVE d = e
    BY <2>2, <2>4, <2>7, Zenon
  <2>8. ASSUME NEW m \in MutexIds, owner'[m] # Nil PROVE \E d \in Devices : mutex'[d] = m
    BY <2>3, <2>4, <2>5, <2>8, Zenon
  <2> QED BY <2>6, <2>7, <2>8, Zenon
<1>4. /\ \A d \in Devices : owner'[mutex'[d]] = Free => stats'[d] = committed'[d]
      /\ \A d \in Devices : Consistent(committed'[d])
  BY <1>2, Zenon DEF Guarded
<1> QED BY <1>1, <1>3, <1>4, Zenon DEF Guarded

LEMMA UnmadeFrame ==
  ASSUME Unmade, NEW t \in Threads, \A u \in Threads \ {t} : Kept(u),
         pc[t] # "loop", pc'[t] # "loop",
         UNCHANGED <<active, mutex, owner, stats>>
  PROVE  Unmade'
<1>1. active' = active /\ mutex' = mutex /\ owner' = owner /\ stats' = stats
  OBVIOUS
<1>2. \A u \in Threads : pc'[u] = "loop" <=> pc[u] = "loop"
  BY Zenon DEF Kept
<1>3. ASSUME NEW u \in Threads, pc'[u] = "loop" PROVE Built(u)'
  <2>1. u # t /\ Built(u)
    BY <1>2, <1>3, Zenon DEF Unmade
  <2>2. loop'[u] = loop[u]
    BY <2>1, Zenon DEF Kept
  <2> QED BY <1>1, <2>1, <2>2, Zenon DEF Built
<1> QED BY <1>1, <1>2, <1>3, Zenon DEF Unmade

\* Where t may go while the table is, or is not, initialised.
PhaseOf(t) ==
  /\ pc'[t] \in {"section", "loop"} => ~initialized'
  /\ pc'[t] \in Opened \cup Holding \cup {"wait"} => initialized'
  /\ ~started /\ t \notin Starters => pc'[t] = "idle" /\ handle'[t] = Closed

LEMMA PhasesFrame ==
  ASSUME Phases, NEW t \in Threads, \A u \in Threads \ {t} : Kept(u), PhaseOf(t),
         UNCHANGED <<started, initialized>>
  PROVE  Phases'
<1>1. started' = started /\ initialized' = initialized
  OBVIOUS
<1>2. ASSUME NEW u \in Threads
      PROVE  /\ pc'[u] \in {"section", "loop"} => ~initialized'
             /\ pc'[u] \in Opened \cup Holding \cup {"wait"} => initialized'
             /\ ~started' /\ u \notin Starters => pc'[u] = "idle" /\ handle'[u] = Closed
  <2>1. CASE u = t
    BY <1>1, <2>1 DEF PhaseOf
  <2>2. CASE u # t
    <3>1. pc'[u] = pc[u] /\ handle'[u] = handle[u]
      BY <2>2, Zenon DEF Kept
    <3> QED BY <1>1, <3>1 DEF Phases
  <2> QED BY <2>1, <2>2
<1>3. started' => initialized'
  BY <1>1 DEF Phases
<1> QED BY <1>2, <1>3 DEF Phases

\* A step outside the mutexes and the initialisation that leaves the table and
\* the use of its devices alone.
LEMMA LocalStep ==
  ASSUME WinInv, TypeOK', NEW t \in Threads, \A u \in Threads \ {t} : Kept(u),
         UNCHANGED <<started, initialized, active, mutex, owner, stats, committed>>,
         pc[t] \notin Holding \cup {"loop"}, pc'[t] \notin Holding \cup {"loop"},
         \A d \in Devices : InUse(t, d)' <=> InUse(t, d),
         PhaseOf(t), CallState(t)', Snapshot(t)'
  PROVE  WinInv'
<1> USE DEF WinInv
<1>1. /\ (started' <=> started) /\ (initialized' <=> initialized) /\ active' = active
      /\ mutex' = mutex /\ owner' = owner /\ stats' = stats /\ committed' = committed
  OBVIOUS
<1>2. Phases'
  BY PhasesFrame, Zenon
<1>3. initialized' => Guarded' /\ Marked'
  BY <1>1, GuardedFrame, MarkedFrame, Zenon
<1>4. ~initialized' => Unmade'
  BY <1>1, UnmadeFrame, Zenon
<1>5. ASSUME NEW u \in Threads PROVE Progress(u)'
  <2>1. CASE u = t
    BY <2>1, Zenon DEF Progress, Holding
  <2>2. CASE u # t
    <3>1. Kept(u) /\ Progress(u)
      BY <2>2, Zenon
    <3> QED BY <1>1, <3>1, SameProgress, Zenon
  <2> QED BY <2>1, <2>2, Zenon
<1>6. (\A u \in Threads : CallState(u)') /\ (\A u \in Threads : Snapshot(u)')
  BY OthersCalls, OthersSnapshots, Zenon
<1> QED BY <1>2, <1>3, <1>4, <1>5, <1>6, Zenon

\* What an answer is.
LEMMA AnswerFields ==
  /\ NoAnswer.code # "ok"
  /\ \A e \in ErrorCodes : Error(e).code # "ok"
  /\ \A v : Ok(v).code = "ok" /\ OkStats(v).code = "ok" /\ OkStats(v).stats = v
BY DEF NoAnswer, Error, ErrorCodes, Ok, OkStats

\* The well-typed answers.
LEMMA AnswerTypes ==
  ASSUME NEW t \in Threads,
         \/ ret'[t] = NoAnswer
         \/ \E e \in ErrorCodes : ret'[t] = Error(e)
         \/ op'[t] # "get" /\ ret'[t] \in {Ok(0), Ok(lat'[t])}
         \/ \E s \in Statistics : op'[t] = "get" /\ ret'[t] = OkStats(s)
  PROVE  AnswerOK(t)'
<1>1. CASE ret'[t] = NoAnswer \/ \E e \in ErrorCodes : ret'[t] = Error(e)
  BY <1>1, AnswerFields, Zenon DEF AnswerOK
<1>2. CASE op'[t] # "get" /\ ret'[t] \in {Ok(0), Ok(lat'[t])}
  BY <1>2, Zenon DEF AnswerOK
<1>3. CASE \E s \in Statistics : op'[t] = "get" /\ ret'[t] = OkStats(s)
  BY <1>3, AnswerFields, Zenon DEF AnswerOK
<1> QED BY <1>1, <1>2, <1>3

\* A thread that makes calls while the program has just begun is the starter.
LEMMA OnlyStarter ==
  ASSUME WinInv, Solo, ~initialized, NEW t \in Threads, pc[t] # "idle"
  PROVE  /\ ~started /\ t \in Starters
         /\ \A u \in Threads \ {t} : pc[u] = "idle" /\ handle[u] = Closed
<1>1. ~started
  BY Zenon DEF WinInv, Phases
<1>2. t \in Starters
  BY <1>1, Zenon DEF WinInv, Phases
<1>3. \A u \in Threads \ {t} : u \notin Starters
  BY <1>2, Zenon DEF Solo
<1> QED BY <1>1, <1>2, <1>3, Zenon DEF WinInv, Phases

-----------------------------------------------------------------------------
\* Calls, returns and the steps between the locks.

\* A library call begins: the thread is about to run it, or to reject it.
LEMMA CallStep ==
  ASSUME WinInv, NEW t \in Threads, started \/ t \in Starters, UNCHANGED started,
         NEW o \in {"open", "close", "transfer", "get", "reset"},
         NEW d \in DeviceIds \cup Devices \cup {Closed},
         NEW l \in {"param", "init", "enter", "active"},
         pc[t] = "idle", pc' = [pc EXCEPT ![t] = l],
         op' = [op EXCEPT ![t] = o], dev' = [dev EXCEPT ![t] = d],
         using' \in [Threads -> Threads],
         size' \in [Threads -> Sizes \cup {0}], \A u \in Threads \ {t} : size'[u] = size[u],
         handle' = (IF o = "close" THEN [handle EXCEPT ![t] = Closed] ELSE handle),
         UNCHANGED <<table, owner, stats, loop, lat, ret, committed>>,
         l # "param" => d \in Devices,
         l = "init" => o = "open",
         l = "enter" => o = "close",
         l = "active" => o \in {"transfer", "get", "reset"},
         o = "open" => handle[t] = Closed,
         o = "close" => l = "enter" /\ initialized /\ d = handle[t],
         o = "transfer" => size'[t] \in Sizes,
         o = "transfer" /\ l # "param" => size'[t] # 0 /\ size'[t] <= MaxSize
  PROVE  WinInv'
<1> USE DEF WinInv
<1>1. /\ pc'[t] = l /\ op'[t] = o /\ dev'[t] = d
      /\ \A u \in Threads \ {t} : pc'[u] = pc[u] /\ op'[u] = op[u] /\ dev'[u] = dev[u]
  BY Zenon DEF TypeOK
<1>2. /\ handle'[t] = (IF o = "close" THEN Closed ELSE handle[t])
      /\ \A u \in Threads \ {t} : handle'[u] = handle[u]
      /\ handle' \in [Threads -> Devices \cup {Closed}]
  BY Zenon DEF TypeOK
<1>3. /\ initialized' = initialized /\ globalLock' = globalLock
      /\ active' = active /\ mutex' = mutex
  BY Zenon DEF table
<1>4. \A u \in Threads \ {t} : Kept(u)
  BY <1>1, <1>2, Zenon DEF Kept
<1>5. ret'[t] = NoAnswer /\ op[t] = "none" /\ loop'[t] = 0
  BY Zenon DEF CallState, Opened
<1>6. TypeOK'
  <2>1. DOMAIN ret' = Threads /\ \A u \in Threads : AnswerOK(u)'
    BY <1>4, <1>5, AnswerTypes, OthersAnswer, Zenon DEF TypeOK
  <2>2. pc' \in [Threads -> Labels] /\ op' \in [Threads -> Ops]
    BY Zenon DEF TypeOK, Labels, Ops
  <2>3. dev' \in [Threads -> DeviceIds \cup Devices \cup {Closed}]
    BY Zenon DEF TypeOK
  <2> QED BY <1>2, <1>3, <2>1, <2>2, <2>3, Zenon DEF TypeOK
<1>7. CallState(t)'
  BY <1>1, <1>2, <1>5, Zenon DEF CallState, AtDevice, Holding, Opened
<1>8. Snapshot(t)'
  BY <1>5, AnswerFields, Zenon DEF Snapshot
<1>9. \A e \in Devices : InUse(t, e)' <=> InUse(t, e)
  <2>1. SUFFICES ASSUME NEW e \in Devices PROVE InUse(t, e)' <=> InUse(t, e)
    BY Zenon
  <2>2. InUse(t, e) <=> handle[t] = e
    BY <1>5, Zenon DEF InUse
  <2>3. e # Closed
    BY ClosedIsNoDevice, Zenon
  <2>4. CASE o = "close"
    BY <1>1, <1>2, <2>2, <2>3, <2>4, Zenon DEF InUse
  <2>5. CASE o # "close"
    <3>1. pc'[t] \notin {"malloc", "leave"} /\ op'[t] # "close"
      BY <1>1, <2>5, Zenon
    <3> QED BY <1>2, <2>2, <2>5, <3>1, Zenon DEF InUse
  <2> QED BY <2>4, <2>5
<1>10. PhaseOf(t)
  <2>1. l \in Opened \cup Holding \cup {"wait"} => initialized
    BY Zenon DEF Opened, Holding
  <2> QED BY <1>1, <1>3, <2>1, Zenon DEF PhaseOf
<1>11. pc[t] \notin Holding \cup {"loop"} /\ pc'[t] \notin Holding \cup {"loop"}
  BY <1>1, Zenon DEF Holding
<1> QED BY <1>3, <1>4, <1>6, <1>7, <1>8, <1>9, <1>10, <1>11, LocalStep, Zenon

LEMMA CallingStep ==
  ASSUME WinInv, NEW t \in Threads, started \/ t \in Starters, UNCHANGED started,
         Calling(t)
  PROVE  WinInv'
<1>1. /\ handle \in [Threads -> Devices \cup {Closed}] /\ size \in [Threads -> Sizes \cup {0}]
      /\ using \in [Threads -> Threads] /\ Closed \notin Devices
  BY ClosedIsNoDevice, Zenon DEF WinInv, TypeOK
<1>2. ASSUME NEW d \in DeviceIds, pcie_sim_open_impl(t, d) PROVE WinInv'
  <2> DEFINE l == IF d >= 0 /\ d < NumDevices THEN "init" ELSE "param"
  <2>1. /\ pc[t] = "idle" /\ pc' = [pc EXCEPT ![t] = l]
        /\ op' = [op EXCEPT ![t] = "open"] /\ dev' = [dev EXCEPT ![t] = d]
        /\ using' = [using EXCEPT ![t] = t] /\ handle[t] = Closed
        /\ UNCHANGED <<table, owner, stats, loop, lat, ret, committed, size, handle>>
    BY <1>2, Zenon DEF pcie_sim_open_impl, Call, Goto
  <2>2. l \in {"param", "init"} /\ (l # "param" => d \in Devices)
    BY WindowsAssumption DEF Devices
  <2>3. /\ using' \in [Threads -> Threads] /\ d \in DeviceIds \cup Devices \cup {Closed}
    BY <1>1, <2>1, Zenon
  <2> HIDE DEF l
  <2> QED BY <1>1, <2>1, <2>2, <2>3, CallStep, Zenon
<1>3. ASSUME pcie_sim_close_impl(t) PROVE WinInv'
  <2>1. /\ pc[t] = "idle" /\ pc' = [pc EXCEPT ![t] = "enter"]
        /\ op' = [op EXCEPT ![t] = "close"] /\ dev' = [dev EXCEPT ![t] = handle[t]]
        /\ using' = [using EXCEPT ![t] = t] /\ handle[t] # Closed /\ initialized
        /\ handle' = [handle EXCEPT ![t] = Closed]
        /\ UNCHANGED <<table, owner, stats, loop, lat, ret, committed, size>>
    BY <1>3, Zenon DEF pcie_sim_close_impl, Call, Goto
  <2>2. using' \in [Threads -> Threads] /\ handle[t] \in Devices
    BY <1>1, <2>1, Zenon
  <2> QED BY <1>1, <2>1, <2>2, CallStep, Zenon
<1>4. ASSUME NEW u \in Threads, NEW n \in Sizes, NEW b \in BOOLEAN,
             pcie_sim_transfer_impl(t, u, n, b)
      PROVE  WinInv'
  <2> DEFINE l == IF handle[u] # Closed /\ b /\ n # 0 /\ n <= MaxSize THEN "active" ELSE "param"
  <2>1. /\ pc[t] = "idle" /\ pc' = [pc EXCEPT ![t] = l]
        /\ op' = [op EXCEPT ![t] = "transfer"] /\ dev' = [dev EXCEPT ![t] = handle[u]]
        /\ using' = [using EXCEPT ![t] = u]
        /\ size' = [size EXCEPT ![t] = n]
        /\ UNCHANGED <<table, owner, stats, loop, lat, ret, committed, handle>>
    BY <1>4, Zenon DEF pcie_sim_transfer_impl, Call, Goto
  <2>2. /\ l \in {"param", "active"}
        /\ l # "param" => handle[u] # Closed /\ n # 0 /\ n <= MaxSize
    BY Zenon
  <2>3. /\ size' \in [Threads -> Sizes \cup {0}] /\ size'[t] = n
        /\ \A v \in Threads \ {t} : size'[v] = size[v]
        /\ using' \in [Threads -> Threads]
        /\ handle[u] \in Devices \cup {Closed}
    BY <1>1, <2>1, Zenon
  <2> HIDE DEF l
  <2>4. CASE l = "active"
    <3>1. /\ handle[u] \in Devices /\ pc' = [pc EXCEPT ![t] = "active"]
          /\ size'[t] # 0 /\ size'[t] <= MaxSize
      BY <2>1, <2>2, <2>3, <2>4, Zenon
    <3> QED BY <2>1, <2>3, <3>1, CallStep, Zenon
  <2>5. CASE l = "param"
    <3>1. pc' = [pc EXCEPT ![t] = "param"]
      BY <2>1, <2>5, Zenon
    <3> QED BY <2>1, <2>3, <3>1, CallStep, Zenon
  <2> QED BY <2>2, <2>4, <2>5, Zenon
<1>5. ASSUME NEW u \in Threads, pcie_sim_get_stats_impl(t, u) \/ pcie_sim_reset_stats_impl(t, u)
      PROVE  WinInv'
  <2> DEFINE l == IF handle[u] # Closed THEN "active" ELSE "param"
  <2>1. PICK o \in {"get", "reset"} :
          /\ pc[t] = "idle" /\ pc' = [pc EXCEPT ![t] = l]
          /\ op' = [op EXCEPT ![t] = o] /\ dev' = [dev EXCEPT ![t] = handle[u]]
          /\ using' = [using EXCEPT ![t] = u]
          /\ UNCHANGED <<table, owner, stats, loop, lat, ret, committed, size, handle>>
    BY <1>5, Zenon DEF pcie_sim_get_stats_impl, pcie_sim_reset_stats_impl, Call, Goto
  <2>2. l \in {"param", "active"} /\ (l # "param" => handle[u] # Closed)
    BY Zenon
  <2>3. using' \in [Threads -> Threads] /\ handle[u] \in Devices \cup {Closed}
    BY <1>1, <2>1, Zenon
  <2> HIDE DEF l
  <2> QED BY <1>1, <2>1, <2>2, <2>3, CallStep, Zenon
<1> QED BY <1>2, <1>3, <1>4, <1>5, Zenon DEF Calling

\* A step that only moves the thread, changes the lock of the table, its answer
\* or its handle.
LEMMA MoveStep ==
  ASSUME WinInv, NEW t \in Threads, UNCHANGED started, NEW l \in Labels,
         pc' = [pc EXCEPT ![t] = l],
         pc[t] \notin Holding \cup {"loop"}, l \notin Holding \cup {"loop"},
         UNCHANGED <<initialized, active, mutex, owner, stats, locals, committed>>,
         globalLock' \in Threads \cup {Free, Nil},
         handle' \in [Threads -> Devices \cup {Closed}],
         DOMAIN ret' = Threads,
         \A u \in Threads \ {t} : ret'[u] = ret[u] /\ handle'[u] = handle[u],
         AnswerOK(t)', Snapshot(t)', PhaseOf(t), CallState(t)',
         \A d \in Devices : InUse(t, d)' <=> InUse(t, d)
  PROVE  WinInv'
<1> USE DEF WinInv
<1>1. op' = op /\ dev' = dev /\ using' = using /\ loop' = loop /\ size' = size /\ lat' = lat
  BY Zenon DEF locals
<1>2. pc'[t] = l /\ (\A u \in Threads \ {t} : pc'[u] = pc[u]) /\ pc' \in [Threads -> Labels]
  BY Zenon DEF TypeOK
<1>3. \A u \in Threads \ {t} : Kept(u)
  BY <1>1, <1>2, Zenon DEF Kept
<1>4. TypeOK'
  <2>1. DOMAIN ret' = Threads /\ \A u \in Threads : AnswerOK(u)'
    BY <1>3, OthersAnswer, Zenon
  <2> QED BY <1>1, <1>2, <2>1, Zenon DEF TypeOK
<1> QED BY <1>2, <1>3, <1>4, LocalStep, Zenon

\* Outside the sections of open and close, a device is used by its handle.
LEMMA QuietUse ==
  ASSUME NEW t \in Threads, NEW d, pc[t] \notin Opened
  PROVE  InUse(t, d) <=> handle[t] = d
BY Zenon DEF InUse, Opened

LEMMA QuietUseAfter ==
  ASSUME NEW t \in Threads, NEW d, pc'[t] \notin Opened
  PROVE  InUse(t, d)' <=> handle'[t] = d
BY Zenon DEF InUse, Opened

\* A thread in a call may make it.
LEMMA Caller ==
  ASSUME WinInv, NEW t \in Threads, pc[t] # "idle"
  PROVE  started \/ t \in Starters
BY Zenon DEF WinInv, Phases

\* A call fails, outside the mutexes.
LEMMA ErrorStep ==
  ASSUME WinInv, NEW t \in Threads, UNCHANGED started,
         param_error(t) \/ check_active_fails(t) \/ wait_timeout(t)
  PROVE  WinInv'
<1> USE DEF WinInv
<1>1. /\ pc[t] \in {"param", "active", "wait"}
      /\ pc' = [pc EXCEPT ![t] = "return"] /\ pc'[t] = "return"
      /\ \A u \in Threads \ {t} : ret'[u] = ret[u]
      /\ DOMAIN ret' = Threads
      /\ UNCHANGED <<table, owner, stats, locals, handle, committed>>
  BY Zenon DEF param_error, check_active_fails, wait_timeout, Goto, Answer, TypeOK
<1>2. \E e \in ErrorCodes : ret'[t] = Error(e)
  BY Zenon DEF param_error, check_active_fails, wait_timeout, Answer, TypeOK, ErrorCodes
<1>3. /\ UNCHANGED <<initialized, active, mutex, op, dev, size, loop>>
      /\ globalLock' \in Threads \cup {Free, Nil}
      /\ handle' \in [Threads -> Devices \cup {Closed}]
  BY <1>1, Zenon DEF table, locals, TypeOK
<1>4. AnswerOK(t)' /\ Snapshot(t)'
  BY <1>2, AnswerTypes, AnswerFields, Zenon DEF Snapshot
<1>5. PhaseOf(t)
  <2>1. "return" \notin Opened \cup Holding \cup {"wait"}
    BY Zenon DEF Opened, Holding
  <2> QED BY <1>1, <2>1, Caller, Zenon DEF PhaseOf
<1>6. CallState(t)'
  BY <1>1, <1>3, Zenon DEF CallState, AtDevice, Holding, Opened
<1>7. \A d \in Devices : InUse(t, d)' <=> InUse(t, d)
  <2>1. pc[t] \notin Opened /\ pc'[t] \notin Opened
    BY <1>1, Zenon DEF Opened
  <2> QED BY <1>1, <2>1, QuietUse, QuietUseAfter, Zenon
<1>8. pc[t] \notin Holding \cup {"loop"} /\ "return" \notin Holding \cup {"loop"} /\ "return" \in Labels
  BY <1>1, Zenon DEF Holding, Labels
<1> QED BY <1>1, <1>3, <1>4, <1>5, <1>6, <1>7, <1>8, MoveStep, Zenon

LEMMA ReturnStep ==
  ASSUME WinInv, NEW t \in Threads, UNCHANGED started, Return(t)
  PROVE  WinInv'
<1> USE DEF WinInv
<1>1. /\ pc[t] = "return" /\ pc' = [pc EXCEPT ![t] = "idle"] /\ pc'[t] = "idle"
      /\ op' = [op EXCEPT ![t] = "none"] /\ op'[t] = "none"
      /\ using' = [using EXCEPT ![t] = t]
      /\ dev' = [dev EXCEPT ![t] = Closed]
      /\ loop' = [loop EXCEPT ![t] = 0] /\ loop'[t] = 0
      /\ size' = [size EXCEPT ![t] = 0]
      /\ lat' = [lat EXCEPT ![t] = 0]
      /\ ret'[t] = NoAnswer /\ DOMAIN ret' = Threads
      /\ \A u \in Threads \ {t} : ret'[u] = ret[u]
      /\ UNCHANGED <<table, owner, stats, handle, committed>>
  BY Zenon DEF Return, Goto, Answer, TypeOK
<1>2. \A u \in Threads \ {t} : Kept(u)
  BY <1>1, Zenon DEF Kept, TypeOK
<1>3. TypeOK'
  <2>1. AnswerOK(t)'
    BY <1>1, AnswerTypes, Zenon
  <2>2. DOMAIN ret' = Threads /\ \A u \in Threads : AnswerOK(u)'
    BY <1>1, <1>2, <2>1, OthersAnswer, Zenon
  <2>3. pc' \in [Threads -> Labels] /\ op' \in [Threads -> Ops]
    BY <1>1, Zenon DEF TypeOK, Labels, Ops
  <2>4. loop' \in [Threads -> 0 .. NumDevices]
    BY <1>1, WindowsAssumption DEF TypeOK
  <2>5. /\ dev' \in [Threads -> DeviceIds \cup Devices \cup {Closed}]
        /\ size' \in [Threads -> Sizes \cup {0}] /\ lat' \in [Threads -> Latencies \cup {0}]
        /\ using' \in [Threads -> Threads]
    BY <1>1, Zenon DEF TypeOK
  <2> QED BY <1>1, <2>2, <2>3, <2>4, <2>5, Zenon DEF TypeOK, table
<1>4. CallState(t)' /\ Snapshot(t)'
  BY <1>1, Zenon DEF CallState, Snapshot, AtDevice, Holding, Opened
<1>5. PhaseOf(t)
  <2>1. "idle" \notin Opened \cup Holding \cup {"wait"}
    BY Zenon DEF Opened, Holding
  <2> QED BY <1>1, <2>1, Caller, Zenon DEF PhaseOf
<1>6. \A d \in Devices : InUse(t, d)' <=> InUse(t, d)
  <2>1. pc[t] \notin Opened /\ pc'[t] \notin Opened
    BY <1>1, Zenon DEF Opened
  <2> QED BY <1>1, <2>1, QuietUse, QuietUseAfter, Zenon
<1>7. pc[t] \notin Holding \cup {"loop"} /\ pc'[t] \notin Holding \cup {"loop"}
  BY <1>1, Zenon DEF Holding
<1>8. UNCHANGED <<initialized, active, mutex>>
  BY <1>1, Zenon DEF table
<1> QED BY <1>1, <1>2, <1>3, <1>4, <1>5, <1>6, <1>7, <1>8, LocalStep, Zenon

\* Looking at the flags: of the table in windows_sim_init, of a device in a call.
LEMMA LookStep ==
  ASSUME WinInv, NEW t \in Threads, UNCHANGED started,
         windows_sim_init(t) \/ check_active(t)
  PROVE  WinInv'
<1> USE DEF WinInv
<1>1. PICK l \in {"enter", "section", "wait"} :
        /\ pc' = [pc EXCEPT ![t] = l] /\ pc'[t] = l
        /\ pc[t] \in {"init", "active"}
        /\ l = "enter" => pc[t] = "init" /\ initialized
        /\ l = "section" => pc[t] = "init" /\ ~initialized
        /\ l = "wait" => pc[t] = "active" /\ active[dev[t]]
        /\ UNCHANGED <<table, owner, stats, locals, handle, ret, committed>>
  <2>1. CASE windows_sim_init(t) /\ initialized
    BY <2>1, Zenon DEF windows_sim_init, Goto, TypeOK
  <2>2. CASE windows_sim_init(t) /\ ~initialized
    BY <2>2, Zenon DEF windows_sim_init, Goto, TypeOK
  <2>3. CASE check_active(t)
    BY <2>3, Zenon DEF check_active, Goto, TypeOK
  <2> QED BY <2>1, <2>2, <2>3, Zenon
<1>2. CallState(t) /\ dev[t] \in Devices /\ ret[t] = NoAnswer
  BY <1>1, Zenon DEF CallState
<1>3. l = "wait" => initialized
  BY <1>1, <1>2, Zenon DEF Unmade
<1>4. /\ UNCHANGED <<initialized, active, mutex, op, dev, size, loop>>
      /\ globalLock' \in Threads \cup {Free, Nil}
      /\ handle' \in [Threads -> Devices \cup {Closed}]
      /\ ret' = ret /\ handle' = handle /\ DOMAIN ret' = Threads
  BY <1>1, Zenon DEF table, locals, TypeOK
<1>5. AnswerOK(t)' /\ Snapshot(t)'
  BY <1>2, <1>4, AnswerTypes, AnswerFields, Zenon DEF Snapshot
<1>6. PhaseOf(t)
  <2>1. initialized' <=> initialized
    BY <1>4
  <2>2. pc'[t] \in {"section", "loop"} => ~initialized
    BY <1>1, Zenon
  <2>3. pc'[t] \in Opened \cup Holding \cup {"wait"} => initialized
    BY <1>1, <1>3, Zenon DEF Opened, Holding
  <2> QED BY <1>1, <2>1, <2>2, <2>3, Caller, Zenon DEF PhaseOf
<1>7. CallState(t)'
  BY <1>1, <1>2, <1>4, Zenon DEF CallState, AtDevice, Holding, Opened
<1>8. \A d \in Devices : InUse(t, d)' <=> InUse(t, d)
  <2>1. pc[t] \notin Opened
    BY <1>1, Zenon DEF Opened
  <2>2. SUFFICES ASSUME NEW d \in Devices PROVE InUse(t, d)' <=> handle[t] = d
    BY <2>1, QuietUse, Zenon
  <2>3. CASE l = "enter"
    <3>1. op'[t] # "close" /\ pc'[t] \notin {"malloc", "leave"}
      BY <1>1, <1>2, <1>4, <2>3, Zenon DEF CallState
    <3> QED BY <1>4, <3>1, Zenon DEF InUse
  <2>4. CASE l # "enter"
    <3>1. pc'[t] \notin Opened
      BY <1>1, <2>4, Zenon DEF Opened
    <3> QED BY <1>4, <3>1, QuietUseAfter, Zenon
  <2> QED BY <2>3, <2>4
<1>9. pc[t] \notin Holding \cup {"loop"} /\ l \notin Holding \cup {"loop"} /\ l \in Labels
  BY <1>1, Zenon DEF Holding, Labels
<1> QED BY <1>1, <1>4, <1>5, <1>6, <1>7, <1>8, <1>9, MoveStep, Zenon

\* Entering and leaving the critical section, and the handle of an open.
LEMMA SectionStep ==
  ASSUME WinInv, NEW t \in Threads, UNCHANGED started,
         Enter(t) \/ Leave(t) \/ open_malloc(t)
  PROVE  WinInv'
<1> USE DEF WinInv
<1>1. CallState(t) /\ AnswerOK(t) /\ Snapshot(t)
  BY Zenon DEF TypeOK
<1>2. pc[t] \in {"enter", "leave", "malloc"} /\ initialized /\ dev[t] \in Devices
  <2>1. pc[t] \in {"enter", "leave", "malloc"}
    BY Zenon DEF Enter, Leave, open_malloc
  <2>2. pc[t] \in Opened
    BY <2>1, Zenon DEF Opened
  <2> QED BY <1>1, <2>1, <2>2, Zenon DEF Phases, CallState
<1>3. /\ UNCHANGED <<initialized, active, mutex, owner, stats, locals, committed>>
      /\ UNCHANGED <<op, dev, size, loop, lat>>
      /\ globalLock' \in Threads \cup {Free, Nil}
  BY Zenon DEF Enter, Leave, open_malloc, table, locals, TypeOK
<1>4. PICK l \in {"section_body", "malloc", "return"} :
        /\ pc' = [pc EXCEPT ![t] = l] /\ pc'[t] = l
        /\ l = "section_body" => pc[t] = "enter" /\ handle' = handle /\ ret' = ret
        /\ l = "malloc" =>
             /\ pc[t] = "leave" /\ op[t] = "open" /\ ret[t] = NoAnswer
             /\ handle' = handle /\ ret' = ret
        /\ l = "return" =>
             \/ /\ pc[t] = "leave" /\ ~(op[t] = "open" /\ ret[t] = NoAnswer)
                /\ handle' = handle /\ ret' = ret
             \/ /\ pc[t] = "malloc" /\ handle' = [handle EXCEPT ![t] = dev[t]]
                /\ ret' = [ret EXCEPT ![t] = Ok(0)]
  <2>1. CASE Enter(t)
    BY <2>1, Zenon DEF Enter, Goto, TypeOK
  <2>2. CASE Leave(t) /\ op[t] = "open" /\ ret[t] = NoAnswer
    BY <2>2, Zenon DEF Leave, Goto, TypeOK
  <2>3. CASE Leave(t) /\ ~(op[t] = "open" /\ ret[t] = NoAnswer)
    BY <2>3, Zenon DEF Leave, Goto, TypeOK
  <2>4. CASE open_malloc(t)
    BY <2>4, Zenon DEF open_malloc, Goto, Answer, TypeOK
  <2> QED BY <2>1, <2>2, <2>3, <2>4, Zenon
<1>5. /\ handle' \in [Threads -> Devices \cup {Closed}] /\ DOMAIN ret' = Threads
      /\ \A u \in Threads \ {t} : ret'[u] = ret[u] /\ handle'[u] = handle[u]
  BY <1>2, <1>4, Zenon DEF TypeOK
<1>6. pc[t] = "malloc" => handle'[t] = dev[t] /\ ret'[t] = Ok(0) /\ l = "return"
  BY <1>4, Zenon DEF TypeOK
<1>7. op[t] \in {"open", "close"} /\ handle[t] = Closed
  BY <1>1, <1>2, Zenon DEF CallState
<1>8. AnswerOK(t)' /\ Snapshot(t)'
  <2>1. CASE ret' = ret
    BY <1>1, <1>3, <2>1, Zenon DEF AnswerOK, Snapshot
  <2>2. CASE ret'[t] = Ok(0)
    BY <1>3, <1>7, <2>2, AnswerTypes, Zenon DEF Snapshot
  <2> QED BY <1>4, <1>6, <2>1, <2>2, Zenon
<1>9. PhaseOf(t)
  <2>1. initialized' <=> initialized
    BY <1>3
  <2>2. pc[t] # "idle" /\ l \notin {"section", "loop"}
    BY <1>2, <1>4, Zenon
  <2> QED BY <1>2, <1>4, <2>1, <2>2, Caller, Zenon DEF PhaseOf
<1>10. CallState(t)'
  <2>1. CASE l = "section_body"
    BY <1>1, <1>3, <1>4, <1>7, <2>1, Zenon DEF CallState, AtDevice, Holding, Opened
  <2>2. CASE l = "malloc"
    BY <1>1, <1>3, <1>4, <1>7, <2>2, Zenon DEF CallState, AtDevice, Holding, Opened
  <2>3. CASE l = "return" /\ pc[t] = "leave"
    BY <1>1, <1>3, <1>4, <1>7, <2>3, Zenon DEF CallState, AtDevice, Holding, Opened
  <2>4. CASE l = "return" /\ pc[t] = "malloc"
    <3>1. op[t] = "open"
      BY <1>1, <2>4, Zenon DEF CallState
    <3> QED BY <1>1, <1>3, <1>4, <2>4, <3>1, Zenon DEF CallState, AtDevice, Holding, Opened
  <2> QED BY <1>4, <2>1, <2>2, <2>3, <2>4, Zenon
<1>11. \A d \in Devices : InUse(t, d)' <=> InUse(t, d)
  <2>1. SUFFICES ASSUME NEW d \in Devices PROVE InUse(t, d)' <=> InUse(t, d)
    BY Zenon
  <2>2. handle[t] # d
    BY <1>7, ClosedIsNoDevice, Zenon
  <2>3. CASE l = "section_body"
    BY <1>3, <1>4, <2>3, Zenon DEF InUse
  <2>4. CASE l = "malloc"
    BY <1>3, <1>4, <2>4, Zenon DEF InUse
  <2>5. CASE l = "return" /\ pc[t] = "leave"
    <3>1. ~InUse(t, d)
      BY <1>4, <2>2, <2>5, Zenon DEF InUse
    <3>2. handle' = handle /\ pc'[t] \notin Opened
      BY <1>4, <2>5, Zenon DEF Opened
    <3> QED BY <2>2, <3>1, <3>2, QuietUseAfter, Zenon
  <2>6. CASE l = "return" /\ pc[t] = "malloc"
    <3>1. op[t] = "open"
      BY <1>1, <2>6, Zenon DEF CallState
    <3>2. InUse(t, d) <=> dev[t] = d
      BY <2>2, <2>6, <3>1, Zenon DEF InUse
    <3>3. pc'[t] \notin Opened
      BY <1>4, <2>6, Zenon DEF Opened
    <3> QED BY <1>6, <2>6, <3>2, <3>3, QuietUseAfter, Zenon
  <2> QED BY <1>4, <2>3, <2>4, <2>5, <2>6, Zenon
<1>12. pc[t] \notin Holding \cup {"loop"} /\ l \notin Holding \cup {"loop"} /\ l \in Labels
  BY <1>2, Zenon DEF Holding, Labels
<1> QED BY <1>3, <1>4, <1>5, <1>8, <1>9, <1>10, <1>11, <1>12, MoveStep, Zenon

-----------------------------------------------------------------------------
\* The active flags.

\* A thread that uses no device takes one that is not active.
LEMMA MarkedTakes ==
  ASSUME Marked, active \in [Devices -> BOOLEAN], NEW t \in Threads,
         \A u \in Threads \ {t} : Kept(u),
         NEW x \in Devices, ~active[x],
         \A d \in Devices : ~InUse(t, d), \A d \in Devices : InUse(t, d)' <=> d = x,
         active' = [active EXCEPT ![x] = TRUE]
  PROVE  Marked'
<1>1. \A u \in Threads \ {t}, d \in Devices : InUse(u, d)' <=> InUse(u, d)
  BY SameUse, Zenon
<1>2. \A u \in Threads : ~InUse(u, x)
  BY Zenon DEF Marked
<1>3. ExclusiveOpen'
  <2>1. ASSUME NEW d \in Devices, NEW u \in Threads, NEW v \in Threads,
               InUse(u, d)', InUse(v, d)'
        PROVE  u = v
    <3>1. CASE d = x
      BY <1>1, <1>2, <2>1, <3>1, Zenon
    <3>2. CASE d # x
      <4>1. u # t /\ v # t
        BY <2>1, <3>2, Zenon
      <4>2. InUse(u, d) /\ InUse(v, d)
        BY <1>1, <2>1, <4>1, Zenon
      <4> QED BY <4>2, Zenon DEF Marked, ExclusiveOpen
    <3> QED BY <3>1, <3>2
  <2> QED BY <2>1, Zenon DEF ExclusiveOpen
<1>4. ASSUME NEW d \in Devices PROVE active'[d] <=> \E u \in Threads : InUse(u, d)'
  <2>1. CASE d = x
    <3>1. active'[d] /\ InUse(t, d)'
      BY <2>1, Zenon
    <3> QED BY <3>1, Zenon
  <2>2. CASE d # x
    <3>1. active'[d] = active[d]
      BY <2>2, Zenon
    <3>2. ~InUse(t, d)' /\ ~InUse(t, d)
      BY <2>2, Zenon
    <3>3. \A u \in Threads : InUse(u, d)' <=> InUse(u, d)
      BY <1>1, <3>2, Zenon
    <3>4. active[d] <=> \E u \in Threads : InUse(u, d)
      BY Zenon DEF Marked
    <3> QED BY <3>1, <3>3, <3>4, Zenon
  <2> QED BY <2>1, <2>2
<1> QED BY <1>3, <1>4, Zenon DEF Marked

\* A thread lets go of the device it uses.
LEMMA MarkedGives ==
  ASSUME Marked, active \in [Devices -> BOOLEAN], NEW t \in Threads,
         \A u \in Threads \ {t} : Kept(u),
         NEW x \in Devices,
         \A d \in Devices : InUse(t, d) <=> d = x, \A d \in Devices : ~InUse(t, d)',
         active' = [active EXCEPT ![x] = FALSE]
  PROVE  Marked'
<1>1. \A u \in Threads \ {t}, d \in Devices : InUse(u, d)' <=> InUse(u, d)
  BY SameUse, Zenon
<1>2. \A u \in Threads : ~InUse(u, x)'
  <2>1. InUse(t, x)
    BY Zenon
  <2>2. \A u \in Threads \ {t} : ~InUse(u, x)
    BY <2>1, Zenon DEF Marked, ExclusiveOpen
  <2> QED BY <1>1, <2>2, Zenon
<1>3. ExclusiveOpen'
  <2>1. ASSUME NEW d \in Devices, NEW u \in Threads, NEW v \in Threads,
               InUse(u, d)', InUse(v, d)'
        PROVE  u = v
    <3>1. u # t /\ v # t
      BY <2>1, Zenon
    <3>2. InUse(u, d) /\ InUse(v, d)
      BY <1>1, <2>1, <3>1, Zenon
    <3> QED BY <3>2, Zenon DEF Marked, ExclusiveOpen
  <2> QED BY <2>1, Zenon DEF ExclusiveOpen
<1>4. ASSUME NEW d \in Devices PROVE active'[d] <=> \E u \in Threads : InUse(u, d)'
  <2>1. CASE d = x
    <3>1. ~active'[d]
      BY <2>1, Zenon
    <3> QED BY <1>2, <2>1, <3>1, Zenon
  <2>2. CASE d # x
    <3>1. active'[d] = active[d]
      BY <2>2, Zenon
    <3>2. ~InUse(t, d)' /\ ~InUse(t, d)
      BY <2>2, Zenon
    <3>3. \A u \in Threads : InUse(u, d)' <=> InUse(u, d)
      BY <1>1, <3>2, Zenon
    <3>4. active[d] <=> \E u \in Threads : InUse(u, d)
      BY Zenon DEF Marked
    <3> QED BY <3>1, <3>3, <3>4, Zenon
  <2> QED BY <2>1, <2>2
<1> QED BY <1>3, <1>4, Zenon DEF Marked

\* A step that changes one flag and the answer.
LEMMA FlagStep ==
  ASSUME WinInv, NEW t \in Threads, UNCHANGED started, NEW l \in {"leave", "return"},
         NEW a, NEW b \in BOOLEAN,
         pc[t] \in Opened, pc' = [pc EXCEPT ![t] = l],
         active' = [active EXCEPT ![dev[t]] = b], ret' = [ret EXCEPT ![t] = a],
         UNCHANGED <<initialized, globalLock, mutex, owner, stats, locals, handle, committed>>,
         AnswerOK(t)', Snapshot(t)', CallState(t)', Marked'
  PROVE  WinInv'
<1> USE DEF WinInv
<1>1. /\ initialized /\ initialized' /\ (started' <=> started) /\ mutex' = mutex
      /\ owner' = owner /\ stats' = stats /\ committed' = committed /\ handle' = handle
      /\ globalLock' = globalLock /\ initialized' = initialized /\ started' = started
  BY Zenon DEF Phases
<1>2. op' = op /\ dev' = dev /\ using' = using /\ loop' = loop /\ size' = size /\ lat' = lat
  BY Zenon DEF locals
<1>3. /\ pc'[t] = l /\ (\A u \in Threads \ {t} : pc'[u] = pc[u])
      /\ pc' \in [Threads -> Labels] /\ active' \in [Devices -> BOOLEAN]
      /\ (\A u \in Threads \ {t} : ret'[u] = ret[u]) /\ DOMAIN ret' = Threads
  BY Zenon DEF TypeOK, Labels
<1>4. \A u \in Threads \ {t} : Kept(u)
  BY <1>1, <1>2, <1>3, Zenon DEF Kept
<1>5. TypeOK'
  <2>1. DOMAIN ret' = Threads /\ \A u \in Threads : AnswerOK(u)'
    BY <1>3, <1>4, OthersAnswer, Zenon
  <2>2. {started', initialized'} \subseteq BOOLEAN /\ globalLock' \in Threads \cup {Free, Nil}
    BY <1>1, Zenon DEF TypeOK
  <2>3. /\ mutex' \in [Devices -> MutexIds \cup {0}]
        /\ owner' \in [MutexIds -> Threads \cup {Free, Nil}]
        /\ stats' \in [Devices -> Statistics] /\ committed' \in [Devices -> Statistics]
        /\ handle' \in [Threads -> Devices \cup {Closed}]
    BY <1>1, Zenon DEF TypeOK
  <2>4. /\ op' \in [Threads -> Ops] /\ dev' \in [Threads -> DeviceIds \cup Devices \cup {Closed}]
        /\ using' \in [Threads -> Threads] /\ loop' \in [Threads -> 0 .. NumDevices]
        /\ size' \in [Threads -> Sizes \cup {0}] /\ lat' \in [Threads -> Latencies \cup {0}]
    BY <1>2, Zenon DEF TypeOK
  <2> QED BY <1>3, <2>1, <2>2, <2>3, <2>4, Zenon DEF TypeOK
<1>6. pc[t] \notin Holding /\ pc'[t] \notin Holding /\ pc[t] # "idle"
  BY <1>3, Zenon DEF Opened, Holding
<1>7. Phases'
  <2>1. PhaseOf(t)
    <3>1. pc'[t] \notin {"section", "loop"}
      BY <1>3, Zenon
    <3> QED BY <1>1, <1>6, <3>1, Caller, Zenon DEF PhaseOf
  <2> QED BY <1>1, <1>4, <2>1, PhasesFrame, Zenon
<1>8. Guarded'
  BY <1>1, <1>4, <1>6, GuardedFrame, Zenon
<1>9. ASSUME NEW u \in Threads PROVE Progress(u)'
  <2>1. CASE u = t
    BY <1>6, <2>1, Zenon DEF Progress, Holding
  <2>2. CASE u # t
    <3>1. Kept(u) /\ Progress(u)
      BY <1>4, <2>2, Zenon
    <3> QED BY <1>1, <3>1, SameProgress, Zenon
  <2> QED BY <2>1, <2>2, Zenon
<1>10. (\A u \in Threads : CallState(u)') /\ (\A u \in Threads : Snapshot(u)')
  BY <1>4, OthersCalls, OthersSnapshots, Zenon
<1> QED BY <1>1, <1>5, <1>7, <1>8, <1>9, <1>10, Zenon

LEMMA OpenCheckStep ==
  ASSUME WinInv, NEW t \in Threads, UNCHANGED started, open_check(t)
  PROVE  WinInv'
<1> USE DEF WinInv
<1>1. PICK a : a = (IF active[dev[t]] THEN Error("DEVICE") ELSE NoAnswer)
  BY Zenon
<1>2. /\ pc[t] = "section_body" /\ op[t] = "open"
      /\ pc' = [pc EXCEPT ![t] = "leave"] /\ pc'[t] = "leave"
      /\ active' = [active EXCEPT ![dev[t]] = TRUE]
      /\ ret' = [ret EXCEPT ![t] = a] /\ ret'[t] = a
      /\ UNCHANGED <<initialized, globalLock, mutex, owner, stats, locals, handle, committed>>
  BY <1>1, Zenon DEF open_check, Goto, Answer, TypeOK
<1>3. /\ CallState(t) /\ dev[t] \in Devices /\ handle[t] = Closed /\ initialized
      /\ active \in [Devices -> BOOLEAN]
  BY <1>2, Zenon DEF CallState, Phases, Opened, TypeOK
<1>4. op' = op /\ dev' = dev /\ size' = size /\ lat' = lat /\ loop' = loop /\ handle' = handle
  BY <1>2, Zenon DEF locals
<1>5. \A u \in Threads \ {t} : Kept(u)
  BY <1>2, <1>4, Zenon DEF Kept, TypeOK
<1>6. a = NoAnswer \/ a = Error("DEVICE")
  BY <1>1, Zenon
<1>7. AnswerOK(t)' /\ Snapshot(t)'
  <2>1. "DEVICE" \in ErrorCodes
    BY Zenon DEF ErrorCodes
  <2> QED BY <1>2, <1>4, <1>6, <2>1, AnswerTypes, Zenon DEF Snapshot
<1>8. CallState(t)'
  BY <1>2, <1>3, <1>4, <1>6, Zenon DEF CallState, AtDevice, Holding, Opened
<1>9. \A d \in Devices : ~InUse(t, d)
  BY <1>2, <1>3, ClosedIsNoDevice, Zenon DEF InUse
<1>10. Marked'
  <2>1. CASE active[dev[t]]
    <3>1. active' = active
      <4>1. \A d \in Devices : active'[d] = active[d]
        BY <1>2, <1>3, <2>1 DEF TypeOK
      <4>2. active' \in [Devices -> BOOLEAN]
        BY <1>2, <1>3, Zenon
      <4> QED BY <1>3, <4>1, <4>2
    <3>2. ret'[t] # NoAnswer
      <4>1. ret'[t] = Error("DEVICE")
        BY <1>1, <1>2, <2>1, Zenon
      <4> QED BY <4>1 DEF Error, NoAnswer
    <3>3. \A d \in Devices : ~InUse(t, d)'
      BY <1>2, <1>3, <1>4, <3>2, ClosedIsNoDevice, Zenon DEF InUse
    <3> QED BY <1>3, <1>5, <1>9, <3>1, <3>3, MarkedFrame, Zenon
  <2>2. CASE ~active[dev[t]]
    <3>1. ret'[t] = NoAnswer
      BY <1>1, <1>2, <2>2, Zenon
    <3>2. \A d \in Devices : InUse(t, d)' <=> d = dev[t]
      BY <1>2, <1>3, <1>4, <3>1, ClosedIsNoDevice, Zenon DEF InUse
    <3> QED BY <1>2, <1>3, <1>5, <1>9, <2>2, <3>2, MarkedTakes, Zenon
  <2> QED BY <2>1, <2>2
<1>11. pc[t] \in Opened
  BY <1>2, Zenon DEF Opened
<1> QED BY <1>2, <1>7, <1>8, <1>10, <1>11, FlagStep, Zenon

\* A close, or an open without memory, gives the device back.
LEMMA GiveStep ==
  ASSUME WinInv, NEW t \in Threads, UNCHANGED started,
         close_body(t) \/ open_malloc_fails(t)
  PROVE  WinInv'
<1> USE DEF WinInv
<1>1. PICK a \in {Ok(0), Error("MEMORY")}, l \in {"leave", "return"} :
        /\ \/ pc[t] = "section_body" /\ op[t] = "close" /\ l = "leave" /\ a = Ok(0)
           \/ pc[t] = "malloc" /\ l = "return" /\ a = Error("MEMORY")
        /\ pc' = [pc EXCEPT ![t] = l] /\ pc'[t] = l
        /\ active' = [active EXCEPT ![dev[t]] = FALSE]
        /\ ret' = [ret EXCEPT ![t] = a] /\ ret'[t] = a
        /\ UNCHANGED <<initialized, globalLock, mutex, owner, stats, locals, handle, committed>>
  <2>1. CASE close_body(t)
    BY <2>1, Zenon DEF close_body, Goto, Answer, TypeOK
  <2>2. CASE open_malloc_fails(t)
    BY <2>2, Zenon DEF open_malloc_fails, Goto, Answer, TypeOK
  <2> QED BY <2>1, <2>2
<1>2. pc[t] \in Opened
  BY <1>1, Zenon DEF Opened
<1>3. /\ CallState(t) /\ dev[t] \in Devices /\ handle[t] = Closed /\ initialized
      /\ active \in [Devices -> BOOLEAN] /\ (pc[t] = "malloc" => op[t] = "open")
  BY <1>1, <1>2, Zenon DEF CallState, Phases, TypeOK
<1>4. op' = op /\ dev' = dev /\ size' = size /\ lat' = lat /\ loop' = loop /\ handle' = handle
  BY <1>1, Zenon DEF locals
<1>5. \A u \in Threads \ {t} : Kept(u)
  BY <1>1, <1>4, Zenon DEF Kept, TypeOK
<1>6. AnswerOK(t)' /\ Snapshot(t)'
  <2>1. "MEMORY" \in ErrorCodes /\ op'[t] # "get"
    BY <1>1, <1>3, <1>4, Zenon DEF ErrorCodes
  <2> QED BY <1>1, <2>1, AnswerTypes, Zenon DEF Snapshot
<1>7. CallState(t)'
  BY <1>1, <1>3, <1>4, Zenon DEF CallState, AtDevice, Holding, Opened
<1>8. \A d \in Devices : InUse(t, d) <=> d = dev[t]
  BY <1>1, <1>3, ClosedIsNoDevice, Zenon DEF InUse
<1>9. \A d \in Devices : ~InUse(t, d)'
  BY <1>1, <1>3, <1>4, ClosedIsNoDevice, Zenon DEF InUse
<1>10. Marked'
  BY <1>1, <1>3, <1>5, <1>8, <1>9, MarkedGives, Zenon
<1> QED BY <1>1, <1>2, <1>6, <1>7, <1>10, FlagStep, Zenon

-----------------------------------------------------------------------------
\* Steps with a mutex.

\* Nobody else is at the device of a thread that holds its mutex, or takes it
\* when it is free.
LEMMA Alone ==
  ASSUME Guarded, NEW t \in Threads, dev[t] \in Devices,
         owner[mutex[dev[t]]] = t \/ owner[mutex[dev[t]]] = Free,
         NEW u \in Threads \ {t}, pc[u] \in Holding
  PROVE  dev[u] # dev[t]
<1>1. owner[mutex[dev[t]]] # u
  BY WindowsAssumption, Zenon
<1> QED BY <1>1, Zenon DEF Guarded

\* t gets, keeps or releases the mutex of its device, and changes nothing of the
\* other devices.
LEMMA GuardedStep ==
  ASSUME Guarded, TypeOK, NEW t \in Threads, \A u \in Threads \ {t} : Kept(u),
         NEW x \in Devices, dev[t] = x, dev'[t] = x, NEW w, NEW s, NEW c,
         owner[mutex[x]] = t \/ owner[mutex[x]] = Free,
         (w = t /\ pc'[t] \in Holding) \/ (w = Free /\ pc'[t] \notin Holding /\ s = c),
         mutex' = mutex, owner' = [owner EXCEPT ![mutex[x]] = w],
         stats' = [stats EXCEPT ![x] = s], committed' = [committed EXCEPT ![x] = c],
         Consistent(c)
  PROVE  Guarded'
<1>1. mutex[x] \in MutexIds /\ w # Nil
  <2>1. mutex[x] \in MutexIds
    BY Zenon DEF Guarded
  <2>2. t # Nil /\ Free # Nil
    BY WindowsAssumption, Zenon
  <2> QED BY <2>1, <2>2, Zenon
<1>2. owner'[mutex[x]] = w /\ stats'[x] = s /\ committed'[x] = c
  BY <1>1, Zenon DEF TypeOK
<1>3. ASSUME NEW d \in Devices, d # x
      PROVE  owner'[mutex[d]] = owner[mutex[d]] /\ stats'[d] = stats[d]
             /\ committed'[d] = committed[d]
  <2>1. mutex[d] # mutex[x] /\ mutex[d] \in MutexIds
    BY <1>3, Zenon DEF Guarded
  <2> QED BY <1>3, <2>1, Zenon DEF TypeOK
<1>4. ASSUME NEW d \in Devices PROVE mutex'[d] \in MutexIds /\ owner'[mutex'[d]] # Nil
  <2>1. mutex[d] \in MutexIds /\ owner[mutex[d]] # Nil
    BY Zenon DEF Guarded
  <2> QED BY <1>1, <1>2, <1>3, <2>1, Zenon
<1>5. \A d \in Devices, e \in Devices : mutex'[d] = mutex'[e] => d = e
  BY Zenon DEF Guarded
<1>6. ASSUME NEW m \in MutexIds, owner'[m] # Nil PROVE \E d \in Devices : mutex'[d] = m
  <2>1. CASE m = mutex[x]
    BY <2>1, Zenon
  <2>2. CASE m # mutex[x]
    <3>1. owner[m] # Nil
      BY <1>1, <1>6, <2>2, Zenon DEF TypeOK
    <3> QED BY <3>1, Zenon DEF Guarded
  <2> QED BY <2>1, <2>2
<1>7. ASSUME NEW d \in Devices, NEW u \in Threads
      PROVE  owner'[mutex'[d]] = u <=> pc'[u] \in Holding /\ dev'[u] = d
  <2>1. CASE d = x /\ u = t
    <3>1. owner'[mutex'[d]] = w
      BY <1>2, <2>1, Zenon
    <3>2. Free # t
      BY WindowsAssumption, Zenon
    <3> QED BY <2>1, <3>1, <3>2, Zenon
  <2>2. CASE d = x /\ u # t
    <3>1. owner'[mutex'[d]] = w /\ w # u
      BY <1>2, <2>2, WindowsAssumption, Zenon
    <3>2. pc'[u] = pc[u] /\ dev'[u] = dev[u]
      BY <2>2, Zenon DEF Kept
    <3>3. pc[u] \in Holding => dev[u] # x
      BY <2>2, Alone, Zenon
    <3> QED BY <2>2, <3>1, <3>2, <3>3, Zenon
  <2>3. CASE d # x
    <3>1. owner'[mutex'[d]] = owner[mutex[d]]
      BY <1>3, <2>3, Zenon
    <3>2. owner[mutex[d]] = u <=> pc[u] \in Holding /\ dev[u] = d
      BY Zenon DEF Guarded
    <3>3. CASE u = t
      BY <2>3, <3>1, <3>2, <3>3, Zenon
    <3>4. CASE u # t
      <4>1. pc'[u] = pc[u] /\ dev'[u] = dev[u]
        BY <3>4, Zenon DEF Kept
      <4> QED BY <3>1, <3>2, <4>1, Zenon
    <3> QED BY <3>3, <3>4
  <2> QED BY <2>1, <2>2, <2>3
<1>8. ASSUME NEW d \in Devices
      PROVE  /\ owner'[mutex'[d]] = Free => stats'[d] = committed'[d]
             /\ Consistent(committed'[d])
  <2>1. CASE d = x
    <3>1. w = Free => s = c
      BY WindowsAssumption, Zenon
    <3> QED BY <1>2, <2>1, <3>1, Zenon
  <2>2. CASE d # x
    <3>1. /\ owner'[mutex'[d]] = owner[mutex[d]] /\ stats'[d] = stats[d]
          /\ committed'[d] = committed[d]
      BY <1>3, <2>2, Zenon
    <3>2. (owner[mutex[d]] = Free => stats[d] = committed[d]) /\ Consistent(committed[d])
      BY Zenon DEF Guarded
    <3> QED BY <3>1, <3>2, Zenon
  <2> QED BY <2>1, <2>2
<1> QED BY <1>4, <1>5, <1>6, <1>7, <1>8, Zenon DEF Guarded

\* A step of a call to l that gets, keeps or releases the mutex of its device x:
\* w is its owner then, s and c are the device's statistics and committed
\* statistics, and k the call's latency.
Holder(t, l, x, w, s, c, k) ==
  /\ pc[t] \in Holding \cup {"wait"} /\ l \in Holding \cup {"return"}
  /\ pc' = [pc EXCEPT ![t] = l]
  /\ x \in Devices /\ dev[t] = x /\ owner[mutex[x]] \in {t, Free}
  /\ s \in Statistics /\ c \in Statistics /\ Consistent(c) /\ k \in Latencies \cup {0}
  /\ IF l \in Holding THEN w = t ELSE w = Free /\ s = c
  /\ owner' = [owner EXCEPT ![mutex[x]] = w]
  /\ stats' = [stats EXCEPT ![x] = s] /\ committed' = [committed EXCEPT ![x] = c]
  /\ lat' = [lat EXCEPT ![t] = k]
  /\ DOMAIN ret' = Threads /\ \A u \in Threads \ {t} : ret'[u] = ret[u]
  /\ table' = table /\ op' = op /\ dev' = dev /\ using' = using /\ loop' = loop
  /\ size' = size /\ handle' = handle

LEMMA HoldStep ==
  ASSUME WinInv, NEW t \in Threads, UNCHANGED started,
         NEW l, NEW x, NEW w, NEW s, NEW c, NEW k, Holder(t, l, x, w, s, c, k),
         AnswerOK(t)', Snapshot(t)', CallState(t)', Progress(t)'
  PROVE  WinInv'
<1> USE DEF WinInv
<1>1. /\ initialized' = initialized /\ started' = started /\ globalLock' = globalLock
      /\ active' = active /\ mutex' = mutex /\ op' = op /\ dev' = dev /\ using' = using
      /\ loop' = loop /\ size' = size /\ handle' = handle
  BY Zenon DEF table, Holder
<1>2. /\ pc'[t] = l /\ (\A u \in Threads \ {t} : pc'[u] = pc[u])
      /\ pc' \in [Threads -> Labels] /\ dev[t] = x /\ x \in Devices
      /\ DOMAIN ret' = Threads /\ (\A u \in Threads \ {t} : ret'[u] = ret[u])
      /\ (\A u \in Threads \ {t} : lat'[u] = lat[u])
      /\ lat' \in [Threads -> Latencies \cup {0}]
      /\ stats' \in [Devices -> Statistics] /\ committed' \in [Devices -> Statistics]
  BY Zenon DEF TypeOK, Labels, Holding, Holder
<1>3. \A u \in Threads \ {t} : Kept(u)
  BY <1>1, <1>2, Zenon DEF Kept
<1>4. initialized /\ Guarded /\ Marked /\ pc[t] # "idle" /\ pc[t] \notin Opened
  BY Zenon DEF Phases, Holding, Opened, Holder
<1>5. TypeOK'
  <2>1. DOMAIN ret' = Threads /\ \A u \in Threads : AnswerOK(u)'
    BY <1>2, <1>3, OthersAnswer, Zenon
  <2>2. {started', initialized'} \subseteq BOOLEAN /\ globalLock' \in Threads \cup {Free, Nil}
    BY <1>1, Zenon DEF TypeOK
  <2>3. w \in Threads \cup {Free, Nil}
    BY Zenon DEF Holder
  <2>4. /\ mutex' \in [Devices -> MutexIds \cup {0}] /\ active' \in [Devices -> BOOLEAN]
        /\ owner' \in [MutexIds -> Threads \cup {Free, Nil}]
        /\ handle' \in [Threads -> Devices \cup {Closed}]
    BY <1>1, <2>3, Zenon DEF TypeOK, Holder
  <2>5. /\ op' \in [Threads -> Ops] /\ dev' \in [Threads -> DeviceIds \cup Devices \cup {Closed}]
        /\ using' \in [Threads -> Threads] /\ loop' \in [Threads -> 0 .. NumDevices]
        /\ size' \in [Threads -> Sizes \cup {0}]
    BY <1>1, Zenon DEF TypeOK
  <2> QED BY <1>2, <2>1, <2>2, <2>4, <2>5, Zenon DEF TypeOK
<1>6. Phases'
  <2>1. PhaseOf(t)
    <3>1. pc'[t] \notin {"section", "loop"}
      BY <1>2, Zenon DEF Holding, Holder
    <3>2. initialized'
      BY <1>1, <1>4, Zenon
    <3> QED BY <1>4, <3>1, <3>2, Caller, Zenon DEF PhaseOf
  <2> QED BY <1>1, <1>3, <2>1, PhasesFrame, Zenon
<1>7. Guarded'
  <2>1. (w = t /\ pc'[t] \in Holding) \/ (w = Free /\ pc'[t] \notin Holding /\ s = c)
    BY <1>2, Zenon DEF Holder
  <2>2. dev'[t] = x /\ (owner[mutex[x]] = t \/ owner[mutex[x]] = Free) /\ Consistent(c)
    BY <1>1, <1>2, Zenon DEF Holder
  <2>3. /\ owner' = [owner EXCEPT ![mutex[x]] = w]
        /\ stats' = [stats EXCEPT ![x] = s] /\ committed' = [committed EXCEPT ![x] = c]
    BY Zenon DEF Holder
  <2> QED BY <1>1, <1>2, <1>3, <1>4, <2>1, <2>2, <2>3, GuardedStep, Zenon
<1>8. Marked'
  <2>1. pc'[t] \notin Opened
    BY <1>2, Zenon DEF Holding, Opened, Holder
  <2>2. ASSUME NEW d \in Devices PROVE InUse(t, d)' <=> InUse(t, d)
    <3>1. InUse(t, d) <=> handle[t] = d
      BY <1>4, QuietUse, Zenon
    <3>2. InUse(t, d)' <=> handle'[t] = d
      BY <2>1, QuietUseAfter, Zenon
    <3> QED BY <1>1, <3>1, <3>2, Zenon
  <2> QED BY <1>1, <1>3, <1>4, <2>2, MarkedFrame, Zenon
<1>9. ASSUME NEW u \in Threads PROVE Progress(u)'
  <2>1. CASE u = t
    BY <2>1, Zenon
  <2>2. CASE u # t
    <3>1. Kept(u) /\ Progress(u)
      BY <1>3, <2>2, Zenon
    <3>2. ASSUME pc[u] \in Holding
          PROVE  stats'[dev[u]] = stats[dev[u]] /\ committed'[dev[u]] = committed[dev[u]]
      <4>1. dev[u] # x
        <5>1. owner[mutex[dev[t]]] = t \/ owner[mutex[dev[t]]] = Free
          BY Zenon DEF Holder
        <5> QED BY <1>2, <1>4, <2>2, <3>2, <5>1, Alone, Zenon
      <4>2. dev[u] \in Devices
        <5>1. CallState(u) /\ pc[u] \notin {"idle", "param", "return"}
          BY <3>2, Zenon DEF Holding
        <5> QED BY <5>1, Zenon DEF CallState
      <4> QED BY <4>1, <4>2, Zenon DEF TypeOK, Holder
    <3> QED BY <3>1, <3>2, SameProgress, Zenon
  <2> QED BY <2>1, <2>2, Zenon
<1>10. (\A u \in Threads : CallState(u)') /\ (\A u \in Threads : Snapshot(u)')
  BY <1>3, OthersCalls, OthersSnapshots, Zenon
<1>11. initialized' <=> TRUE
  BY <1>1, <1>4, Zenon
<1> QED BY <1>5, <1>6, <1>7, <1>8, <1>9, <1>10, <1>11, Zenon

LEMMA SameValue ==
  ASSUME NEW S, NEW R, NEW f \in [S -> R], NEW x
  PROVE  f = [f EXCEPT ![x] = f[x]]
OBVIOUS

\* What a thread knows that holds the mutex of its device.
Held(t, x) ==
  /\ x \in Devices /\ dev[t] = x
  /\ owner[mutex[x]] = t /\ Owner(x) = t
  /\ stats[x] \in Statistics /\ committed[x] \in Statistics /\ Consistent(committed[x])
  /\ owner = [owner EXCEPT ![mutex[x]] = t]
  /\ stats = [stats EXCEPT ![x] = stats[x]]
  /\ committed = [committed EXCEPT ![x] = committed[x]]
  /\ lat = [lat EXCEPT ![t] = lat[t]] /\ lat[t] \in Latencies \cup {0}

LEMMA Holds ==
  ASSUME WinInv, NEW t \in Threads, pc[t] \in Holding
  PROVE  Held(t, dev[t]) /\ CallState(t) /\ Progress(t) /\ AnswerOK(t)
<1> USE DEF WinInv
<1>1. CallState(t) /\ Progress(t) /\ Guarded /\ AnswerOK(t)
  BY Zenon DEF Phases, TypeOK
<1>2. dev[t] \in Devices
  BY <1>1, Zenon DEF CallState, Holding
<1>3. owner[mutex[dev[t]]] = t /\ mutex[dev[t]] \in MutexIds
  BY <1>1, <1>2, Zenon DEF Guarded
<1>4. Owner(dev[t]) = t
  <2>1. mutex[dev[t]] # 0
    BY <1>3, WindowsAssumption, Zenon
  <2> QED BY <1>3, <2>1, Zenon DEF Owner
<1>5. /\ stats[dev[t]] \in Statistics /\ committed[dev[t]] \in Statistics
      /\ Consistent(committed[dev[t]]) /\ lat[t] \in Latencies \cup {0}
  BY <1>1, <1>2, Zenon DEF Guarded, TypeOK
<1>6. owner = [owner EXCEPT ![mutex[dev[t]]] = t]
  <2>1. owner = [owner EXCEPT ![mutex[dev[t]]] = owner[mutex[dev[t]]]]
    BY SameValue, Zenon DEF TypeOK
  <2> QED BY <1>3, <2>1, Zenon
<1>7. /\ stats = [stats EXCEPT ![dev[t]] = stats[dev[t]]]
      /\ committed = [committed EXCEPT ![dev[t]] = committed[dev[t]]]
      /\ lat = [lat EXCEPT ![t] = lat[t]]
  BY SameValue, Zenon DEF TypeOK
<1> QED BY <1>1, <1>2, <1>3, <1>4, <1>5, <1>6, <1>7, Zenon DEF Held

LEMMA WaitStep ==
  ASSUME WinInv, NEW t \in Threads, UNCHANGED started, WaitForSingleObject(t)
  PROVE  WinInv'
<1> USE DEF WinInv
<1>1. PICK x : x = dev[t]
  BY Zenon
<1>2. /\ pc[t] = "wait" /\ pc' = [pc EXCEPT ![t] = "body"] /\ pc'[t] = "body"
      /\ Owner(x) = Free /\ owner' = [owner EXCEPT ![mutex[x]] = t]
      /\ UNCHANGED <<table, stats, locals, handle, ret, committed>>
  BY <1>1, Zenon DEF WaitForSingleObject, Goto, TypeOK
<1>3. /\ CallState(t) /\ Guarded /\ AnswerOK(t) /\ x \in Devices /\ ret[t] = NoAnswer
      /\ op[t] \in {"transfer", "get", "reset"}
  BY <1>1, <1>2, Zenon DEF CallState, Phases, TypeOK, AtDevice
<1>4. owner[mutex[x]] = Free
  BY <1>2, ClosedIsNoDevice, Zenon DEF Owner
<1>5. stats[x] = committed[x] /\ Consistent(committed[x]) /\ committed[x] \in Statistics
  BY <1>3, <1>4, Zenon DEF Guarded, TypeOK
<1>6. /\ op' = op /\ dev' = dev /\ using' = using /\ loop' = loop /\ size' = size
      /\ lat' = lat /\ ret' = ret /\ stats' = stats /\ committed' = committed
      /\ handle' = handle
  BY <1>2, Zenon DEF locals
<1>7. /\ stats' = [stats EXCEPT ![x] = committed[x]]
      /\ committed' = [committed EXCEPT ![x] = committed[x]]
      /\ lat' = [lat EXCEPT ![t] = lat[t]] /\ lat[t] \in Latencies \cup {0}
  <2>1. stats = [stats EXCEPT ![x] = stats[x]]
    BY SameValue, Zenon DEF TypeOK
  <2>2. committed = [committed EXCEPT ![x] = committed[x]]
    BY SameValue, Zenon DEF TypeOK
  <2>3. lat = [lat EXCEPT ![t] = lat[t]] /\ lat[t] \in Latencies \cup {0}
    BY SameValue, Zenon DEF TypeOK
  <2> QED BY <1>5, <1>6, <2>1, <2>2, <2>3, Zenon
<1>8. AnswerOK(t)' /\ Snapshot(t)'
  BY <1>3, <1>6, AnswerTypes, AnswerFields, Zenon DEF Snapshot
<1>9. CallState(t)'
  BY <1>2, <1>3, <1>6, Zenon DEF CallState, AtDevice, Holding, Opened
<1>10. Progress(t)'
  BY <1>1, <1>2, <1>5, <1>6, Zenon DEF Progress
<1>11. Holder(t, "body", x, t, committed[x], committed[x], lat[t])
  <2>1. /\ "body" \in Holding /\ pc[t] \in Holding \cup {"wait"}
        /\ DOMAIN ret' = Threads /\ \A u \in Threads \ {t} : ret'[u] = ret[u]
    BY <1>2, <1>6, Zenon DEF Holding, TypeOK
  <2>2. owner[mutex[x]] \in {t, Free} /\ table' = table /\ dev[t] = x
    BY <1>1, <1>2, <1>4, Zenon
  <2> QED BY <1>2, <1>3, <1>5, <1>6, <1>7, <2>1, <2>2, Zenon DEF Holder
<1> QED BY <1>8, <1>9, <1>10, <1>11, HoldStep, Zenon

LEMMA CountStep ==
  ASSUME WinInv, NEW t \in Threads, UNCHANGED started, transfer_count(t)
  PROVE  WinInv'
<1> USE DEF WinInv
<1>1. PICK x : x = dev[t]
  BY Zenon
<1>2. PICK k \in Latencies : lat' = [lat EXCEPT ![t] = k]
  BY Zenon DEF transfer_count
<1>3. PICK s : s = Counted(stats[x], size[t])
  BY Zenon
<1>4. /\ pc[t] = "body" /\ op[t] = "transfer"
      /\ pc' = [pc EXCEPT ![t] = "latency"] /\ pc'[t] = "latency"
      /\ stats' = [stats EXCEPT ![x] = s]
      /\ UNCHANGED <<table, owner, op, dev, using, loop, size, handle, ret, committed>>
  BY <1>1, <1>3, Zenon DEF transfer_count, Goto, TypeOK
<1>5. Held(t, x) /\ CallState(t) /\ Progress(t) /\ AnswerOK(t)
  BY <1>1, <1>4, Holds, Zenon DEF Holding
<1>6. /\ stats[x] = committed[x] /\ size[t] \in Sizes /\ ret[t] = NoAnswer
      /\ x \in Devices /\ stats[x] \in Statistics /\ Consistent(committed[x])
      /\ committed[x] \in Statistics /\ owner[mutex[x]] = t
  BY <1>1, <1>4, <1>5, Zenon DEF CallState, Progress, Held
<1>7. s \in Statistics
  <2>1. size[t] \in Nat
    BY <1>6, WindowsAssumption, Zenon
  <2> QED BY <1>3, <1>6, <2>1, CountedValues, Zenon
<1>8. owner' = owner /\ ret' = ret /\ committed' = committed
  BY <1>4, Zenon
<1>9. /\ owner' = [owner EXCEPT ![mutex[x]] = t]
      /\ committed' = [committed EXCEPT ![x] = committed[x]]
  BY <1>5, <1>8, Zenon DEF Held
<1>10. AnswerOK(t)' /\ Snapshot(t)'
  BY <1>6, <1>8, AnswerTypes, AnswerFields, Zenon DEF Snapshot
<1>11. CallState(t)'
  BY <1>4, <1>5, <1>6, Zenon DEF CallState, AtDevice, Holding, Opened
<1>12. Progress(t)'
  <2>1. stats'[x] = Counted(committed[x], size[t]) /\ lat'[t] = k
    BY <1>2, <1>3, <1>4, <1>6, Zenon DEF TypeOK
  <2> QED BY <1>1, <1>4, <2>1, Zenon DEF Progress
<1>13. Holder(t, "latency", x, t, s, committed[x], k)
  <2>1. /\ "latency" \in Holding /\ pc[t] \in Holding \cup {"wait"} /\ k \in Latencies \cup {0}
        /\ DOMAIN ret' = Threads /\ \A u \in Threads \ {t} : ret'[u] = ret[u]
    BY <1>4, <1>8, Zenon DEF Holding, TypeOK
  <2>2. owner[mutex[x]] \in {t, Free} /\ table' = table /\ dev[t] = x
    BY <1>1, <1>4, <1>6, Zenon
  <2> QED BY <1>2, <1>4, <1>6, <1>7, <1>9, <2>1, <2>2, Zenon DEF Holder
<1> QED BY <1>10, <1>11, <1>12, <1>13, HoldStep, Zenon

\* The last step of a call before it releases the mutex.
LEMMA BodyStep ==
  ASSUME WinInv, NEW t \in Threads, UNCHANGED started,
         NEW x, NEW s \in Statistics, NEW a, Held(t, x),
         pc[t] \in {"body", "latency"}, pc' = [pc EXCEPT ![t] = "release"],
         stats' = [stats EXCEPT ![x] = s], ret' = [ret EXCEPT ![t] = a],
         UNCHANGED <<table, owner, locals, handle, committed>>,
         \/ /\ op[t] = "transfer" /\ lat[t] \in Latencies
            /\ s = Account(committed[x], size[t], lat[t]) /\ a = Ok(lat[t])
         \/ op[t] = "get" /\ s = committed[x] /\ a = OkStats(committed[x])
         \/ op[t] = "reset" /\ s = Zero /\ a = Ok(0)
  PROVE  WinInv'
<1> USE DEF WinInv
<1>1. /\ x \in Devices /\ dev[t] = x /\ owner[mutex[x]] = t
      /\ committed[x] \in Statistics /\ Consistent(committed[x])
      /\ lat[t] \in Latencies \cup {0}
  BY Zenon DEF Held
<1>2. /\ op' = op /\ dev' = dev /\ using' = using /\ loop' = loop /\ size' = size
      /\ lat' = lat /\ owner' = owner /\ committed' = committed /\ handle' = handle
  BY Zenon DEF locals
<1>3. /\ owner' = [owner EXCEPT ![mutex[x]] = t]
      /\ committed' = [committed EXCEPT ![x] = committed[x]]
      /\ lat' = [lat EXCEPT ![t] = lat[t]]
  BY <1>2, Zenon DEF Held
<1>4. /\ pc'[t] = "release" /\ ret'[t] = a /\ stats'[x] = s
      /\ DOMAIN ret' = Threads /\ \A u \in Threads \ {t} : ret'[u] = ret[u]
  BY <1>1, Zenon DEF TypeOK
<1>5. Outcome(t)'
  BY <1>1, <1>2, <1>4, Zenon DEF Outcome
<1>6. Progress(t)'
  BY <1>4, <1>5, Zenon DEF Progress
<1>7. AnswerOK(t)' /\ Snapshot(t)'
  <2>1. CASE op[t] = "get"
    <3>1. ret'[t] = OkStats(committed[x])
      BY <1>4, <2>1, Zenon
    <3> QED BY <1>1, <1>2, <2>1, <3>1, AnswerTypes, AnswerFields, Zenon DEF Snapshot
  <2>2. CASE op[t] # "get"
    <3>1. ret'[t] = Ok(lat'[t]) \/ ret'[t] = Ok(0)
      BY <1>2, <1>4, <2>2, Zenon
    <3> QED BY <1>2, <2>2, <3>1, AnswerTypes, Zenon DEF Snapshot
  <2> QED BY <2>1, <2>2
<1>8. CallState(t)'
  <2>1. CallState(t)
    BY Zenon
  <2> QED BY <1>2, <1>4, <2>1, Zenon DEF CallState, AtDevice, Holding, Opened
<1>9. Holder(t, "release", x, t, s, committed[x], lat[t])
  <2>1. /\ "release" \in Holding /\ pc[t] \in Holding \cup {"wait"}
        /\ owner[mutex[x]] \in {t, Free} /\ table' = table
    BY <1>1, Zenon DEF Holding
  <2> QED BY <1>1, <1>2, <1>3, <1>4, <2>1, Zenon DEF Holder
<1> QED BY <1>6, <1>7, <1>8, <1>9, HoldStep, Zenon

LEMMA WorkStep ==
  ASSUME WinInv, NEW t \in Threads, UNCHANGED started,
         transfer_latency(t) \/ get_copy(t) \/ reset_clear(t)
  PROVE  WinInv'
<1> USE DEF WinInv
<1>1. PICK x : x = dev[t]
  BY Zenon
<1>2. pc[t] \in {"body", "latency"} /\ pc' = [pc EXCEPT ![t] = "release"]
  BY Zenon DEF transfer_latency, get_copy, reset_clear, Goto
<1>3. Held(t, x) /\ CallState(t) /\ Progress(t)
  BY <1>1, <1>2, Holds, Zenon DEF Holding
<1>4. CASE transfer_latency(t)
  <2>1. PICK s : s = Account(committed[x], size[t], lat[t])
    BY Zenon
  <2>2. /\ pc[t] = "latency" /\ stats' = [stats EXCEPT ![x] = Timed(stats[x], lat[t])]
        /\ ret' = [ret EXCEPT ![t] = Ok(lat[t])]
        /\ UNCHANGED <<table, owner, locals, handle, committed>>
    BY <1>1, <1>4, Zenon DEF transfer_latency, Answer
  <2>3. /\ op[t] = "transfer" /\ lat[t] \in Latencies /\ size[t] \in Sizes
        /\ stats[x] = Counted(committed[x], size[t])
    BY <1>1, <1>3, <2>2, Zenon DEF CallState, Progress
  <2>4. stats' = [stats EXCEPT ![x] = s]
    BY <2>1, <2>2, <2>3, Zenon DEF Account
  <2>5. s \in Statistics
    <3>1. size[t] \in Nat /\ lat[t] \in Nat
      BY <2>3, TimesAndSizes, Zenon
    <3> QED BY <1>3, <2>1, <3>1, AccountTypes, Zenon DEF Held
  <2> QED BY <1>2, <1>3, <2>1, <2>2, <2>3, <2>4, <2>5, BodyStep, Zenon
<1>5. CASE get_copy(t)
  <2>1. /\ pc[t] = "body" /\ op[t] = "get" /\ stats' = stats
        /\ ret' = [ret EXCEPT ![t] = OkStats(stats[x])]
        /\ UNCHANGED <<table, owner, locals, handle, committed>>
    BY <1>1, <1>5, Zenon DEF get_copy, Answer
  <2>2. stats[x] = committed[x]
    BY <1>1, <1>3, <2>1, Zenon DEF Progress
  <2>3. /\ stats' = [stats EXCEPT ![x] = committed[x]] /\ committed[x] \in Statistics
        /\ ret' = [ret EXCEPT ![t] = OkStats(committed[x])]
    BY <1>3, <2>1, <2>2, Zenon DEF Held
  <2> QED BY <1>2, <1>3, <2>1, <2>3, BodyStep, Zenon
<1>6. CASE reset_clear(t)
  <2>1. /\ op[t] = "reset" /\ stats' = [stats EXCEPT ![x] = Zero]
        /\ ret' = [ret EXCEPT ![t] = Ok(0)]
        /\ UNCHANGED <<table, owner, locals, handle, committed>>
    BY <1>1, <1>6, Zenon DEF reset_clear, Answer
  <2> QED BY <1>2, <1>3, <2>1, ZeroConsistent, BodyStep, Zenon
<1> QED BY <1>4, <1>5, <1>6

LEMMA ReleaseStep ==
  ASSUME WinInv, NEW t \in Threads, UNCHANGED started, ReleaseMutex(t)
  PROVE  WinInv'
<1> USE DEF WinInv
<1>1. PICK x : x = dev[t]
  BY Zenon
<1>2. /\ pc[t] = "release" /\ pc' = [pc EXCEPT ![t] = "return"] /\ pc'[t] = "return"
      /\ owner' = IF Owner(x) = t THEN [owner EXCEPT ![mutex[x]] = Free] ELSE owner
      /\ committed' = [committed EXCEPT ![x] = stats[x]]
      /\ UNCHANGED <<table, stats, locals, handle, ret>>
  BY <1>1, Zenon DEF ReleaseMutex, Goto, TypeOK
<1>3. Held(t, x) /\ CallState(t) /\ Progress(t) /\ AnswerOK(t) /\ Snapshot(t)
  BY <1>1, <1>2, Holds, Zenon DEF Holding
<1>4. /\ x \in Devices /\ owner[mutex[x]] = t /\ stats[x] \in Statistics
      /\ committed[x] \in Statistics /\ Consistent(committed[x])
      /\ owner' = [owner EXCEPT ![mutex[x]] = Free]
      /\ lat[t] \in Latencies \cup {0}
  BY <1>2, <1>3, Zenon DEF Held
<1>5. /\ op' = op /\ dev' = dev /\ using' = using /\ loop' = loop /\ size' = size
      /\ lat' = lat /\ ret' = ret /\ stats' = stats /\ handle' = handle
  BY <1>2, Zenon DEF locals
<1>6. stats' = [stats EXCEPT ![x] = stats[x]] /\ lat' = [lat EXCEPT ![t] = lat[t]]
  BY <1>3, <1>5, Zenon DEF Held
<1>7. Consistent(stats[x])
  <2>1. Outcome(t)
    BY <1>2, <1>3, Zenon DEF Progress
  <2>2. CASE /\ op[t] = "transfer" /\ lat[t] \in Latencies
             /\ stats[x] = Account(committed[x], size[t], lat[t])
    <3>1. size[t] \in Sizes /\ size[t] # 0 /\ size[t] <= MaxSize
      BY <1>2, <1>3, <2>2, Zenon DEF CallState, AtDevice, Holding
    <3>2. size[t] \in Nat /\ lat[t] \in Nat /\ lat[t] < UINT64_MAX
      BY <2>2, <3>1, TimesAndSizes, Zenon
    <3> QED BY <1>4, <2>2, <3>1, <3>2, AccountConsistent, Zenon
  <2>3. CASE stats[x] = committed[x]
    BY <1>4, <2>3, Zenon
  <2>4. CASE stats[x] = Zero
    BY <2>4, ZeroConsistent, Zenon
  <2> QED BY <1>1, <2>1, <2>2, <2>3, <2>4, Zenon DEF Outcome
<1>8. AnswerOK(t)' /\ Snapshot(t)'
  BY <1>3, <1>5, Zenon DEF AnswerOK, Snapshot
<1>9. CallState(t)'
  BY <1>2, <1>3, <1>5, Zenon DEF CallState, AtDevice, Holding, Opened
<1>10. Progress(t)'
  BY <1>2, Zenon DEF Progress
<1>11. Holder(t, "return", x, Free, stats[x], stats[x], lat[t])
  <2>1. /\ "return" \notin Holding /\ pc[t] \in Holding \cup {"wait"}
        /\ DOMAIN ret' = Threads /\ \A u \in Threads \ {t} : ret'[u] = ret[u]
    BY <1>2, <1>5, Zenon DEF Holding, TypeOK
  <2>2. owner[mutex[x]] \in {t, Free} /\ table' = table /\ dev[t] = x
    BY <1>1, <1>2, <1>4, Zenon
  <2> QED BY <1>2, <1>4, <1>5, <1>6, <1>7, <2>1, <2>2, Zenon DEF Holder
<1> QED BY <1>8, <1>9, <1>10, <1>11, HoldStep, Zenon

-----------------------------------------------------------------------------
\* The initialisation and the cleanup.

\* A step of the thread that initialises the table, which is alone in it.
LEMMA BuildStep ==
  ASSUME WinInv, Solo, NEW t \in Threads, UNCHANGED started,
         pc[t] \in {"section", "loop"}, pc'[t] \in {"loop", "return"},
         \A u \in Threads \ {t} : Kept(u), handle' = handle, initialized' = initialized,
         TypeOK', Unmade', CallState(t)', Snapshot(t)'
  PROVE  WinInv'
<1> USE DEF WinInv
<1>1. ~initialized /\ ~initialized'
  BY Zenon DEF Phases
<1>2. Phases'
  <2>1. pc[t] # "idle" /\ pc'[t] \notin Opened \cup Holding \cup {"wait"}
    BY Zenon DEF Opened, Holding
  <2>2. PhaseOf(t)
    BY <1>1, <2>1, Caller, Zenon DEF PhaseOf
  <2> QED BY <2>2, PhasesFrame, Zenon
<1>3. ASSUME NEW u \in Threads PROVE Progress(u)'
  <2>1. CASE u = t
    BY <2>1, Zenon DEF Progress
  <2>2. CASE u # t
    <3>1. pc'[u] = "idle"
      BY <1>1, <2>2, OnlyStarter, Zenon DEF Kept
    <3> QED BY <3>1, Zenon DEF Progress
  <2> QED BY <2>1, <2>2
<1>4. (\A u \in Threads : CallState(u)') /\ (\A u \in Threads : Snapshot(u)')
  BY OthersCalls, OthersSnapshots, Zenon
<1> QED BY <1>1, <1>2, <1>3, <1>4, Zenon

LEMMA InitSectionStep ==
  ASSUME WinInv, Solo, NEW t \in Threads, UNCHANGED started, init_section(t)
  PROVE  WinInv'
<1> USE DEF WinInv
<1>1. /\ pc[t] = "section" /\ pc' = [pc EXCEPT ![t] = "loop"] /\ pc'[t] = "loop"
      /\ globalLock' = Free
      /\ UNCHANGED <<initialized, active, mutex, owner, stats, locals, handle, ret, committed>>
  BY Zenon DEF init_section, Goto, TypeOK
<1>2. /\ op' = op /\ dev' = dev /\ using' = using /\ loop' = loop /\ size' = size
      /\ lat' = lat /\ ret' = ret /\ stats' = stats /\ handle' = handle /\ owner' = owner
      /\ mutex' = mutex /\ active' = active /\ committed' = committed
      /\ initialized' = initialized
  BY <1>1, Zenon DEF locals
<1>3. /\ CallState(t) /\ AnswerOK(t) /\ Snapshot(t) /\ ~initialized /\ Unmade
      /\ \A u \in Threads \ {t} : pc[u] = "idle"
  BY <1>1, OnlyStarter, Zenon DEF Phases, TypeOK
<1>4. \A u \in Threads \ {t} : Kept(u)
  BY <1>1, <1>2, Zenon DEF Kept, TypeOK
<1>5. TypeOK'
  <2>1. AnswerOK(t)'
    BY <1>2, <1>3, Zenon DEF AnswerOK
  <2>2. DOMAIN ret' = Threads /\ \A u \in Threads : AnswerOK(u)'
    BY <1>2, <1>4, <2>1, OthersAnswer, Zenon DEF TypeOK
  <2>3. {started', initialized'} \subseteq BOOLEAN
    BY <1>2, Zenon DEF TypeOK
  <2>4. pc' \in [Threads -> Labels] /\ globalLock' \in Threads \cup {Free, Nil}
    BY <1>1, Zenon DEF TypeOK, Labels
  <2> QED BY <1>2, <2>2, <2>3, <2>4, Zenon DEF TypeOK
<1>6. Unmade'
  <2>1. \A m \in MutexIds : owner[m] = Nil
    BY <1>1, <1>3, Zenon DEF Unmade
  <2>2. loop'[t] = 0
    BY <1>1, <1>2, <1>3, Zenon DEF CallState, Opened
  <2>3. 0 .. loop'[t] - 1 = {}
    BY <2>2
  <2>4. Built(t)'
    BY <1>2, <2>1, <2>3, Zenon DEF Built
  <2>5. \A u \in Threads : pc'[u] = "loop" => u = t
    BY <1>3, <1>4, Zenon DEF Kept
  <2> QED BY <1>1, <1>2, <1>3, <2>4, <2>5, Zenon DEF Unmade
<1>7. CallState(t)' /\ Snapshot(t)'
  <2>1. CallState(t)'
    BY <1>1, <1>2, <1>3, Zenon DEF CallState, AtDevice, Holding, Opened
  <2>2. Snapshot(t)'
    BY <1>2, <1>3, Zenon DEF Snapshot
  <2> QED BY <2>1, <2>2
<1> QED BY <1>1, <1>2, <1>4, <1>5, <1>6, <1>7, BuildStep, Zenon

\* The table of t with one more device, whose mutex is m.
LEMMA BuiltNext ==
  ASSUME TypeOK, NEW t \in Threads, Built(t), NEW i, i = loop[t], i < NumDevices,
         NEW m \in MutexIds, owner[m] = Nil,
         mutex' = [mutex EXCEPT ![i] = m], owner' = [owner EXCEPT ![m] = Free],
         stats' = [stats EXCEPT ![i] = Zero], loop'[t] = i + 1
  PROVE  Built(t)'
<1>1. i \in Nat /\ NumDevices \in Nat
  <2>1. i \in 0 .. NumDevices /\ NumDevices \in Nat
    BY WindowsAssumption, Zenon DEF TypeOK
  <2> QED BY <2>1
<1>2. i \in Devices /\ i \notin 0 .. i - 1
  BY <1>1 DEF Devices
<1>3. 0 .. loop'[t] - 1 = (0 .. i - 1) \cup {i}
  BY <1>1
<1>4. 0 .. i - 1 \subseteq Devices
  BY <1>1 DEF Devices
<1>5. mutex'[i] = m /\ owner'[m] = Free /\ stats'[i] = Zero
  BY <1>2, Zenon DEF TypeOK
<1>6. ASSUME NEW d \in 0 .. i - 1
      PROVE  /\ mutex'[d] = mutex[d] /\ mutex[d] \in MutexIds /\ mutex[d] # m
             /\ owner'[mutex[d]] = Free /\ stats'[d] = Zero
  <2>1. mutex[d] \in MutexIds /\ owner[mutex[d]] = Free /\ stats[d] = Zero
    BY Zenon DEF Built
  <2>2. mutex[d] # m /\ d # i /\ d \in Devices
    BY <1>2, <1>4, <2>1, ClosedIsNoDevice, Zenon
  <2> QED BY <2>1, <2>2, Zenon DEF TypeOK
<1>7. ASSUME NEW d \in 0 .. loop'[t] - 1
      PROVE  mutex'[d] \in MutexIds /\ owner'[mutex'[d]] = Free /\ stats'[d] = Zero
  <2>1. d \in 0 .. i - 1 \/ d = i
    BY <1>3, Zenon
  <2> QED BY <1>5, <1>6, <2>1, Zenon
<1>8. ASSUME NEW d \in 0 .. loop'[t] - 1, NEW e \in 0 .. loop'[t] - 1, mutex'[d] = mutex'[e]
      PROVE  d = e
  <2>1. (d \in 0 .. i - 1 \/ d = i) /\ (e \in 0 .. i - 1 \/ e = i)
    BY <1>3, Zenon
  <2>2. CASE d \in 0 .. i - 1 /\ e \in 0 .. i - 1
    <3>1. mutex[d] = mutex[e]
      BY <1>6, <1>8, <2>2, Zenon
    <3> QED BY <2>2, <3>1, Zenon DEF Built
  <2>3. CASE d = i /\ e \in 0 .. i - 1
    BY <1>5, <1>6, <1>8, <2>3, Zenon
  <2>4. CASE d \in 0 .. i - 1 /\ e = i
    BY <1>5, <1>6, <1>8, <2>4, Zenon
  <2> QED BY <2>1, <2>2, <2>3, <2>4, Zenon
<1>9. ASSUME NEW n \in MutexIds, owner'[n] # Nil
      PROVE  \E d \in 0 .. loop'[t] - 1 : mutex'[d] = n
  <2>1. CASE n = m
    BY <1>3, <1>5, <2>1, Zenon
  <2>2. CASE n # m
    <3>1. owner[n] # Nil
      BY <1>9, <2>2, Zenon DEF TypeOK
    <3>2. PICK d \in 0 .. i - 1 : mutex[d] = n
      BY <3>1, Zenon DEF Built
    <3> QED BY <1>3, <1>6, <3>2, Zenon
  <2> QED BY <2>1, <2>2
<1> QED BY <1>7, <1>8, <1>9, Zenon DEF Built

LEMMA InitDeviceStep ==
  ASSUME WinInv, Solo, NEW t \in Threads, UNCHANGED started, init_device(t)
  PROVE  WinInv'
<1> USE DEF WinInv
<1>1. PICK i : i = loop[t]
  BY Zenon
<1>2. PICK m \in MutexIds :
        /\ owner[m] = Nil /\ mutex' = [mutex EXCEPT ![i] = m]
        /\ owner' = [owner EXCEPT ![m] = Free]
  BY <1>1, Zenon DEF init_device
<1>3. /\ pc[t] = "loop" /\ i < NumDevices /\ pc' = pc
      /\ active' = [active EXCEPT ![i] = FALSE] /\ stats' = [stats EXCEPT ![i] = Zero]
      /\ loop' = [loop EXCEPT ![t] = i + 1]
      /\ initialized' = initialized /\ globalLock' = globalLock /\ op' = op /\ dev' = dev
      /\ using' = using /\ size' = size /\ lat' = lat /\ handle' = handle /\ ret' = ret
      /\ committed' = committed
  BY <1>1, Zenon DEF init_device
<1>4. /\ CallState(t) /\ AnswerOK(t) /\ Snapshot(t) /\ ~initialized /\ Unmade /\ Built(t)
      /\ \A u \in Threads \ {t} : pc[u] = "idle"
  BY <1>3, OnlyStarter, Zenon DEF Phases, TypeOK, Unmade
<1>5. loop'[t] = i + 1 /\ \A u \in Threads \ {t} : loop'[u] = loop[u]
  BY <1>3, Zenon DEF TypeOK
<1>6. \A u \in Threads \ {t} : Kept(u)
  BY <1>3, <1>5, Zenon DEF Kept
<1>7. TypeOK'
  <2>1. AnswerOK(t)'
    BY <1>3, <1>4, Zenon DEF AnswerOK
  <2>2. DOMAIN ret' = Threads /\ \A u \in Threads : AnswerOK(u)'
    BY <1>3, <1>6, <2>1, OthersAnswer, Zenon DEF TypeOK
  <2>3. {started', initialized'} \subseteq BOOLEAN
    BY <1>3, Zenon DEF TypeOK
  <2>4. i + 1 \in 0 .. NumDevices
    <3>1. i \in 0 .. NumDevices /\ NumDevices \in Nat
      BY <1>1, WindowsAssumption, Zenon DEF TypeOK
    <3> QED BY <1>3, <3>1
  <2>5. loop' \in [Threads -> 0 .. NumDevices]
    BY <1>3, <2>4, Zenon DEF TypeOK
  <2>6. /\ active' \in [Devices -> BOOLEAN] /\ stats' \in [Devices -> Statistics]
        /\ mutex' \in [Devices -> MutexIds \cup {0}]
        /\ owner' \in [MutexIds -> Threads \cup {Free, Nil}]
    BY <1>2, <1>3, ZeroConsistent, Zenon DEF TypeOK
  <2> QED BY <1>3, <2>2, <2>3, <2>5, <2>6, Zenon DEF TypeOK
<1>8. Unmade'
  <2>1. Built(t)'
    BY <1>1, <1>2, <1>3, <1>4, <1>5, BuiltNext, Zenon
  <2>2. \A u \in Threads : pc'[u] = "loop" => u = t
    BY <1>3, <1>4, Zenon
  <2>3. \A d \in Devices : ~active'[d]
    <3>1. \A d \in Devices : ~active[d]
      BY <1>4, Zenon DEF Unmade
    <3> QED BY <1>3, <3>1, Zenon DEF TypeOK
  <2> QED BY <1>3, <2>1, <2>2, <2>3, Zenon DEF Unmade
<1>9. CallState(t)' /\ Snapshot(t)'
  <2>1. CallState(t)'
    BY <1>3, <1>4, Zenon DEF CallState
  <2>2. Snapshot(t)'
    BY <1>3, <1>4, Zenon DEF Snapshot
  <2> QED BY <2>1, <2>2
<1>10. pc[t] \in {"section", "loop"} /\ pc'[t] \in {"loop", "return"}
  BY <1>3, Zenon
<1> QED BY <1>3, <1>6, <1>7, <1>8, <1>9, <1>10, BuildStep, Zenon

LEMMA InitFailsStep ==
  ASSUME WinInv, Solo, NEW t \in Threads, UNCHANGED started, init_device_fails(t)
  PROVE  WinInv'
<1> USE DEF WinInv
<1>1. /\ pc[t] = "loop" /\ pc' = [pc EXCEPT ![t] = "return"] /\ pc'[t] = "return"
      /\ active' = [active EXCEPT ![loop[t]] = FALSE]
      /\ mutex' = [mutex EXCEPT ![loop[t]] = 0]
      /\ owner' = [m \in MutexIds |->
                     IF m \in {mutex[d] : d \in 0 .. loop[t] - 1} THEN Nil ELSE owner[m]]
      /\ globalLock' = Nil
      /\ ret' = [ret EXCEPT ![t] = Error("SYSTEM")] /\ ret'[t] = Error("SYSTEM")
      /\ UNCHANGED <<initialized, stats, locals, handle, committed>>
  BY Zenon DEF init_device_fails, Goto, Answer, TypeOK
<1>2. /\ op' = op /\ dev' = dev /\ using' = using /\ loop' = loop /\ size' = size
      /\ lat' = lat /\ stats' = stats /\ handle' = handle /\ committed' = committed
      /\ initialized' = initialized
  BY <1>1, Zenon DEF locals
<1>3. /\ CallState(t) /\ ~initialized /\ Unmade /\ Built(t)
      /\ \A u \in Threads \ {t} : pc[u] = "idle"
  BY <1>1, OnlyStarter, Zenon DEF Phases, Unmade
<1>4. \A u \in Threads \ {t} : Kept(u)
  BY <1>1, <1>2, Zenon DEF Kept, TypeOK
<1>5. \A m \in MutexIds : owner'[m] = Nil
  <2>1. ASSUME NEW m \in MutexIds, m \notin {mutex[d] : d \in 0 .. loop[t] - 1}
        PROVE  owner[m] = Nil
    BY <1>3, <2>1, Zenon DEF Built
  <2> QED BY <1>1, <2>1, Zenon
<1>6. AnswerOK(t)' /\ Snapshot(t)'
  <2>1. "SYSTEM" \in ErrorCodes
    BY Zenon DEF ErrorCodes
  <2> QED BY <1>1, <2>1, AnswerTypes, AnswerFields, Zenon DEF Snapshot
<1>7. TypeOK'
  <2>1. DOMAIN ret' = Threads
    BY <1>1, Zenon DEF TypeOK
  <2>2. DOMAIN ret' = Threads /\ \A u \in Threads : AnswerOK(u)'
    BY <1>4, <1>6, <2>1, OthersAnswer, Zenon
  <2>3. {started', initialized'} \subseteq BOOLEAN
    BY <1>2, Zenon DEF TypeOK
  <2>4. /\ pc' \in [Threads -> Labels] /\ globalLock' \in Threads \cup {Free, Nil}
        /\ active' \in [Devices -> BOOLEAN] /\ mutex' \in [Devices -> MutexIds \cup {0}]
    BY <1>1, Zenon DEF TypeOK, Labels
  <2>5. owner' \in [MutexIds -> Threads \cup {Free, Nil}]
    BY <1>1, <1>5, Zenon
  <2> QED BY <1>2, <2>2, <2>3, <2>4, <2>5, Zenon DEF TypeOK
<1>8. Unmade'
  <2>1. \A u \in Threads : pc'[u] # "loop"
    BY <1>1, <1>3, <1>4, Zenon DEF Kept
  <2>2. \A d \in Devices : ~active'[d]
    <3>1. \A d \in Devices : ~active[d]
      BY <1>3, Zenon DEF Unmade
    <3> QED BY <1>1, <3>1, Zenon DEF TypeOK
  <2> QED BY <1>5, <2>1, <2>2, Zenon DEF Unmade
<1>9. CallState(t)'
  BY <1>1, <1>2, <1>3, Zenon DEF CallState, AtDevice, Holding, Opened
<1>10. pc[t] \in {"section", "loop"} /\ pc'[t] \in {"loop", "return"}
  BY <1>1, Zenon
<1> QED BY <1>2, <1>4, <1>6, <1>7, <1>8, <1>9, <1>10, BuildStep, Zenon

LEMMA InitDoneStep ==
  ASSUME WinInv, Solo, NEW t \in Threads, UNCHANGED started, init_done(t)
  PROVE  WinInv'
<1> USE DEF WinInv
<1>1. /\ pc[t] = "loop" /\ loop[t] = NumDevices
      /\ pc' = [pc EXCEPT ![t] = "enter"] /\ pc'[t] = "enter"
      /\ initialized' = TRUE /\ committed' = [d \in Devices |-> Zero]
      /\ UNCHANGED <<globalLock, active, mutex, owner, stats, locals, handle, ret>>
  BY Zenon DEF init_done, Goto, TypeOK
<1>2. /\ op' = op /\ dev' = dev /\ using' = using /\ loop' = loop /\ size' = size
      /\ lat' = lat /\ ret' = ret /\ stats' = stats /\ handle' = handle /\ owner' = owner
      /\ mutex' = mutex /\ active' = active /\ globalLock' = globalLock
  BY <1>1, Zenon DEF locals
<1>3. /\ CallState(t) /\ AnswerOK(t) /\ Snapshot(t) /\ ~initialized /\ Unmade /\ Built(t)
      /\ ~started
      /\ \A u \in Threads \ {t} : pc[u] = "idle" /\ handle[u] = Closed
  BY <1>1, OnlyStarter, Zenon DEF Phases, TypeOK, Unmade
<1>4. \A u \in Threads \ {t} : Kept(u)
  BY <1>1, <1>2, Zenon DEF Kept, TypeOK
<1>5. op[t] = "open" /\ handle[t] = Closed /\ dev[t] \in Devices
  BY <1>1, <1>3, Zenon DEF CallState
<1>6. \A u \in Threads : pc'[u] \notin Holding /\ pc'[u] \notin {"section", "loop"}
  <2>1. \A u \in Threads : pc'[u] \in {"enter", "idle"}
    BY <1>1, <1>3, <1>4, Zenon DEF Kept
  <2> QED BY <2>1, Zenon DEF Holding
<1>7. TypeOK'
  <2>1. AnswerOK(t)'
    BY <1>2, <1>3, Zenon DEF AnswerOK
  <2>2. DOMAIN ret' = Threads /\ \A u \in Threads : AnswerOK(u)'
    BY <1>2, <1>4, <2>1, OthersAnswer, Zenon DEF TypeOK
  <2>3. {started', initialized'} \subseteq BOOLEAN
    BY <1>1, Zenon DEF TypeOK
  <2>4. pc' \in [Threads -> Labels] /\ committed' \in [Devices -> Statistics]
    BY <1>1, ZeroConsistent, Zenon DEF TypeOK, Labels
  <2> QED BY <1>2, <2>2, <2>3, <2>4, Zenon DEF TypeOK
<1>8. Phases'
  <2>1. initialized' /\ (started' <=> started)
    BY <1>1, Zenon
  <2>2. ASSUME NEW u \in Threads \ Starters, ~started'
        PROVE  pc'[u] = "idle" /\ handle'[u] = Closed
    <3>1. u # t
      BY <1>1, <1>3, Zenon DEF Phases
    <3> QED BY <1>3, <1>4, <3>1, Zenon DEF Kept
  <2> QED BY <1>6, <2>1, <2>2, Zenon DEF Phases
<1>9. Guarded'
  <2>1. 0 .. loop[t] - 1 = Devices
    BY <1>1, Zenon DEF Devices
  <2>2. /\ \A d \in Devices : mutex[d] \in MutexIds /\ owner[mutex[d]] = Free /\ stats[d] = Zero
        /\ \A d \in Devices, e \in Devices : mutex[d] = mutex[e] => d = e
        /\ \A m \in MutexIds : owner[m] # Nil => \E d \in Devices : mutex[d] = m
    BY <1>3, <2>1, Zenon DEF Built
  <2>3. \A d \in Devices : mutex'[d] \in MutexIds /\ owner'[mutex'[d]] # Nil
    BY <1>2, <2>2, ClosedIsNoDevice, Zenon
  <2>4. ASSUME NEW d \in Devices, NEW u \in Threads
        PROVE  owner'[mutex'[d]] = u <=> pc'[u] \in Holding /\ dev'[u] = d
    <3>1. owner'[mutex'[d]] = Free /\ Free # u
      BY <1>2, <2>2, ClosedIsNoDevice, Zenon
    <3> QED BY <1>6, <3>1, Zenon
  <2>5. \A d \in Devices : stats'[d] = committed'[d] /\ Consistent(committed'[d])
    BY <1>1, <1>2, <2>2, ZeroConsistent, Zenon
  <2>6. /\ \A d \in Devices, e \in Devices : mutex'[d] = mutex'[e] => d = e
        /\ \A m \in MutexIds : owner'[m] # Nil => \E d \in Devices : mutex'[d] = m
    BY <1>2, <2>2, Zenon
  <2> QED BY <2>3, <2>4, <2>5, <2>6, Zenon DEF Guarded
<1>10. Marked'
  <2>1. ASSUME NEW u \in Threads, NEW d \in Devices PROVE ~InUse(u, d)'
    <3>1. CASE u = t
      BY <1>1, <1>2, <1>5, <3>1, ClosedIsNoDevice, Zenon DEF InUse
    <3>2. CASE u # t
      <4>1. pc'[u] = "idle" /\ handle'[u] = Closed
        BY <1>3, <1>4, <3>2, Zenon DEF Kept
      <4> QED BY <4>1, ClosedIsNoDevice, Zenon DEF InUse
    <3> QED BY <3>1, <3>2
  <2>2. \A d \in Devices : ~active'[d]
    BY <1>2, <1>3, Zenon DEF Unmade
  <2> QED BY <2>1, <2>2, Zenon DEF Marked, ExclusiveOpen
<1>11. CallState(t)' /\ Snapshot(t)'
  <2>1. CallState(t)'
    BY <1>1, <1>2, <1>3, Zenon DEF CallState, AtDevice, Holding, Opened
  <2>2. Snapshot(t)'
    BY <1>2, <1>3, Zenon DEF Snapshot
  <2> QED BY <2>1, <2>2
<1>12. \A u \in Threads : Progress(u)'
  BY <1>6, Zenon DEF Progress, Holding
<1>13. (\A u \in Threads : CallState(u)') /\ (\A u \in Threads : Snapshot(u)')
  BY <1>4, <1>11, OthersCalls, OthersSnapshots, Zenon
<1> QED BY <1>1, <1>7, <1>8, <1>9, <1>10, <1>12, <1>13, Zenon

LEMMA CleanupStep ==
  ASSUME WinInv, UNCHANGED started, pcie_sim_windows_cleanup
  PROVE  WinInv'
<1> USE DEF WinInv
<1>1. /\ initialized /\ ~started /\ \A t \in Threads : pc[t] = "idle"
      /\ owner' = [m \in MutexIds |-> IF \E d \in Devices : mutex[d] = m THEN Nil ELSE owner[m]]
      /\ mutex' = [d \in Devices |-> 0] /\ active' = [d \in Devices |-> FALSE]
      /\ initialized' = FALSE /\ globalLock' = Nil
      /\ UNCHANGED <<stats, pc, locals, handle, ret, committed>>
  BY Zenon DEF pcie_sim_windows_cleanup
<1>2. /\ op' = op /\ dev' = dev /\ using' = using /\ loop' = loop /\ size' = size
      /\ lat' = lat /\ ret' = ret /\ stats' = stats /\ handle' = handle /\ pc' = pc
      /\ committed' = committed
  BY <1>1, Zenon DEF locals
<1>3. \A m \in MutexIds : owner'[m] = Nil
  BY <1>1, Zenon DEF Guarded
<1>4. TypeOK'
  <2>1. DOMAIN ret' = Threads /\ \A u \in Threads : AnswerOK(u)'
    BY <1>2, Zenon DEF TypeOK, AnswerOK
  <2>2. {started', initialized'} \subseteq BOOLEAN
    BY <1>1, Zenon DEF TypeOK
  <2>3. /\ owner' \in [MutexIds -> Threads \cup {Free, Nil}]
        /\ mutex' \in [Devices -> MutexIds \cup {0}] /\ active' \in [Devices -> BOOLEAN]
        /\ globalLock' \in Threads \cup {Free, Nil}
    BY <1>1, <1>3, Zenon
  <2> QED BY <1>2, <2>1, <2>2, <2>3, Zenon DEF TypeOK
<1>5. Phases'
  <2>1. ~initialized' /\ (started' <=> started)
    BY <1>1, Zenon
  <2>2. \A u \in Threads : pc'[u] = "idle" /\ "idle" \notin Opened \cup Holding \cup {"wait"}
    BY <1>1, <1>2, Zenon DEF Opened, Holding
  <2> QED BY <1>1, <1>2, <2>1, <2>2, Zenon DEF Phases
<1>6. Unmade'
  BY <1>1, <1>2, <1>3, Zenon DEF Unmade
<1>7. ASSUME NEW u \in Threads PROVE CallState(u)' /\ Progress(u)' /\ Snapshot(u)'
  <2>1. CallState(u) /\ Snapshot(u) /\ pc'[u] = "idle" /\ Kept(u)
    BY <1>1, <1>2, Zenon DEF Kept
  <2>2. CallState(u)'
    BY <2>1, Zenon DEF CallState, Kept
  <2> QED BY <2>1, <2>2, Zenon DEF Progress, Snapshot, Kept
<1> QED BY <1>1, <1>4, <1>5, <1>6, <1>7, Zenon

-----------------------------------------------------------------------------
\* The invariant and what follows from it.

LEMMA WinInvStutter ==
  ASSUME WinInv, UNCHANGED vars
  PROVE  WinInv'
<1> USE DEF WinInv
<1>1. /\ op' = op /\ dev' = dev /\ using' = using /\ loop' = loop /\ size' = size
      /\ lat' = lat /\ ret' = ret /\ stats' = stats /\ handle' = handle /\ pc' = pc
      /\ committed' = committed /\ owner' = owner /\ mutex' = mutex /\ active' = active
      /\ globalLock' = globalLock /\ (started' <=> started) /\ (initialized' <=> initialized)
      /\ started' = started /\ initialized' = initialized
  BY Zenon DEF vars, table, locals
<1>2. \A u \in Threads : Kept(u)
  BY <1>1, Zenon DEF Kept
<1>3. TypeOK'
  <2>1. DOMAIN ret' = Threads /\ \A u \in Threads : AnswerOK(u)'
    BY <1>1, Zenon DEF TypeOK, AnswerOK
  <2>2. {started', initialized'} \subseteq BOOLEAN
    BY <1>1, Zenon DEF TypeOK
  <2> QED BY <1>1, <2>1, <2>2, Zenon DEF TypeOK
<1>4. Phases'
  BY <1>1, Zenon DEF Phases
<1>5. initialized => Guarded' /\ Marked'
  <2>1. Guarded => Guarded'
    BY <1>1 DEF Guarded
  <2>2. \A u \in Threads, d \in Devices : InUse(u, d)' <=> InUse(u, d)
    BY <1>2, SameUse, Zenon
  <2>3. Marked => Marked'
    BY <1>1, <2>2, Zenon DEF Marked, ExclusiveOpen
  <2> QED BY <2>1, <2>3, Zenon
<1>6. ~initialized => Unmade'
  <2>1. \A u \in Threads : Built(u) => Built(u)'
    BY <1>1, Zenon DEF Built
  <2>2. Unmade => Unmade'
    BY <1>1, <2>1, Zenon DEF Unmade
  <2> QED BY <2>2, Zenon
<1>7. ASSUME NEW u \in Threads PROVE CallState(u)' /\ Progress(u)' /\ Snapshot(u)'
  <2>1. CallState(u) /\ Progress(u) /\ Snapshot(u) /\ Kept(u)
    BY <1>2, Zenon
  <2>2. CallState(u)'
    BY <2>1, Zenon DEF CallState, Kept
  <2>3. Progress(u)'
    BY <1>1, <2>1, SameProgress, Zenon
  <2> QED BY <2>1, <2>2, <2>3, Zenon DEF Snapshot, Kept
<1> QED BY <1>1, <1>3, <1>4, <1>5, <1>6, <1>7, Zenon

LEMMA WinInvStep ==
  ASSUME WinInv, Solo, [Next]_vars
  PROVE  WinInv'
<1>1. ASSUME NEW t \in Threads, started \/ t \in Starters, Calling(t), UNCHANGED started
      PROVE  WinInv'
  BY <1>1, CallingStep, Zenon
<1>2. ASSUME NEW t \in Threads, Running(t), UNCHANGED started PROVE WinInv'
  <2>1. CASE windows_sim_init(t) \/ check_active(t)
    BY <1>2, <2>1, LookStep, Zenon
  <2>2. CASE init_section(t)
    BY <1>2, <2>2, InitSectionStep, Zenon
  <2>3. CASE init_device(t)
    BY <1>2, <2>3, InitDeviceStep, Zenon
  <2>4. CASE init_device_fails(t)
    BY <1>2, <2>4, InitFailsStep, Zenon
  <2>5. CASE init_done(t)
    BY <1>2, <2>5, InitDoneStep, Zenon
  <2>6. CASE Enter(t) \/ Leave(t) \/ open_malloc(t)
    BY <1>2, <2>6, SectionStep, Zenon
  <2>7. CASE open_check(t)
    BY <1>2, <2>7, OpenCheckStep, Zenon
  <2>8. CASE close_body(t) \/ open_malloc_fails(t)
    BY <1>2, <2>8, GiveStep, Zenon
  <2>9. CASE param_error(t) \/ check_active_fails(t) \/ wait_timeout(t)
    BY <1>2, <2>9, ErrorStep, Zenon
  <2>10. CASE WaitForSingleObject(t)
    BY <1>2, <2>10, WaitStep, Zenon
  <2>11. CASE transfer_count(t)
    BY <1>2, <2>11, CountStep, Zenon
  <2>12. CASE transfer_latency(t) \/ get_copy(t) \/ reset_clear(t)
    BY <1>2, <2>12, WorkStep, Zenon
  <2>13. CASE ReleaseMutex(t)
    BY <1>2, <2>13, ReleaseStep, Zenon
  <2>14. CASE Return(t)
    BY <1>2, <2>14, ReturnStep, Zenon
  <2> QED BY <1>2, <2>1, <2>2, <2>3, <2>4, <2>5, <2>6, <2>7, <2>8, <2>9, <2>10, <2>11,
             <2>12, <2>13, <2>14, Zenon DEF Running, Initialising, Sectioning, Accessing
<1>3. CASE pcie_sim_windows_cleanup /\ UNCHANGED started
  BY <1>3, CleanupStep, Zenon
<1>4. CASE UNCHANGED vars
  BY <1>4, WinInvStutter, Zenon
<1> QED BY <1>1, <1>2, <1>3, <1>4, Zenon DEF Next

LEMMA WinInvariant ==
  ASSUME Solo
  PROVE  Spec => []WinInv
<1>1. Init => WinInv
  BY WinInvInit, Zenon
<1>2. WinInv /\ [Next]_vars => WinInv'
  BY WinInvStep, Zenon
<1> QED BY <1>1, <1>2, PTL DEF Spec

LEMMA Consequences ==
  ASSUME WinInv
  PROVE  ActiveMeansInUse /\ SnapshotsConsistent /\ ActiveDevicesHaveMutexes
<1> USE DEF WinInv
<1>1. ActiveMeansInUse
  <2>1. ASSUME initialized, NEW d \in Devices
        PROVE  Cardinality({t \in Threads : InUse(t, d)}) = IF active[d] THEN 1 ELSE 0
    <3>1. ExclusiveOpen /\ (active[d] <=> \E t \in Threads : InUse(t, d))
      BY <2>1, Zenon DEF Marked
    <3>2. CASE active[d]
      <4>1. PICK t \in Threads : InUse(t, d)
        BY <3>1, <3>2, Zenon
      <4>2. {u \in Threads : InUse(u, d)} = {t}
        BY <3>1, <4>1, Zenon DEF ExclusiveOpen
      <4>3. Cardinality({t}) = 1
        BY FS_Singleton, Zenon
      <4> QED BY <3>2, <4>2, <4>3, Zenon
    <3>3. CASE ~active[d]
      <4>1. {u \in Threads : InUse(u, d)} = {}
        BY <3>1, <3>3, Zenon
      <4>2. Cardinality({}) = 0
        BY FS_EmptySet, Zenon
      <4> QED BY <3>3, <4>1, <4>2, Zenon
    <3> QED BY <3>2, <3>3
  <2> QED BY <2>1, Zenon DEF ActiveMeansInUse
<1>2. SnapshotsConsistent
  BY Zenon DEF SnapshotsConsistent, Guarded, Snapshot
<1>3. ActiveDevicesHaveMutexes
  <2>1. ASSUME NEW d \in Devices, active[d] PROVE Owner(d) # Nil
    <3>1. initialized
      BY <2>1, Zenon DEF Unmade
    <3>2. mutex[d] \in MutexIds /\ owner[mutex[d]] # Nil
      BY <3>1, Zenon DEF Guarded
    <3>3. mutex[d] # 0
      BY <3>2, WindowsAssumption, Zenon
    <3> QED BY <3>2, <3>3, Zenon DEF Owner
  <2>2. initialized => \A d, e \in Devices : mutex[d] = mutex[e] => d = e
    BY Zenon DEF Guarded
  <2>3. (\A t \in Threads : pc[t] # "loop") /\ ~initialized => \A m \in MutexIds : owner[m] = Nil
    BY Zenon DEF Unmade
  <2> QED BY <2>1, <2>2, <2>3, Zenon DEF ActiveDevicesHaveMutexes
<1> QED BY <1>1, <1>2, <1>3

\* A device is marked active exactly while one thread uses it, and no two threads
\* use it at the same time (windows_sim.c:172-188 and 209-211), for any number of
\* threads and devices, when the table is initialised by one thread.
THEOREM OpensExclude ==
  ASSUME Solo
  PROVE  Spec => []ActiveMeansInUse
<1>1. WinInv => ActiveMeansInUse
  BY Consequences, Zenon
<1> QED BY <1>1, WinInvariant, PTL

\* pcie_sim_get_stats returns consistent statistics whatever the other threads do
\* (windows_sim.c:235-281 and 304-309), for any sizes and latencies.
THEOREM StatisticsConsistent ==
  ASSUME Solo
  PROVE  Spec => []SnapshotsConsistent
<1>1. WinInv => SnapshotsConsistent
  BY Consequences, Zenon
<1> QED BY <1>1, WinInvariant, PTL

\* Every active device has a mutex of its own, and a failed initialisation or a
\* cleanup leaves no mutex behind (windows_sim.c:58-92 and 95-113).
THEOREM MutexesAreAccounted ==
  ASSUME Solo
  PROVE  Spec => []ActiveDevicesHaveMutexes
<1>1. WinInv => ActiveDevicesHaveMutexes
  BY Consequences, Zenon
<1> QED BY <1>1, WinInvariant, PTL

-----------------------------------------------------------------------------
\* The calls on a device implement the atomic statistics object.

\* t is initialising the table.
Building(t) == op[t] = "open" /\ pc[t] \in {"section", "loop"}

\* The object sees nothing of t.
Quiet(t) == ~Watching(t) /\ ~Building(t) /\ ~Initialised(t) /\ ~InitFailed(t)

\* What the object sees of t.
View(t) ==
  /\ Quiet(t) => SimCall(t) = Device!Idle /\ SimAnswer(t) = NoAnswer
  /\ Building(t) => SimCall(t) = [op |-> "reset"] /\ SimAnswer(t) = NoAnswer
  /\ Initialised(t) => SimCall(t) = Device!Returning /\ SimAnswer(t) = Ok(0)
  /\ InitFailed(t) => SimCall(t) = Device!Returning /\ SimAnswer(t) = ret[t]
  /\ Watching(t) /\ pc[t] = "return" => SimCall(t) = Device!Returning /\ SimAnswer(t) = ret[t]
  /\ Watching(t) /\ pc[t] # "return" =>
       /\ SimAnswer(t) = NoAnswer
       /\ op[t] = "transfer" => SimCall(t) = [op |-> "transfer", size |-> size[t]]
       /\ op[t] = "get" => SimCall(t) = [op |-> "get"]
       /\ op[t] = "reset" => SimCall(t) = [op |-> "reset"]

\* A failed initialisation is known when its open returns.
LEMMA SystemError ==
  /\ \A v : Ok(v) # Error("SYSTEM")
  /\ \A e : e # "SYSTEM" => Error(e) # Error("SYSTEM")
  /\ NoAnswer # Error("SYSTEM") /\ NoAnswer # Error("DEVICE") /\ NoAnswer # Ok(0)
<1>1. \A v : Ok(v).code = "ok"
  BY DEF Ok
<1>2. \A e : Error(e).code = e
  BY DEF Error
<1>3. NoAnswer.code = "none"
  BY DEF NoAnswer
<1> QED BY <1>1, <1>2, <1>3

LEMMA FailsAtReturn ==
  ASSUME WinInv
  PROVE  \A t \in Threads : InitFailed(t) => pc[t] = "return"
<1>1. SUFFICES ASSUME NEW t \in Threads, InitFailed(t), pc[t] # "return" PROVE FALSE
  BY Zenon
<1>2. CallState(t) /\ op[t] = "open" /\ ret[t] = Error("SYSTEM")
  BY <1>1, Zenon DEF WinInv, InitFailed
<1>3. pc[t] # "release"
  BY <1>2, Zenon DEF CallState, AtDevice, Holding
<1>4. ret[t] \in {NoAnswer, Ok(0), Error("DEVICE")}
  BY <1>1, <1>2, <1>3, Zenon DEF CallState
<1> QED BY <1>2, <1>4, SystemError, Zenon

LEMMA ViewOf ==
  ASSUME WinInv
  PROVE  \A t \in Threads : View(t)
<1> SUFFICES ASSUME NEW t \in Threads PROVE View(t)
  BY Zenon
<1>1. InitFailed(t) => pc[t] = "return"
  BY FailsAtReturn, Zenon
<1>2. Quiet(t) => SimCall(t) = Device!Idle /\ SimAnswer(t) = NoAnswer
  BY Zenon DEF Quiet, Building, SimCall, SimAnswer, Device!Idle
<1>3. Building(t) => SimCall(t) = [op |-> "reset"] /\ SimAnswer(t) = NoAnswer
  <2>1. Building(t) => /\ ~Watching(t) /\ ~Initialised(t) /\ ~InitFailed(t)
                       /\ op[t] = "open" /\ pc[t] \in {"section", "loop"}
    BY <1>1, Zenon DEF Building, Watching, Initialised
  <2> QED BY <2>1, Zenon DEF SimCall, SimAnswer
<1>4. Initialised(t) => SimCall(t) = Device!Returning /\ SimAnswer(t) = Ok(0)
  <2>1. Initialised(t) => /\ ~Watching(t) /\ ~InitFailed(t)
                          /\ op[t] = "open" /\ pc[t] \notin {"section", "loop"}
    BY <1>1, Zenon DEF Watching, Initialised
  <2> QED BY <2>1, Zenon DEF SimCall, SimAnswer, Device!Returning
<1>5. InitFailed(t) => SimCall(t) = Device!Returning /\ SimAnswer(t) = ret[t]
  <2>1. InitFailed(t) => ~Watching(t) /\ ~Initialised(t) /\ pc[t] \notin {"section", "loop"}
    BY <1>1, Zenon DEF Watching, Initialised, InitFailed
  <2> QED BY <2>1, Zenon DEF SimCall, SimAnswer, Device!Returning
<1>6. ASSUME Watching(t) PROVE ~Initialised(t) /\ ~InitFailed(t) /\ op[t] # "open"
  BY <1>6, Zenon DEF Watching, Initialised, InitFailed
<1>7. ASSUME Watching(t), pc[t] = "return"
      PROVE  SimCall(t) = Device!Returning /\ SimAnswer(t) = ret[t]
  BY <1>6, <1>7, Zenon DEF SimCall, SimAnswer, Device!Returning
<1>8. ASSUME Watching(t), pc[t] # "return"
      PROVE  /\ SimAnswer(t) = NoAnswer
             /\ op[t] = "transfer" => SimCall(t) = [op |-> "transfer", size |-> size[t]]
             /\ op[t] = "get" => SimCall(t) = [op |-> "get"]
             /\ op[t] = "reset" => SimCall(t) = [op |-> "reset"]
  BY <1>6, <1>8, Zenon DEF SimCall, SimAnswer
<1> QED BY <1>2, <1>3, <1>4, <1>5, <1>7, <1>8, Zenon DEF View

\* The same, in this state and in the next.
Views == \A t \in Threads : View(t)

LEMMA ViewsNext == (WinInv => Views) /\ (WinInv' => Views')
<1>1. WinInv => Views
  BY ViewOf, Zenon DEF Views
<1> QED BY <1>1, PTL

\* What a call that begins changes.
Begins(t) ==
  /\ pc[t] = "idle" /\ pc'[t] \in {"param", "init", "enter", "active"} /\ ret' = ret
  /\ loop' = loop /\ committed' = committed
  /\ pc'[t] = "enter" => op'[t] = "close"
  /\ \A u \in Threads \ {t} : Kept(u)

LEMMA CallBegins ==
  ASSUME WinInv, NEW t \in Threads, NEW o, NEW u, NEW d, NEW ok, NEW l \in {"init", "enter", "active"},
         Call(t, o, u, d, ok, l), l = "enter" => o = "close",
         \A v \in Threads \ {t} : size'[v] = size[v] /\ handle'[v] = handle[v]
  PROVE  Begins(t)
<1>1. DOMAIN pc = Threads /\ DOMAIN op = Threads /\ DOMAIN dev = Threads
  BY Zenon DEF WinInv, TypeOK
<1>2. pc'[t] = (IF ok THEN l ELSE "param") /\ op'[t] = o
  BY <1>1, Zenon DEF Call, Goto
<1>3. \A v \in Threads \ {t} : Kept(v)
  BY <1>1, Zenon DEF Call, Goto, Kept
<1>4. pc[t] = "idle" /\ ret' = ret /\ loop' = loop /\ committed' = committed
  BY Zenon DEF Call
<1> QED BY <1>2, <1>3, <1>4, Zenon DEF Begins

LEMMA CallingBegins ==
  ASSUME WinInv, NEW t \in Threads, Calling(t)
  PROVE  Begins(t)
<1>1. DOMAIN size = Threads /\ DOMAIN handle = Threads
  BY Zenon DEF WinInv, TypeOK
<1>2. ASSUME NEW d \in DeviceIds, pcie_sim_open_impl(t, d) PROVE Begins(t)
  BY <1>2, CallBegins, Zenon DEF pcie_sim_open_impl
<1>3. CASE pcie_sim_close_impl(t)
  <2>1. \A v \in Threads \ {t} : size'[v] = size[v] /\ handle'[v] = handle[v]
    BY <1>1, <1>3, Zenon DEF pcie_sim_close_impl
  <2>2. Call(t, "close", t, handle[t], TRUE, "enter")
    BY <1>3, Zenon DEF pcie_sim_close_impl
  <2> QED BY <2>1, <2>2, CallBegins, Zenon
<1>4. ASSUME NEW u \in Threads, NEW n \in Sizes, NEW b \in BOOLEAN,
             pcie_sim_transfer_impl(t, u, n, b)
      PROVE  Begins(t)
  <2>1. \A v \in Threads \ {t} : size'[v] = size[v] /\ handle'[v] = handle[v]
    BY <1>1, <1>4, Zenon DEF pcie_sim_transfer_impl
  <2>2. PICK ok : Call(t, "transfer", u, handle[u], ok, "active")
    BY <1>4, Zenon DEF pcie_sim_transfer_impl
  <2> QED BY <2>1, <2>2, CallBegins, Zenon
<1>5. ASSUME NEW u \in Threads, pcie_sim_get_stats_impl(t, u) PROVE Begins(t)
  BY <1>5, CallBegins, Zenon DEF pcie_sim_get_stats_impl
<1>6. ASSUME NEW u \in Threads, pcie_sim_reset_stats_impl(t, u) PROVE Begins(t)
  BY <1>6, CallBegins, Zenon DEF pcie_sim_reset_stats_impl
<1> QED BY <1>2, <1>3, <1>4, <1>5, <1>6, Zenon DEF Calling

\* A step of one thread leaves the others where they are.
LEMMA StepKeeps ==
  ASSUME WinInv, NEW t \in Threads, Calling(t) \/ Running(t)
  PROVE  \A u \in Threads \ {t} : Kept(u)
<1>1. /\ DOMAIN pc = Threads /\ DOMAIN op = Threads /\ DOMAIN dev = Threads
      /\ DOMAIN handle = Threads /\ DOMAIN size = Threads /\ DOMAIN lat = Threads
      /\ DOMAIN ret = Threads /\ DOMAIN loop = Threads
  BY Zenon DEF WinInv, TypeOK
<1>2. CASE Calling(t)
  BY <1>2, CallingBegins, Zenon DEF Begins
<1>3. CASE windows_sim_init(t) \/ init_section(t) \/ init_done(t)
  BY <1>1, <1>3, Zenon DEF windows_sim_init, init_section, init_done, Goto, locals, Kept
<1>4. CASE init_device(t)
  BY <1>1, <1>4, Zenon DEF init_device, Kept
<1>5. CASE init_device_fails(t)
  BY <1>1, <1>5, Zenon DEF init_device_fails, Goto, Answer, locals, Kept
<1>6. CASE Enter(t) \/ Leave(t)
  BY <1>1, <1>6, Zenon DEF Enter, Leave, Goto, locals, Kept
<1>7. CASE open_check(t) \/ close_body(t) \/ open_malloc(t) \/ open_malloc_fails(t)
  BY <1>1, <1>7, Zenon DEF open_check, close_body, open_malloc, open_malloc_fails, Goto, Answer,
     locals, Kept
<1>8. CASE check_active(t) \/ WaitForSingleObject(t) \/ ReleaseMutex(t)
  BY <1>1, <1>8, Zenon DEF check_active, WaitForSingleObject, ReleaseMutex, Goto, locals, Kept
<1>9. CASE check_active_fails(t) \/ wait_timeout(t) \/ param_error(t)
  BY <1>1, <1>9, Zenon DEF check_active_fails, wait_timeout, param_error, Goto, Answer, locals, Kept
<1>10. CASE transfer_count(t)
  BY <1>1, <1>10, Zenon DEF transfer_count, Goto, Kept
<1>11. CASE transfer_latency(t) \/ get_copy(t) \/ reset_clear(t)
  BY <1>1, <1>11, Zenon DEF transfer_latency, get_copy, reset_clear, Goto, Answer, locals, Kept
<1>12. CASE Return(t)
  BY <1>1, <1>12, Zenon DEF Return, Goto, Answer, Kept
<1> QED BY <1>2, <1>3, <1>4, <1>5, <1>6, <1>7, <1>8, <1>9, <1>10, <1>11, <1>12, Zenon
        DEF Running, Initialising, Sectioning, Accessing

\* So it keeps their calls and answers.
LEMMA OthersKeep ==
  ASSUME NEW t \in Threads, \A u \in Threads \ {t} : Kept(u)
  PROVE  /\ Calls' = [Calls EXCEPT ![t] = SimCall(t)']
         /\ Answers' = [Answers EXCEPT ![t] = SimAnswer(t)']
         /\ Calls[t] = SimCall(t) /\ Answers[t] = SimAnswer(t)
         /\ SimCall(t)' = SimCall(t) => Calls' = Calls
         /\ SimAnswer(t)' = SimAnswer(t) => Answers' = Answers
<1>1. ASSUME NEW u \in Threads \ {t}
      PROVE  SimCall(u)' = SimCall(u) /\ SimAnswer(u)' = SimAnswer(u)
  <2>1. Kept(u)
    BY Zenon
  <2>2. /\ Watching(u)' <=> Watching(u)
        /\ Initialised(u)' <=> Initialised(u)
        /\ InitFailed(u)' <=> InitFailed(u)
    BY <2>1, Zenon DEF Kept, Watching, Initialised, InitFailed
  <2> QED BY <2>1, <2>2, Zenon DEF SimCall, SimAnswer, Kept
<1> QED BY <1>1, Zenon DEF Calls, Answers

\* The answers of the backend and of the object are the same values.
LEMMA SameAnswers ==
  /\ \A v : Ok(v) = Device!Ok(v) /\ OkStats(v) = Device!OkStats(v) /\ Error(v) = Device!Error(v)
  /\ NoAnswer = Device!NoAnswer
BY Zenon DEF Ok, OkStats, Error, NoAnswer, Device!Ok, Device!OkStats, Device!Error, Device!NoAnswer

LEMMA TransferCall ==
  ASSUME NEW c, NEW s, c = [op |-> "transfer", size |-> s]
  PROVE  c.op = "transfer" /\ c.size = s /\ (s \in Sizes => c \in Device!Operations)
BY DEF Device!Operations

LEMMA PlainCall ==
  ASSUME NEW c, NEW o \in {"get", "reset"}, c = [op |-> o]
  PROVE  c.op = o /\ c \in Device!Operations
BY DEF Device!Operations

Stutter == UNCHANGED <<committed[Watched], Calls, Answers>>

\* A step of t that the object does not see.
Silent(t) ==
  /\ committed'[Watched] = committed[Watched]
  /\ \/ Quiet(t) /\ Quiet(t)'
     \/ Building(t) /\ Building(t)'
     \/ /\ Watching(t) /\ Watching(t)' /\ pc[t] # "return" /\ pc'[t] # "return"
        /\ op'[t] = op[t] /\ size'[t] = size[t]

LEMMA SilentStutters ==
  ASSUME WinInv, WinInv', NEW t \in Threads, \A u \in Threads \ {t} : Kept(u), Silent(t)
  PROVE  Stutter
<1>1. View(t) /\ View(t)'
  BY ViewsNext, Zenon DEF Views
<1>2. SimCall(t)' = SimCall(t) /\ SimAnswer(t)' = SimAnswer(t)
  <2>1. CASE Quiet(t) /\ Quiet(t)'
    BY <1>1, <2>1, Zenon DEF View
  <2>2. CASE Building(t) /\ Building(t)'
    BY <1>1, <2>2, Zenon DEF View
  <2>3. CASE /\ Watching(t) /\ Watching(t)' /\ pc[t] # "return" /\ pc'[t] # "return"
             /\ op'[t] = op[t] /\ size'[t] = size[t]
    <3>1. op[t] \in {"transfer", "get", "reset"}
      BY <2>3, Zenon DEF Watching
    <3> QED BY <1>1, <2>3, <3>1, Zenon DEF View
  <2> QED BY <2>1, <2>2, <2>3, Zenon DEF Silent
<1> QED BY <1>2, OthersKeep, Zenon DEF Silent, Stutter

\* A step of t from the call c to the answer a.
LEMMA EffectOf ==
  ASSUME NEW t \in Threads, \A u \in Threads \ {t} : Kept(u), NEW a,
         SimCall(t)' = Device!Returning, SimAnswer(t)' = a
  PROVE  Device!Effect(t, a) /\ Calls[t] = SimCall(t)
BY OthersKeep, Zenon DEF Device!Effect

\* A call begins.
LEMMA CallRefines ==
  ASSUME WinInv, WinInv', NEW t \in Threads, Calling(t)
  PROVE  Device!Next \/ Stutter
<1>1. \A u \in Threads \ {t} : Kept(u)
  BY StepKeeps, Zenon
<1>2. /\ pc[t] = "idle" /\ pc'[t] \in {"param", "init", "enter", "active"} /\ ret' = ret
      /\ loop' = loop /\ committed' = committed
      /\ pc'[t] = "enter" => op'[t] = "close"
  BY CallingBegins, Zenon DEF Begins
<1>3. op[t] = "none" /\ ret[t] = NoAnswer /\ CallState(t)'
  BY <1>2, Zenon DEF WinInv, CallState
<1>4. Quiet(t)
  BY <1>2, <1>3, Zenon DEF Quiet, Watching, Building, Initialised, InitFailed
<1>5. ~Building(t)' /\ ~Initialised(t)' /\ ~InitFailed(t)'
  <2>1. ~Building(t)' /\ ~Initialised(t)'
    BY <1>2, Zenon DEF Building, Initialised
  <2>2. ~InitFailed(t)'
    BY <1>2, <1>3, SystemError, Zenon DEF InitFailed
  <2> QED BY <2>1, <2>2
<1>6. CASE ~Watching(t)'
  <2>1. Silent(t)
    BY <1>2, <1>4, <1>5, <1>6, Zenon DEF Silent, Quiet
  <2> QED BY <1>1, <2>1, SilentStutters, Zenon
<1>7. CASE Watching(t)'
  <2>1. View(t) /\ View(t)'
    BY ViewsNext, Zenon DEF Views
  <2>2. SimCall(t) = Device!Idle /\ SimAnswer(t) = NoAnswer /\ SimAnswer(t)' = NoAnswer
    BY <1>2, <1>4, <1>7, <2>1, Zenon DEF View
  <2>3. SimCall(t)' \in Device!Operations
    <3>1. CASE op'[t] = "transfer"
      <4>1. SimCall(t)' = [op |-> "transfer", size |-> size'[t]] /\ size'[t] \in Sizes
        BY <1>2, <1>3, <1>7, <2>1, <3>1, Zenon DEF View, CallState
      <4> QED BY <4>1, TransferCall, Zenon
    <3>2. CASE op'[t] = "get"
      <4>1. SimCall(t)' = [op |-> "get"]
        BY <1>2, <1>7, <2>1, <3>2, Zenon DEF View
      <4> QED BY <4>1, PlainCall, Zenon
    <3>3. CASE op'[t] = "reset"
      <4>1. SimCall(t)' = [op |-> "reset"]
        BY <1>2, <1>7, <2>1, <3>3, Zenon DEF View
      <4> QED BY <4>1, PlainCall, Zenon
    <3> QED BY <1>7, <3>1, <3>2, <3>3, Zenon DEF Watching
  <2>4. Device!Invoke(t, SimCall(t)')
    BY <1>1, <1>2, <2>2, OthersKeep, Zenon DEF Device!Invoke
  <2> QED BY <2>3, <2>4, Zenon DEF Device!Next
<1> QED BY <1>6, <1>7

\* The initialisation of the table is a reset of its devices: called when an open
\* finds it not initialised, refused when a mutex cannot be created, returning
\* when the open goes on.
LEMMA InitRefines ==
  ASSUME WinInv, WinInv', NEW t \in Threads, Initialising(t)
  PROVE  Device!Next \/ Stutter
<1>1. \A u \in Threads \ {t} : Kept(u)
  BY StepKeeps, Zenon DEF Running
<1>2. View(t) /\ View(t)' /\ CallState(t)
  BY ViewsNext, Zenon DEF Views, WinInv
<1>3. DOMAIN pc = Threads /\ DOMAIN ret = Threads
  BY Zenon DEF WinInv, TypeOK
<1>4. CASE windows_sim_init(t)
  <2>1. /\ pc[t] = "init" /\ op' = op /\ dev' = dev /\ loop' = loop /\ ret' = ret
        /\ committed' = committed /\ pc'[t] = IF initialized THEN "enter" ELSE "section"
    BY <1>3, <1>4, Zenon DEF windows_sim_init, Goto, locals
  <2>2. op[t] = "open" /\ ret[t] = NoAnswer /\ loop[t] = 0
    BY <1>2, <2>1, Zenon DEF CallState, Opened
  <2>3. Quiet(t)
    BY <2>1, <2>2, SystemError, Zenon DEF Quiet, Watching, Building, Initialised, InitFailed
  <2>4. CASE initialized
    <3>1. NumDevices # 0
      BY WindowsAssumption DEF Devices
    <3>2. pc'[t] = "enter" /\ loop'[t] # NumDevices
      BY <2>1, <2>2, <2>4, <3>1, Zenon
    <3>3. Quiet(t)'
      BY <2>1, <2>2, <3>2, SystemError, Zenon
         DEF Quiet, Watching, Building, Initialised, InitFailed
    <3>4. Silent(t)
      BY <2>1, <2>3, <3>3, Zenon DEF Silent
    <3> QED BY <1>1, <3>4, SilentStutters, Zenon
  <2>5. CASE ~initialized
    <3>1. Building(t)'
      BY <2>1, <2>2, <2>5, Zenon DEF Building
    <3>2. /\ SimCall(t) = Device!Idle /\ SimAnswer(t)' = SimAnswer(t)
          /\ SimCall(t)' = [op |-> "reset"]
      BY <1>2, <2>3, <3>1, Zenon DEF View
    <3>3. SimCall(t)' \in Device!Operations
      BY <3>2, PlainCall, Zenon
    <3>4. Device!Invoke(t, SimCall(t)')
      BY <1>1, <2>1, <3>2, OthersKeep, Zenon DEF Device!Invoke
    <3> QED BY <3>3, <3>4, Zenon DEF Device!Next
  <2> QED BY <2>4, <2>5
<1>5. CASE init_section(t) \/ init_device(t)
  <2>1. pc[t] \in {"section", "loop"} /\ pc'[t] = "loop" /\ op' = op /\ committed' = committed
    BY <1>3, <1>5, Zenon DEF init_section, init_device, Goto, locals
  <2>2. Building(t) /\ Building(t)'
    BY <1>2, <2>1, Zenon DEF CallState, Building
  <2>3. Silent(t)
    BY <2>1, <2>2, Zenon DEF Silent
  <2> QED BY <1>1, <2>3, SilentStutters, Zenon
<1>6. CASE init_device_fails(t) \/ init_done(t)
  <2>1. /\ pc[t] = "loop" /\ op' = op /\ loop' = loop
    BY <1>6, Zenon DEF init_device_fails, init_done, locals
  <2>2. op[t] = "open" /\ Building(t)
    BY <1>2, <2>1, Zenon DEF CallState, Building
  <2>3. SimCall(t) = [op |-> "reset"]
    BY <1>2, <2>2, Zenon DEF View
  <2>4. SimCall(t).op = "reset" /\ SimCall(t) \in Device!Operations
    BY <2>3, PlainCall, Zenon
  <2>5. CASE init_device_fails(t)
    <3>1. ret'[t] = Error("SYSTEM") /\ committed' = committed
      BY <1>3, <2>5, Zenon DEF init_device_fails, Answer
    <3>2. InitFailed(t)'
      BY <2>1, <2>2, <3>1, Zenon DEF InitFailed
    <3>3. SimCall(t)' = Device!Returning /\ SimAnswer(t)' = Device!Error("SYSTEM")
      BY <1>2, <3>1, <3>2, SameAnswers, Zenon DEF View
    <3>4. Device!Effect(t, Device!Error("SYSTEM")) /\ Calls[t] = SimCall(t)
      BY <1>1, <3>3, EffectOf, Zenon
    <3>5. "SYSTEM" \in ErrorCodes
      BY Zenon DEF ErrorCodes
    <3>6. Device!Refuse(t)
      BY <2>4, <3>1, <3>4, <3>5, Zenon DEF Device!Refuse
    <3> QED BY <3>6, Zenon DEF Device!Next
  <2>6. CASE init_done(t)
    <3>1. pc'[t] = "enter" /\ loop[t] = NumDevices /\ committed'[Watched] = Zero
      BY <1>3, <2>6, WindowsAssumption, Zenon DEF init_done, Goto
    <3>2. Initialised(t)'
      BY <2>1, <2>2, <3>1, Zenon DEF Initialised
    <3>3. SimCall(t)' = Device!Returning /\ SimAnswer(t)' = Device!Ok(0)
      BY <1>2, <3>2, SameAnswers, Zenon DEF View
    <3>4. Device!Effect(t, Device!Ok(0)) /\ Calls[t] = SimCall(t)
      BY <1>1, <3>3, EffectOf, Zenon
    <3>5. Device!Reset(t)
      BY <2>4, <3>1, <3>4, Zenon DEF Device!Reset
    <3> QED BY <3>5, Zenon DEF Device!Next
  <2> QED BY <1>6, <2>5, <2>6
<1> QED BY <1>4, <1>5, <1>6, Zenon DEF Initialising

\* The object returns what a call answered.
LEMMA Returned ==
  ASSUME WinInv, WinInv', NEW t \in Threads, \A u \in Threads \ {t} : Kept(u),
         SimCall(t) = Device!Returning, Quiet(t)', committed'[Watched] = committed[Watched]
  PROVE  Device!Next
<1>1. SimCall(t)' = Device!Idle /\ SimAnswer(t)' = Device!NoAnswer
  BY ViewsNext, SameAnswers, Zenon DEF Views, View
<1>2. Device!Return(t)
  BY <1>1, OthersKeep, Zenon DEF Device!Return
<1> QED BY <1>2, Zenon DEF Device!Next

LEMMA EnterRefines ==
  ASSUME WinInv, WinInv', NEW t \in Threads, Enter(t)
  PROVE  Device!Next \/ Stutter
<1>1. \A u \in Threads \ {t} : Kept(u)
  BY StepKeeps, Zenon DEF Running
<1>2. View(t) /\ CallState(t)
  BY ViewsNext, Zenon DEF Views, WinInv
<1>3. /\ pc[t] = "enter" /\ pc'[t] = "section_body" /\ op' = op /\ dev' = dev /\ ret' = ret
      /\ committed' = committed
  BY Zenon DEF Enter, Goto, locals, WinInv, TypeOK
<1>4. ret[t] = NoAnswer /\ op[t] \in {"open", "close"}
  BY <1>2, <1>3, Zenon DEF CallState
<1>5. Quiet(t)'
  BY <1>3, <1>4, SystemError, Zenon DEF Quiet, Watching, Building, Initialised, InitFailed
<1>6. CASE Initialised(t)
  <2>1. SimCall(t) = Device!Returning
    BY <1>2, <1>6, Zenon DEF View
  <2> QED BY <1>1, <1>3, <1>5, <2>1, Returned, Zenon
<1>7. CASE ~Initialised(t)
  <2>1. Quiet(t)
    BY <1>3, <1>4, <1>7, SystemError, Zenon DEF Quiet, Watching, Building, InitFailed
  <2>2. Silent(t)
    BY <1>3, <1>5, <2>1, Zenon DEF Silent
  <2> QED BY <1>1, <2>2, SilentStutters, Zenon
<1> QED BY <1>6, <1>7

\* The rest of an open or a close is not seen.
LEMMA SectionRefines ==
  ASSUME WinInv, WinInv', NEW t \in Threads, Sectioning(t)
  PROVE  Stutter
<1>1. \A u \in Threads \ {t} : Kept(u)
  BY StepKeeps, Zenon DEF Running
<1>2. CallState(t)
  BY Zenon DEF WinInv
<1>3. DOMAIN pc = Threads /\ DOMAIN ret = Threads
  BY Zenon DEF WinInv, TypeOK
<1>4. /\ pc[t] \in {"section_body", "leave", "malloc"} /\ op' = op
      /\ pc'[t] \in {"leave", "malloc", "return"} /\ committed' = committed
      /\ ret'[t] \in {ret[t], NoAnswer, Ok(0), Error("DEVICE"), Error("MEMORY")}
  <2>1. CASE open_check(t)
    BY <1>3, <2>1, Zenon DEF open_check, Goto, Answer, locals
  <2>2. CASE close_body(t)
    BY <1>3, <2>2, Zenon DEF close_body, Goto, Answer, locals
  <2>3. CASE Leave(t)
    BY <1>3, <2>3, Zenon DEF Leave, Goto, locals
  <2>4. CASE open_malloc(t)
    BY <1>3, <2>4, Zenon DEF open_malloc, Goto, Answer, locals
  <2>5. CASE open_malloc_fails(t)
    BY <1>3, <2>5, Zenon DEF open_malloc_fails, Goto, Answer, locals
  <2> QED BY <2>1, <2>2, <2>3, <2>4, <2>5, Zenon DEF Sectioning
<1>5. op[t] \in {"open", "close"} /\ ret[t] \in {NoAnswer, Ok(0), Error("DEVICE")}
  BY <1>2, <1>4, Zenon DEF CallState
<1>6. ret[t] # Error("SYSTEM") /\ ret'[t] # Error("SYSTEM")
  BY <1>4, <1>5, SystemError, Zenon
<1>7. Quiet(t) /\ Quiet(t)'
  BY <1>4, <1>5, <1>6, Zenon DEF Quiet, Watching, Building, Initialised, InitFailed
<1>8. Silent(t)
  BY <1>4, <1>7, Zenon DEF Silent
<1> QED BY <1>1, <1>8, SilentStutters, Zenon

\* Nothing of a transfer, get or reset is seen before it releases the mutex.
LEMMA AccessRefines ==
  ASSUME WinInv, WinInv', NEW t \in Threads,
         \/ check_active(t) \/ WaitForSingleObject(t) \/ transfer_count(t)
         \/ transfer_latency(t) \/ get_copy(t) \/ reset_clear(t)
  PROVE  Stutter
<1>1. \A u \in Threads \ {t} : Kept(u)
  BY StepKeeps, Zenon DEF Running, Accessing
<1>2. CallState(t)
  BY Zenon DEF WinInv
<1>3. DOMAIN pc = Threads
  BY Zenon DEF WinInv, TypeOK
<1>4. /\ pc[t] \in AtDevice /\ pc'[t] \in AtDevice
      /\ op' = op /\ dev' = dev /\ size' = size /\ committed' = committed
  <2>1. CASE check_active(t) \/ WaitForSingleObject(t)
    BY <1>3, <2>1, Zenon DEF check_active, WaitForSingleObject, Goto, locals, AtDevice, Holding
  <2>2. CASE transfer_count(t) \/ transfer_latency(t)
    BY <1>3, <2>2, Zenon DEF transfer_count, transfer_latency, Goto, locals, AtDevice, Holding
  <2>3. CASE get_copy(t) \/ reset_clear(t)
    BY <1>3, <2>3, Zenon DEF get_copy, reset_clear, Goto, locals, AtDevice, Holding
  <2> QED BY <2>1, <2>2, <2>3
<1>5. op[t] # "open" /\ pc[t] # "return" /\ pc'[t] # "return"
  BY <1>2, <1>4, Zenon DEF CallState, AtDevice, Holding
<1>6. (Watching(t)' <=> Watching(t)) /\ (~Watching(t) => Quiet(t) /\ Quiet(t)')
  BY <1>4, <1>5, Zenon DEF Quiet, Watching, Building, Initialised, InitFailed
<1>7. Silent(t)
  BY <1>4, <1>5, <1>6, Zenon DEF Silent
<1> QED BY <1>1, <1>7, SilentStutters, Zenon

\* The call that the object sees of a thread at the watched device.
LEMMA WatchedCall ==
  ASSUME WinInv, NEW t \in Threads, Watching(t), pc[t] # "return"
  PROVE  SimCall(t) \in Device!Operations
<1>1. View(t) /\ CallState(t)
  BY ViewsNext, Zenon DEF Views, WinInv
<1>2. CASE op[t] = "transfer"
  <2>1. SimCall(t) = [op |-> "transfer", size |-> size[t]] /\ size[t] \in Sizes
    BY <1>1, <1>2, Zenon DEF View, CallState
  <2> QED BY <2>1, TransferCall, Zenon
<1>3. CASE op[t] = "get"
  <2>1. SimCall(t) = [op |-> "get"]
    BY <1>1, <1>3, Zenon DEF View
  <2> QED BY <2>1, PlainCall, Zenon
<1>4. CASE op[t] = "reset"
  <2>1. SimCall(t) = [op |-> "reset"]
    BY <1>1, <1>4, Zenon DEF View
  <2> QED BY <2>1, PlainCall, Zenon
<1> QED BY <1>2, <1>3, <1>4, Zenon DEF Watching

\* A rejected call is refused: bad parameters, an inactive device, or a timeout.
LEMMA ErrorRefines ==
  ASSUME WinInv, WinInv', NEW t \in Threads,
         param_error(t) \/ check_active_fails(t) \/ wait_timeout(t)
  PROVE  Device!Next \/ Stutter
<1>1. \A u \in Threads \ {t} : Kept(u)
  BY StepKeeps, Zenon DEF Running, Accessing
<1>2. View(t) /\ View(t)' /\ CallState(t)
  BY ViewsNext, Zenon DEF Views, WinInv
<1>3. DOMAIN pc = Threads /\ DOMAIN ret = Threads
  BY Zenon DEF WinInv, TypeOK
<1>4. PICK e \in {"PARAM", "DEVICE", "TIMEOUT"} :
        /\ pc[t] \in {"param", "active", "wait"} /\ pc'[t] = "return" /\ ret'[t] = Error(e)
        /\ op' = op /\ dev' = dev /\ committed' = committed
  BY <1>3, Zenon DEF param_error, check_active_fails, wait_timeout, Goto, Answer, locals
<1>5. pc[t] # "return" /\ ret[t] = NoAnswer /\ (Watching(t)' <=> Watching(t))
  BY <1>2, <1>4, Zenon DEF CallState, Watching
<1>6. CASE Watching(t)
  <2>1. SimCall(t)' = Device!Returning /\ SimAnswer(t)' = Device!Error(e)
    BY <1>2, <1>4, <1>5, <1>6, SameAnswers, Zenon DEF View
  <2>2. Device!Effect(t, Device!Error(e)) /\ Calls[t] = SimCall(t)
    BY <1>1, <2>1, EffectOf, Zenon
  <2>3. e \in ErrorCodes /\ SimCall(t) \in Device!Operations
    BY <1>5, <1>6, WatchedCall, Zenon DEF ErrorCodes
  <2>4. Device!Refuse(t)
    BY <1>4, <2>2, <2>3, Zenon DEF Device!Refuse
  <2> QED BY <2>4, Zenon DEF Device!Next
<1>7. CASE ~Watching(t)
  <2>1. Quiet(t)
    BY <1>4, <1>5, <1>7, SystemError, Zenon DEF Quiet, Building, Initialised, InitFailed
  <2>2. e # "SYSTEM"
    BY Zenon
  <2>3. Quiet(t)'
    BY <1>4, <1>5, <1>7, <2>2, SystemError, Zenon DEF Quiet, Building, Initialised, InitFailed
  <2>4. Silent(t)
    BY <1>4, <2>1, <2>3, Zenon DEF Silent
  <2> QED BY <1>1, <2>4, SilentStutters, Zenon
<1> QED BY <1>6, <1>7

\* Releasing the mutex is the instant at which a call takes effect.
LEMMA ReleaseRefines ==
  ASSUME WinInv, WinInv', NEW t \in Threads, ReleaseMutex(t)
  PROVE  Device!Next \/ Stutter
<1>1. \A u \in Threads \ {t} : Kept(u)
  BY StepKeeps, Zenon DEF Running, Accessing
<1>2. View(t) /\ View(t)' /\ CallState(t) /\ TypeOK
  BY ViewsNext, Zenon DEF Views, WinInv
<1>3. PICK x, s, c : x = dev[t] /\ s = stats[x] /\ c = committed[x]
  BY Zenon
<1>4. /\ pc[t] = "release" /\ pc'[t] = "return" /\ op' = op /\ dev' = dev /\ ret' = ret
      /\ committed' = [committed EXCEPT ![x] = s]
  BY <1>2, <1>3, Zenon DEF ReleaseMutex, Goto, locals, TypeOK
<1>5. Held(t, x) /\ Progress(t)
  BY <1>3, <1>4, Holds, Zenon DEF Holding
<1>6. x \in Devices /\ op[t] \in {"transfer", "get", "reset"} /\ Outcome(t)
  BY <1>2, <1>4, <1>5, Zenon DEF Held, CallState, Progress, AtDevice, Holding
<1>7. CASE ~Watching(t)
  <2>1. x # Watched
    BY <1>3, <1>6, <1>7, Zenon DEF Watching
  <2>2. committed'[Watched] = committed[Watched]
    BY <1>2, <1>4, <2>1, WindowsAssumption, Zenon DEF TypeOK
  <2>3. Quiet(t) /\ Quiet(t)'
    BY <1>4, <1>6, <1>7, Zenon DEF Quiet, Watching, Building, Initialised, InitFailed
  <2>4. Silent(t)
    BY <2>2, <2>3, Zenon DEF Silent
  <2> QED BY <1>1, <2>4, SilentStutters, Zenon
<1>8. CASE Watching(t)
  <2>1. x = Watched /\ committed'[Watched] = s /\ committed[Watched] = c
    BY <1>2, <1>3, <1>4, <1>6, <1>8, Zenon DEF Watching, TypeOK
  <2>2. Watching(t)' /\ pc[t] # "return"
    BY <1>4, <1>8, Zenon DEF Watching
  <2>3. SimCall(t)' = Device!Returning /\ SimAnswer(t)' = ret[t]
    BY <1>2, <1>4, <2>2, Zenon DEF View
  <2>4. Device!Effect(t, ret[t]) /\ Calls[t] = SimCall(t)
    BY <1>1, <2>3, EffectOf, Zenon
  <2>5. CASE op[t] = "transfer" /\ lat[t] \in Latencies /\ s = Account(c, size[t], lat[t])
             /\ ret[t] = Ok(lat[t])
    <3>1. Calls[t] = [op |-> "transfer", size |-> size[t]]
      BY <1>2, <1>8, <2>2, <2>4, <2>5, Zenon DEF View
    <3>2. Calls[t].op = "transfer" /\ Calls[t].size = size[t]
      BY <3>1, TransferCall, Zenon
    <3>3. Device!Effect(t, Device!Ok(lat[t]))
      BY <2>4, <2>5, SameAnswers, Zenon
    <3>4. Device!Transfer(t)
      BY <2>1, <2>5, <3>2, <3>3, Zenon DEF Device!Transfer
    <3> QED BY <3>4, Zenon DEF Device!Next
  <2>6. CASE op[t] = "get" /\ s = c /\ ret[t] = OkStats(c)
    <3>1. Calls[t] = [op |-> "get"]
      BY <1>2, <1>8, <2>2, <2>4, <2>6, Zenon DEF View
    <3>2. Calls[t].op = "get"
      BY <3>1, PlainCall, Zenon
    <3>3. Device!Effect(t, Device!OkStats(committed[Watched]))
      BY <2>1, <2>4, <2>6, SameAnswers, Zenon
    <3>4. Device!Get(t)
      BY <2>1, <2>6, <3>2, <3>3, Zenon DEF Device!Get
    <3> QED BY <3>4, Zenon DEF Device!Next
  <2>7. CASE op[t] = "reset" /\ s = Zero /\ ret[t] = Ok(0)
    <3>1. Calls[t] = [op |-> "reset"]
      BY <1>2, <1>8, <2>2, <2>4, <2>7, Zenon DEF View
    <3>2. Calls[t].op = "reset"
      BY <3>1, PlainCall, Zenon
    <3>3. Device!Effect(t, Device!Ok(0))
      BY <2>4, <2>7, SameAnswers, Zenon
    <3>4. Device!Reset(t)
      BY <2>1, <2>7, <3>2, <3>3, Zenon DEF Device!Reset
    <3> QED BY <3>4, Zenon DEF Device!Next
  <2> QED BY <1>3, <1>6, <2>5, <2>6, <2>7, Zenon DEF Outcome
<1> QED BY <1>7, <1>8

LEMMA ReturnRefines ==
  ASSUME WinInv, WinInv', NEW t \in Threads, Return(t)
  PROVE  Device!Next \/ Stutter
<1>1. \A u \in Threads \ {t} : Kept(u)
  BY StepKeeps, Zenon DEF Running
<1>2. View(t)
  BY ViewsNext, Zenon DEF Views, WinInv
<1>3. pc[t] = "return" /\ op'[t] = "none" /\ committed' = committed
  BY Zenon DEF Return, WinInv, TypeOK
<1>4. Quiet(t)'
  BY <1>3, Zenon DEF Quiet, Watching, Building, Initialised, InitFailed
<1>5. CASE Watching(t) \/ InitFailed(t)
  <2>1. SimCall(t) = Device!Returning
    BY <1>2, <1>3, <1>5, Zenon DEF View
  <2> QED BY <1>1, <1>3, <1>4, <2>1, Returned, Zenon
<1>6. CASE ~Watching(t) /\ ~InitFailed(t)
  <2>1. Quiet(t)
    BY <1>3, <1>6, Zenon DEF Quiet, Building, Initialised
  <2>2. Silent(t)
    BY <1>3, <1>4, <2>1, Zenon DEF Silent
  <2> QED BY <1>1, <2>2, SilentStutters, Zenon
<1> QED BY <1>5, <1>6

LEMMA ObjectInit == Init => Device!Init
<1> SUFFICES ASSUME Init PROVE Device!Init
  OBVIOUS
<1>1. ASSUME NEW t \in Threads
      PROVE  SimCall(t) = Device!Idle /\ SimAnswer(t) = Device!NoAnswer
  <2>1. op[t] = "none"
    BY DEF Init
  <2>2. ~Watching(t) /\ ~Initialised(t) /\ ~InitFailed(t) /\ op[t] # "open"
    BY <2>1, Zenon DEF Watching, Initialised, InitFailed
  <2> QED BY <2>2, Zenon DEF SimCall, SimAnswer, Device!Idle, NoAnswer, Device!NoAnswer
<1>2. committed[Watched] = Zero
  BY WindowsAssumption DEF Init
<1> QED BY <1>1, <1>2, Zenon DEF Device!Init, Calls, Answers

\* Every step of the backend is a step of the object or leaves it unchanged.
LEMMA StepRefines ==
  ASSUME WinInv, WinInv', [Next]_vars
  PROVE  [Device!Next]_(Device!svars)
<1>1. SUFFICES Device!Next \/ Stutter
  BY DEF Device!svars, Stutter
<1>2. ASSUME pc' = pc, op' = op, dev' = dev, size' = size, loop' = loop, ret' = ret,
             committed' = committed
      PROVE  Stutter
  <2>1. ASSUME NEW u \in Threads
        PROVE  SimCall(u)' = SimCall(u) /\ SimAnswer(u)' = SimAnswer(u)
    <3>1. /\ Watching(u)' <=> Watching(u)
          /\ Initialised(u)' <=> Initialised(u)
          /\ InitFailed(u)' <=> InitFailed(u)
      BY <1>2, Zenon DEF Watching, Initialised, InitFailed
    <3> QED BY <1>2, <3>1, Zenon DEF SimCall, SimAnswer
  <2>2. Calls' = Calls /\ Answers' = Answers
    BY <2>1, Zenon DEF Calls, Answers
  <2> QED BY <1>2, <2>2, Zenon DEF Stutter
<1>3. CASE UNCHANGED vars
  BY <1>2, <1>3, Zenon DEF vars, locals
<1>4. CASE pcie_sim_windows_cleanup
  BY <1>2, <1>4, Zenon DEF pcie_sim_windows_cleanup, locals
<1>5. ASSUME NEW t \in Threads, Calling(t) PROVE Device!Next \/ Stutter
  BY <1>5, CallRefines, Zenon
<1>6. ASSUME NEW t \in Threads, Running(t) PROVE Device!Next \/ Stutter
  <2>1. CASE Initialising(t)
    BY <2>1, InitRefines, Zenon
  <2>2. CASE Enter(t)
    BY <2>2, EnterRefines, Zenon
  <2>3. CASE Sectioning(t)
    BY <2>3, SectionRefines, Zenon
  <2>4. CASE param_error(t) \/ check_active_fails(t) \/ wait_timeout(t)
    BY <2>4, ErrorRefines, Zenon
  <2>5. CASE \/ check_active(t) \/ WaitForSingleObject(t) \/ transfer_count(t)
             \/ transfer_latency(t) \/ get_copy(t) \/ reset_clear(t)
    BY <2>5, AccessRefines, Zenon
  <2>6. CASE ReleaseMutex(t)
    BY <2>6, ReleaseRefines, Zenon
  <2>7. CASE Return(t)
    BY <2>7, ReturnRefines, Zenon
  <2> QED BY <1>6, <2>1, <2>2, <2>3, <2>4, <2>5, <2>6, <2>7, Zenon DEF Running, Accessing
<1> QED BY <1>3, <1>4, <1>5, <1>6, Zenon DEF Next

\* Each device of the backend implements an atomic statistics object: a call takes
\* effect when it releases the mutex, a refused call or a timeout not at all, and
\* the first open resets the device or fails (windows_sim.c:58-92 and 217-338),
\* for any number of threads and devices, when one thread initialises the table.
THEOREM BackendImplementsStatsObject ==
  ASSUME Solo
  PROVE  Spec => ImplementsStatsObject
<1>1. WinInv /\ WinInv' /\ [Next]_vars => [Device!Next]_(Device!svars)
  BY StepRefines
<1>2. Init => Device!Init
  BY ObjectInit
<1> QED BY <1>1, <1>2, WinInvariant, PTL DEF Spec, ImplementsStatsObject, Device!Spec
=============================================================================
