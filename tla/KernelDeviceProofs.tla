-------------------------- MODULE KernelDeviceProofs --------------------------
(***************************************************************************)
(* Theorems about KernelDevice, for any number of users and readers, any   *)
(* requests, latencies and size limit.  The inductive invariant DeviceInv  *)
(* adds to the checked invariants which user has a command, a request and  *)
(* an answer at which point of pcie_sim_char_ioctl.                        *)
(***************************************************************************)
EXTENDS KernelDevice, TLAPS

-----------------------------------------------------------------------------
\* Accounting a transfer: the values of the six fields afterwards.

LEMMA AccountValues ==
  ASSUME NEW s \in [Fields -> Nat], NEW n \in Nat, NEW l \in Nat
  PROVE  /\ Account(s, n, l) \in [Fields -> Nat]
         /\ Account(s, n, l)["transfers"] = s["transfers"] + 1
         /\ Account(s, n, l)["bytes"] = s["bytes"] + n
         /\ Account(s, n, l)["min"] = IF s["min"] = 0 \/ l < s["min"] THEN l ELSE s["min"]
         /\ Account(s, n, l)["max"] = IF l > s["max"] THEN l ELSE s["max"]
         /\ Account(s, n, l)["avg"] = (s["avg"] + l) \div 2
<1> DEFINE a == Counted(s)
           b == Added(a, n)
           c == WithMin(b, l)
           d == WithMax(c, l)
           e == WithAvg(d, l)
<1>1. a \in [Fields -> Nat] /\ a = [s EXCEPT !["transfers"] = s["transfers"] + 1]
  BY DEF Counted, Fields
<1>2. b \in [Fields -> Nat] /\ b = [a EXCEPT !["bytes"] = s["bytes"] + n]
  BY <1>1 DEF Added, Fields
<1>3. /\ c \in [Fields -> Nat]
      /\ c = [b EXCEPT !["min"] = IF s["min"] = 0 \/ l < s["min"] THEN l ELSE s["min"]]
  BY <1>1, <1>2, Zenon DEF WithMin, Fields
<1>4. /\ d \in [Fields -> Nat]
      /\ d = [c EXCEPT !["max"] = IF l > s["max"] THEN l ELSE s["max"]]
  BY <1>1, <1>2, <1>3, Zenon DEF WithMax, Fields
<1>5. (s["avg"] + l) \div 2 \in Nat
  BY DEF Fields
<1>6. e \in [Fields -> Nat] /\ e = [d EXCEPT !["avg"] = (s["avg"] + l) \div 2]
  <2>1. d["avg"] = s["avg"]
    BY <1>1, <1>2, <1>3, <1>4, ZenonT(60) DEF Fields
  <2>2. e = [d EXCEPT !["avg"] = (s["avg"] + l) \div 2]
    BY <2>1, <1>4 DEF WithAvg
  <2> HIDE DEF d, e
  <2> QED BY <2>2, <1>4, <1>5 DEF Fields
<1>7. Account(s, n, l) = e
  BY DEF Account
<1> HIDE DEF a, b, c, d, e
<1> QED BY <1>1, <1>2, <1>3, <1>4, <1>6, <1>7 DEF Fields

\* Each assignment of update_transfer_stats keeps the statistics natural numbers.
LEMMA UpdateTypes ==
  ASSUME NEW s \in [Fields -> Nat], NEW n \in Nat, NEW l \in Nat
  PROVE  /\ Failed(s) \in [Fields -> Nat]
         /\ Counted(s) \in [Fields -> Nat]
         /\ Added(s, n) \in [Fields -> Nat]
         /\ WithMin(s, l) \in [Fields -> Nat]
         /\ WithMax(s, l) \in [Fields -> Nat]
         /\ WithAvg(s, l) \in [Fields -> Nat]
<1>1. (s["avg"] + l) \div 2 \in Nat
  BY DEF Fields
<1>2. WithAvg(s, l) \in [Fields -> Nat]
  BY <1>1 DEF WithAvg, Fields
<1>3. Failed(s) \in [Fields -> Nat] /\ Counted(s) \in [Fields -> Nat]
  BY DEF Failed, Counted, Fields
<1>4. Added(s, n) \in [Fields -> Nat]
  BY DEF Added, Fields
<1>5. WithMin(s, l) \in [Fields -> Nat] /\ WithMax(s, l) \in [Fields -> Nat]
  BY DEF WithMin, WithMax, Fields
<1> QED BY <1>2, <1>3, <1>4, <1>5

LEMMA NextMultiple ==
  ASSUME NEW t \in Nat, NEW m \in Nat
  PROVE  (t + 1) * m = t * m + m
OBVIOUS

LEMMA Halves ==
  ASSUME NEW a \in Nat, NEW l \in Nat, NEW low \in Nat, NEW high \in Nat,
         low <= l, a <= high, l <= high
  PROVE  low \div 2 <= (a + l) \div 2 /\ (a + l) \div 2 <= high
OBVIOUS

\* Accounting a valid transfer keeps the statistics consistent.
LEMMA AccountConsistent ==
  ASSUME NEW s \in [Fields -> Nat], Consistent(s),
         NEW n \in Nat, MinSize <= n, n <= MaxSize, NEW l \in Nat, l # 0
  PROVE  Consistent(Account(s, n, l))
<1> DEFINE v == Account(s, n, l)
<1>1. /\ s["transfers"] \in Nat /\ s["bytes"] \in Nat /\ s["min"] \in Nat
      /\ s["max"] \in Nat /\ s["avg"] \in Nat
  BY DEF Fields
<1>2. /\ v["transfers"] = s["transfers"] + 1
      /\ v["bytes"] = s["bytes"] + n
      /\ v["min"] = IF s["min"] = 0 \/ l < s["min"] THEN l ELSE s["min"]
      /\ v["max"] = IF l > s["max"] THEN l ELSE s["max"]
      /\ v["avg"] = (s["avg"] + l) \div 2
  BY AccountValues, ZenonT(60)
<1>3. /\ s["transfers"] * MinSize <= s["bytes"] /\ s["bytes"] <= s["transfers"] * MaxSize
      /\ s["transfers"] = 0 => s["min"] = 0 /\ s["max"] = 0 /\ s["avg"] = 0
      /\ s["transfers"] > 0 =>
           0 < s["min"] /\ s["min"] <= s["max"] /\ s["avg"] <= s["max"]
  BY DEF Consistent
<1> HIDE DEF v
<1>4. v["transfers"] * MinSize <= v["bytes"]
  BY <1>1, <1>2, <1>3 DEF MinSize
<1>5. v["bytes"] <= v["transfers"] * MaxSize
  <2> DEFINE t == s["transfers"]
             b == s["bytes"]
  <2> HIDE DEF t, b
  <2>1. t \in Nat /\ b \in Nat /\ MaxSize \in Nat /\ b <= t * MaxSize
    BY <1>1, <1>3, KernelAssumption DEF t, b
  <2>2. (t + 1) * MaxSize = t * MaxSize + MaxSize
    BY <2>1, NextMultiple
  <2>3. t * MaxSize \in Nat
    BY <2>1
  <2>4. b + n <= t * MaxSize + MaxSize
    BY <2>1, <2>3
  <2> QED BY <1>2, <2>2, <2>4 DEF t, b
<1>6. /\ 0 < v["min"] /\ v["min"] <= v["max"] /\ v["min"] \in Nat /\ v["max"] \in Nat
      /\ v["min"] <= l /\ s["avg"] <= v["max"] /\ l <= v["max"]
  BY <1>1, <1>2, <1>3
<1>7. v["min"] \div 2 <= v["avg"] /\ v["avg"] <= v["max"]
  BY <1>1, <1>2, <1>6, Halves
<1>8. v["transfers"] # 0
  BY <1>1, <1>2
<1> QED BY <1>4, <1>5, <1>6, <1>7, <1>8 DEF Consistent, v

-----------------------------------------------------------------------------
\* What a user holds at each point of pcie_sim_char_ioctl.
CallState(p) ==
  /\ pc[p] = "idle" <=> cmd[p] = "none"
  /\ pc[p] \in Holding => cmd[p] # "FOREIGN"
  /\ cmd[p] = "TRANSFER" => req[p] \in Requests
  /\ pc[p] \notin {"errors", "unlock", "return"} => ret[p] = NoAnswer

DeviceInv ==
  /\ TypeOK
  /\ OneWriterAtATime
  /\ SnapshotsConsistent
  /\ \A p \in Users : CallState(p)

LEMMA DeviceInvInit == Init => DeviceInv
<1> SUFFICES ASSUME Init PROVE DeviceInv
  OBVIOUS
<1>1. Zero \in [Fields -> Nat] /\ Consistent(Zero)
  BY KernelAssumption DEF Zero, Fields, Consistent, MinSize
<1>2. TypeOK
  <2>1. seen \in [Readers -> Seq(Nat)] /\ \A r \in Readers : Len(seen[r]) <= Len(ProcReads)
    BY DEF Init, ProcReads
  <2>2. DOMAIN ret = Users /\ \A p \in Users : AnswerOK(p)
    BY DEF Init, AnswerOK
  <2> QED BY <1>1, <2>1, <2>2 DEF Init, TypeOK, Labels, Fields
<1>3. OneWriterAtATime
  BY KernelAssumption DEF Init, OneWriterAtATime, Progress, Holding, Labels
<1>4. SnapshotsConsistent
  BY <1>1 DEF Init, SnapshotsConsistent
<1>5. \A p \in Users : CallState(p)
  BY DEF Init, CallState, Holding, Labels
<1> QED BY <1>2, <1>3, <1>4, <1>5 DEF DeviceInv

-----------------------------------------------------------------------------
\* Steps of one user seen by the others.

\* Only the user who holds the mutex is inside.
LEMMA Alone ==
  ASSUME OneWriterAtATime, NEW p \in Users, pc[p] \in Holding
  PROVE  mutex = p /\ \A q \in Users \ {p} : pc[q] \notin Holding
BY DEF OneWriterAtATime

\* A step inside the mutex concerns the user who takes it alone.
LEMMA InsideStep ==
  ASSUME TypeOK, OneWriterAtATime, NEW p \in Users, pc[p] \in Holding,
         NEW l \in Holding, Goto(p, l), mutex' = mutex, Progress(p)'
  PROVE  OneWriterAtATime'
<1>1. mutex = p /\ \A q \in Users \ {p} : pc[q] \notin Holding
  BY Alone
<1>2. pc'[p] = l /\ \A q \in Users \ {p} : pc'[q] = pc[q]
  BY DEF Goto, TypeOK
<1>3. \A q \in Users \ {p} : Progress(q)'
  BY <1>1, <1>2 DEF Progress, Holding, Labels
<1> QED BY <1>1, <1>2, <1>3, KernelAssumption DEF OneWriterAtATime, Holding

\* A step outside the mutex leaves it, the statistics and the others alone.
LEMMA OutsideStep ==
  ASSUME TypeOK, OneWriterAtATime, NEW p \in Users, pc[p] \notin Holding,
         NEW l \in Labels \ Holding, Goto(p, l), UNCHANGED <<stats, mutex, committed>>,
         \A q \in Users \ {p} :
           /\ cmd'[q] = cmd[q] /\ req'[q] = req[q] /\ lat'[q] = lat[q]
           /\ clear'[q] = clear[q] /\ ret'[q] = ret[q]
  PROVE  OneWriterAtATime'
<1>1. pc'[p] = l /\ \A q \in Users \ {p} : pc'[q] = pc[q]
  BY DEF Goto, TypeOK
<1>2. Progress(p)'
  BY <1>1 DEF Progress, Holding, Labels
<1>3. ASSUME NEW q \in Users \ {p} PROVE Progress(q)'
  <2>1. Progress(q)
    BY DEF OneWriterAtATime
  <2>2. UNCHANGED <<pc[q], cmd[q], req[q], lat[q], clear[q], ret[q], stats, committed>>
    BY <1>1
  <2> QED BY <2>1, <2>2, Zenon DEF Progress, AccountedTo, Outcome
<1> QED BY <1>1, <1>2, <1>3 DEF OneWriterAtATime

\* The other conjuncts for the users that take no step.
LEMMA OthersState ==
  ASSUME \A q \in Users : CallState(q), NEW p \in Users, CallState(p)',
         \A q \in Users \ {p} :
           /\ pc'[q] = pc[q] /\ cmd'[q] = cmd[q] /\ req'[q] = req[q] /\ ret'[q] = ret[q]
  PROVE  \A q \in Users : CallState(q)'
BY DEF CallState

\* ... and for the type of the answers.
LEMMA OthersAnswer ==
  ASSUME TypeOK, NEW p \in Users, AnswerOK(p)', DOMAIN ret' = Users,
         \A q \in Users \ {p} : cmd'[q] = cmd[q] /\ lat'[q] = lat[q] /\ ret'[q] = ret[q]
  PROVE  DOMAIN ret' = Users /\ \A q \in Users : AnswerOK(q)'
BY DEF AnswerOK, TypeOK

\* The statistics handed out stay consistent when nobody gets new ones.
LEMMA OthersSnapshots ==
  ASSUME SnapshotsConsistent, NEW p \in Users, Consistent(committed)',
         cmd'[p] = "GET_STATS" /\ ret'[p].code = "ok" => Consistent(ret'[p].stats),
         \A q \in Users \ {p} : cmd'[q] = cmd[q] /\ ret'[q] = ret[q]
  PROVE  SnapshotsConsistent'
BY DEF SnapshotsConsistent

-----------------------------------------------------------------------------
\* Calls, returns and the paths that never take the mutex.
LEMMA CallStep ==
  ASSUME DeviceInv, NEW p \in Users, NEW c \in Issued, NEW r \in Requests,
         pcie_sim_char_ioctl(p, c, r)
  PROVE  DeviceInv'
<1> USE DEF DeviceInv
<1>1. /\ pc' = [pc EXCEPT ![p] = "enter"] /\ pc[p] = "idle" /\ pc'[p] = "enter"
      /\ \A q \in Users \ {p} : pc'[q] = pc[q] /\ cmd'[q] = cmd[q] /\ req'[q] = req[q]
      /\ cmd'[p] = c /\ req'[p] = (IF c = "TRANSFER" THEN r ELSE Nobody)
      /\ UNCHANGED <<stats, mutex, lat, clear, ret, seen, committed>>
  BY DEF pcie_sim_char_ioctl, Goto, TypeOK
<1>2. ret[p] = NoAnswer /\ c \in Commands
  BY <1>1, KernelAssumption DEF CallState
<1>3. TypeOK'
  <2>1. AnswerOK(p)'
    BY <1>1, <1>2 DEF AnswerOK, NoAnswer
  <2>2. DOMAIN ret' = Users /\ \A q \in Users : AnswerOK(q)'
    BY <1>1, <2>1, OthersAnswer DEF TypeOK
  <2>3. cmd' \in [Users -> Commands \cup {"none"}] /\ req' \in [Users -> Requests \cup {Nobody}]
    BY <1>2 DEF pcie_sim_char_ioctl, TypeOK
  <2> QED BY <1>1, <2>2, <2>3, Zenon DEF TypeOK, Labels
<1>4. OneWriterAtATime'
  BY <1>1, OutsideStep, Zenon DEF Goto, Holding, Labels
<1>5. SnapshotsConsistent'
  BY <1>1, <1>2, OthersSnapshots DEF SnapshotsConsistent, NoAnswer
<1>6. CallState(p)'
  BY <1>1, <1>2 DEF CallState, Holding, Commands
<1> QED BY <1>1, <1>3, <1>4, <1>5, <1>6, OthersState

\* The fields of the answers to GET_STATS.
LEMMA AnswerFields ==
  /\ \A v : OkStats(v).code = "ok" /\ OkStats(v).stats = v
  /\ Error("EFAULT").code # "ok"
BY DEF OkStats, Error

\* An error code is a well-typed answer to every command.
LEMMA ErrorAnswer ==
  ASSUME NEW p, NEW e \in ErrorCodes, ret'[p] = Error(e)
  PROVE  AnswerOK(p)'
<1>1. e # "ok"
  BY DEF ErrorCodes
<1>2. ret'[p].code # "ok"
  BY <1>1 DEF Error
<1>3. ret'[p] \in {Error(x) : x \in ErrorCodes}
  OBVIOUS
<1> QED BY <1>2, <1>3 DEF AnswerOK

LEMMA OutsideAnswer ==
  ASSUME DeviceInv, NEW p \in Users, ioctl_bad_magic(p) \/ ioctl_interrupted(p)
  PROVE  DeviceInv'
<1> USE DEF DeviceInv
<1>1. /\ pc' = [pc EXCEPT ![p] = "return"] /\ pc[p] = "enter" /\ pc'[p] = "return"
      /\ \A q \in Users \ {p} : pc'[q] = pc[q] /\ ret'[q] = ret[q]
      /\ DOMAIN ret' = Users
      /\ UNCHANGED <<stats, mutex, cmd, req, lat, clear, seen, committed>>
  BY DEF ioctl_bad_magic, ioctl_interrupted, Goto, Answer, locals, TypeOK
<1>2. ret'[p] \in {Error("EINVAL"), Error("ERESTARTSYS")}
  BY DEF ioctl_bad_magic, ioctl_interrupted, Answer, TypeOK
<1>3. TypeOK'
  <2>1. AnswerOK(p)'
    BY <1>2, ErrorAnswer DEF ErrorCodes
  <2>2. DOMAIN ret' = Users /\ \A q \in Users : AnswerOK(q)'
    BY <1>1, <2>1, OthersAnswer
  <2> QED BY <1>1, <2>2 DEF TypeOK, Labels
<1>4. OneWriterAtATime'
  BY <1>1, OutsideStep, Zenon DEF Goto, Holding, Labels
<1>5. SnapshotsConsistent'
  BY <1>1, <1>2, OthersSnapshots DEF SnapshotsConsistent, Error
<1>6. CallState(p)'
  BY <1>1 DEF CallState, Holding
<1> QED BY <1>1, <1>3, <1>4, <1>5, <1>6, OthersState

LEMMA ReturnStep ==
  ASSUME DeviceInv, NEW p \in Users, ioctl_return(p)
  PROVE  DeviceInv'
<1> USE DEF DeviceInv
<1>1. /\ pc' = [pc EXCEPT ![p] = "idle"] /\ pc[p] = "return" /\ pc'[p] = "idle"
      /\ \A q \in Users \ {p} : /\ pc'[q] = pc[q] /\ cmd'[q] = cmd[q] /\ req'[q] = req[q]
                                /\ lat'[q] = lat[q] /\ ret'[q] = ret[q]
      /\ cmd'[p] = "none" /\ ret'[p] = NoAnswer /\ DOMAIN ret' = Users
      /\ UNCHANGED <<stats, mutex, clear, seen, committed>>
  BY DEF ioctl_return, Goto, Answer, TypeOK
<1>2. TypeOK'
  <2>1. AnswerOK(p)'
    BY <1>1 DEF AnswerOK
  <2>2. DOMAIN ret' = Users /\ \A q \in Users : AnswerOK(q)'
    BY <1>1, <2>1, OthersAnswer
  <2>3. /\ cmd' \in [Users -> Commands \cup {"none"}]
        /\ req' \in [Users -> Requests \cup {Nobody}]
        /\ lat' \in [Users -> Latencies \cup {0}]
    BY DEF ioctl_return, TypeOK
  <2> QED BY <1>1, <2>2, <2>3, Zenon DEF TypeOK, Labels
<1>3. OneWriterAtATime'
  BY <1>1, OutsideStep, Zenon DEF Goto, Holding, Labels
<1>4. SnapshotsConsistent'
  BY <1>1, OthersSnapshots DEF SnapshotsConsistent
<1>5. CallState(p)'
  BY <1>1 DEF CallState, Holding
<1> QED BY <1>1, <1>2, <1>3, <1>4, <1>5, OthersState

-----------------------------------------------------------------------------
\* Taking and releasing the mutex.
LEMMA LockStep ==
  ASSUME DeviceInv, NEW p \in Users, ioctl_lock(p)
  PROVE  DeviceInv'
<1> USE DEF DeviceInv
<1>1. /\ pc' = [pc EXCEPT ![p] = "switch"] /\ pc[p] = "enter" /\ pc'[p] = "switch"
      /\ \A q \in Users \ {p} : pc'[q] = pc[q]
      /\ mutex = Nobody /\ mutex' = p /\ cmd[p] # "FOREIGN"
      /\ UNCHANGED <<stats, cmd, req, lat, clear, ret, seen, committed>>
  BY DEF ioctl_lock, Goto, locals, TypeOK
<1>2. TypeOK'
  <2>1. \A q \in Users : AnswerOK(q)'
    BY <1>1 DEF AnswerOK, TypeOK
  <2> QED BY <1>1, <2>1 DEF TypeOK, Labels
<1>3. OneWriterAtATime'
  <2>1. \A q \in Users : pc[q] \notin Holding
    BY <1>1, KernelAssumption DEF OneWriterAtATime
  <2>2. stats = committed
    BY <1>1 DEF OneWriterAtATime
  <2>3. \A q \in Users \ {p} : Progress(q)'
    BY <1>1, <2>1 DEF Progress, Holding, Labels
  <2>4. Progress(p)'
    BY <1>1, <2>2 DEF Progress
  <2> QED BY <1>1, <2>1, <2>3, <2>4, KernelAssumption DEF OneWriterAtATime, Holding, Labels
<1>4. SnapshotsConsistent'
  BY <1>1 DEF SnapshotsConsistent
<1>5. CallState(p)'
  BY <1>1 DEF CallState, Holding
<1> QED BY <1>1, <1>2, <1>3, <1>4, <1>5, OthersState

\* Whatever the ioctl did, it releases consistent statistics.
LEMMA OutcomeConsistent ==
  ASSUME DeviceInv, NEW p \in Users, pc[p] = "unlock"
  PROVE  Consistent(stats)
<1> USE DEF DeviceInv
<1>1. Outcome(p) /\ Consistent(committed) /\ committed \in [Fields -> Nat]
  BY DEF OneWriterAtATime, Progress, SnapshotsConsistent, TypeOK
<1>2. CASE stats = Account(committed, req[p].size, lat[p]) /\ lat[p] \in Latencies
           /\ validate_transfer_request(req[p]) /\ cmd[p] = "TRANSFER"
  <2>1. /\ req[p].size \in Nat /\ MinSize <= req[p].size /\ req[p].size <= MaxSize
        /\ lat[p] \in Nat /\ lat[p] # 0
    BY <1>2, KernelAssumption, Zenon DEF CallState, validate_transfer_request, MinSize
  <2> QED BY <1>1, <1>2, <2>1, AccountConsistent
<1>3. CASE stats = Failed(committed)
  BY <1>1, <1>3 DEF Failed, Consistent, Fields
<1>4. CASE stats = committed
  BY <1>1, <1>4
<1>5. CASE stats = Zero
  BY <1>5, KernelAssumption DEF Zero, Fields, Consistent, MinSize
<1> QED BY <1>1, <1>2, <1>3, <1>4, <1>5 DEF Outcome

LEMMA UnlockStep ==
  ASSUME DeviceInv, NEW p \in Users, ioctl_unlock(p)
  PROVE  DeviceInv'
<1> USE DEF DeviceInv
<1>1. /\ pc' = [pc EXCEPT ![p] = "return"] /\ pc[p] = "unlock" /\ pc'[p] = "return"
      /\ \A q \in Users \ {p} : pc'[q] = pc[q]
      /\ mutex' = Nobody /\ committed' = stats
      /\ UNCHANGED <<stats, cmd, req, lat, clear, ret, seen>>
  BY DEF ioctl_unlock, Goto, locals, TypeOK
<1>2. TypeOK'
  <2>1. \A q \in Users : AnswerOK(q)'
    BY <1>1 DEF AnswerOK, TypeOK
  <2> QED BY <1>1, <2>1 DEF TypeOK, Labels
<1>3. OneWriterAtATime'
  <2>1. \A q \in Users \ {p} : pc[q] \notin Holding
    BY <1>1, Alone DEF Holding, Labels
  <2>2. \A q \in Users : pc'[q] \notin Holding
    BY <1>1, <2>1 DEF Holding
  <2>3. \A q \in Users : Progress(q)'
    BY <2>2 DEF Progress, Holding, Labels
  <2> QED BY <1>1, <2>2, <2>3, KernelAssumption DEF OneWriterAtATime, Holding
<1>4. SnapshotsConsistent'
  BY <1>1, OutcomeConsistent DEF SnapshotsConsistent
<1>5. CallState(p)'
  BY <1>1 DEF CallState, Holding, Labels
<1> QED BY <1>1, <1>2, <1>3, <1>4, <1>5, OthersState

-----------------------------------------------------------------------------
\* Steps inside the mutex.

LEMMA InsideFrame ==
  ASSUME DeviceInv, NEW p \in Users, pc[p] \in Holding, NEW l \in Holding, Goto(p, l),
         UNCHANGED <<mutex, cmd, req, seen, committed>>,
         stats' \in [Fields -> Nat],
         lat' \in [Users -> Latencies \cup {0}],
         clear' \in [Users -> SUBSET Fields],
         DOMAIN ret' = Users,
         \A q \in Users \ {p} : lat'[q] = lat[q] /\ ret'[q] = ret[q],
         AnswerOK(p)', Progress(p)',
         l \notin {"errors", "unlock"} => ret'[p] = NoAnswer,
         cmd[p] = "GET_STATS" /\ ret'[p].code = "ok" => Consistent(ret'[p].stats)
  PROVE  DeviceInv'
<1> USE DEF DeviceInv
<1>1. pc'[p] = l /\ \A q \in Users \ {p} : pc'[q] = pc[q]
  BY DEF Goto, TypeOK
<1>2. TypeOK'
  <2>1. DOMAIN ret' = Users /\ \A q \in Users : AnswerOK(q)'
    BY OthersAnswer
  <2>2. pc' \in [Users -> Labels]
    BY DEF Goto, TypeOK, Holding
  <2> QED BY <2>1, <2>2 DEF TypeOK
<1>3. OneWriterAtATime'
  BY InsideStep
<1>4. SnapshotsConsistent'
  BY OthersSnapshots DEF SnapshotsConsistent
<1>5. CallState(p)'
  BY <1>1 DEF CallState, Holding
<1> QED BY <1>1, <1>2, <1>3, <1>4, <1>5, OthersState

\* Before the release of the mutex only the outcome matters.
LEMMA ProgressAtUnlock ==
  ASSUME NEW p \in Users, pc'[p] = "unlock", Outcome(p)'
  PROVE  Progress(p)'
BY Zenon DEF Progress

\* Steps that only set the answer: the error paths, GET_STATS, the default.
LEMMA AnswerStep ==
  ASSUME DeviceInv, NEW p \in Users,
         \/ transfer_copy_in_fault(p) \/ dma_transfer_error(p) \/ transfer_copy_out(p)
         \/ ioctl_get_stats(p) \/ memset_done(p) \/ ioctl_default(p)
  PROVE  DeviceInv'
<1> DEFINE setting == /\ \A q \in Users \ {p} : ret'[q] = ret[q]
                      /\ DOMAIN ret' = Users
                      /\ UNCHANGED <<stats, mutex, cmd, req, lat, clear, seen, committed>>
<1> USE DEF DeviceInv
<1>1. pc[p] \in Holding /\ setting
  BY DEF transfer_copy_in_fault, dma_transfer_error, transfer_copy_out, ioctl_get_stats,
         memset_done, ioctl_default, Answer, locals, Holding, Labels, TypeOK
<1>2. Progress(p)
  BY DEF OneWriterAtATime
<1>3. CASE transfer_copy_in_fault(p)
  <2>1. Goto(p, "unlock") /\ pc'[p] = "unlock" /\ ret'[p] = Error("EFAULT")
    BY <1>3 DEF transfer_copy_in_fault, Goto, Answer, TypeOK
  <2>2. AnswerOK(p)'
    BY <2>1, ErrorAnswer DEF ErrorCodes
  <2>3. Progress(p)'
    <3>1. stats = committed /\ cmd[p] = "TRANSFER"
      BY <1>2, <1>3, Zenon DEF transfer_copy_in_fault, Progress
    <3>2. Outcome(p)'
      BY <1>1, <2>1, <3>1, Zenon DEF Outcome
    <3> QED BY <2>1, <3>2, ProgressAtUnlock, Zenon
  <2>4. cmd[p] = "TRANSFER" /\ "unlock" \in Holding
    BY <1>3 DEF transfer_copy_in_fault, Holding, Labels
  <2> QED BY <1>1, <2>1, <2>2, <2>3, <2>4, InsideFrame, Zenon DEF TypeOK
<1>4. CASE dma_transfer_error(p)
  <2>1. /\ Goto(p, "errors") /\ pc'[p] = "errors"
        /\ ret'[p] \in {Error("EINVAL"), Error("ENOMEM"), Error("EFAULT")}
    BY <1>4 DEF dma_transfer_error, Goto, Answer, TypeOK
  <2>2. AnswerOK(p)'
    BY <2>1, ErrorAnswer, Zenon DEF ErrorCodes
  <2>3. Progress(p)'
    BY <1>1, <1>2, <1>4, <2>1 DEF dma_transfer_error, Progress
  <2>4. cmd[p] = "TRANSFER" /\ "errors" \in Holding
    BY <1>4 DEF dma_transfer_error, Holding, Labels
  <2> QED BY <1>1, <2>1, <2>2, <2>3, <2>4, InsideFrame, Zenon DEF TypeOK
<1>5. CASE transfer_copy_out(p)
  <2>1. /\ Goto(p, "unlock") /\ pc'[p] = "unlock" /\ ret'[p] \in {Ok(lat[p]), Error("EFAULT")}
    BY <1>5 DEF transfer_copy_out, Goto, Answer, TypeOK
  <2>2. AccountedTo(p) /\ stats = Account(committed, req[p].size, lat[p])
    BY <1>2, <1>5 DEF transfer_copy_out, Progress, AccountedTo
  <2>3. AnswerOK(p)'
    BY <1>1, <2>1, <2>2 DEF AnswerOK, Error, ErrorCodes, Ok, AccountedTo
  <2>4. Progress(p)'
    <3>1. Outcome(p)'
      BY <1>1, <2>1, <2>2 DEF Outcome, AccountedTo
    <3> QED BY <2>1, <3>1, ProgressAtUnlock, Zenon
  <2>5. cmd[p] = "TRANSFER" /\ "unlock" \in Holding
    BY <2>2 DEF AccountedTo, Holding, Labels
  <2> QED BY <1>1, <2>1, <2>3, <2>4, <2>5, InsideFrame, Zenon DEF TypeOK
<1>6. CASE ioctl_get_stats(p)
  <2>1. /\ Goto(p, "unlock") /\ pc'[p] = "unlock" /\ ret'[p] \in {OkStats(stats), Error("EFAULT")}
    BY <1>6 DEF ioctl_get_stats, Goto, Answer, TypeOK
  <2>2. stats = committed /\ cmd[p] = "GET_STATS"
    BY <1>2, <1>6, Zenon DEF ioctl_get_stats, Progress
  <2>3. AnswerOK(p)'
    <3>1. CASE ret'[p] = OkStats(stats)
      <4>1. ret'[p].stats = stats /\ ret'[p].code = "ok"
        BY <3>1, AnswerFields, Zenon
      <4>2. stats \in [Fields -> Nat]
        BY Zenon DEF TypeOK
      <4> QED BY <1>1, <2>2, <3>1, <4>1, <4>2, SMTT(30) DEF AnswerOK
    <3>2. CASE ret'[p] = Error("EFAULT")
      BY <3>2, ErrorAnswer DEF ErrorCodes
    <3> QED BY <2>1, <3>1, <3>2
  <2>4. Progress(p)'
    <3>1. Outcome(p)'
      BY <1>1, <2>1, <2>2, Zenon DEF Outcome
    <3> QED BY <2>1, <3>1, ProgressAtUnlock, Zenon
  <2>5. ret'[p].code = "ok" => Consistent(ret'[p].stats)
    <3>1. Consistent(committed)
      BY Zenon DEF SnapshotsConsistent
    <3>2. CASE ret'[p] = OkStats(stats)
      BY <2>2, <3>1, <3>2, AnswerFields, Zenon
    <3>3. CASE ret'[p] = Error("EFAULT")
      BY <3>3, AnswerFields, Zenon
    <3> QED BY <2>1, <3>2, <3>3, Zenon
  <2> QED BY <1>1, <2>1, <2>3, <2>4, <2>5, InsideFrame, Zenon DEF TypeOK, Holding, Labels
<1>7. CASE memset_done(p)
  <2>1. /\ Goto(p, "unlock") /\ pc'[p] = "unlock" /\ ret'[p] = Ok(0) /\ cmd[p] = "RESET_STATS"
    BY <1>2, <1>7 DEF memset_done, Goto, Answer, TypeOK, Progress
  <2>2. stats = Zero
    <3>1. \A f \in Fields : stats[f] = 0
      BY <1>2, <1>7, Zenon DEF memset_done, Progress
    <3> QED BY <3>1 DEF Zero, TypeOK
  <2>3. AnswerOK(p)'
    BY <1>1, <2>1, Zenon DEF AnswerOK, Ok
  <2>4. Progress(p)'
    BY <1>1, <2>1, <2>2, Zenon DEF Progress, Outcome
  <2> QED BY <1>1, <2>1, <2>3, <2>4, InsideFrame, Zenon DEF TypeOK, Holding, Labels
<1>8. CASE ioctl_default(p)
  <2>1. Goto(p, "unlock") /\ pc'[p] = "unlock" /\ ret'[p] = Error("ENOTTY")
    BY <1>8 DEF ioctl_default, Goto, Answer, TypeOK
  <2>2. AnswerOK(p)'
    BY <2>1, ErrorAnswer, Zenon DEF ErrorCodes
  <2>3. Progress(p)'
    <3>1. stats = committed
      BY <1>2, <1>8, Zenon DEF ioctl_default, Progress
    <3>2. Outcome(p)'
      BY <1>1, <1>8, <2>1, <3>1 DEF ioctl_default, Outcome
    <3> QED BY <2>1, <3>2, ProgressAtUnlock, Zenon
  <2>4. cmd[p] = "SET_ERROR" /\ "unlock" \in Holding
    BY <1>8, Zenon DEF ioctl_default, Holding, Labels
  <2> QED BY <1>1, <2>1, <2>2, <2>3, <2>4, InsideFrame, Zenon DEF TypeOK
<1> QED BY <1>3, <1>4, <1>5, <1>6, <1>7, <1>8

\* A valid transfer has measured its latency.
LEMMA TransferStep ==
  ASSUME DeviceInv, NEW p \in Users, dma_transfer(p)
  PROVE  DeviceInv'
<1> USE DEF DeviceInv
<1>1. /\ pc[p] = "switch" /\ Goto(p, "transfers") /\ pc'[p] = "transfers"
      /\ UNCHANGED <<stats, mutex, cmd, req, clear, ret, seen, committed>>
      /\ lat' \in [Users -> Latencies \cup {0}] /\ lat'[p] \in Latencies
      /\ \A q \in Users \ {p} : lat'[q] = lat[q]
      /\ cmd[p] = "TRANSFER" /\ validate_transfer_request(req[p])
  BY DEF dma_transfer, Goto, TypeOK
<1>2. ret[p] = NoAnswer /\ stats = committed
  BY <1>1, Zenon DEF CallState, OneWriterAtATime, Progress
<1>3. AnswerOK(p)'
  BY <1>1, <1>2 DEF AnswerOK, NoAnswer
<1>4. Progress(p)'
  BY <1>1, <1>2 DEF Progress, AccountedTo
<1>5. {"switch", "transfers"} \subseteq Holding
  BY DEF Holding, Labels
<1> QED BY <1>1, <1>2, <1>3, <1>4, <1>5, InsideFrame, Zenon DEF TypeOK

\* The assignments of update_transfer_stats.
LEMMA AccountingStep ==
  ASSUME DeviceInv, NEW p \in Users, Accounting(p)
  PROVE  DeviceInv'
<1> USE DEF DeviceInv
<1> DEFINE kept == UNCHANGED <<mutex, cmd, req, lat, clear, ret, seen, committed>>
<1>1. kept
  BY Zenon DEF Accounting, update_errors, update_transfers, update_bytes, update_min, update_max,
         update_avg, Update, locals
<1>2. Progress(p) /\ AnswerOK(p)'
  BY <1>1 DEF OneWriterAtATime, TypeOK, AnswerOK
<1>3. {"errors", "transfers", "bytes", "min", "max", "avg", "copy_out", "unlock"} \subseteq Holding
  BY DEF Holding, Labels
<1>4. CASE update_errors(p)
  <2>1. pc[p] = "errors" /\ Goto(p, "unlock") /\ pc'[p] = "unlock" /\ stats' = Failed(stats)
    BY <1>4 DEF update_errors, Update, Goto, TypeOK
  <2>2. stats' \in [Fields -> Nat]
    BY <2>1, UpdateTypes DEF TypeOK
  <2>3. Progress(p)' /\ cmd[p] = "TRANSFER"
    BY <1>1, <1>2, <2>1, Zenon DEF Progress, Outcome
  <2> QED BY <1>1, <1>2, <1>3, <2>1, <2>2, <2>3, InsideFrame, Zenon DEF TypeOK
<1>5. ASSUME NEW l \in {"bytes", "min", "max", "avg", "copy_out"},
             Goto(p, l), pc[p] \in {"transfers", "bytes", "min", "max", "avg"},
             stats' \in [Fields -> Nat], AccountedTo(p) => AccountedTo(p)'
      PROVE  DeviceInv'
  <2>1. AccountedTo(p) /\ ret[p] = NoAnswer
    BY <1>2, <1>5, Zenon DEF Progress, CallState
  <2>2. pc'[p] = l
    BY <1>5 DEF Goto, TypeOK
  <2>3. Progress(p)'
    BY <1>5, <2>1, <2>2 DEF Progress
  <2>4. cmd[p] = "TRANSFER" /\ pc[p] \in Holding /\ l \in Holding
    BY <1>3, <1>5, <2>1 DEF AccountedTo
  <2> QED BY <1>1, <1>2, <1>5, <2>1, <2>3, <2>4, InsideFrame, Zenon DEF TypeOK
<1>6. pc[p] \in {"transfers", "bytes", "min", "max", "avg"} => req[p].size \in Nat /\ lat[p] \in Nat
  BY <1>2, KernelAssumption, Zenon DEF Progress, AccountedTo, CallState
<1>7. CASE update_transfers(p)
  <2>1. pc[p] = "transfers" /\ Goto(p, "bytes") /\ pc'[p] = "bytes" /\ stats' = Counted(stats)
    BY <1>7 DEF update_transfers, Update, Goto, TypeOK
  <2>2. stats' \in [Fields -> Nat]
    BY <2>1, UpdateTypes DEF TypeOK
  <2>3. AccountedTo(p) => AccountedTo(p)'
    BY <1>1, <2>1 DEF AccountedTo
  <2> QED BY <1>5, <2>1, <2>2, <2>3
<1>8. CASE update_bytes(p)
  <2>1. pc[p] = "bytes" /\ Goto(p, "min") /\ pc'[p] = "min" /\ stats' = Added(stats, req[p].size)
    BY <1>8 DEF update_bytes, Update, Goto, TypeOK
  <2>2. stats' \in [Fields -> Nat]
    BY <1>6, <2>1, UpdateTypes, Zenon DEF TypeOK
  <2>3. AccountedTo(p) => AccountedTo(p)'
    BY <1>1, <2>1 DEF AccountedTo
  <2> QED BY <1>5, <2>1, <2>2, <2>3
<1>9. CASE update_min(p)
  <2>1. pc[p] = "min" /\ Goto(p, "max") /\ pc'[p] = "max" /\ stats' = WithMin(stats, lat[p])
    BY <1>9 DEF update_min, Update, Goto, TypeOK
  <2>2. stats' \in [Fields -> Nat]
    BY <1>6, <2>1, UpdateTypes, Zenon DEF TypeOK
  <2>3. AccountedTo(p) => AccountedTo(p)'
    BY <1>1, <2>1 DEF AccountedTo
  <2> QED BY <1>5, <2>1, <2>2, <2>3
<1>10. CASE update_max(p)
  <2>1. pc[p] = "max" /\ Goto(p, "avg") /\ pc'[p] = "avg" /\ stats' = WithMax(stats, lat[p])
    BY <1>10 DEF update_max, Update, Goto, TypeOK
  <2>2. stats' \in [Fields -> Nat]
    BY <1>6, <2>1, UpdateTypes, Zenon DEF TypeOK
  <2>3. AccountedTo(p) => AccountedTo(p)'
    BY <1>1, <2>1 DEF AccountedTo
  <2> QED BY <1>5, <2>1, <2>2, <2>3
<1>11. CASE update_avg(p)
  <2>1. pc[p] = "avg" /\ Goto(p, "copy_out") /\ pc'[p] = "copy_out" /\ stats' = WithAvg(stats, lat[p])
    BY <1>11 DEF update_avg, Update, Goto, TypeOK
  <2>2. stats' \in [Fields -> Nat]
    BY <1>6, <2>1, UpdateTypes, Zenon DEF TypeOK
  <2>3. AccountedTo(p) => AccountedTo(p)'
    BY <1>1, <2>1 DEF AccountedTo, Account
  <2> QED BY <1>5, <2>1, <2>2, <2>3
<1> QED BY <1>4, <1>7, <1>8, <1>9, <1>10, <1>11 DEF Accounting

\* RESET_STATS clears the statistics field by field.
LEMMA ResetStep ==
  ASSUME DeviceInv, NEW p \in Users, ioctl_reset_stats(p) \/ memset_field(p)
  PROVE  DeviceInv'
<1> USE DEF DeviceInv
<1>1. /\ pc[p] \in {"switch", "memset"} /\ Goto(p, "memset") /\ pc'[p] = "memset"
      /\ UNCHANGED <<mutex, cmd, req, lat, ret, seen, committed>>
      /\ clear' \in [Users -> SUBSET Fields]
  <2>1. CASE ioctl_reset_stats(p)
    BY <2>1 DEF ioctl_reset_stats, Goto, TypeOK
  <2>2. CASE memset_field(p)
    <3>1. pc[p] = "memset" /\ pc' = pc /\ pc = [pc EXCEPT ![p] = "memset"]
      BY <2>2 DEF memset_field, TypeOK
    <3>2. clear' \in [Users -> SUBSET Fields]
      BY <2>2 DEF memset_field, TypeOK
    <3> QED BY <2>2, <3>1, <3>2 DEF memset_field, Goto
  <2> QED BY <2>1, <2>2, Zenon
<1>2. Progress(p) /\ ret[p] = NoAnswer
  BY <1>1 DEF OneWriterAtATime, CallState
<1>3. stats' \in [Fields -> Nat]
  BY DEF ioctl_reset_stats, memset_field, TypeOK
<1>4. cmd[p] = "RESET_STATS" /\ \A f \in Fields \ clear'[p] : stats'[f] = 0
  BY <1>2 DEF ioctl_reset_stats, memset_field, Progress, TypeOK
<1>5. Progress(p)'
  BY <1>1, <1>4, Zenon DEF Progress
<1>6. AnswerOK(p)'
  BY <1>1, <1>2, <1>4 DEF AnswerOK
<1>7. pc[p] \in Holding /\ "memset" \in Holding
  BY <1>1 DEF Holding, Labels
<1> QED BY <1>1, <1>2, <1>3, <1>4, <1>5, <1>6, <1>7, InsideFrame, Zenon DEF TypeOK

\* What is not about readers does not depend on what they have read.
LEMMA NoChange ==
  ASSUME DeviceInv, UNCHANGED <<stats, mutex, pc, cmd, req, lat, clear, ret, committed>>,
         seen' \in [Readers -> Seq(Nat)],
         \A r \in Readers : Len(seen'[r]) <= Len(ProcReads)
  PROVE  DeviceInv'
<1> USE DEF DeviceInv
<1>1. TypeOK'
  <2>1. \A q \in Users : AnswerOK(q)'
    BY DEF AnswerOK, TypeOK
  <2> QED BY <2>1 DEF TypeOK
<1>2. OneWriterAtATime'
  <2>1. ASSUME NEW q \in Users PROVE Progress(q)'
    <3>1. Progress(q)
      BY DEF OneWriterAtATime
    <3> QED BY <3>1, Zenon DEF Progress, AccountedTo, Outcome
  <2> QED BY <2>1 DEF OneWriterAtATime
<1>3. SnapshotsConsistent' /\ \A q \in Users : CallState(q)'
  BY DEF SnapshotsConsistent, CallState
<1> QED BY <1>1, <1>2, <1>3

\* Reading the proc file touches nothing but what was read.
LEMMA ReadingStep ==
  ASSUME DeviceInv, NEW r \in Readers, proc_stats_show(r) \/ proc_stats_done(r)
  PROVE  DeviceInv'
<1> USE DEF DeviceInv
<1>1. UNCHANGED <<stats, mutex, pc, cmd, req, lat, clear, ret, committed>>
  BY DEF proc_stats_show, proc_stats_done, locals
<1>2. seen' \in [Readers -> Seq(Nat)] /\ \A q \in Readers : Len(seen'[q]) <= Len(ProcReads)
  <2>1. ProcReads \in [1 .. 6 -> Fields] /\ Len(ProcReads) = 6
    BY DEF ProcReads, Fields
  <2>2. CASE proc_stats_show(r)
    <3> DEFINE n == Len(seen[r])
               x == Append(seen[r], stats[ProcReads[n + 1]])
    <3>1. seen[r] \in Seq(Nat) /\ n \in Nat /\ n < 6
      BY <2>1, <2>2 DEF TypeOK, proc_stats_show
    <3>2. stats[ProcReads[n + 1]] \in Nat
      <4>1. n + 1 \in 1 .. 6
        BY <3>1
      <4>2. ProcReads[n + 1] \in Fields
        BY <2>1, <4>1
      <4> QED BY <4>2 DEF TypeOK
    <3>3. x \in Seq(Nat) /\ Len(x) <= 6
      BY <3>1, <3>2
    <3>4. seen' = [seen EXCEPT ![r] = x]
      BY <2>2 DEF proc_stats_show
    <3> HIDE DEF x
    <3> QED BY <2>1, <3>3, <3>4, Zenon DEF TypeOK
  <2>3. CASE proc_stats_done(r)
    BY <2>1, <2>3, SMTT(30) DEF proc_stats_done, TypeOK
  <2> QED BY <2>2, <2>3
<1> QED BY <1>1, <1>2, NoChange

LEMMA DeviceInvStep == DeviceInv /\ [Next]_vars => DeviceInv'
<1> SUFFICES ASSUME DeviceInv, Next PROVE DeviceInv'
  BY NoChange DEF DeviceInv, TypeOK, vars, locals
<1>1. ASSUME NEW p \in Users, Running(p) PROVE DeviceInv'
  <2>1. CASE Transferring(p)
    BY <2>1, AnswerStep, TransferStep DEF Transferring
  <2>2. CASE Accounting(p)
    BY <2>2, AccountingStep
  <2>3. CASE Resetting(p)
    BY <2>3, ResetStep, AnswerStep DEF Resetting
  <2>4. CASE ioctl_get_stats(p) \/ ioctl_default(p)
    BY <2>4, AnswerStep
  <2>5. CASE ioctl_bad_magic(p)
    BY <2>5, OutsideAnswer
  <2>6. CASE ioctl_unlock(p) \/ ioctl_return(p)
    BY <2>6, UnlockStep, ReturnStep
  <2> QED BY <1>1, <2>1, <2>2, <2>3, <2>4, <2>5, <2>6 DEF Running
<1>2. ASSUME NEW p \in Users, ioctl_lock(p) \/ ioctl_interrupted(p) PROVE DeviceInv'
  BY <1>2, LockStep, OutsideAnswer
<1> QED BY <1>1, <1>2, CallStep, ReadingStep DEF Next

LEMMA DeviceInvariant == Spec => []DeviceInv
BY DeviceInvInit, DeviceInvStep, PTL DEF Spec

\* Every reachable state of the device has the declared types.
THEOREM DeviceTypes == Spec => []TypeOK
BY DeviceInvariant, PTL DEF DeviceInv

\* dev->mutex admits one ioctl at a time, and what that ioctl has done to the
\* statistics is a prefix of its path (chardev.c:77-116, dma.c:64-87), for any
\* number of users.
THEOREM MutexSerialisesIoctls == Spec => []OneWriterAtATime
BY DeviceInvariant, PTL DEF DeviceInv

\* PCIE_SIM_IOC_GET_STATS returns consistent statistics (chardev.c:99-102), for
\* any number of users, requests, latencies and size limit.
THEOREM StatisticsConsistent == Spec => []SnapshotsConsistent
BY DeviceInvariant, PTL DEF DeviceInv

-----------------------------------------------------------------------------
\* The ioctls implement the atomic statistics object.

LEMMA ObjectInit == Init => Device!Init
<1> SUFFICES ASSUME Init PROVE Device!Init
  OBVIOUS
<1>1. ASSUME NEW p \in Users
      PROVE  IoctlCall(p) = Device!Idle /\ IoctlAnswer(p) = Device!NoAnswer
  <2>1. pc[p] = "idle"
    BY DEF Init
  <2> QED BY <2>1 DEF IoctlCall, IoctlAnswer, Device!Idle, NoAnswer, Device!NoAnswer
<1> QED BY <1>1 DEF Init, Device!Init, Calls, Answers

\* A step of one user keeps the calls and answers of the others.
LEMMA OthersKeep ==
  ASSUME NEW p \in Users,
         \A q \in Users \ {p} :
           pc'[q] = pc[q] /\ cmd'[q] = cmd[q] /\ req'[q] = req[q] /\ ret'[q] = ret[q]
  PROVE  /\ Calls' = [Calls EXCEPT ![p] = IoctlCall(p)']
         /\ Answers' = [Answers EXCEPT ![p] = IoctlAnswer(p)']
         /\ Calls[p] = IoctlCall(p) /\ Answers[p] = IoctlAnswer(p)
         /\ IoctlCall(p)' = IoctlCall(p) => Calls' = Calls
         /\ IoctlAnswer(p)' = IoctlAnswer(p) => Answers' = Answers
<1>1. \A q \in Users \ {p} : IoctlCall(q)' = IoctlCall(q) /\ IoctlAnswer(q)' = IoctlAnswer(q)
  BY Zenon DEF IoctlCall, IoctlAnswer
<1> QED BY <1>1, Zenon DEF Calls, Answers

\* The answers of the device and of the object are the same values.
LEMMA SameAnswers ==
  /\ \A v : Ok(v) = Device!Ok(v) /\ OkStats(v) = Device!OkStats(v) /\ Error(v) = Device!Error(v)
  /\ NoAnswer = Device!NoAnswer
BY DEF Ok, OkStats, Error, NoAnswer, Device!Ok, Device!OkStats, Device!Error, Device!NoAnswer

\* What a user in an ioctl is executing.
LEMMA CallOf ==
  ASSUME DeviceInv, NEW p \in Users, pc[p] \notin {"idle", "return"}
  PROVE  /\ cmd[p] = "TRANSFER" =>
              IoctlCall(p) = [op |-> "transfer", size |-> req[p].size] /\ req[p] \in Requests
         /\ cmd[p] = "GET_STATS" => IoctlCall(p) = [op |-> "get"]
         /\ cmd[p] = "RESET_STATS" => IoctlCall(p) = [op |-> "reset"]
         /\ cmd[p] \in {"SET_ERROR", "FOREIGN"} => IoctlCall(p) = [op |-> "other"]
         /\ cmd[p] \in Commands
         /\ IoctlAnswer(p) = NoAnswer
<1>1. cmd[p] \in Commands /\ (cmd[p] = "TRANSFER" => req[p] \in Requests)
  BY DEF DeviceInv, TypeOK, CallState
<1> QED BY <1>1 DEF IoctlCall, IoctlAnswer

LEMMA CallIsOperation ==
  ASSUME DeviceInv, NEW p \in Users, pc[p] \notin {"idle", "return"}
  PROVE  IoctlCall(p) \in Device!Operations
<1>1. CASE cmd[p] = "TRANSFER"
  <2>1. /\ IoctlCall(p) = [op |-> "transfer", size |-> req[p].size]
        /\ req[p].size \in {r.size : r \in Requests}
    BY <1>1, CallOf
  <2> QED BY <2>1 DEF Device!Operations
<1>2. CASE cmd[p] \in {"GET_STATS", "RESET_STATS", "SET_ERROR", "FOREIGN"}
  <2>1. IoctlCall(p) \in [op : {"get", "reset", "other"}]
    BY <1>2, CallOf
  <2> QED BY <2>1 DEF Device!Operations
<1> QED BY <1>1, <1>2, CallOf DEF Commands

\* Calls are the invocations of the object.
LEMMA CallRefines ==
  ASSUME DeviceInv, NEW p \in Users, NEW c \in Issued, NEW r \in Requests,
         pcie_sim_char_ioctl(p, c, r)
  PROVE  Device!Next
<1>1. /\ pc[p] = "idle" /\ pc'[p] = "enter" /\ cmd'[p] = c /\ committed' = committed
      /\ (c = "TRANSFER" => req'[p] = r)
      /\ \A q \in Users \ {p} :
           pc'[q] = pc[q] /\ cmd'[q] = cmd[q] /\ req'[q] = req[q] /\ ret'[q] = ret[q]
  BY DEF pcie_sim_char_ioctl, Goto, DeviceInv, TypeOK
<1>2. IoctlCall(p) = Device!Idle /\ IoctlAnswer(p) = NoAnswer /\ IoctlAnswer(p)' = NoAnswer
  BY <1>1 DEF IoctlCall, IoctlAnswer, Device!Idle
<1>3. IoctlCall(p)' \in Device!Operations
  <2>1. c \in Commands
    BY KernelAssumption
  <2>2. CASE c = "TRANSFER"
    <3>1. IoctlCall(p)' = [op |-> "transfer", size |-> r.size]
      BY <1>1, <2>2 DEF IoctlCall
    <3>2. r.size \in {x.size : x \in Requests}
      OBVIOUS
    <3> QED BY <3>1, <3>2 DEF Device!Operations
  <2>3. CASE c # "TRANSFER"
    <3>1. IoctlCall(p)' \in [op : {"get", "reset", "other"}]
      BY <1>1, <2>1, <2>3 DEF IoctlCall, Commands
    <3> QED BY <3>1 DEF Device!Operations
  <2> QED BY <2>2, <2>3
<1>4. Device!Invoke(p, IoctlCall(p)')
  BY <1>1, <1>2, OthersKeep DEF Device!Invoke
<1> QED BY <1>3, <1>4 DEF Device!Next

\* Taking the mutex, and every step inside it, is invisible.
Invisible(p) ==
  /\ pc[p] \notin {"idle", "return"} /\ pc'[p] \notin {"idle", "return"}
  /\ UNCHANGED <<cmd, req, committed>>
  /\ \A q \in Users \ {p} : pc'[q] = pc[q] /\ ret'[q] = ret[q]

LEMMA InvisibleStutters ==
  ASSUME NEW p \in Users, Invisible(p)
  PROVE  UNCHANGED <<committed, Calls, Answers>>
<1>1. IoctlCall(p)' = IoctlCall(p) /\ IoctlAnswer(p)' = IoctlAnswer(p)
  BY Zenon DEF Invisible, IoctlCall, IoctlAnswer
<1> QED BY <1>1, OthersKeep DEF Invisible

LEMMA InsideInvisible ==
  ASSUME DeviceInv, NEW p \in Users,
         \/ ioctl_lock(p) \/ Transferring(p) \/ Accounting(p)
         \/ ioctl_get_stats(p) \/ Resetting(p) \/ ioctl_default(p)
  PROVE  Invisible(p)
<1> USE DEF DeviceInv, TypeOK, Invisible, Goto, Answer, locals
<1>1. CASE ioctl_lock(p) \/ ioctl_get_stats(p) \/ ioctl_default(p)
  BY <1>1 DEF ioctl_lock, ioctl_get_stats, ioctl_default
<1>2. CASE Transferring(p)
  BY <1>2 DEF Transferring, transfer_copy_in_fault, dma_transfer_error, dma_transfer,
              transfer_copy_out
<1>3. CASE Accounting(p)
  BY <1>3, Zenon DEF Accounting, update_errors, update_transfers, update_bytes, update_min,
              update_max, update_avg, Update
<1>4. CASE Resetting(p)
  BY <1>4 DEF Resetting, ioctl_reset_stats, memset_field, memset_done
<1> QED BY <1>1, <1>2, <1>3, <1>4, Zenon

\* An ioctl that takes effect answers what it will return.
LEMMA EffectRefines ==
  ASSUME DeviceInv, NEW p \in Users, pc' = [pc EXCEPT ![p] = "return"],
         UNCHANGED <<cmd, req>>, \A q \in Users \ {p} : ret'[q] = ret[q]
  PROVE  Device!Effect(p, ret'[p]) /\ Calls[p] = IoctlCall(p)
<1>1. pc'[p] = "return" /\ \A q \in Users \ {p} : pc'[q] = pc[q]
  BY DEF DeviceInv, TypeOK
<1>2. IoctlCall(p)' = Device!Returning /\ IoctlAnswer(p)' = ret'[p]
  BY <1>1 DEF IoctlCall, IoctlAnswer, Device!Returning
<1> QED BY <1>1, <1>2, OthersKeep, Zenon DEF Device!Effect

\* Refused without the mutex.
LEMMA OutsideRefines ==
  ASSUME DeviceInv, NEW p \in Users, ioctl_bad_magic(p) \/ ioctl_interrupted(p)
  PROVE  Device!Next
<1>1. /\ pc' = [pc EXCEPT ![p] = "return"] /\ pc[p] = "enter" /\ committed' = committed
      /\ UNCHANGED <<cmd, req>> /\ \A q \in Users \ {p} : ret'[q] = ret[q]
  BY DEF ioctl_bad_magic, ioctl_interrupted, Goto, Answer, locals, DeviceInv, TypeOK
<1>2. \E e \in ErrorCodes : ret'[p] = Error(e)
  BY DEF ioctl_bad_magic, ioctl_interrupted, Answer, ErrorCodes, DeviceInv, TypeOK
<1>3. Device!Effect(p, ret'[p]) /\ Calls[p] \in Device!Operations
  BY <1>1, EffectRefines, CallIsOperation, Zenon
<1>4. Device!Refuse(p)
  BY <1>1, <1>2, <1>3, SameAnswers, Zenon DEF Device!Refuse
<1> QED BY <1>4 DEF Device!Next

\* The fields of a transfer's call.
LEMMA TransferCall ==
  ASSUME NEW c, NEW s, c = [op |-> "transfer", size |-> s]
  PROVE  c.op = "transfer" /\ c.size = s
OBVIOUS

\* The field of any other call.
LEMMA PlainCall ==
  ASSUME NEW c, NEW o, c = [op |-> o]
  PROVE  c.op = o
OBVIOUS

\* Releasing the mutex is the instant at which an ioctl takes effect.
LEMMA UnlockRefines ==
  ASSUME DeviceInv, NEW p \in Users, ioctl_unlock(p)
  PROVE  Device!Next
<1>1. /\ pc' = [pc EXCEPT ![p] = "return"] /\ pc[p] = "unlock" /\ committed' = stats
      /\ UNCHANGED <<cmd, req, ret, lat>>
  BY DEF ioctl_unlock, Goto, locals
<1>2. Outcome(p) /\ Device!Effect(p, ret[p]) /\ Calls[p] = IoctlCall(p)
      /\ Calls[p] \in Device!Operations
  BY <1>1, EffectRefines, CallIsOperation, Zenon DEF DeviceInv, OneWriterAtATime, Progress
<1>3. /\ cmd[p] = "TRANSFER" => Calls[p] = [op |-> "transfer", size |-> req[p].size]
      /\ cmd[p] = "GET_STATS" => Calls[p] = [op |-> "get"]
      /\ cmd[p] = "RESET_STATS" => Calls[p] = [op |-> "reset"]
  <2>1. pc[p] \notin {"idle", "return"} /\ Calls[p] = IoctlCall(p)
    BY <1>1, <1>2
  <2> QED BY <2>1, CallOf, Zenon
<1>4. {"EINVAL", "ENOMEM", "EFAULT", "ENOTTY"} \subseteq ErrorCodes
  BY DEF ErrorCodes
<1>5. ASSUME NEW e \in ErrorCodes, stats = committed, ret[p] = Error(e) PROVE Device!Next
  <2>1. Device!Effect(p, Device!Error(e)) /\ committed' = committed
    BY <1>1, <1>2, <1>5, SameAnswers, Zenon
  <2>2. Device!Refuse(p)
    BY <1>2, <2>1, Zenon DEF Device!Refuse
  <2> QED BY <2>2 DEF Device!Next
<1>6. CASE /\ cmd[p] = "TRANSFER" /\ lat[p] \in Latencies
           /\ stats = Account(committed, req[p].size, lat[p])
           /\ ret[p] \in {Ok(lat[p]), Error("EFAULT")}
  <2>1. Calls[p].op = "transfer" /\ Calls[p].size = req[p].size
    <3>1. Calls[p] = [op |-> "transfer", size |-> req[p].size]
      BY <1>6, <1>3
    <3> QED BY <3>1, TransferCall, Zenon
  <2>2. committed' = Account(committed, Calls[p].size, lat[p])
    BY <1>1, <1>6, <2>1
  <2>3. \/ Device!Effect(p, Device!Ok(lat[p]))
        \/ \E e \in ErrorCodes : Device!Effect(p, Device!Error(e))
    BY <1>2, <1>4, <1>6, SameAnswers, Zenon
  <2>4. Device!Transfer(p)
    BY <1>6, <2>1, <2>2, <2>3, Zenon DEF Device!Transfer
  <2> QED BY <2>4 DEF Device!Next
<1>7. CASE /\ cmd[p] = "TRANSFER" /\ stats = Failed(committed)
           /\ ret[p] \in {Error("EINVAL"), Error("ENOMEM"), Error("EFAULT")}
  <2>1. Calls[p].op = "transfer"
    <3>1. Calls[p] = [op |-> "transfer", size |-> req[p].size]
      BY <1>7, <1>3, Zenon
    <3> QED BY <3>1, TransferCall, Zenon
  <2>2. \E e \in ErrorCodes : Device!Effect(p, Device!Error(e))
    BY <1>2, <1>4, <1>7, SameAnswers, Zenon
  <2>3. committed' = Failed(committed)
    BY <1>1, <1>7, Zenon
  <2>4. Device!Fail(p)
    BY <2>1, <2>2, <2>3, Zenon DEF Device!Fail
  <2> QED BY <2>4 DEF Device!Next
<1>8. CASE cmd[p] = "GET_STATS" /\ stats = committed /\ ret[p] = OkStats(committed)
  <2>1. Calls[p].op = "get"
    <3>1. Calls[p] = [op |-> "get"]
      BY <1>8, <1>3, Zenon
    <3> QED BY <3>1, PlainCall, Zenon
  <2>2. Device!Get(p)
    BY <1>1, <1>2, <1>8, <2>1, SameAnswers DEF Device!Get
  <2> QED BY <2>2 DEF Device!Next
<1>9. CASE cmd[p] = "RESET_STATS" /\ stats = Zero /\ ret[p] = Ok(0)
  <2>1. Calls[p].op = "reset"
    <3>1. Calls[p] = [op |-> "reset"]
      BY <1>9, <1>3, Zenon
    <3> QED BY <3>1, PlainCall, Zenon
  <2>2. Device!Reset(p)
    BY <1>1, <1>2, <1>9, <2>1, SameAnswers, Zenon DEF Device!Reset
  <2> QED BY <2>2 DEF Device!Next
<1> QED BY <1>2, <1>4, <1>5, <1>6, <1>7, <1>8, <1>9, Zenon DEF Outcome

LEMMA ReturnRefines ==
  ASSUME DeviceInv, NEW p \in Users, ioctl_return(p)
  PROVE  Device!Next
<1>1. /\ pc[p] = "return" /\ pc'[p] = "idle" /\ committed' = committed
      /\ \A q \in Users \ {p} :
           pc'[q] = pc[q] /\ cmd'[q] = cmd[q] /\ req'[q] = req[q] /\ ret'[q] = ret[q]
  BY DEF ioctl_return, Goto, Answer, DeviceInv, TypeOK
<1>2. /\ IoctlCall(p) = Device!Returning /\ IoctlCall(p)' = Device!Idle
      /\ IoctlAnswer(p)' = Device!NoAnswer
  BY <1>1, SameAnswers DEF IoctlCall, IoctlAnswer, Device!Returning, Device!Idle
<1>3. Device!Return(p)
  BY <1>1, <1>2, OthersKeep, Zenon DEF Device!Return
<1> QED BY <1>3 DEF Device!Next

\* Every step of the device is a step of the object or leaves it unchanged.
LEMMA StepRefines == DeviceInv /\ [Next]_vars => [Device!Next]_(Device!svars)
<1> SUFFICES ASSUME DeviceInv, [Next]_vars
             PROVE  Device!Next \/ UNCHANGED <<committed, Calls, Answers>>
  BY DEF Device!svars
<1>1. CASE UNCHANGED vars \/ \E r \in Readers : proc_stats_show(r) \/ proc_stats_done(r)
  <2>1. UNCHANGED <<committed, pc, cmd, req, ret>>
    BY <1>1 DEF vars, locals, proc_stats_show, proc_stats_done
  <2> QED BY <2>1 DEF Calls, Answers, IoctlCall, IoctlAnswer
<1>2. ASSUME NEW p \in Users,
             \/ ioctl_lock(p) \/ Transferring(p) \/ Accounting(p)
             \/ ioctl_get_stats(p) \/ Resetting(p) \/ ioctl_default(p)
      PROVE  UNCHANGED <<committed, Calls, Answers>>
  BY <1>2, InsideInvisible, InvisibleStutters
<1>3. ASSUME NEW p \in Users,
             ioctl_bad_magic(p) \/ ioctl_interrupted(p) \/ ioctl_unlock(p) \/ ioctl_return(p)
      PROVE  Device!Next
  BY <1>3, OutsideRefines, UnlockRefines, ReturnRefines
<1>4. ASSUME NEW p \in Users, NEW c \in Issued, NEW r \in Requests, pcie_sim_char_ioctl(p, c, r)
      PROVE  Device!Next
  BY <1>4, CallRefines
<1> QED BY <1>1, <1>2, <1>3, <1>4 DEF Next, Running

\* The ioctls of a device implement an atomic statistics object: each takes
\* effect at one instant, error paths included (chardev.c:63-117), for any
\* number of users.
THEOREM DeviceImplementsStatsObject == Spec => ImplementsStatsObject
BY ObjectInit, StepRefines, DeviceInvariant, PTL DEF Spec, ImplementsStatsObject, Device!Spec

-----------------------------------------------------------------------------
\* The readers of the proc file, which take no mutex, in a program that resets
\* no statistics.  Sound(s) is what any statistics satisfy, a transfer half
\* accounted included; Grows(s, t) is what each assignment does.
Unreset == \A p \in Users : cmd[p] # "RESET_STATS"

Sound(s) ==
  /\ s["transfers"] - 1 <= s["bytes"]
  /\ s["max"] # 0 => s["min"] <= s["max"]

Grows(s, t) ==
  /\ s["bytes"] <= t["bytes"]
  /\ s["max"] # 0 => s["max"] <= t["max"]
  /\ s["max"] = 0 /\ t["max"] = 0 => s["min"] <= t["min"]
  /\ s["max"] = 0 /\ t["max"] # 0 => s["min"] <= t["max"]

\* What a reader that has read q may still rely on when the statistics are s.
\* Once a minimum is read, no maximum but zero will be below it.
ReaderOK(q, s) ==
  /\ Len(q) >= 1 => q[1] - 1 <= s["bytes"]
  /\ Len(q) >= 2 => q[1] - 1 <= q[2]
  /\ Len(q) >= 5 => IF s["max"] = 0 THEN q[5] <= s["min"] ELSE q[5] <= s["max"]
  /\ Len(q) = 6 => q[6] = 0 \/ q[5] <= q[6]

ProcInv ==
  /\ DeviceInv
  /\ Unreset
  /\ \A r \in Readers : ReaderOK(seen[r], stats)

LEMMA FieldTypes ==
  ASSUME NEW s \in [Fields -> Nat]
  PROVE  /\ s["transfers"] \in Nat /\ s["bytes"] \in Nat /\ s["errors"] \in Nat
         /\ s["avg"] \in Nat /\ s["min"] \in Nat /\ s["max"] \in Nat
BY DEF Fields

\* The assignments of update_transfer_stats, field by field.
LEMMA UpdateValues ==
  ASSUME NEW s \in [Fields -> Nat], NEW n \in Nat, NEW l \in Nat
  PROVE  /\ LET t == Failed(s) IN
            /\ t["transfers"] = s["transfers"] /\ t["bytes"] = s["bytes"]
            /\ t["min"] = s["min"] /\ t["max"] = s["max"]
         /\ LET t == Counted(s) IN
            /\ t["transfers"] = s["transfers"] + 1 /\ t["bytes"] = s["bytes"]
            /\ t["min"] = s["min"] /\ t["max"] = s["max"]
         /\ LET t == Added(s, n) IN
            /\ t["transfers"] = s["transfers"] /\ t["bytes"] = s["bytes"] + n
            /\ t["min"] = s["min"] /\ t["max"] = s["max"]
         /\ LET t == WithMin(s, l) IN
            /\ t["transfers"] = s["transfers"] /\ t["bytes"] = s["bytes"]
            /\ t["min"] = (IF s["min"] = 0 \/ l < s["min"] THEN l ELSE s["min"])
            /\ t["max"] = s["max"]
         /\ LET t == WithMax(s, l) IN
            /\ t["transfers"] = s["transfers"] /\ t["bytes"] = s["bytes"]
            /\ t["min"] = s["min"]
            /\ t["max"] = (IF l > s["max"] THEN l ELSE s["max"])
         /\ LET t == WithAvg(s, l) IN
            /\ t["transfers"] = s["transfers"] /\ t["bytes"] = s["bytes"]
            /\ t["min"] = s["min"] /\ t["max"] = s["max"]
<1>1. LET t == Failed(s) IN
      /\ t["transfers"] = s["transfers"] /\ t["bytes"] = s["bytes"]
      /\ t["min"] = s["min"] /\ t["max"] = s["max"]
  BY Zenon DEF Failed, Fields
<1>2. LET t == Counted(s) IN
      /\ t["transfers"] = s["transfers"] + 1 /\ t["bytes"] = s["bytes"]
      /\ t["min"] = s["min"] /\ t["max"] = s["max"]
  BY Zenon DEF Counted, Fields
<1>3. LET t == Added(s, n) IN
      /\ t["transfers"] = s["transfers"] /\ t["bytes"] = s["bytes"] + n
      /\ t["min"] = s["min"] /\ t["max"] = s["max"]
  BY Zenon DEF Added, Fields
<1>4. LET t == WithMin(s, l) IN
      /\ t["transfers"] = s["transfers"] /\ t["bytes"] = s["bytes"]
      /\ t["min"] = (IF s["min"] = 0 \/ l < s["min"] THEN l ELSE s["min"])
      /\ t["max"] = s["max"]
  BY Zenon DEF WithMin, Fields
<1>5. LET t == WithMax(s, l) IN
      /\ t["transfers"] = s["transfers"] /\ t["bytes"] = s["bytes"]
      /\ t["min"] = s["min"]
      /\ t["max"] = (IF l > s["max"] THEN l ELSE s["max"])
  BY Zenon DEF WithMax, Fields
<1>6. LET t == WithAvg(s, l) IN
      /\ t["transfers"] = s["transfers"] /\ t["bytes"] = s["bytes"]
      /\ t["min"] = s["min"] /\ t["max"] = s["max"]
  BY Zenon DEF WithAvg, Fields
<1> QED BY <1>1, <1>2, <1>3, <1>4, <1>5, <1>6, Zenon

\* Consistent statistics are sound, and so they stay at each assignment that
\* accounts a transfer.
LEMMA SoundOnTheWay ==
  ASSUME NEW c \in [Fields -> Nat], Consistent(c),
         NEW n \in Nat, MinSize <= n, n <= MaxSize, NEW l \in Nat, l # 0
  PROVE  /\ Sound(c)
         /\ Sound(Failed(c))
         /\ Sound(Counted(c))
         /\ Sound(Added(Counted(c), n))
         /\ Sound(WithMin(Added(Counted(c), n), l))
         /\ Sound(WithMax(WithMin(Added(Counted(c), n), l), l))
         /\ Sound(Account(c, n, l))
         /\ LET b == Added(Counted(c), n) IN b["max"] = 0 => b["min"] = 0
         /\ WithMin(Added(Counted(c), n), l)["min"] <= l
<1>1. PICK a : a = Counted(c)
  BY Zenon
<1>2. PICK b : b = Added(a, n)
  BY Zenon
<1>3. PICK d : d = WithMin(b, l)
  BY Zenon
<1>4. PICK e : e = WithMax(d, l)
  BY Zenon
<1>5. PICK f : f = Failed(c)
  BY Zenon
<1>6. a \in [Fields -> Nat] /\ f \in [Fields -> Nat]
  BY <1>1, <1>5, UpdateTypes, Zenon
<1>7. b \in [Fields -> Nat]
  BY <1>2, <1>6, UpdateTypes, Zenon
<1>8. d \in [Fields -> Nat]
  BY <1>3, <1>7, UpdateTypes, Zenon
<1>9. /\ a["transfers"] = c["transfers"] + 1 /\ a["bytes"] = c["bytes"]
      /\ a["min"] = c["min"] /\ a["max"] = c["max"]
      /\ f["transfers"] = c["transfers"] /\ f["bytes"] = c["bytes"]
      /\ f["min"] = c["min"] /\ f["max"] = c["max"]
  BY <1>1, <1>5, UpdateValues, Zenon
<1>10. /\ b["transfers"] = a["transfers"] /\ b["bytes"] = a["bytes"] + n
       /\ b["min"] = a["min"] /\ b["max"] = a["max"]
  BY <1>2, <1>6, UpdateValues, Zenon
<1>11. /\ d["transfers"] = b["transfers"] /\ d["bytes"] = b["bytes"]
       /\ d["min"] = (IF b["min"] = 0 \/ l < b["min"] THEN l ELSE b["min"])
       /\ d["max"] = b["max"]
  BY <1>3, <1>7, UpdateValues, Zenon
<1>12. /\ e["transfers"] = d["transfers"] /\ e["bytes"] = d["bytes"]
       /\ e["min"] = d["min"]
       /\ e["max"] = (IF l > d["max"] THEN l ELSE d["max"])
  BY <1>4, <1>8, UpdateValues, Zenon
<1>13. /\ c["transfers"] \in Nat /\ c["bytes"] \in Nat /\ c["min"] \in Nat
       /\ c["max"] \in Nat
  BY FieldTypes, Zenon
<1>14. /\ c["transfers"] <= c["bytes"]
       /\ c["transfers"] = 0 => c["min"] = 0 /\ c["max"] = 0
       /\ c["transfers"] > 0 => 0 < c["min"] /\ c["min"] <= c["max"]
  BY <1>13 DEF Consistent, MinSize
<1>15. Sound(c) /\ Sound(f) /\ Sound(a)
  BY <1>9, <1>13, <1>14 DEF Sound
<1>16. Sound(b) /\ (b["max"] = 0 => b["min"] = 0)
  BY <1>9, <1>10, <1>13, <1>14 DEF Sound
<1>17. Sound(d) /\ d["min"] <= l
  BY <1>9, <1>10, <1>11, <1>13, <1>14 DEF Sound
<1>18. Sound(e)
  BY <1>9, <1>10, <1>11, <1>12, <1>13, <1>14 DEF Sound
<1>19. Sound(Account(c, n, l))
  <2>1. PICK g : g = Account(c, n, l)
    BY Zenon
  <2>2. /\ g["transfers"] = c["transfers"] + 1
        /\ g["bytes"] = c["bytes"] + n
        /\ g["min"] = (IF c["min"] = 0 \/ l < c["min"] THEN l ELSE c["min"])
        /\ g["max"] = (IF l > c["max"] THEN l ELSE c["max"])
    BY <2>1, AccountValues, Zenon
  <2>3. Sound(g)
    BY <2>2, <1>13, <1>14 DEF Sound
  <2> QED BY <2>1, <2>3, Zenon
<1> QED BY <1>1, <1>2, <1>3, <1>4, <1>5, <1>15, <1>16, <1>17, <1>18, <1>19, Zenon

\* The request and the latency of a transfer being accounted.
LEMMA UnderWay ==
  ASSUME DeviceInv, NEW p \in Users, cmd[p] = "TRANSFER", lat[p] \in Latencies,
         validate_transfer_request(req[p])
  PROVE  /\ req[p].size \in Nat /\ MinSize <= req[p].size /\ req[p].size <= MaxSize
         /\ lat[p] \in Nat /\ lat[p] # 0
<1>1. req[p] \in Requests
  BY Zenon DEF DeviceInv, CallState
<1>2. req[p].size \in Nat
  BY <1>1, KernelAssumption
<1> QED BY <1>2, KernelAssumption DEF validate_transfer_request, MinSize

\* What a reader may find, at any time.
LEMMA StatsSound ==
  ASSUME DeviceInv, Unreset
  PROVE  Sound(stats)
<1>1. committed \in [Fields -> Nat] /\ Consistent(committed)
  BY Zenon DEF DeviceInv, TypeOK, SnapshotsConsistent
<1>2. Sound(committed) /\ Sound(Failed(committed))
  <2>1. 1 \in Nat /\ MinSize <= 1 /\ 1 <= MaxSize /\ 1 # 0
    BY KernelAssumption DEF MinSize
  <2> QED BY <1>1, <2>1, SoundOnTheWay, Zenon
<1>3. CASE mutex = Nobody
  BY <1>2, <1>3, Zenon DEF DeviceInv, OneWriterAtATime
<1>4. CASE mutex # Nobody
  <2>1. PICK p \in Users : mutex = p
    BY <1>4, Zenon DEF DeviceInv, TypeOK
  <2>2. pc[p] \in Holding /\ Progress(p)
    BY <2>1, Zenon DEF DeviceInv, OneWriterAtATime
  <2>3. CASE pc[p] \in {"switch", "errors"}
    BY <1>2, <2>2, <2>3, Zenon DEF Progress
  <2>4. CASE pc[p] \in {"transfers", "bytes", "min", "max", "avg", "copy_out"}
    <3>1. AccountedTo(p)
      BY <2>2, <2>4, Zenon DEF Progress
    <3>2. PICK n, l : n = req[p].size /\ l = lat[p]
      BY Zenon
    <3>3. n \in Nat /\ MinSize <= n /\ n <= MaxSize /\ l \in Nat /\ l # 0
      BY <3>1, <3>2, UnderWay, Zenon DEF AccountedTo
    <3>4. \/ stats = committed
          \/ stats = Counted(committed)
          \/ stats = Added(Counted(committed), n)
          \/ stats = WithMin(Added(Counted(committed), n), l)
          \/ stats = WithMax(WithMin(Added(Counted(committed), n), l), l)
          \/ stats = Account(committed, n, l)
      BY <3>1, <3>2, <2>4 DEF AccountedTo
    <3> QED BY <3>3, <3>4, <1>1, SoundOnTheWay, Zenon
  <2>5. CASE pc[p] = "memset"
    BY <2>2, <2>5, Zenon DEF Progress, Unreset
  <2>6. CASE pc[p] = "unlock"
    <3>1. Outcome(p) /\ cmd[p] # "RESET_STATS"
      BY <2>2, <2>6, Zenon DEF Progress, Unreset
    <3>2. CASE stats = committed \/ stats = Failed(committed)
      BY <3>2, <1>2, Zenon
    <3>3. CASE /\ stats = Account(committed, req[p].size, lat[p])
               /\ lat[p] \in Latencies /\ validate_transfer_request(req[p])
               /\ cmd[p] = "TRANSFER"
      BY <3>3, <1>1, UnderWay, SoundOnTheWay, Zenon
    <3> QED BY <3>1, <3>2, <3>3, Zenon DEF Outcome
  <2> QED BY <2>2, <2>3, <2>4, <2>5, <2>6 DEF Holding, Labels
<1> QED BY <1>3, <1>4

\* Without resets, nothing a reader relies on is taken back.
LEMMA GrowsStep ==
  ASSUME DeviceInv, Unreset, NEW p \in Users, Running(p)
  PROVE  Grows(stats, stats')
<1>1. stats \in [Fields -> Nat]
  BY Zenon DEF DeviceInv, TypeOK
<1>2. /\ stats["transfers"] \in Nat /\ stats["bytes"] \in Nat
      /\ stats["min"] \in Nat /\ stats["max"] \in Nat
  BY <1>1, FieldTypes, Zenon
<1>3. Progress(p)
  BY Zenon DEF DeviceInv, OneWriterAtATime
<1>4. CASE stats' = stats
  BY <1>2, <1>4 DEF Grows
<1>5. CASE update_errors(p)
  <2>1. stats' = Failed(stats)
    BY <1>5, Zenon DEF update_errors, Update
  <2>2. /\ stats'["bytes"] = stats["bytes"]
        /\ stats'["min"] = stats["min"] /\ stats'["max"] = stats["max"]
    BY <1>1, <2>1, UpdateValues, Zenon
  <2> QED BY <1>2, <2>2 DEF Grows
<1>6. CASE update_transfers(p)
  <2>1. stats' = Counted(stats)
    BY <1>6, Zenon DEF update_transfers, Update
  <2>2. /\ stats'["bytes"] = stats["bytes"]
        /\ stats'["min"] = stats["min"] /\ stats'["max"] = stats["max"]
    BY <1>1, <2>1, UpdateValues, Zenon
  <2> QED BY <1>2, <2>2 DEF Grows
<1>7. CASE Accounting(p) /\ pc[p] \in {"bytes", "min", "max", "avg"}
  <2>1. AccountedTo(p)
    BY <1>3, <1>7, Zenon DEF Progress
  <2>2. PICK n, l : n = req[p].size /\ l = lat[p]
    BY Zenon
  <2>3. n \in Nat /\ MinSize <= n /\ n <= MaxSize /\ l \in Nat /\ l # 0
    BY <2>1, <2>2, UnderWay, Zenon DEF AccountedTo
  <2>4. committed \in [Fields -> Nat] /\ Consistent(committed)
    BY Zenon DEF DeviceInv, TypeOK, SnapshotsConsistent
  <2>5. CASE update_bytes(p)
    <3>1. stats' = Added(stats, n)
      BY <2>2, <2>5, Zenon DEF update_bytes, Update
    <3>2. /\ stats'["bytes"] = stats["bytes"] + n
          /\ stats'["min"] = stats["min"] /\ stats'["max"] = stats["max"]
      BY <1>1, <2>3, <3>1, UpdateValues, Zenon
    <3> QED BY <1>2, <2>3, <3>2 DEF Grows
  <2>6. CASE update_min(p)
    <3>1. stats' = WithMin(stats, l) /\ pc[p] = "min"
      BY <2>2, <2>6, Zenon DEF update_min, Update
    <3>2. /\ stats'["bytes"] = stats["bytes"] /\ stats'["max"] = stats["max"]
          /\ stats'["min"] = (IF stats["min"] = 0 \/ l < stats["min"] THEN l ELSE stats["min"])
      BY <1>1, <2>3, <3>1, UpdateValues, Zenon
    <3>3. stats = Added(Counted(committed), n)
      BY <2>1, <2>2, <3>1 DEF AccountedTo
    <3>4. stats["max"] = 0 => stats["min"] = 0
      BY <2>3, <2>4, <3>3, SoundOnTheWay, Zenon
    <3> QED BY <1>2, <2>3, <3>2, <3>4 DEF Grows
  <2>7. CASE update_max(p)
    <3>1. stats' = WithMax(stats, l) /\ pc[p] = "max"
      BY <2>2, <2>7, Zenon DEF update_max, Update
    <3>2. /\ stats'["bytes"] = stats["bytes"] /\ stats'["min"] = stats["min"]
          /\ stats'["max"] = (IF l > stats["max"] THEN l ELSE stats["max"])
      BY <1>1, <2>3, <3>1, UpdateValues, Zenon
    <3>3. stats = WithMin(Added(Counted(committed), n), l)
      BY <2>1, <2>2, <3>1 DEF AccountedTo
    <3>4. stats["min"] <= l
      BY <2>3, <2>4, <3>3, SoundOnTheWay, Zenon
    <3> QED BY <1>2, <2>3, <3>2, <3>4 DEF Grows
  <2>8. CASE update_avg(p)
    <3>1. stats' = WithAvg(stats, l)
      BY <2>2, <2>8, Zenon DEF update_avg, Update
    <3>2. /\ stats'["bytes"] = stats["bytes"]
          /\ stats'["min"] = stats["min"] /\ stats'["max"] = stats["max"]
      BY <1>1, <2>3, <3>1, UpdateValues, Zenon
    <3> QED BY <1>2, <3>2 DEF Grows
  <2> QED BY <1>5, <1>6, <1>7, <2>5, <2>6, <2>7, <2>8, Zenon DEF Accounting
<1>8. ~memset_field(p)
  BY <1>3, Zenon DEF memset_field, Progress, Unreset
<1>9. \/ stats' = stats
      \/ Accounting(p)
  BY <1>8, Zenon DEF Running, Transferring, Resetting, transfer_copy_in_fault,
       dma_transfer_error, dma_transfer, transfer_copy_out, ioctl_get_stats,
       ioctl_reset_stats, memset_done, ioctl_default, ioctl_bad_magic, ioctl_unlock,
       ioctl_return
<1>10. CASE Accounting(p)
  <2>1. \/ update_errors(p) \/ update_transfers(p)
        \/ pc[p] \in {"bytes", "min", "max", "avg"}
    BY <1>10, Zenon DEF Accounting, update_bytes, update_min, update_max, update_avg, Update
  <2> QED BY <1>5, <1>6, <1>7, <1>10, <2>1, Zenon
<1> QED BY <1>4, <1>9, <1>10, Zenon

LEMMA ReaderKeeps ==
  ASSUME NEW q \in Seq(Nat), NEW s \in [Fields -> Nat], NEW t \in [Fields -> Nat],
         ReaderOK(q, s), Grows(s, t)
  PROVE  ReaderOK(q, t)
<1>1. /\ s["bytes"] \in Nat /\ s["min"] \in Nat /\ s["max"] \in Nat
      /\ t["bytes"] \in Nat /\ t["min"] \in Nat /\ t["max"] \in Nat
  BY FieldTypes, Zenon
<1>2. ASSUME Len(q) >= 1 PROVE q[1] - 1 <= t["bytes"]
  <2>1. q[1] \in Nat
    BY <1>2
  <2> QED BY <1>1, <1>2, <2>1 DEF ReaderOK, Grows
<1>3. ASSUME Len(q) >= 5
      PROVE  IF t["max"] = 0 THEN q[5] <= t["min"] ELSE q[5] <= t["max"]
  <2>1. q[5] \in Nat
    BY <1>3
  <2>2. IF s["max"] = 0 THEN q[5] <= s["min"] ELSE q[5] <= s["max"]
    BY <1>3 DEF ReaderOK
  <2> QED BY <1>1, <2>1, <2>2 DEF Grows
<1> QED BY <1>2, <1>3 DEF ReaderOK

LEMMA ReaderReads ==
  ASSUME NEW q \in Seq(Nat), Len(q) < 6, NEW s \in [Fields -> Nat],
         Sound(s), ReaderOK(q, s)
  PROVE  ReaderOK(Append(q, s[ProcReads[Len(q) + 1]]), s)
<1>1. PICK v : v = s[ProcReads[Len(q) + 1]]
  BY Zenon
<1>2. PICK w : w = Append(q, v)
  BY Zenon
<1>3. /\ s["bytes"] \in Nat /\ s["min"] \in Nat /\ s["max"] \in Nat
      /\ s["transfers"] \in Nat /\ s["errors"] \in Nat /\ s["avg"] \in Nat
  BY FieldTypes, Zenon
<1>4. \/ Len(q) = 0 \/ Len(q) = 1 \/ Len(q) = 2
      \/ Len(q) = 3 \/ Len(q) = 4 \/ Len(q) = 5
  <2>1. PICK k : k = Len(q)
    BY Zenon
  <2>2. k \in Nat /\ k < 6
    BY <2>1
  <2>3. k = 0 \/ k = 1 \/ k = 2 \/ k = 3 \/ k = 4 \/ k = 5
    BY <2>2
  <2> QED BY <2>1, <2>3, Zenon
<1>5. /\ Len(q) = 0 => v = s["transfers"]
      /\ Len(q) = 1 => v = s["bytes"]
      /\ Len(q) = 2 => v = s["errors"]
      /\ Len(q) = 3 => v = s["avg"]
      /\ Len(q) = 4 => v = s["min"]
      /\ Len(q) = 5 => v = s["max"]
  <2>1. /\ ProcReads[0 + 1] = "transfers" /\ ProcReads[1 + 1] = "bytes"
        /\ ProcReads[2 + 1] = "errors" /\ ProcReads[3 + 1] = "avg"
        /\ ProcReads[4 + 1] = "min" /\ ProcReads[5 + 1] = "max"
    BY DEF ProcReads
  <2> QED BY <1>1, <2>1, Zenon
<1>6. v \in Nat
  BY <1>3, <1>4, <1>5
<1>7. /\ Len(w) = Len(q) + 1 /\ w[Len(q) + 1] = v
      /\ \A i \in 1 .. Len(q) : w[i] = q[i] /\ q[i] \in Nat
  BY <1>2, <1>6
<1>8. ReaderOK(w, s)
  <2>1. CASE Len(q) = 0
    <3>1. Len(w) = 1 /\ w[1] = s["transfers"]
      BY <1>5, <1>7, <2>1
    <3> QED BY <3>1, <1>3 DEF ReaderOK, Sound
  <2>2. CASE Len(q) = 1
    <3>1. Len(w) = 2 /\ w[1] = q[1] /\ w[2] = s["bytes"]
      BY <1>5, <1>7, <2>2
    <3> QED BY <3>1, <1>3, <2>2 DEF ReaderOK
  <2>3. CASE Len(q) = 2
    <3>1. Len(w) = 3 /\ w[1] = q[1] /\ w[2] = q[2]
      BY <1>7, <2>3
    <3> QED BY <3>1, <2>3 DEF ReaderOK
  <2>4. CASE Len(q) = 3
    <3>1. Len(w) = 4 /\ w[1] = q[1] /\ w[2] = q[2]
      BY <1>7, <2>4
    <3> QED BY <3>1, <2>4 DEF ReaderOK
  <2>5. CASE Len(q) = 4
    <3>1. Len(w) = 5 /\ w[1] = q[1] /\ w[2] = q[2] /\ w[5] = s["min"]
      BY <1>5, <1>7, <2>5
    <3> QED BY <3>1, <1>3, <2>5 DEF ReaderOK, Sound
  <2>6. CASE Len(q) = 5
    <3>1. /\ Len(w) = 6 /\ w[1] = q[1] /\ w[2] = q[2] /\ w[5] = q[5]
          /\ w[6] = s["max"]
      BY <1>5, <1>7, <2>6
    <3> QED BY <3>1, <1>3, <2>6 DEF ReaderOK
  <2> QED BY <1>4, <2>1, <2>2, <2>3, <2>4, <2>5, <2>6
<1> QED BY <1>1, <1>2, <1>8, Zenon

LEMMA ProcInvStep ==
  ASSUME "RESET_STATS" \notin Issued, ProcInv, [Next]_vars
  PROVE  ProcInv'
<1> USE DEF ProcInv
<1>1. DeviceInv'
  BY DeviceInvStep, Zenon
<1>2. /\ seen \in [Readers -> Seq(Nat)] /\ stats \in [Fields -> Nat]
      /\ stats' \in [Fields -> Nat] /\ cmd \in [Users -> Commands \cup {"none"}]
  BY <1>1, Zenon DEF DeviceInv, TypeOK
<1>3. ASSUME seen' = seen, Grows(stats, stats')
      PROVE  \A r \in Readers : ReaderOK(seen[r], stats)'
  <2>1. SUFFICES ASSUME NEW r \in Readers PROVE ReaderOK(seen[r], stats')
    BY <1>3, Zenon
  <2>2. seen[r] \in Seq(Nat) /\ ReaderOK(seen[r], stats)
    BY <1>2, Zenon
  <2> QED BY <1>2, <1>3, <2>2, ReaderKeeps, Zenon
<1>4. Grows(stats, stats)
  <2>1. stats["bytes"] \in Nat /\ stats["min"] \in Nat /\ stats["max"] \in Nat
    BY <1>2, FieldTypes, Zenon
  <2> QED BY <2>1 DEF Grows
<1>5. ASSUME NEW p \in Users, NEW c \in Issued, NEW r \in Requests,
             pcie_sim_char_ioctl(p, c, r)
      PROVE  ProcInv'
  <2>1. /\ stats' = stats /\ seen' = seen /\ c # "RESET_STATS"
        /\ cmd' = [cmd EXCEPT ![p] = c]
    BY <1>5, Zenon DEF pcie_sim_char_ioctl
  <2>2. Unreset'
    BY <1>2, <2>1, Zenon DEF Unreset
  <2> QED BY <1>1, <1>3, <1>4, <2>1, <2>2, Zenon
<1>6. ASSUME NEW p \in Users, ioctl_lock(p) \/ ioctl_interrupted(p)
      PROVE  ProcInv'
  <2>1. stats' = stats /\ seen' = seen /\ cmd' = cmd
    BY <1>6, Zenon DEF ioctl_lock, ioctl_interrupted, locals
  <2>2. Unreset'
    BY <2>1, Zenon DEF Unreset
  <2> QED BY <1>1, <1>3, <1>4, <2>1, <2>2, Zenon
<1>7. ASSUME NEW p \in Users, Running(p) PROVE ProcInv'
  <2>1. seen' = seen /\ (cmd' = cmd \/ cmd' = [cmd EXCEPT ![p] = "none"])
    BY <1>7, Zenon DEF Running, Transferring, Accounting, Resetting, transfer_copy_in_fault,
       dma_transfer_error, dma_transfer, transfer_copy_out, ioctl_get_stats,
       ioctl_reset_stats, memset_field, memset_done, ioctl_default, ioctl_bad_magic,
       ioctl_unlock, ioctl_return, update_errors, update_transfers, update_bytes,
       update_min, update_max, update_avg, Update, locals
  <2>2. Unreset'
    BY <1>2, <2>1, Zenon DEF Unreset
  <2>3. Grows(stats, stats')
    BY <1>7, GrowsStep, Zenon
  <2> QED BY <1>1, <1>3, <2>1, <2>2, <2>3, Zenon
<1>8. ASSUME NEW r \in Readers, proc_stats_show(r) \/ proc_stats_done(r)
      PROVE  ProcInv'
  <2>1. stats' = stats /\ cmd' = cmd
    BY <1>8, Zenon DEF proc_stats_show, proc_stats_done, locals
  <2>2. Unreset'
    BY <2>1, Zenon DEF Unreset
  <2>3. \A o \in Readers \ {r} : seen'[o] = seen[o]
    BY <1>2, <1>8, Zenon DEF proc_stats_show, proc_stats_done
  <2>4. ReaderOK(seen'[r], stats)
    <3>1. CASE proc_stats_show(r)
      <4>1. /\ seen'[r] = Append(seen[r], stats[ProcReads[Len(seen[r]) + 1]])
            /\ Len(seen[r]) < Len(ProcReads)
        BY <1>2, <3>1, Zenon DEF proc_stats_show
      <4>2. Len(seen[r]) < 6
        BY <4>1 DEF ProcReads
      <4>3. Sound(stats) /\ ReaderOK(seen[r], stats) /\ seen[r] \in Seq(Nat)
        BY <1>2, StatsSound, Zenon
      <4> QED BY <1>2, <4>1, <4>2, <4>3, ReaderReads, Zenon
    <3>2. CASE proc_stats_done(r)
      <4>1. seen'[r] = <<>>
        BY <1>2, <3>2, Zenon DEF proc_stats_done
      <4> QED BY <4>1 DEF ReaderOK
    <3> QED BY <1>8, <3>1, <3>2
  <2>5. ASSUME NEW o \in Readers PROVE ReaderOK(seen'[o], stats')
    BY <2>1, <2>3, <2>4, Zenon
  <2> QED BY <1>1, <2>2, <2>5, Zenon
<1>9. CASE UNCHANGED vars
  <2>1. stats' = stats /\ seen' = seen /\ cmd' = cmd
    BY <1>9, Zenon DEF vars, locals
  <2>2. Unreset'
    BY <2>1, Zenon DEF Unreset
  <2> QED BY <1>1, <1>3, <1>4, <2>1, <2>2, Zenon
<1> QED BY <1>5, <1>6, <1>7, <1>8, <1>9, Zenon DEF Next

\* A program that never issues PCIE_SIM_IOC_RESET_STATS reads the proc file at
\* most one transfer behind, and a minimum above the maximum only before any
\* maximum is set, for any number of users and readers: the order of the writes
\* of update_transfer_stats (dma.c:70-81) is enough, without the mutex the
\* readers of procfs.c:45-83 do not take.
THEOREM ProcReadersLagByOne ==
  ASSUME "RESET_STATS" \notin Issued
  PROVE  Spec => []ProcLagsByOneTransfer
<1>1. Init => ProcInv
  <2> SUFFICES ASSUME Init PROVE ProcInv
    OBVIOUS
  <2>1. DeviceInv
    BY DeviceInvInit, Zenon
  <2>2. Unreset
    BY DEF Init, Unreset
  <2>3. \A r \in Readers : ReaderOK(seen[r], stats)
    BY DEF Init, ReaderOK
  <2> QED BY <2>1, <2>2, <2>3 DEF ProcInv
<1>2. ProcInv /\ [Next]_vars => ProcInv'
  BY ProcInvStep, Zenon
<1>3. ProcInv => ProcLagsByOneTransfer
  <2> SUFFICES ASSUME ProcInv, NEW r \in Readers
               PROVE  /\ Len(seen[r]) >= 2 => (seen[r][1] - 1) * MinSize <= seen[r][2]
                      /\ Len(seen[r]) = 6 => seen[r][6] = 0 \/ seen[r][5] <= seen[r][6]
    BY Zenon DEF ProcLagsByOneTransfer
  <2>1. PICK q : q = seen[r]
    BY Zenon
  <2>2. q \in Seq(Nat) /\ ReaderOK(q, stats)
    BY <2>1, Zenon DEF ProcInv, DeviceInv, TypeOK
  <2>3. Len(q) >= 2 => q[1] \in Nat
    BY <2>2
  <2>4. /\ Len(q) >= 2 => (q[1] - 1) * MinSize <= q[2]
        /\ Len(q) = 6 => q[6] = 0 \/ q[5] <= q[6]
    BY <2>2, <2>3 DEF ReaderOK, MinSize
  <2> QED BY <2>1, <2>4, Zenon
<1> QED BY <1>1, <1>2, <1>3, PTL DEF Spec
=============================================================================
