---------------------------- MODULE MonitorProofs ----------------------------
(***************************************************************************)
(* Theorems about Monitor, for any number of callers, any number of        *)
(* polling threads and any lengths of a benchmark.                         *)
(*                                                                         *)
(* The inductive invariant MonitorInv has two parts.  MonitorState says,   *)
(* as long as no two calls of the monitor have overlapped and the process  *)
(* lives, what monitoring_ and monitor_thread_ are between calls (Quiet)   *)
(* and at each point of a call (During).  CountInv says what the loop      *)
(* counter of a benchmark has to do with the device's count.               *)
(***************************************************************************)
EXTENDS Monitor, FiniteSetTheorems, TLAPS

MonitorOps == {"start", "stop", "destroy"}
StopLabels == {"test", "clear", "joinable", "join"}
StartLabels == {"set", "spawn", "assign"}
BenchmarkLabels == {"reset", "warmup", "run", "metrics"}
Labels == {"idle"} \cup StopLabels \cup StartLabels \cup BenchmarkLabels

CallerType ==
  [pc : Labels, op : MonitorOps \cup {"none", "benchmark"}, thread : Pollers \cup {None},
   i : Nat, alone : BOOLEAN]

\* Where a caller is fits the call it makes.
PcFitsOp(r) ==
  /\ r.pc = "idle" => r.op = "none"
  /\ r.pc \in StopLabels => r.op \in MonitorOps
  /\ r.pc \in StartLabels => r.op = "start"
  /\ r.pc \in BenchmarkLabels => r.op = "benchmark"
  /\ r.pc = "assign" => r.thread \in Pollers

Types ==
  /\ monitoring \in BOOLEAN /\ monitor_thread \in Pollers \cup {None}
  /\ poller \in [Pollers -> {"none", "check", "poll", "ended"}]
  /\ caller \in [Callers -> CallerType]
  /\ transfers \in Nat /\ valid \in BOOLEAN
  /\ life \in {"running", "destroyed", "terminated"}
  /\ serial \in BOOLEAN /\ threw \in BOOLEAN

\* Between calls every thread that was started is owned, and told to go on.
Quiet ==
  /\ monitor_thread # None => monitoring
  /\ \A p \in Pollers : poller[p] # "none" => p = monitor_thread
  /\ life = "destroyed" => monitor_thread = None

\* While c is in a call of the monitor.
During(c) ==
  /\ life = "running"
  /\ \A p \in Pollers : poller[p] # "none" =>
       p = monitor_thread \/ (At(c, "assign") /\ p = caller[c].thread)
  /\ At(c, "test") => (monitor_thread # None => monitoring)
  /\ At(c, "join") => monitor_thread # None
  /\ caller[c].pc \in StartLabels => monitor_thread = None
  /\ caller[c].pc \in {"spawn", "assign"} => monitoring

MonitorState ==
  /\ \A b, c \in Callers : InMonitor(b) /\ InMonitor(c) => b = c
  /\ (\A c \in Callers : ~InMonitor(c)) => Quiet
  /\ \A c \in Callers : InMonitor(c) => During(c)

\* A benchmark that had the device to itself has made all the transfers that
\* the device counts since its last reset.
CountInv(c) ==
  /\ At(c, "reset") => caller[c].i = 0
  /\ At(c, "run") /\ caller[c].alone => transfers = caller[c].i
  /\ At(c, "metrics") /\ caller[c].alone => caller[c].i = NumTransfers

MonitorInv ==
  /\ Types
  /\ \A c \in Callers : PcFitsOp(caller[c])
  /\ serial /\ life # "terminated" => MonitorState
  /\ DiesOnlyOfPolls
  /\ \A c \in Callers : CountInv(c)

-----------------------------------------------------------------------------
\* After a step that changes the record of c alone, to r.
After(c, r) ==
  /\ caller' \in [Callers -> CallerType]
  /\ caller'[c] = r
  /\ \A b \in Callers : b # c => caller'[b] = caller[b]

LEMMA OnlyCaller ==
  ASSUME caller \in [Callers -> CallerType], NEW c \in Callers, NEW r \in CallerType,
         caller' = [caller EXCEPT ![c] = r]
  PROVE  After(c, r)
BY Zenon DEF After

LEMMA IdleCaller == Idle \in CallerType /\ PcFitsOp(Idle) /\ Idle.op = "none" /\ Idle.pc = "idle"
<1>1. Idle \in CallerType /\ Idle.pc = "idle" /\ Idle.op = "none"
  BY SMT DEF Idle, CallerType, Labels, MonitorOps, StopLabels, StartLabels, BenchmarkLabels
<1> QED BY <1>1, Zenon DEF PcFitsOp, StopLabels, StartLabels, BenchmarkLabels

LEMMA SetPc ==
  ASSUME NEW r \in CallerType, NEW l \in Labels
  PROVE  LET s == [r EXCEPT !.pc = l] IN
         /\ s \in CallerType /\ s.pc = l /\ s.op = r.op /\ s.thread = r.thread
         /\ s.i = r.i /\ s.alone = r.alone
BY Zenon DEF CallerType

\* The caller moves to l.
MovedTo(r, s, l) ==
  /\ s \in CallerType /\ s.pc = l /\ s.op = r.op /\ s.thread = r.thread
  /\ s.i = r.i /\ s.alone = r.alone

LEMMA GotoMoves ==
  ASSUME caller \in [Callers -> CallerType], NEW c \in Callers, NEW l \in Labels, Goto(c, l)
  PROVE  \E s : After(c, s) /\ MovedTo(caller[c], s, l)
<1>1. PICK r \in CallerType : r = caller[c]
  BY Zenon
<1>2. PICK s : s = [r EXCEPT !.pc = l]
  BY Zenon
<1>3. MovedTo(r, s, l)
  BY <1>2, SetPc, Zenon DEF MovedTo
<1>4. s \in CallerType
  BY <1>3, Zenon DEF MovedTo
<1>5. caller' = [caller EXCEPT ![c] = s]
  BY <1>1, <1>2, Zenon DEF Goto
<1>6. After(c, s)
  BY <1>4, <1>5, OnlyCaller, Zenon
<1> QED BY <1>1, <1>3, <1>6, Zenon

\* stop_monitoring ends: a start goes on, any other call is over.
LEMMA StoppedMoves ==
  ASSUME caller \in [Callers -> CallerType], NEW c \in Callers, Stopped(c)
  PROVE  \/ /\ caller[c].op = "start" /\ life' = life
            /\ \E s : After(c, s) /\ MovedTo(caller[c], s, "set")
         \/ /\ caller[c].op # "start" /\ After(c, Idle)
            /\ life' = IF caller[c].op # "destroy" THEN life
                       ELSE IF monitor_thread' = None THEN "destroyed" ELSE "terminated"
<1>1. PICK r \in CallerType : r = caller[c]
  BY Zenon
<1>2. CASE r.op = "start"
  <2>1. life' = life
    BY <1>1, <1>2, Zenon DEF Stopped
  <2>2. PICK s : s = [r EXCEPT !.pc = "set"]
    BY Zenon
  <2>3. "set" \in Labels
    BY Zenon DEF Labels, StartLabels
  <2>4. MovedTo(r, s, "set")
    BY <2>2, <2>3, SetPc, Zenon DEF MovedTo
  <2>5. s \in CallerType
    BY <2>4, Zenon DEF MovedTo
  <2>6. caller' = [caller EXCEPT ![c] = s]
    BY <1>1, <1>2, <2>2, Zenon DEF Stopped
  <2>7. After(c, s)
    BY <2>5, <2>6, OnlyCaller, Zenon
  <2> QED BY <1>1, <1>2, <2>1, <2>4, <2>7, Zenon
<1>3. CASE r.op # "start"
  <2>1. caller' = [caller EXCEPT ![c] = Idle]
    BY <1>1, <1>3, Zenon DEF Stopped
  <2>2. After(c, Idle)
    BY <2>1, IdleCaller, OnlyCaller, Zenon
  <2>3. life' = IF caller[c].op # "destroy" THEN life
                ELSE IF monitor_thread' = None THEN "destroyed" ELSE "terminated"
    BY Zenon DEF Stopped
  <2> QED BY <1>1, <1>3, <2>2, <2>3, Zenon
<1> QED BY <1>2, <1>3, Zenon

-----------------------------------------------------------------------------
\* What a step of c inside a call of the monitor has to establish.
LEMMA StateAfter ==
  ASSUME MonitorState, NEW c \in Callers, InMonitor(c), NEW r, After(c, r),
         r.op \in MonitorOps => During(c)',
         r.op \notin MonitorOps => Quiet'
  PROVE  MonitorState'
<1>1. \A b \in Callers : b # c => ~InMonitor(b)
  BY Zenon DEF MonitorState
<1>2. \A b \in Callers : b # c => ~InMonitor(b)'
  BY <1>1, Zenon DEF After, InMonitor
<1>3. InMonitor(c)' <=> r.op \in MonitorOps
  BY Zenon DEF After, InMonitor, MonitorOps
<1>4. \A b, d \in Callers : InMonitor(b)' /\ InMonitor(d)' => b = d
  BY <1>2, Zenon
<1>5. (\A b \in Callers : ~InMonitor(b)') => Quiet'
  BY <1>3, Zenon
<1>6. \A b \in Callers : InMonitor(b)' => During(b)'
  BY <1>2, <1>3, Zenon
<1> QED BY <1>4, <1>5, <1>6, Zenon DEF MonitorState

\* The rest of the invariant after such a step.
LEMMA LocalsAfter ==
  ASSUME MonitorInv, NEW c \in Callers, NEW r, After(c, r),
         PcFitsOp(r), r.pc \notin BenchmarkLabels, transfers' = transfers
  PROVE  /\ \A b \in Callers : PcFitsOp(caller'[b])
         /\ \A b \in Callers : CountInv(b)'
<1>1. ASSUME NEW b \in Callers
      PROVE  PcFitsOp(caller'[b]) /\ CountInv(b)'
  <2>1. CASE b = c
    BY <2>1, Zenon DEF After, CountInv, At, BenchmarkLabels
  <2>2. CASE b # c
    <3>1. caller'[b] = caller[b]
      BY <2>2, Zenon DEF After
    <3> QED BY <3>1, Zenon DEF MonitorInv, CountInv, At
  <2> QED BY <2>1, <2>2, Zenon
<1> QED BY <1>1, Zenon

LEMMA InvAfter ==
  ASSUME MonitorInv, NEW c \in Callers, NEW r, After(c, r),
         PcFitsOp(r), r.pc \notin BenchmarkLabels,
         monitoring' \in BOOLEAN, monitor_thread' \in Pollers \cup {None},
         poller' \in [Pollers -> {"none", "check", "poll", "ended"}],
         life' \in {"running", "destroyed", "terminated"},
         UNCHANGED <<transfers, valid, serial, threw>>,
         serial => life' # "terminated" /\ MonitorState'
  PROVE  MonitorInv'
<1>1. transfers' = transfers /\ valid' = valid /\ serial' = serial /\ threw' = threw
  BY Zenon
<1>2. (\A b \in Callers : PcFitsOp(caller'[b])) /\ (\A b \in Callers : CountInv(b)')
  BY <1>1, LocalsAfter, Zenon
<1>3. Types'
  BY <1>1, Zenon DEF MonitorInv, Types, After
<1>4. (serial' /\ life' # "terminated" => MonitorState') /\ DiesOnlyOfPolls'
  <2>1. CASE serial
    BY <2>1, Zenon DEF DiesOnlyOfPolls
  <2>2. CASE ~serial
    <3>1. ~serial'
      <4>1. serial' = serial
        BY <1>1, Zenon
      <4> QED BY <2>2, <4>1, SMT
    <3> QED BY <3>1, Zenon DEF DiesOnlyOfPolls
  <2> QED BY <2>1, <2>2, Zenon
<1> QED BY <1>2, <1>3, <1>4, Zenon DEF MonitorInv

\* A caller inside a call of the monitor, when no calls have overlapped.
LEMMA InCall ==
  ASSUME MonitorInv, NEW c \in Callers, caller[c].pc \in StopLabels \cup StartLabels
  PROVE  /\ InMonitor(c)
         /\ caller[c].op \in MonitorOps
         /\ serial /\ life # "terminated" => MonitorState /\ During(c)
<1>1. PcFitsOp(caller[c])
  BY Zenon DEF MonitorInv
<1>2. caller[c].op \in MonitorOps
  BY <1>1, Zenon DEF PcFitsOp, MonitorOps
<1>3. InMonitor(c)
  BY <1>2, Zenon DEF InMonitor, MonitorOps
<1> QED BY <1>2, <1>3, Zenon DEF MonitorInv, MonitorState

\* A caller that moves on inside a call.
LEMMA MovedFits ==
  ASSUME NEW r, NEW s, NEW l, MovedTo(r, s, l), r.op \in MonitorOps,
         \/ l \in StopLabels
         \/ l \in {"set", "spawn"} /\ r.op = "start"
  PROVE  PcFitsOp(s) /\ s.pc \notin BenchmarkLabels /\ s.op \in MonitorOps /\ s.pc = l
<1>1. s.pc = l /\ s.op = r.op
  BY Zenon DEF MovedTo
<1>2. l \notin BenchmarkLabels /\ l # "idle" /\ l # "assign"
  BY Zenon DEF StopLabels, BenchmarkLabels
<1>3. l \in StartLabels => r.op = "start"
  BY Zenon DEF StopLabels, StartLabels
<1> QED BY <1>1, <1>2, <1>3, Zenon DEF PcFitsOp

\* A step that moves c on inside its call, where the monitor's own state has
\* come to be as it should.
LEMMA MoveKeepsInv ==
  ASSUME MonitorInv, NEW c \in Callers, caller[c].pc \in StopLabels \cup StartLabels,
         life # "terminated",
         NEW l, NEW s, After(c, s), MovedTo(caller[c], s, l),
         \/ l \in StopLabels
         \/ l \in {"set", "spawn"} /\ caller[c].op = "start",
         monitoring' \in BOOLEAN, monitor_thread' \in Pollers \cup {None},
         poller' \in [Pollers -> {"none", "check", "poll", "ended"}],
         UNCHANGED <<life, transfers, valid, serial, threw>>,
         serial => During(c)'
  PROVE  MonitorInv'
<1>1. PcFitsOp(s) /\ s.pc \notin BenchmarkLabels /\ s.op \in MonitorOps
  BY InCall, MovedFits, Zenon
<1>2. life' = life /\ UNCHANGED <<transfers, valid, serial, threw>>
  BY Zenon
<1>3. life' \in {"running", "destroyed", "terminated"}
  BY <1>2, Zenon DEF MonitorInv, Types
<1>4. serial => life' # "terminated" /\ MonitorState'
  <2> SUFFICES ASSUME serial PROVE MonitorState'
    BY <1>2, Zenon
  <2>1. MonitorState /\ InMonitor(c) /\ During(c)'
    BY InCall, Zenon
  <2> QED BY <1>1, <2>1, StateAfter, Zenon
<1> QED BY <1>1, <1>2, <1>3, <1>4, InvAfter, Zenon

\* A step that ends the call of c.
LEMMA EndKeepsInv ==
  ASSUME MonitorInv, NEW c \in Callers, caller[c].pc \in StopLabels \cup StartLabels,
         life # "terminated", After(c, Idle),
         monitoring' \in BOOLEAN, monitor_thread' \in Pollers \cup {None},
         poller' \in [Pollers -> {"none", "check", "poll", "ended"}],
         life' \in {"running", "destroyed", "terminated"},
         UNCHANGED <<transfers, valid, serial, threw>>,
         serial => life' # "terminated" /\ Quiet'
  PROVE  MonitorInv'
<1>1. /\ PcFitsOp(Idle) /\ Idle.pc \notin BenchmarkLabels /\ Idle.op \notin MonitorOps
  BY IdleCaller, Zenon DEF BenchmarkLabels, MonitorOps
<1>2. serial => life' # "terminated" /\ MonitorState'
  <2> SUFFICES ASSUME serial PROVE MonitorState'
    BY Zenon
  <2>1. MonitorState /\ InMonitor(c) /\ Quiet'
    BY InCall, Zenon
  <2> QED BY <1>1, <2>1, StateAfter, Zenon
<1> QED BY <1>1, <1>2, InvAfter, Zenon

\* The end of stop_monitoring, with the thread joined or never started.
LEMMA StoppedKeepsInv ==
  ASSUME MonitorInv, NEW c \in Callers, caller[c].pc \in StopLabels, life # "terminated",
         Stopped(c),
         monitoring' = monitoring, monitor_thread' \in Pollers \cup {None},
         poller' \in [Pollers -> {"none", "check", "poll", "ended"}],
         UNCHANGED <<transfers, valid, serial, threw>>,
         serial => /\ monitor_thread' = None
                   /\ \A p \in Pollers : poller'[p] = "none"
  PROVE  MonitorInv'
<1>1. caller \in [Callers -> CallerType] /\ monitoring' \in BOOLEAN
      /\ life \in {"running", "destroyed", "terminated"}
  BY Zenon DEF MonitorInv, Types
<1>2. caller[c].pc \in StopLabels \cup StartLabels
  BY Zenon
<1>3. CASE /\ caller[c].op = "start" /\ life' = life
           /\ \E s : After(c, s) /\ MovedTo(caller[c], s, "set")
  <2>1. PICK s : After(c, s) /\ MovedTo(caller[c], s, "set")
    BY <1>3, Zenon
  <2>2. serial => During(c)'
    <3> SUFFICES ASSUME serial PROVE During(c)'
      OBVIOUS
    <3>1. caller'[c].pc = "set"
      BY <2>1, Zenon DEF After, MovedTo
    <3>2. life' = "running"
      BY <1>2, <1>3, InCall, Zenon DEF During
    <3> QED BY <3>1, <3>2, Zenon DEF During, At, StartLabels
  <2>3. UNCHANGED <<life, transfers, valid, serial, threw>>
    BY <1>3, Zenon
  <2> QED BY <1>1, <1>2, <1>3, <2>1, <2>2, <2>3, MoveKeepsInv, Zenon
<1>4. CASE /\ caller[c].op # "start" /\ After(c, Idle)
           /\ life' = IF caller[c].op # "destroy" THEN life
                      ELSE IF monitor_thread' = None THEN "destroyed" ELSE "terminated"
  <2>1. life' \in {"running", "destroyed", "terminated"}
    BY <1>1, <1>4, Zenon
  <2>2. serial => life' # "terminated" /\ Quiet'
    BY <1>4, Zenon DEF Quiet
  <2> QED BY <1>1, <1>2, <1>4, <2>1, <2>2, EndKeepsInv, Zenon
<1> QED BY <1>1, <1>3, <1>4, StoppedMoves, Zenon

-----------------------------------------------------------------------------
\* One lemma for each action of a call of the monitor.
LEMMA LabelKinds ==
  /\ StopLabels \subseteq Labels /\ StartLabels \subseteq Labels
  /\ {"test", "clear", "joinable", "join"} \subseteq StopLabels
  /\ {"set", "spawn", "assign"} \subseteq StartLabels
BY Zenon DEF Labels, StopLabels, StartLabels

LEMMA InvTypes ==
  ASSUME MonitorInv
  PROVE  /\ caller \in [Callers -> CallerType]
         /\ monitoring \in BOOLEAN /\ monitor_thread \in Pollers \cup {None}
         /\ poller \in [Pollers -> {"none", "check", "poll", "ended"}]
         /\ life \in {"running", "destroyed", "terminated"}
BY Zenon DEF MonitorInv, Types

LEMMA StopTest ==
  ASSUME MonitorInv, life # "terminated", NEW c \in Callers, stop_test(c)
  PROVE  MonitorInv'
<1>1. /\ caller[c].pc = "test" /\ poller' = poller
      /\ monitoring' = monitoring /\ monitor_thread' = monitor_thread
      /\ UNCHANGED <<transfers, valid, serial, threw>>
  BY Zenon DEF stop_test, At, monitor, device
<1>2. caller[c].pc \in StopLabels /\ caller[c].pc \in StopLabels \cup StartLabels
  BY <1>1, Zenon DEF StopLabels
<1>3. CASE monitoring
  <2>1. Goto(c, "clear") /\ life' = life
    BY <1>3, Zenon DEF stop_test
  <2>2. PICK s : After(c, s) /\ MovedTo(caller[c], s, "clear")
    BY <2>1, GotoMoves, InvTypes, LabelKinds, Zenon
  <2>3. caller'[c].pc = "clear"
    BY <2>2, Zenon DEF After, MovedTo
  <2>4. serial => During(c)'
    <3> SUFFICES ASSUME serial PROVE During(c)'
      OBVIOUS
    <3>1. During(c)
      BY <1>2, InCall, Zenon
    <3>2. \A p \in Pollers : poller'[p] # "none" => p = monitor_thread'
      BY <1>1, <3>1, Zenon DEF During, At
    <3>3. life' = "running"
      BY <2>1, <3>1, Zenon DEF During
    <3> QED BY <2>3, <3>2, <3>3, Zenon DEF During, At, StartLabels
  <2>5. UNCHANGED <<life, transfers, valid, serial, threw>>
    BY <1>1, <2>1, Zenon
  <2>6. "clear" \in StopLabels
    BY Zenon DEF StopLabels
  <2> QED BY <1>1, <1>2, <2>2, <2>4, <2>5, <2>6, InvTypes, MoveKeepsInv, Zenon
<1>4. CASE ~monitoring
  <2>1. Stopped(c)
    BY <1>4, Zenon DEF stop_test
  <2>2. serial => monitor_thread' = None /\ \A p \in Pollers : poller'[p] = "none"
    <3> SUFFICES ASSUME serial
                 PROVE  monitor_thread' = None /\ \A p \in Pollers : poller'[p] = "none"
      OBVIOUS
    <3>1. During(c)
      BY <1>2, InCall, Zenon
    <3>2. monitor_thread = None
      BY <1>1, <1>4, <3>1, Zenon DEF During, At
    <3> QED BY <1>1, <3>1, <3>2, NoneAssumption, Zenon DEF During, At
  <2> QED BY <1>1, <1>2, <2>1, <2>2, InvTypes, StoppedKeepsInv, Zenon
<1> QED BY <1>3, <1>4, Zenon

LEMMA StopClear ==
  ASSUME MonitorInv, life # "terminated", NEW c \in Callers, stop_clear(c)
  PROVE  MonitorInv'
<1>1. /\ caller[c].pc = "clear" /\ poller' = poller
      /\ monitoring' \in BOOLEAN /\ monitor_thread' = monitor_thread
      /\ life' = life /\ UNCHANGED <<life, transfers, valid, serial, threw>>
      /\ Goto(c, "joinable")
  BY Zenon DEF stop_clear, At, device
<1>2. caller[c].pc \in StopLabels \cup StartLabels /\ "joinable" \in StopLabels
  BY <1>1, Zenon DEF StopLabels
<1>3. PICK s : After(c, s) /\ MovedTo(caller[c], s, "joinable")
  BY <1>1, GotoMoves, InvTypes, LabelKinds, Zenon
<1>4. caller'[c].pc = "joinable"
  BY <1>3, Zenon DEF After, MovedTo
<1>5. serial => During(c)'
  <2> SUFFICES ASSUME serial PROVE During(c)'
    OBVIOUS
  <2>1. During(c)
    BY <1>2, InCall, Zenon
  <2>2. \A p \in Pollers : poller'[p] # "none" => p = monitor_thread'
    BY <1>1, <2>1, Zenon DEF During, At
  <2>3. life' = "running"
    BY <1>1, <2>1, Zenon DEF During
  <2> QED BY <1>4, <2>2, <2>3, Zenon DEF During, At, StartLabels
<1> QED BY <1>1, <1>2, <1>3, <1>5, InvTypes, MoveKeepsInv, Zenon

LEMMA StopJoinable ==
  ASSUME MonitorInv, life # "terminated", NEW c \in Callers, stop_joinable(c)
  PROVE  MonitorInv'
<1>1. /\ caller[c].pc = "joinable" /\ poller' = poller
      /\ monitoring' = monitoring /\ monitor_thread' = monitor_thread
      /\ UNCHANGED <<transfers, valid, serial, threw>>
  BY Zenon DEF stop_joinable, At, monitor, device
<1>2. caller[c].pc \in StopLabels /\ caller[c].pc \in StopLabels \cup StartLabels
  BY <1>1, Zenon DEF StopLabels
<1>3. CASE monitor_thread # None
  <2>1. Goto(c, "join") /\ life' = life
    BY <1>3, Zenon DEF stop_joinable
  <2>2. PICK s : After(c, s) /\ MovedTo(caller[c], s, "join")
    BY <2>1, GotoMoves, InvTypes, LabelKinds, Zenon
  <2>3. caller'[c].pc = "join"
    BY <2>2, Zenon DEF After, MovedTo
  <2>4. serial => During(c)'
    <3> SUFFICES ASSUME serial PROVE During(c)'
      OBVIOUS
    <3>1. During(c)
      BY <1>2, InCall, Zenon
    <3>2. \A p \in Pollers : poller'[p] # "none" => p = monitor_thread'
      BY <1>1, <3>1, Zenon DEF During, At
    <3>3. life' = "running" /\ monitor_thread' # None
      BY <1>1, <1>3, <2>1, <3>1, Zenon DEF During
    <3> QED BY <2>3, <3>2, <3>3, Zenon DEF During, At, StartLabels
  <2>5. UNCHANGED <<life, transfers, valid, serial, threw>>
    BY <1>1, <2>1, Zenon
  <2>6. "join" \in StopLabels
    BY Zenon DEF StopLabels
  <2> QED BY <1>1, <1>2, <2>2, <2>4, <2>5, <2>6, InvTypes, MoveKeepsInv, Zenon
<1>4. CASE monitor_thread = None
  <2>1. Stopped(c)
    BY <1>4, Zenon DEF stop_joinable
  <2>2. serial => monitor_thread' = None /\ \A p \in Pollers : poller'[p] = "none"
    <3> SUFFICES ASSUME serial
                 PROVE  monitor_thread' = None /\ \A p \in Pollers : poller'[p] = "none"
      OBVIOUS
    <3>1. During(c)
      BY <1>2, InCall, Zenon
    <3> QED BY <1>1, <1>4, <3>1, NoneAssumption, Zenon DEF During, At
  <2> QED BY <1>1, <1>2, <2>1, <2>2, InvTypes, StoppedKeepsInv, Zenon
<1> QED BY <1>3, <1>4, Zenon

LEMMA StopJoin ==
  ASSUME MonitorInv, life # "terminated", NEW c \in Callers, stop_join(c)
  PROVE  MonitorInv'
<1>1. /\ caller[c].pc = "join" /\ monitor_thread # None
      /\ monitoring' = monitoring /\ monitor_thread' = None
      /\ UNCHANGED <<transfers, valid, serial, threw>>
      /\ poller' = [poller EXCEPT ![monitor_thread] = "none"]
      /\ Stopped(c)
  BY Zenon DEF stop_join, At, device
<1>2. caller[c].pc \in StopLabels /\ caller[c].pc \in StopLabels \cup StartLabels
  BY <1>1, Zenon DEF StopLabels
<1>3. PICK m \in Pollers : m = monitor_thread
  BY <1>1, InvTypes, Zenon
<1>4. /\ poller' \in [Pollers -> {"none", "check", "poll", "ended"}]
      /\ poller'[m] = "none"
      /\ \A p \in Pollers : p # m => poller'[p] = poller[p]
  BY <1>1, <1>3, InvTypes, Zenon
<1>5. serial => monitor_thread' = None /\ \A p \in Pollers : poller'[p] = "none"
  <2> SUFFICES ASSUME serial, NEW p \in Pollers PROVE poller'[p] = "none"
    BY <1>1, Zenon
  <2>1. During(c)
    BY <1>2, InCall, Zenon
  <2>2. p # m => poller[p] = "none"
    BY <1>1, <1>3, <2>1, Zenon DEF During, At
  <2> QED BY <1>4, <2>2, Zenon
<1> QED BY <1>1, <1>2, <1>4, <1>5, StoppedKeepsInv, Zenon

\* Two calls that do not overlap never join the thread twice.
LEMMA StopJoinTwice ==
  ASSUME MonitorInv, life # "terminated", NEW c \in Callers, stop_join_twice(c)
  PROVE  MonitorInv'
<1>1. /\ caller[c].pc = "join" /\ monitor_thread = None /\ poller' = poller
      /\ monitoring' = monitoring /\ monitor_thread' = monitor_thread
      /\ UNCHANGED <<transfers, valid, serial, threw>>
      /\ Stopped(c) \/ (life' = "terminated" /\ caller' = caller)
  BY Zenon DEF stop_join_twice, At, monitor, device
<1>2. caller[c].pc \in StopLabels /\ caller[c].pc \in StopLabels \cup StartLabels
  BY <1>1, Zenon DEF StopLabels
<1>3. ~serial
  <2> SUFFICES ASSUME serial PROVE FALSE
    OBVIOUS
  <2>1. During(c)
    BY <1>2, InCall, Zenon
  <2> QED BY <1>1, <2>1, Zenon DEF During, At
<1>4. CASE Stopped(c)
  BY <1>1, <1>2, <1>3, <1>4, InvTypes, StoppedKeepsInv, Zenon
<1>5. CASE life' = "terminated" /\ caller' = caller
  <2>1. PICK r : r = caller[c]
    BY Zenon
  <2>2. After(c, r)
    BY <1>5, <2>1, InvTypes, Zenon DEF After
  <2>3. PcFitsOp(r) /\ r.pc \notin BenchmarkLabels
    BY <1>1, <2>1, Zenon DEF MonitorInv, BenchmarkLabels
  <2>4. life' \in {"running", "destroyed", "terminated"}
    BY <1>5, Zenon
  <2> QED BY <1>1, <1>3, <2>2, <2>3, <2>4, InvTypes, InvAfter, Zenon
<1> QED BY <1>1, <1>4, <1>5, Zenon

LEMMA StartSet ==
  ASSUME MonitorInv, life # "terminated", NEW c \in Callers, start_set(c)
  PROVE  MonitorInv'
<1>1. /\ caller[c].pc = "set" /\ poller' = poller
      /\ monitoring' = TRUE /\ monitor_thread' = monitor_thread
      /\ life' = life /\ UNCHANGED <<life, transfers, valid, serial, threw>>
      /\ Goto(c, "spawn")
  BY Zenon DEF start_set, At, device
<1>2. caller[c].pc \in StopLabels \cup StartLabels /\ caller[c].op = "start"
  BY <1>1, Zenon DEF MonitorInv, PcFitsOp, StartLabels
<1>3. PICK s : After(c, s) /\ MovedTo(caller[c], s, "spawn")
  BY <1>1, GotoMoves, InvTypes, LabelKinds, Zenon
<1>4. caller'[c].pc = "spawn"
  BY <1>3, Zenon DEF After, MovedTo
<1>5. serial => During(c)'
  <2> SUFFICES ASSUME serial PROVE During(c)'
    OBVIOUS
  <2>1. During(c)
    BY <1>2, InCall, Zenon
  <2>2. \A p \in Pollers : poller'[p] # "none" => p = monitor_thread'
    BY <1>1, <2>1, Zenon DEF During, At
  <2>3. life' = "running" /\ monitor_thread' = None /\ monitoring'
    BY <1>1, <2>1, Zenon DEF During, StartLabels
  <2> QED BY <1>4, <2>2, <2>3, Zenon DEF During, At
<1>6. monitoring' \in BOOLEAN /\ "spawn" \in {"set", "spawn"}
  BY <1>1, Zenon
<1> QED BY <1>1, <1>2, <1>3, <1>5, <1>6, InvTypes, MoveKeepsInv, Zenon

LEMMA StartSpawn ==
  ASSUME MonitorInv, life # "terminated", NEW c \in Callers, NEW p \in Pollers,
         start_spawn(c, p)
  PROVE  MonitorInv'
<1>1. /\ caller[c].pc = "spawn" /\ poller' = [poller EXCEPT ![p] = "check"]
      /\ monitoring' = monitoring /\ monitor_thread' = monitor_thread
      /\ UNCHANGED <<transfers, valid, serial, threw>>
  BY Zenon DEF start_spawn, At, monitor, device
<1>2. caller[c].pc \in StopLabels \cup StartLabels /\ caller[c].op = "start"
  BY <1>1, Zenon DEF MonitorInv, PcFitsOp, StartLabels
<1>3. /\ poller' \in [Pollers -> {"none", "check", "poll", "ended"}]
      /\ \A q \in Pollers : q # p => poller'[q] = poller[q]
  BY <1>1, InvTypes, Zenon
<1>4. CASE monitor_thread = None
  <2>1. life' = life /\ caller' = [caller EXCEPT ![c] = [@ EXCEPT !.pc = "assign", !.thread = p]]
    BY <1>4, Zenon DEF start_spawn
  <2>2. PICK r \in CallerType : r = caller[c]
    BY InvTypes, Zenon
  <2>3. PICK s : s = [r EXCEPT !.pc = "assign", !.thread = p]
    BY Zenon
  <2>4. s \in CallerType /\ s.pc = "assign" /\ s.op = r.op /\ s.thread = p
    BY <2>3, Zenon DEF CallerType, Labels, StartLabels
  <2>5. caller' = [caller EXCEPT ![c] = s]
    BY <2>1, <2>2, <2>3, Zenon
  <2>6. After(c, s)
    BY <2>4, <2>5, InvTypes, OnlyCaller, Zenon
  <2>7. PcFitsOp(s) /\ s.pc \notin BenchmarkLabels /\ s.op \in MonitorOps
    BY <1>2, <2>2, <2>4, Zenon DEF PcFitsOp, BenchmarkLabels, StopLabels, MonitorOps
  <2>8. serial => life' # "terminated" /\ MonitorState'
    <3> SUFFICES ASSUME serial PROVE MonitorState'
      BY <2>1, Zenon
    <3>1. MonitorState /\ InMonitor(c) /\ During(c)
      BY <1>2, InCall, Zenon
    <3>2. caller'[c].pc = "assign" /\ caller'[c].thread = p
      BY <2>4, <2>6, Zenon DEF After
    <3>3. \A q \in Pollers : poller'[q] # "none" => q = monitor_thread' \/ q = caller'[c].thread
      <4> SUFFICES ASSUME NEW q \in Pollers, poller'[q] # "none", q # p
                   PROVE  q = monitor_thread'
        BY <3>2, Zenon
      <4>1. poller[q] # "none"
        BY <1>3, Zenon
      <4> QED BY <1>1, <3>1, <4>1, Zenon DEF During, At
    <3>4. life' = "running" /\ monitor_thread' = None /\ monitoring'
      BY <1>1, <1>4, <2>1, <3>1, Zenon DEF During
    <3>5. During(c)'
      BY <3>2, <3>3, <3>4, Zenon DEF During, At
    <3> QED BY <2>6, <2>7, <3>1, <3>5, StateAfter, Zenon
  <2>9. life' \in {"running", "destroyed", "terminated"}
    BY <2>1, InvTypes, Zenon
  <2> QED BY <1>1, <1>3, <2>6, <2>7, <2>8, <2>9, InvTypes, InvAfter, Zenon
<1>5. CASE monitor_thread # None
  <2>1. life' = "terminated" /\ caller' = caller
    BY <1>5, Zenon DEF start_spawn
  <2>2. ~serial
    <3> SUFFICES ASSUME serial PROVE FALSE
      OBVIOUS
    <3>1. During(c)
      BY <1>2, InCall, Zenon
    <3> QED BY <1>1, <1>5, <3>1, Zenon DEF During, StartLabels
  <2>3. PICK r : r = caller[c]
    BY Zenon
  <2>4. After(c, r)
    BY <2>1, <2>3, InvTypes, Zenon DEF After
  <2>5. PcFitsOp(r) /\ r.pc \notin BenchmarkLabels
    BY <1>1, <2>3, Zenon DEF MonitorInv, BenchmarkLabels
  <2>6. life' \in {"running", "destroyed", "terminated"}
    BY <2>1, Zenon
  <2> QED BY <1>1, <1>3, <2>2, <2>4, <2>5, <2>6, InvTypes, InvAfter, Zenon
<1> QED BY <1>4, <1>5, Zenon

LEMMA StartAssign ==
  ASSUME MonitorInv, life # "terminated", NEW c \in Callers, start_assign(c)
  PROVE  MonitorInv'
<1>1. /\ caller[c].pc = "assign" /\ poller' = poller
      /\ monitoring' = monitoring /\ monitor_thread' = caller[c].thread
      /\ life' = life /\ UNCHANGED <<transfers, valid, serial, threw>>
      /\ caller' = [caller EXCEPT ![c] = Idle]
  BY Zenon DEF start_assign, At, device
<1>2. caller[c].pc \in StopLabels \cup StartLabels /\ monitor_thread' \in Pollers \cup {None}
  BY <1>1, Zenon DEF MonitorInv, PcFitsOp, StartLabels
<1>3. After(c, Idle)
  BY <1>1, IdleCaller, InvTypes, OnlyCaller, Zenon
<1>4. serial => life' # "terminated" /\ Quiet'
  <2> SUFFICES ASSUME serial PROVE Quiet'
    BY <1>1, Zenon
  <2>1. During(c)
    BY <1>2, InCall, Zenon
  <2>2. monitor_thread = None /\ monitoring /\ life = "running"
    BY <1>1, <2>1, Zenon DEF During, StartLabels
  <2>3. \A p \in Pollers : poller'[p] # "none" => p = monitor_thread'
    BY <1>1, <2>1, <2>2, NoneAssumption, Zenon DEF During
  <2> QED BY <1>1, <2>2, <2>3, Zenon DEF Quiet
<1> QED BY <1>1, <1>2, <1>3, <1>4, InvTypes, EndKeepsInv, Zenon

LEMMA StartFails ==
  ASSUME MonitorInv, life # "terminated", NEW c \in Callers, start_fails(c)
  PROVE  MonitorInv'
<1>1. /\ caller[c].pc = "spawn" /\ poller' = poller
      /\ monitoring' = monitoring /\ monitor_thread' = monitor_thread
      /\ life' = life /\ UNCHANGED <<transfers, valid, serial, threw>>
      /\ caller' = [caller EXCEPT ![c] = Idle]
  BY Zenon DEF start_fails, At, monitor, device
<1>2. caller[c].pc \in StopLabels \cup StartLabels
  BY <1>1, Zenon DEF StartLabels
<1>3. After(c, Idle)
  BY <1>1, IdleCaller, InvTypes, OnlyCaller, Zenon
<1>4. serial => life' # "terminated" /\ Quiet'
  <2> SUFFICES ASSUME serial PROVE Quiet'
    BY <1>1, Zenon
  <2>1. During(c)
    BY <1>2, InCall, Zenon
  <2>2. monitor_thread = None
    BY <1>1, <2>1, Zenon DEF During, StartLabels
  <2>3. \A p \in Pollers : poller'[p] # "none" => p = monitor_thread'
    BY <1>1, <2>1, Zenon DEF During, At
  <2> QED BY <1>1, <2>2, <2>3, Zenon DEF Quiet
<1> QED BY <1>1, <1>2, <1>3, <1>4, InvTypes, EndKeepsInv, Zenon

LEMMA CallBegins ==
  ASSUME MonitorInv, NEW c \in Callers, NEW op \in MonitorOps, Call(c, op)
  PROVE  MonitorInv'
<1>1. /\ caller[c].pc = "idle" /\ life = "running" /\ poller' = poller
      /\ monitoring' = monitoring /\ monitor_thread' = monitor_thread
      /\ life' = life /\ transfers' = transfers /\ valid' = valid /\ threw' = threw
      /\ caller' = [caller EXCEPT ![c] = [Idle EXCEPT !.pc = "test", !.op = op]]
      /\ serial' = (serial /\ ~\E b \in Callers : InMonitor(b))
  BY Zenon DEF Call, At, monitor, device
<1>2. PICK s : s = [Idle EXCEPT !.pc = "test", !.op = op]
  BY Zenon
<1>3. s \in CallerType /\ s.pc = "test" /\ s.op = op
  <2>1. Idle \in CallerType
    BY IdleCaller, Zenon
  <2> QED BY <1>2, <2>1, Zenon DEF CallerType, Labels, StopLabels
<1>4. After(c, s)
  BY <1>1, <1>2, <1>3, InvTypes, OnlyCaller, Zenon
<1>5. PcFitsOp(s) /\ s.pc \notin BenchmarkLabels
  BY <1>3, Zenon DEF PcFitsOp, BenchmarkLabels, StartLabels
<1>6. (\A b \in Callers : PcFitsOp(caller'[b])) /\ (\A b \in Callers : CountInv(b)')
  BY <1>1, <1>4, <1>5, LocalsAfter, Zenon
<1>7. serial' \in BOOLEAN
  BY <1>1, Zenon
<1>8. Types'
  BY <1>1, <1>4, <1>7, Zenon DEF MonitorInv, Types, After
<1>9. ASSUME serial'
      PROVE  MonitorState'
  <2>1. serial /\ \A b \in Callers : ~InMonitor(b)
    BY <1>1, <1>9, Zenon
  <2>2. Quiet
    BY <1>1, <2>1, Zenon DEF MonitorInv, MonitorState
  <2>3. \A b \in Callers : b # c => ~InMonitor(b)'
    BY <1>4, <2>1, Zenon DEF After, InMonitor
  <2>4. caller'[c].pc = "test"
    BY <1>3, <1>4, Zenon DEF After
  <2>5. During(c)'
    BY <1>1, <2>2, <2>4, Zenon DEF During, Quiet, At, StartLabels
  <2>6. InMonitor(c)'
    BY <1>3, <1>4, Zenon DEF After, InMonitor, MonitorOps
  <2> QED BY <2>3, <2>5, <2>6, Zenon DEF MonitorState
<1>10. DiesOnlyOfPolls'
  BY <1>1, Zenon DEF DiesOnlyOfPolls
<1> QED BY <1>6, <1>8, <1>9, <1>10, Zenon DEF MonitorInv

-----------------------------------------------------------------------------
\* The steps outside the calls of the monitor.  First those that leave every
\* caller as it is and start no polling thread.
LEMMA CallersStay ==
  ASSUME MonitorInv,
         UNCHANGED <<monitoring, monitor_thread, caller, transfers, life, serial, threw>>,
         valid' \in BOOLEAN,
         poller' \in [Pollers -> {"none", "check", "poll", "ended"}],
         \A p \in Pollers : poller'[p] # "none" => poller[p] # "none"
  PROVE  MonitorInv'
<1>1. /\ monitoring' = monitoring /\ monitor_thread' = monitor_thread /\ caller' = caller
      /\ transfers' = transfers /\ life' = life /\ serial' = serial /\ threw' = threw
  BY Zenon
<1>0. (monitoring' <=> monitoring) /\ (serial' <=> serial) /\ (threw' <=> threw)
  BY <1>1, SMT
<1>2. Types'
  BY <1>1, Zenon DEF MonitorInv, Types
<1>3. (\A c \in Callers : PcFitsOp(caller'[c])) /\ (\A c \in Callers : CountInv(c)')
  BY <1>1, Zenon DEF MonitorInv, CountInv, At
<1>4. MonitorState => MonitorState'
  <2> SUFFICES ASSUME MonitorState PROVE MonitorState'
    OBVIOUS
  <2>1. \A c \in Callers : InMonitor(c)' <=> InMonitor(c)
    BY <1>1, Zenon DEF InMonitor
  <2>2. Quiet => Quiet'
    BY <1>0, <1>1, Zenon DEF Quiet
  <2>3. ASSUME NEW c \in Callers, During(c)
        PROVE  During(c)'
    <3>1. \A p \in Pollers : poller'[p] # "none" =>
            p = monitor_thread' \/ (At(c, "assign")' /\ p = caller'[c].thread)
      BY <1>1, <2>3, Zenon DEF During, At
    <3> QED BY <1>0, <1>1, <2>3, <3>1, Zenon DEF During, At
  <2> QED BY <2>1, <2>2, <2>3, Zenon DEF MonitorState
<1>5. serial' /\ life' # "terminated" => MonitorState'
  BY <1>0, <1>1, <1>4, Zenon DEF MonitorInv
<1>6. DiesOnlyOfPolls'
  BY <1>0, <1>1, Zenon DEF MonitorInv, DiesOnlyOfPolls
<1> QED BY <1>2, <1>3, <1>5, <1>6, Zenon DEF MonitorInv

LEMMA Polls ==
  ASSUME MonitorInv, NEW p \in Pollers, Polling(p)
  PROVE  MonitorInv'
<1>1. CASE poll_check(p) \/ get_current_metrics(p)
  <2>1. PICK v \in {"check", "poll", "ended"} : poller' = [poller EXCEPT ![p] = v]
    BY <1>1, Zenon DEF poll_check, get_current_metrics
  <2>2. poller[p] # "none"
    BY <1>1, Zenon DEF poll_check, get_current_metrics
  <2>3. UNCHANGED <<monitoring, monitor_thread, caller, transfers, valid, life, serial, threw>>
    BY <1>1, Zenon DEF poll_check, get_current_metrics, monitor, device
  <2>4. poller' \in [Pollers -> {"none", "check", "poll", "ended"}]
    BY <2>1, InvTypes, Zenon
  <2>5. ASSUME NEW q \in Pollers, poller'[q] # "none"
        PROVE  poller[q] # "none"
    BY <2>1, <2>2, <2>5, InvTypes, Zenon
  <2>6. valid' \in BOOLEAN
    BY <2>3, Zenon DEF MonitorInv, Types
  <2>7. UNCHANGED <<monitoring, monitor_thread, caller, transfers, life, serial, threw>>
    BY <2>3, Zenon
  <2> QED BY <2>4, <2>5, <2>6, <2>7, CallersStay, Zenon
<1>2. CASE poll_throws(p)
  <2>1. /\ life' = "terminated" /\ threw' = TRUE
        /\ monitoring' = monitoring /\ monitor_thread' = monitor_thread /\ caller' = caller
        /\ poller' = poller /\ transfers' = transfers /\ valid' = valid /\ serial' = serial
    BY <1>2, Zenon DEF poll_throws, monitor, device
  <2>2. Types'
    BY <2>1, Zenon DEF MonitorInv, Types
  <2>3. (\A c \in Callers : PcFitsOp(caller'[c])) /\ (\A c \in Callers : CountInv(c)')
    BY <2>1, Zenon DEF MonitorInv, CountInv, At
  <2>4. DiesOnlyOfPolls'
    BY <2>1, Zenon DEF DiesOnlyOfPolls
  <2> QED BY <2>1, <2>2, <2>3, <2>4, Zenon DEF MonitorInv
<1> QED BY <1>1, <1>2, Zenon DEF Polling

LEMMA Moves ==
  ASSUME MonitorInv, move
  PROVE  MonitorInv'
<1>1. /\ UNCHANGED <<monitoring, monitor_thread, caller, transfers, life, serial, threw>>
      /\ poller' = poller /\ valid' = FALSE
  BY Zenon DEF move, monitor
<1>2. valid' \in BOOLEAN /\ poller' \in [Pollers -> {"none", "check", "poll", "ended"}]
  BY <1>1, InvTypes, Zenon
<1> QED BY <1>1, <1>2, CallersStay, Zenon

\* A step of c on the device leaves another caller where it is; when it changes
\* the count the other has no longer been alone.
Kept(b) ==
  /\ caller'[b].pc = caller[b].pc /\ caller'[b].op = caller[b].op
  /\ caller'[b].thread = caller[b].thread /\ caller'[b].i = caller[b].i
  /\ caller'[b].alone => caller[b].alone /\ transfers' = transfers

LEMMA DisturbedFields ==
  ASSUME caller \in [Callers -> CallerType], NEW c \in Callers
  PROVE  /\ Disturbed(c) \in [Callers -> CallerType]
         /\ Disturbed(c)[c] = caller[c]
         /\ \A b \in Callers : b # c =>
              /\ Disturbed(c)[b].pc = caller[b].pc /\ Disturbed(c)[b].op = caller[b].op
              /\ Disturbed(c)[b].thread = caller[b].thread /\ Disturbed(c)[b].i = caller[b].i
              /\ Disturbed(c)[b].alone = FALSE
<1>1. ASSUME NEW b \in Callers
      PROVE  LET s == [caller[b] EXCEPT !.alone = FALSE] IN
             /\ s \in CallerType /\ s.pc = caller[b].pc /\ s.op = caller[b].op
             /\ s.thread = caller[b].thread /\ s.i = caller[b].i /\ s.alone = FALSE
  <2>1. PICK r \in CallerType : r = caller[b]
    BY Zenon
  <2>2. LET s == [r EXCEPT !.alone = FALSE] IN
        /\ s \in CallerType /\ s.pc = r.pc /\ s.op = r.op
        /\ s.thread = r.thread /\ s.i = r.i /\ s.alone = FALSE
    BY Zenon DEF CallerType
  <2> QED BY <2>1, <2>2, Zenon
<1>2. \A b \in Callers : Disturbed(c)[b] = IF b = c THEN caller[b]
                                          ELSE [caller[b] EXCEPT !.alone = FALSE]
  BY Zenon DEF Disturbed
<1>3. Disturbed(c) \in [Callers -> CallerType]
  BY <1>1, Zenon DEF Disturbed
<1>4. ASSUME NEW b \in Callers, b # c
      PROVE  /\ Disturbed(c)[b].pc = caller[b].pc /\ Disturbed(c)[b].op = caller[b].op
             /\ Disturbed(c)[b].thread = caller[b].thread /\ Disturbed(c)[b].i = caller[b].i
             /\ Disturbed(c)[b].alone = FALSE
  <2>1. Disturbed(c)[b] = [caller[b] EXCEPT !.alone = FALSE]
    BY <1>2, <1>4, Zenon
  <2> QED BY <1>1, <2>1, Zenon
<1> QED BY <1>2, <1>3, <1>4, Zenon

\* What the new record r of the caller has to satisfy when the count is n.
Counts(r, n) ==
  /\ r.pc = "reset" => r.i = 0
  /\ r.pc = "run" /\ r.alone => n = r.i
  /\ r.pc = "metrics" /\ r.alone => r.i = NumTransfers

LEMMA DeviceStep ==
  ASSUME MonitorInv, NEW c \in Callers, NEW r \in CallerType,
         caller[c].op \notin MonitorOps, r.op \notin MonitorOps, PcFitsOp(r),
         Counts(r, transfers'), transfers' \in Nat,
         caller' \in [Callers -> CallerType], caller'[c] = r,
         \A b \in Callers : b # c => Kept(b),
         UNCHANGED <<monitoring, monitor_thread, poller, valid, life, serial, threw>>
  PROVE  MonitorInv'
<1>1. /\ monitoring' = monitoring /\ monitor_thread' = monitor_thread /\ poller' = poller
      /\ valid' = valid /\ life' = life /\ serial' = serial /\ threw' = threw
  BY Zenon
<1>0. (monitoring' <=> monitoring) /\ (serial' <=> serial) /\ (threw' <=> threw)
  BY <1>1, SMT
<1>2. Types'
  BY <1>1, Zenon DEF MonitorInv, Types
<1>3. ASSUME NEW b \in Callers
      PROVE  PcFitsOp(caller'[b]) /\ CountInv(b)'
  <2>1. CASE b = c
    BY <2>1, Zenon DEF Counts, CountInv, At
  <2>2. CASE b # c
    <3>1. Kept(b) /\ PcFitsOp(caller[b]) /\ CountInv(b)
      BY <2>2, Zenon DEF MonitorInv
    <3>2. PcFitsOp(caller'[b])
      BY <3>1, Zenon DEF Kept, PcFitsOp
    <3>3. CountInv(b)'
      BY <3>1, Zenon DEF Kept, CountInv, At
    <3> QED BY <3>2, <3>3, Zenon
  <2> QED BY <2>1, <2>2, Zenon
<1>4. ASSUME NEW b \in Callers
      PROVE  InMonitor(b)' <=> InMonitor(b)
  <2>1. CASE b = c
    BY <2>1, Zenon DEF InMonitor, MonitorOps
  <2>2. CASE b # c
    BY <2>2, Zenon DEF InMonitor, Kept
  <2> QED BY <2>1, <2>2, Zenon
<1>5. MonitorState => MonitorState'
  <2> SUFFICES ASSUME MonitorState PROVE MonitorState'
    OBVIOUS
  <2>1. Quiet => Quiet'
    BY <1>0, <1>1, Zenon DEF Quiet
  <2>2. ASSUME NEW b \in Callers, InMonitor(b), During(b)
        PROVE  During(b)'
    <3>1. b # c
      BY <2>2, Zenon DEF InMonitor, MonitorOps
    <3>2. caller'[b].pc = caller[b].pc /\ caller'[b].thread = caller[b].thread
      BY <3>1, Zenon DEF Kept
    <3>3. \A p \in Pollers : poller'[p] # "none" =>
            p = monitor_thread' \/ (At(b, "assign")' /\ p = caller'[b].thread)
      BY <1>1, <2>2, <3>2, Zenon DEF During, At
    <3> QED BY <1>0, <1>1, <2>2, <3>2, <3>3, Zenon DEF During, At
  <2> QED BY <1>4, <2>1, <2>2, Zenon DEF MonitorState
<1>6. (serial' /\ life' # "terminated" => MonitorState') /\ DiesOnlyOfPolls'
  BY <1>0, <1>1, <1>5, Zenon DEF MonitorInv, DiesOnlyOfPolls
<1> QED BY <1>2, <1>3, <1>6, Zenon DEF MonitorInv

\* A step that changes the count, with the record r for the caller.
LEMMA CountingStep ==
  ASSUME MonitorInv, NEW c \in Callers, NEW r \in CallerType,
         caller[c].op \notin MonitorOps, r.op \notin MonitorOps, PcFitsOp(r),
         NEW n \in Nat, Change(n), Counts(r, n),
         caller' = [Disturbed(c) EXCEPT ![c] = r]
  PROVE  MonitorInv'
<1>1. PICK f : f = Disturbed(c)
  BY Zenon
<1>2. f \in [Callers -> CallerType]
  BY <1>1, DisturbedFields, InvTypes, Zenon
<1>3. /\ caller' \in [Callers -> CallerType] /\ caller'[c] = r
      /\ \A b \in Callers : b # c => caller'[b] = f[b]
  BY <1>1, <1>2, Zenon
<1>4. ASSUME NEW b \in Callers, b # c
      PROVE  Kept(b)
  <2>1. caller'[b] = Disturbed(c)[b]
    BY <1>1, <1>3, <1>4, Zenon
  <2>2. /\ Disturbed(c)[b].pc = caller[b].pc /\ Disturbed(c)[b].op = caller[b].op
        /\ Disturbed(c)[b].thread = caller[b].thread /\ Disturbed(c)[b].i = caller[b].i
        /\ Disturbed(c)[b].alone = FALSE
    BY <1>4, DisturbedFields, InvTypes, Zenon
  <2> QED BY <2>1, <2>2, Zenon DEF Kept
<1>5. /\ transfers' = n
      /\ UNCHANGED <<monitoring, monitor_thread, poller, valid, life, serial, threw>>
  BY Zenon DEF Change, monitor
<1>6. transfers' \in Nat /\ Counts(r, transfers')
  BY <1>5, Zenon
<1> QED BY <1>3, <1>4, <1>5, <1>6, DeviceStep, Zenon

\* A step that leaves the count as it is.
LEMMA CountlessStep ==
  ASSUME MonitorInv, NEW c \in Callers, NEW r \in CallerType,
         caller[c].op \notin MonitorOps, r.op \notin MonitorOps, PcFitsOp(r),
         Counts(r, transfers),
         UNCHANGED <<monitor, poller, device, life, serial, threw>>,
         caller' = [caller EXCEPT ![c] = r]
  PROVE  MonitorInv'
<1>1. After(c, r)
  BY InvTypes, OnlyCaller, Zenon
<1>2. /\ transfers' = transfers
      /\ UNCHANGED <<monitoring, monitor_thread, poller, valid, life, serial, threw>>
  BY Zenon DEF monitor, device
<1>3. ASSUME NEW b \in Callers, b # c
      PROVE  Kept(b)
  <2>1. caller'[b] = caller[b]
    BY <1>1, <1>3, Zenon DEF After
  <2> QED BY <1>2, <2>1, Zenon DEF Kept
<1>4. transfers' \in Nat /\ Counts(r, transfers')
  BY <1>2, Zenon DEF MonitorInv, Types
<1>5. caller' \in [Callers -> CallerType] /\ caller'[c] = r
  BY <1>1, Zenon DEF After
<1> QED BY <1>2, <1>3, <1>4, <1>5, DeviceStep, Zenon

\* The record s of a benchmark: r with the label l and the counter n.
BenchmarkRecord(r, s, l, n) ==
  /\ s \in CallerType /\ s.pc = l /\ s.i = n /\ s.alone = r.alone /\ s.op = r.op

LEMMA BenchmarkMoves ==
  ASSUME NEW r \in CallerType, NEW l \in BenchmarkLabels
  PROVE  BenchmarkRecord(r, [r EXCEPT !.pc = l], l, r.i)
<1>1. l \in Labels
  BY Zenon DEF Labels
<1> QED BY <1>1, Zenon DEF CallerType, BenchmarkRecord

LEMMA BenchmarkLoops ==
  ASSUME NEW r \in CallerType, NEW n \in Nat
  PROVE  BenchmarkRecord(r, [r EXCEPT !.i = n], r.pc, n)
BY Zenon DEF CallerType, BenchmarkRecord

LEMMA BenchmarkMovesOn ==
  ASSUME NEW r \in CallerType, NEW l \in BenchmarkLabels, NEW n \in Nat
  PROVE  BenchmarkRecord(r, [r EXCEPT !.pc = l, !.i = n], l, n)
<1>1. l \in Labels
  BY Zenon DEF Labels
<1> QED BY <1>1, Zenon DEF CallerType, BenchmarkRecord

LEMMA BenchmarkFits ==
  ASSUME NEW r, NEW s, NEW l \in BenchmarkLabels, NEW n, BenchmarkRecord(r, s, l, n),
         r.op = "benchmark"
  PROVE  s.op \notin MonitorOps /\ PcFitsOp(s)
<1>1. s.pc \in BenchmarkLabels /\ s.op = "benchmark"
  BY Zenon DEF BenchmarkRecord
<1> QED BY <1>1, Zenon DEF MonitorOps, PcFitsOp, BenchmarkLabels, StopLabels, StartLabels

LEMMA Transfers ==
  ASSUME MonitorInv, NEW c \in Callers, transfer(c)
  PROVE  MonitorInv'
<1>1. caller[c].pc = "idle" /\ Change(transfers + 1) /\ caller' = Disturbed(c)
  BY Zenon DEF transfer, At
<1>2. PICK r \in CallerType : r = caller[c]
  BY InvTypes, Zenon
<1>3. PICK f : f = Disturbed(c)
  BY Zenon
<1>4. f \in [Callers -> CallerType] /\ f[c] = r
  BY <1>2, <1>3, DisturbedFields, InvTypes, Zenon
<1>5. f = [f EXCEPT ![c] = r]
  BY <1>4, Zenon
<1>6. caller' = [Disturbed(c) EXCEPT ![c] = r]
  BY <1>1, <1>3, <1>5, Zenon
<1>7. PcFitsOp(r) /\ r.pc = "idle"
  BY <1>1, <1>2, Zenon DEF MonitorInv
<1>8. r.op \notin MonitorOps
  BY <1>7, Zenon DEF PcFitsOp, MonitorOps
<1>9. PICK n \in Nat : n = transfers + 1
  <2>1. transfers \in Nat
    BY Zenon DEF MonitorInv, Types
  <2> QED BY <2>1, SMT
<1>10. Change(n) /\ Counts(r, n)
  BY <1>1, <1>7, <1>9, Zenon DEF Counts
<1> QED BY <1>2, <1>6, <1>7, <1>8, <1>10, CountingStep, Zenon

LEMMA InBenchmark ==
  ASSUME MonitorInv, NEW c \in Callers, caller[c].pc \in BenchmarkLabels
  PROVE  caller[c].op = "benchmark" /\ caller[c].op \notin MonitorOps
BY Zenon DEF MonitorInv, PcFitsOp, MonitorOps

\* A step of a benchmark that changes the count to n.
LEMMA BenchmarkCounts ==
  ASSUME MonitorInv, NEW c \in Callers, caller[c].pc \in BenchmarkLabels,
         NEW l \in BenchmarkLabels, NEW i \in Nat, NEW n \in Nat, Change(n),
         NEW s, BenchmarkRecord(caller[c], s, l, i), caller' = [Disturbed(c) EXCEPT ![c] = s],
         l # "reset", l # "metrics", l = "run" /\ caller[c].alone => n = i
  PROVE  MonitorInv'
<1>1. caller[c].op = "benchmark" /\ caller[c].op \notin MonitorOps
  BY InBenchmark, Zenon
<1>2. s.op \notin MonitorOps /\ PcFitsOp(s)
  BY <1>1, BenchmarkFits, Zenon
<1>3. s \in CallerType /\ Counts(s, n)
  BY Zenon DEF Counts, BenchmarkRecord
<1> QED BY <1>1, <1>2, <1>3, CountingStep, Zenon

LEMMA BenchmarkReset ==
  ASSUME MonitorInv, NEW c \in Callers, benchmark_reset(c)
  PROVE  MonitorInv'
<1>1. PICK l \in {"warmup", "run"} : /\ caller[c].pc = "reset" /\ Change(0)
                                     /\ caller' = [Disturbed(c) EXCEPT ![c].pc = l]
  BY Zenon DEF benchmark_reset, At
<1>2. l \in BenchmarkLabels /\ caller[c].pc \in BenchmarkLabels
  BY <1>1, Zenon DEF BenchmarkLabels
<1>3. PICK r \in CallerType : r = caller[c]
  BY InvTypes, Zenon
<1>4. PICK f : f = Disturbed(c)
  BY Zenon
<1>5. f \in [Callers -> CallerType] /\ f[c] = r
  BY <1>3, <1>4, DisturbedFields, InvTypes, Zenon
<1>6. PICK s : s = [r EXCEPT !.pc = l]
  BY Zenon
<1>7. [f EXCEPT ![c].pc = l] = [f EXCEPT ![c] = s]
  BY <1>5, <1>6, Zenon
<1>8. caller' = [Disturbed(c) EXCEPT ![c] = s]
  BY <1>1, <1>4, <1>7, Zenon
<1>9. BenchmarkRecord(r, s, l, r.i)
  BY <1>2, <1>6, BenchmarkMoves, Zenon
<1>10. r.i = 0
  BY <1>1, <1>3, Zenon DEF MonitorInv, CountInv, At
<1>11. BenchmarkRecord(caller[c], s, l, 0) /\ 0 \in Nat
  BY <1>3, <1>9, <1>10, SMT
<1>12. l # "reset" /\ l # "metrics"
  BY <1>1, Zenon
<1> QED BY <1>1, <1>2, <1>8, <1>11, <1>12, BenchmarkCounts, Zenon

\* A transfer of a benchmark, to warm up or to measure.
LEMMA BenchmarkTransfers ==
  ASSUME MonitorInv, NEW c \in Callers, caller[c].pc \in {"warmup", "run"},
         Change(transfers + 1), caller' = [Disturbed(c) EXCEPT ![c].i = @ + 1]
  PROVE  MonitorInv'
<1>1. PICK l \in BenchmarkLabels : l = caller[c].pc
  BY Zenon DEF BenchmarkLabels
<1>2. PICK r \in CallerType : r = caller[c]
  BY InvTypes, Zenon
<1>3. PICK f : f = Disturbed(c)
  BY Zenon
<1>4. f \in [Callers -> CallerType] /\ f[c] = r
  BY <1>2, <1>3, DisturbedFields, InvTypes, Zenon
<1>5. r.i \in Nat /\ transfers \in Nat
  BY <1>2, Zenon DEF CallerType, MonitorInv, Types
<1>6. PICK i \in Nat, n \in Nat : i = r.i + 1 /\ n = transfers + 1
  BY <1>5, SMT
<1>7. PICK s : s = [r EXCEPT !.i = i]
  BY Zenon
<1>8. [f EXCEPT ![c].i = @ + 1] = [f EXCEPT ![c] = s]
  BY <1>4, <1>6, <1>7, Zenon
<1>9. caller' = [Disturbed(c) EXCEPT ![c] = s]
  BY <1>3, <1>8, Zenon
<1>10. BenchmarkRecord(r, s, r.pc, i)
  BY <1>6, <1>7, BenchmarkLoops, Zenon
<1>11. BenchmarkRecord(caller[c], s, l, i)
  BY <1>1, <1>2, <1>10, Zenon
<1>12. l # "reset" /\ l # "metrics" /\ Change(n) /\ caller[c].pc \in BenchmarkLabels
  BY <1>1, <1>6, Zenon
<1>13. l = "run" /\ caller[c].alone => n = i
  <2>1. l = "run" /\ caller[c].alone => transfers = r.i
    BY <1>1, <1>2, Zenon DEF MonitorInv, CountInv, At
  <2> QED BY <1>6, <2>1, Zenon
<1> QED BY <1>6, <1>9, <1>11, <1>12, <1>13, BenchmarkCounts, Zenon

LEMMA BenchmarkResetAgain ==
  ASSUME MonitorInv, NEW c \in Callers, benchmark_reset_again(c)
  PROVE  MonitorInv'
<1>1. /\ caller[c].pc = "warmup" /\ Change(0)
      /\ caller' = [Disturbed(c) EXCEPT ![c] = [@ EXCEPT !.pc = "run", !.i = 0]]
  BY Zenon DEF benchmark_reset_again, At
<1>2. "run" \in BenchmarkLabels /\ caller[c].pc \in BenchmarkLabels
  BY <1>1, Zenon DEF BenchmarkLabels
<1>3. PICK r \in CallerType : r = caller[c]
  BY InvTypes, Zenon
<1>4. PICK f : f = Disturbed(c)
  BY Zenon
<1>5. f[c] = r
  BY <1>3, <1>4, DisturbedFields, InvTypes, Zenon
<1>6. PICK s : s = [r EXCEPT !.pc = "run", !.i = 0]
  BY Zenon
<1>7. caller' = [Disturbed(c) EXCEPT ![c] = s]
  BY <1>1, <1>4, <1>5, <1>6, Zenon
<1>8. 0 \in Nat
  BY SMT
<1>9. BenchmarkRecord(caller[c], s, "run", 0)
  BY <1>2, <1>3, <1>6, <1>8, BenchmarkMovesOn, Zenon
<1> QED BY <1>1, <1>2, <1>7, <1>8, <1>9, BenchmarkCounts, Zenon

LEMMA BenchmarkMetrics ==
  ASSUME MonitorInv, NEW c \in Callers, benchmark_metrics(c)
  PROVE  MonitorInv'
<1>1. /\ caller[c].pc = "run" /\ caller[c].i = NumTransfers
      /\ caller' = [caller EXCEPT ![c] = [@ EXCEPT !.pc = "metrics", !.i = transfers]]
      /\ UNCHANGED <<monitor, poller, device, life, serial, threw>>
  BY Zenon DEF benchmark_metrics, At
<1>2. "metrics" \in BenchmarkLabels /\ caller[c].pc \in BenchmarkLabels
  BY <1>1, Zenon DEF BenchmarkLabels
<1>3. PICK r \in CallerType : r = caller[c]
  BY InvTypes, Zenon
<1>4. PICK n \in Nat : n = transfers
  BY Zenon DEF MonitorInv, Types
<1>5. PICK s : s = [r EXCEPT !.pc = "metrics", !.i = n]
  BY Zenon
<1>6. caller' = [caller EXCEPT ![c] = s]
  BY <1>1, <1>3, <1>4, <1>5, Zenon
<1>7. BenchmarkRecord(r, s, "metrics", n)
  BY <1>2, <1>4, <1>5, BenchmarkMovesOn, Zenon
<1>8. caller[c].op = "benchmark" /\ caller[c].op \notin MonitorOps
  BY <1>2, InBenchmark, Zenon
<1>9. s.op \notin MonitorOps /\ PcFitsOp(s)
  BY <1>2, <1>3, <1>7, <1>8, BenchmarkFits, Zenon
<1>10. caller[c].alone => n = NumTransfers
  BY <1>1, <1>4, Zenon DEF MonitorInv, CountInv, At
<1>11. s \in CallerType /\ Counts(s, transfers)
  BY <1>3, <1>7, <1>10, Zenon DEF Counts, BenchmarkRecord
<1> QED BY <1>1, <1>6, <1>8, <1>9, <1>11, CountlessStep, Zenon

LEMMA BenchmarkBegins ==
  ASSUME MonitorInv, NEW c \in Callers, run_benchmark(c)
  PROVE  MonitorInv'
<1>1. /\ caller[c].pc = "idle"
      /\ caller' = [caller EXCEPT ![c] = [Idle EXCEPT !.pc = "reset", !.op = "benchmark",
                                                      !.alone = TRUE]]
      /\ UNCHANGED <<monitor, poller, device, life, serial, threw>>
  BY Zenon DEF run_benchmark, At
<1>2. caller[c].op \notin MonitorOps
  BY <1>1, Zenon DEF MonitorInv, PcFitsOp, MonitorOps
<1>3. PICK s : s = [Idle EXCEPT !.pc = "reset", !.op = "benchmark", !.alone = TRUE]
  BY Zenon
<1>4. Idle \in CallerType /\ Idle.i = 0
  BY IdleCaller, Zenon DEF Idle
<1>5. s \in CallerType /\ s.pc = "reset" /\ s.op = "benchmark" /\ s.i = Idle.i
  BY <1>3, <1>4, Zenon DEF CallerType, Labels, BenchmarkLabels
<1>6. s.op \notin MonitorOps /\ PcFitsOp(s)
  BY <1>5, Zenon DEF MonitorOps, PcFitsOp, StopLabels, StartLabels
<1>7. Counts(s, transfers)
  BY <1>4, <1>5, Zenon DEF Counts
<1> QED BY <1>1, <1>2, <1>3, <1>5, <1>6, <1>7, CountlessStep, Zenon

LEMMA BenchmarkReturns ==
  ASSUME MonitorInv, NEW c \in Callers, benchmark_return(c)
  PROVE  MonitorInv'
<1>1. /\ caller[c].op = "benchmark" /\ caller' = [caller EXCEPT ![c] = Idle]
      /\ UNCHANGED <<monitor, poller, device, life, serial, threw>>
  BY Zenon DEF benchmark_return
<1>2. caller[c].op \notin MonitorOps /\ Idle.op \notin MonitorOps
  BY <1>1, IdleCaller, Zenon DEF MonitorOps
<1>3. Counts(Idle, transfers) /\ PcFitsOp(Idle) /\ Idle \in CallerType
  BY IdleCaller, Zenon DEF Counts
<1> QED BY <1>1, <1>2, <1>3, CountlessStep, Zenon

-----------------------------------------------------------------------------
LEMMA MonitorInvInit == Init => MonitorInv
<1> SUFFICES ASSUME Init PROVE MonitorInv
  OBVIOUS
<1>1. /\ monitoring = FALSE /\ monitor_thread = None
      /\ poller = [p \in Pollers |-> "none"] /\ caller = [c \in Callers |-> Idle]
      /\ transfers = 0 /\ valid = TRUE /\ life = "running" /\ serial = TRUE /\ threw = FALSE
  BY Zenon DEF Init
<1>2. Types
  <2>1. transfers \in Nat
    BY <1>1, SMT
  <2>2. caller \in [Callers -> CallerType] /\ poller \in [Pollers -> {"none", "check", "poll", "ended"}]
    BY <1>1, IdleCaller, Zenon
  <2> QED BY <1>1, <2>1, <2>2, Zenon DEF Types
<1>3. \A c \in Callers : caller[c] = Idle
  BY <1>1, Zenon
<1>4. (\A c \in Callers : PcFitsOp(caller[c])) /\ (\A c \in Callers : CountInv(c))
  BY <1>3, IdleCaller, Zenon DEF CountInv, At
<1>5. \A c \in Callers : ~InMonitor(c)
  BY <1>3, IdleCaller, Zenon DEF InMonitor
<1>6. Quiet
  BY <1>1, Zenon DEF Quiet
<1>7. MonitorState /\ DiesOnlyOfPolls
  BY <1>1, <1>5, <1>6, Zenon DEF MonitorState, DiesOnlyOfPolls
<1> QED BY <1>2, <1>4, <1>7, Zenon DEF MonitorInv

LEMMA MonitorInvStep == MonitorInv /\ [Next]_vars => MonitorInv'
<1> SUFFICES ASSUME MonitorInv, [Next]_vars PROVE MonitorInv'
  OBVIOUS
<1>1. ASSUME life # "terminated", NEW c \in Callers, Running(c)
      PROVE  MonitorInv'
  BY <1>1, StopTest, StopClear, StopJoinable, StopJoin, StopJoinTwice, StartSet, StartSpawn,
     StartAssign, StartFails, Zenon DEF Running
<1>2. ASSUME NEW c \in Callers, Benchmark(c)
      PROVE  MonitorInv'
  <2>1. CASE benchmark_warmup(c) \/ benchmark_transfer(c)
    <3>1. /\ caller[c].pc \in {"warmup", "run"} /\ Change(transfers + 1)
          /\ caller' = [Disturbed(c) EXCEPT ![c].i = @ + 1]
      BY <2>1, Zenon DEF benchmark_warmup, benchmark_transfer, At
    <3> QED BY <3>1, BenchmarkTransfers, Zenon
  <2> QED BY <1>2, <2>1, BenchmarkBegins, BenchmarkReset, BenchmarkResetAgain, BenchmarkMetrics,
             BenchmarkReturns, Zenon DEF Benchmark
<1>3. ASSUME NEW c \in Callers, NEW op \in {"start", "stop", "destroy"}, Call(c, op)
      PROVE  MonitorInv'
  <2>1. op \in MonitorOps
    BY Zenon DEF MonitorOps
  <2> QED BY <1>3, <2>1, CallBegins, Zenon
<1>4. CASE UNCHANGED vars
  <2>1. UNCHANGED <<monitoring, monitor_thread, caller, transfers, life, serial, threw>>
        /\ poller' = poller /\ valid' = valid
    BY <1>4, Zenon DEF vars
  <2>2. valid' \in BOOLEAN /\ poller' \in [Pollers -> {"none", "check", "poll", "ended"}]
    BY <2>1, Zenon DEF MonitorInv, Types
  <2> QED BY <2>1, <2>2, CallersStay, Zenon
<1> QED BY <1>1, <1>2, <1>3, <1>4, Transfers, Polls, Moves, Zenon DEF Next

-----------------------------------------------------------------------------
LEMMA AtMostOne ==
  ASSUME NEW S, \A p, q \in S : p = q
  PROVE  Cardinality(S) <= 1
<1>1. CASE S = {}
  BY <1>1, FS_EmptySet, SMT
<1>2. CASE S # {}
  <2>1. PICK p \in S : S = {p}
    BY <1>2, Zenon
  <2>2. Cardinality({p}) = 1
    BY FS_Singleton, Zenon
  <2>3. Cardinality(S) = 1
    BY <2>1, <2>2, Zenon
  <2> QED BY <2>3, SMT
<1> QED BY <1>1, <1>2, Zenon

LEMMA InvOnePoller ==
  ASSUME MonitorInv
  PROVE  OnePoller
<1> SUFFICES ASSUME serial, life # "terminated"
             PROVE  /\ Cardinality({p \in Pollers : Alive(p)}) <= 1
                    /\ (\A c \in Callers : ~InMonitor(c)) =>
                         \A p \in Pollers : Alive(p) => monitoring /\ monitor_thread = p
                    /\ life = "destroyed" => \A p \in Pollers : ~Alive(p)
  BY Zenon DEF OnePoller
<1>1. MonitorState
  BY Zenon DEF MonitorInv
<1>2. \A p \in Pollers : Alive(p) => poller[p] # "none" /\ p # None
  BY NoneAssumption, Zenon DEF Alive
<1>3. CASE \A c \in Callers : ~InMonitor(c)
  <2>1. Quiet
    BY <1>1, <1>3, Zenon DEF MonitorState
  <2>2. \A p \in Pollers : Alive(p) => monitoring /\ monitor_thread = p
    BY <1>2, <2>1, Zenon DEF Quiet
  <2>3. \A p, q \in {p \in Pollers : Alive(p)} : p = q
    BY <2>2, Zenon
  <2>4. Cardinality({p \in Pollers : Alive(p)}) <= 1
    BY <2>3, AtMostOne, Zenon
  <2>5. life = "destroyed" => \A p \in Pollers : ~Alive(p)
    BY <1>2, <2>1, Zenon DEF Quiet
  <2> QED BY <2>2, <2>4, <2>5, Zenon
<1>4. CASE ~\A c \in Callers : ~InMonitor(c)
  <2>1. PICK c \in Callers : InMonitor(c)
    BY <1>4, Zenon
  <2>2. During(c)
    BY <1>1, <2>1, Zenon DEF MonitorState
  <2>3. life # "destroyed"
    BY <2>2, Zenon DEF During
  <2>4. \A p, q \in {p \in Pollers : Alive(p)} : p = q
    <3>1. CASE At(c, "assign")
      <4>1. monitor_thread = None
        BY <2>2, <3>1, Zenon DEF During, At, StartLabels
      <4> QED BY <1>2, <2>2, <4>1, Zenon DEF During
    <3>2. CASE ~At(c, "assign")
      BY <1>2, <2>2, <3>2, Zenon DEF During
    <3> QED BY <3>1, <3>2, Zenon
  <2>5. Cardinality({p \in Pollers : Alive(p)}) <= 1
    BY <2>4, AtMostOne, Zenon
  <2> QED BY <1>4, <2>3, <2>5, Zenon
<1> QED BY <1>3, <1>4, Zenon

LEMMA InvBenchmarkIsExact ==
  ASSUME MonitorInv
  PROVE  BenchmarkIsExact
BY Zenon DEF MonitorInv, CountInv, BenchmarkIsExact

\* However many threads of the program use the monitor, one after the other,
\* while others transfer, run benchmarks or move the device, and however often
\* std::thread cannot be started: at most one thread polls, between calls the
\* monitor owns it, and after stop_monitoring or the destructor nothing polls
\* (monitor.hpp:81-114).
THEOREM OneThreadPolls == Spec => []OnePoller
<1>1. MonitorInv => OnePoller
  BY InvOnePoller
<1> QED BY <1>1, MonitorInvInit, MonitorInvStep, PTL DEF Spec

\* start_monitoring on a running monitor, a failure to start the thread and a
\* destruction in any state never end the process (monitor.hpp:83, 86, 112):
\* std::terminate is called only for a poll that throws or calls that overlap.
THEOREM OnlyPollsTerminate == Spec => []DiesOnlyOfPolls
<1>1. MonitorInv => DiesOnlyOfPolls
  BY Zenon DEF MonitorInv
<1> QED BY <1>1, MonitorInvInit, MonitorInvStep, PTL DEF Spec

\* For any lengths of the warm-up and of the measurement, a benchmark that no
\* other thread disturbed reports exactly the transfers it measured
\* (monitor.hpp:138-163).
THEOREM BenchmarksAreExact == Spec => []BenchmarkIsExact
<1>1. MonitorInv => BenchmarkIsExact
  BY InvBenchmarkIsExact
<1> QED BY <1>1, MonitorInvInit, MonitorInvStep, PTL DEF Spec
=============================================================================
