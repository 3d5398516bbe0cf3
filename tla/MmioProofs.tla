----------------------------- MODULE MmioProofs -----------------------------
(***************************************************************************)
(* Theorems about Mmio, for any number of users and any values they write. *)
(* The inductive invariant MmioInv says, for each section of the code that *)
(* changes a register in several steps, what the context that is inside    *)
(* knows of it as long as no two calls overlapped (IrqInv, StatusInv and   *)
(* InjectInv), and what a context knows that nobody disturbed (QuietInv).  *)
(***************************************************************************)
EXTENDS Mmio, TLAPS

IrqLabels == {"clear_write", "clear_pending", "irq_write", "set_pending"}
UserLabels == {"idle", "return", "read_atomics", "clear_write", "clear_pending", "inject_write"}
EngineLabels == {"idle", "status_write", "irq_read", "irq_write", "set_pending"}

Types ==
  /\ bar0_virt \in {"new", "mapped", "freed"}
  /\ reg \in [status : SUBSET StatusBits, control : SUBSET {"ENABLE", "START", "IRQ_ENABLE"},
              irq : SUBSET Interrupts, pending_interrupts : {0, 1}, inject : Nat,
              simulate_errors : BOOLEAN, fault_injection_rate : Nat]
  /\ history \in [raised : SUBSET Interrupts, status : SUBSET StatusBits,
                  exact : SUBSET Sections, quiet : SUBSET Contexts]
  /\ pc \in [Contexts -> UserLabels \cup EngineLabels]
  /\ pc[Engine] \in EngineLabels /\ \A u \in Users : pc[u] \in UserLabels
  /\ arg = [c \in Contexts |-> arg[c]] /\ seen = [c \in Contexts |-> seen[c]]

\* What a context in the middle of a call holds.
LocalsOK(c) ==
  /\ pc[c] \in {"clear_write", "clear_pending"} => arg[c] \subseteq Interrupts
  /\ pc[c] \in {"status_write", "irq_read", "irq_write", "set_pending"} =>
       arg[c] \subseteq Interrupts /\ arg[c] # {}
  /\ pc[c] = "inject_write" => arg[c] \in Nat
  /\ pc[c] \in {"clear_write", "irq_write"} => seen[c] \subseteq Interrupts
  /\ pc[c] \in {"status_write", "read_atomics"} => seen[c] \subseteq StatusBits

\* The interrupt status and the pending flag agree with the history.
Settled ==
  /\ reg.irq = history.raised
  /\ reg.pending_interrupts = IF history.raised = {} THEN 0 ELSE 1

IrqInv ==
  "irq" \in history.exact =>
    /\ \A c, d \in Contexts : pc[c] \in IrqLabels /\ pc[d] \in IrqLabels => c = d
    /\ (\A c \in Contexts : pc[c] \notin IrqLabels) => Settled
    /\ \A c \in Contexts :
         /\ pc[c] \in {"clear_write", "irq_write"} => Settled /\ seen[c] = reg.irq
         /\ pc[c] = "clear_pending" => reg.irq = {} /\ history.raised = {}
         /\ pc[c] = "set_pending" => reg.irq = history.raised /\ history.raised # {}

StatusInv ==
  "status" \in history.exact =>
    /\ reg.status = history.status
    /\ pc[Engine] = "status_write" => seen[Engine] = reg.status

\* The injection is what a write of value asks for.
Injects(value) ==
  /\ reg.simulate_errors = (value % 256 # 0)
  /\ reg.simulate_errors => reg.fault_injection_rate = value % 256

InjectInv ==
  "inject" \in history.exact =>
    /\ \A c, d \in Contexts : pc[c] = "inject_write" /\ pc[d] = "inject_write" => c = d
    /\ (\A c \in Contexts : pc[c] # "inject_write") => Injects(reg.inject)
    /\ \A c \in Contexts : pc[c] = "inject_write" => Injects(arg[c])

\* Whether the registers may be compared with the history in a read.
Comparable == bar0_virt = "mapped" /\ {"irq", "status"} \subseteq history.exact

QuietInv(u) ==
  /\ \A c \in Contexts \ {u} : pc[c] = "idle"
  /\ pc[u] = "clear_pending" => (arg[u] = Interrupts => reg.irq = {} /\ history.raised = {})
  /\ pc[u] = "inject_write" => Injects(arg[u])
  /\ pc[u] = "read_atomics" /\ Comparable =>
       "PENDING" \notin seen[u] /\ ("ERROR" \in seen[u] <=> "ERROR" \in history.status)
  /\ pc[u] = "return" /\ Comparable =>
       /\ "PENDING" \in seen[u] <=> history.raised # {}
       /\ "ERROR" \in seen[u] <=> "ERROR" \in history.status

MmioInv ==
  /\ Types
  /\ \A c \in Contexts : LocalsOK(c)
  /\ IrqInv /\ StatusInv /\ InjectInv
  /\ \A u \in history.quiet : QuietInv(u)

-----------------------------------------------------------------------------
RegType == [status : SUBSET StatusBits, control : SUBSET {"ENABLE", "START", "IRQ_ENABLE"},
            irq : SUBSET Interrupts, pending_interrupts : {0, 1}, inject : Nat,
            simulate_errors : BOOLEAN, fault_injection_rate : Nat]

HistoryType == [raised : SUBSET Interrupts, status : SUBSET StatusBits,
                exact : SUBSET Sections, quiet : SUBSET Contexts]

\* A context is inside a section at certain labels.
LEMMA InsideIrq == Inside("irq") = {} <=> \A c \in Contexts : pc[c] \notin IrqLabels
BY DEF Inside, IrqLabels

LEMMA InsideStatus ==
  ASSUME Types
  PROVE  Inside("status") = {} <=> pc[Engine] # "status_write"
BY DEF Inside, Types, Contexts, UserLabels

LEMMA InsideInject == Inside("inject") = {} <=> \A c \in Contexts : pc[c] # "inject_write"
BY DEF Inside

\* What the operators on the history change.
LEMMA DisturbedFields ==
  ASSUME history \in HistoryType, NEW c \in Contexts
  PROVE  /\ Disturbed(c) \in HistoryType
         /\ Disturbed(c).raised = history.raised /\ Disturbed(c).status = history.status
         /\ Disturbed(c).exact = history.exact
         /\ Disturbed(c).quiet = history.quiet \cap {c}
BY DEF Disturbed, HistoryType

LEMMA BegunFields ==
  ASSUME history \in HistoryType, NEW c \in Contexts
  PROVE  /\ Begun(c) \in HistoryType
         /\ Begun(c).raised = history.raised /\ Begun(c).status = history.status
         /\ Begun(c).exact = history.exact
         /\ Begun(c).quiet = IF Idle(Contexts \ {c}) THEN {c} ELSE {}
BY DEF Begun, HistoryType

LEMMA EnterFields ==
  ASSUME NEW h \in HistoryType, NEW s \in Sections
  PROVE  /\ Enter(h, s) \in HistoryType
         /\ Enter(h, s).raised = h.raised /\ Enter(h, s).status = h.status
         /\ Enter(h, s).quiet = h.quiet
         /\ Enter(h, s).exact = IF Inside(s) = {} THEN h.exact ELSE h.exact \ {s}
BY DEF Enter, HistoryType

\* The two together, as the calls use them.
LEMMA BegunEnterFields ==
  ASSUME history \in HistoryType, NEW c \in Contexts, NEW s \in Sections
  PROVE  /\ Enter(Begun(c), s) \in HistoryType
         /\ Enter(Begun(c), s).raised = history.raised
         /\ Enter(Begun(c), s).status = history.status
         /\ Enter(Begun(c), s).quiet = IF Idle(Contexts \ {c}) THEN {c} ELSE {}
         /\ Enter(Begun(c), s).exact = IF Inside(s) = {} THEN history.exact
                                                         ELSE history.exact \ {s}
<1>1. PICK h \in HistoryType :
         /\ h = Begun(c) /\ h.raised = history.raised /\ h.status = history.status
         /\ h.exact = history.exact /\ h.quiet = IF Idle(Contexts \ {c}) THEN {c} ELSE {}
  BY BegunFields, Zenon
<1>2. /\ Enter(h, s) \in HistoryType
      /\ Enter(h, s).raised = h.raised /\ Enter(h, s).status = h.status
      /\ Enter(h, s).quiet = h.quiet
      /\ Enter(h, s).exact = IF Inside(s) = {} THEN h.exact ELSE h.exact \ {s}
  BY EnterFields, Zenon
<1> QED BY <1>1, <1>2, Zenon

LEMMA DisturbedEnterFields ==
  ASSUME history \in HistoryType, NEW c \in Contexts, NEW s \in Sections
  PROVE  /\ Enter(Disturbed(c), s) \in HistoryType
         /\ Enter(Disturbed(c), s).raised = history.raised
         /\ Enter(Disturbed(c), s).status = history.status
         /\ Enter(Disturbed(c), s).quiet = history.quiet \cap {c}
         /\ Enter(Disturbed(c), s).exact = IF Inside(s) = {} THEN history.exact
                                                             ELSE history.exact \ {s}
<1>1. PICK h \in HistoryType :
         /\ h = Disturbed(c) /\ h.raised = history.raised /\ h.status = history.status
         /\ h.exact = history.exact /\ h.quiet = history.quiet \cap {c}
  BY DisturbedFields, Zenon
<1>2. /\ Enter(h, s) \in HistoryType
      /\ Enter(h, s).raised = h.raised /\ Enter(h, s).status = h.status
      /\ Enter(h, s).quiet = h.quiet
      /\ Enter(h, s).exact = IF Inside(s) = {} THEN h.exact ELSE h.exact \ {s}
  BY EnterFields, Zenon
<1> QED BY <1>1, <1>2, Zenon

LEMMA DisturbedRestoreFields ==
  ASSUME history \in HistoryType, NEW c \in Contexts, NEW s \in Sections
  PROVE  /\ Restore(Disturbed(c), c, s) \in HistoryType
         /\ Restore(Disturbed(c), c, s).raised = history.raised
         /\ Restore(Disturbed(c), c, s).status = history.status
         /\ Restore(Disturbed(c), c, s).quiet = history.quiet \cap {c}
         /\ Restore(Disturbed(c), c, s).exact = IF c \in history.quiet THEN history.exact \cup {s}
                                                                     ELSE history.exact
<1>1. PICK h \in HistoryType :
         /\ h = Disturbed(c) /\ h.raised = history.raised /\ h.status = history.status
         /\ h.exact = history.exact /\ h.quiet = history.quiet \cap {c}
  BY DisturbedFields, Zenon
<1>2. /\ Restore(h, c, s) \in HistoryType
      /\ Restore(h, c, s).raised = h.raised /\ Restore(h, c, s).status = h.status
      /\ Restore(h, c, s).quiet = h.quiet
      /\ Restore(h, c, s).exact = IF c \in history.quiet THEN h.exact \cup {s} ELSE h.exact
  BY DEF Restore, HistoryType
<1> QED BY <1>1, <1>2, Zenon

-----------------------------------------------------------------------------
\* A step of context c to label l, with argument a and value v, which ends the
\* quiet of all others; it stays quiet only if they are idle.
Moves(c, l, a, v) ==
  /\ pc' = [pc EXCEPT ![c] = l]
  /\ arg' = [arg EXCEPT ![c] = a] \/ (UNCHANGED arg /\ a = arg[c])
  /\ seen' = [seen EXCEPT ![c] = v]
  /\ UNCHANGED bar0_virt
  /\ reg' \in RegType /\ history' \in HistoryType
  /\ history'.quiet = history.quiet \cap {c}
       \/ history'.quiet = IF Idle(Contexts \ {c}) THEN {c} ELSE {}

LEMMA MovesTypes ==
  ASSUME Types, NEW c \in Contexts, NEW l, NEW a, NEW v, Moves(c, l, a, v),
         IF c = Engine THEN l \in EngineLabels ELSE l \in UserLabels
  PROVE  Types'
<1>1. l \in UserLabels \cup EngineLabels
  BY Zenon
<1>2. pc' \in [Contexts -> UserLabels \cup EngineLabels]
  BY <1>1 DEF Moves, Types
<1>3. pc'[Engine] \in EngineLabels /\ \A u \in Users : pc'[u] \in UserLabels
  BY ContextsAssumption DEF Moves, Types, Contexts
<1>4. arg' = [d \in Contexts |-> arg'[d]] /\ seen' = [d \in Contexts |-> seen'[d]]
  BY Zenon DEF Moves, Types
<1>5. bar0_virt' \in {"new", "mapped", "freed"}
  BY Zenon DEF Moves, Types
<1> QED BY <1>2, <1>3, <1>4, <1>5, Zenon DEF Moves, Types, RegType, HistoryType

LEMMA MovesLocals ==
  ASSUME Types, NEW c \in Contexts, NEW l, NEW a, NEW v, Moves(c, l, a, v)
  PROVE  /\ pc'[c] = l /\ arg'[c] = a /\ seen'[c] = v
         /\ \A d \in Contexts \ {c} : pc'[d] = pc[d] /\ arg'[d] = arg[d] /\ seen'[d] = seen[d]
<1>1. DOMAIN pc = Contexts /\ DOMAIN arg = Contexts /\ DOMAIN seen = Contexts
  BY DEF Types
<1>2. pc'[c] = l /\ \A d \in Contexts \ {c} : pc'[d] = pc[d]
  BY <1>1, Zenon DEF Moves
<1>3. seen'[c] = v /\ \A d \in Contexts \ {c} : seen'[d] = seen[d]
  BY <1>1, Zenon DEF Moves
<1>4. arg'[c] = a /\ \A d \in Contexts \ {c} : arg'[d] = arg[d]
  BY <1>1, Zenon DEF Moves
<1> QED BY <1>2, <1>3, <1>4, Zenon

\* The parts of the invariant that speak of one context follow from what holds
\* of the context that moved.
LEMMA MovesLocalsOK ==
  ASSUME MmioInv, NEW c \in Contexts, NEW l, NEW a, NEW v, Moves(c, l, a, v), LocalsOK(c)'
  PROVE  \A d \in Contexts : LocalsOK(d)'
<1> SUFFICES ASSUME NEW d \in Contexts, d # c PROVE LocalsOK(d)'
  BY Zenon
<1>1. d \in Contexts \ {c} /\ LocalsOK(d) /\ Types
  BY Zenon DEF MmioInv
<1>2. pc'[d] = pc[d] /\ arg'[d] = arg[d] /\ seen'[d] = seen[d]
  BY <1>1, MovesLocals, Zenon
<1> QED BY <1>1, <1>2, Zenon DEF LocalsOK

\* What QuietInv says of u apart from the others being idle.
QuietState(u) ==
  /\ pc[u] = "clear_pending" => (arg[u] = Interrupts => reg.irq = {} /\ history.raised = {})
  /\ pc[u] = "inject_write" => Injects(arg[u])
  /\ pc[u] = "read_atomics" /\ Comparable =>
       "PENDING" \notin seen[u] /\ ("ERROR" \in seen[u] <=> "ERROR" \in history.status)
  /\ pc[u] = "return" /\ Comparable =>
       /\ "PENDING" \in seen[u] <=> history.raised # {}
       /\ "ERROR" \in seen[u] <=> "ERROR" \in history.status

LEMMA MovesAlone ==
  ASSUME MmioInv, NEW c \in Contexts, NEW l, NEW a, NEW v, Moves(c, l, a, v), c \in history'.quiet
  PROVE  Idle(Contexts \ {c})
<1>1. CASE history'.quiet = history.quiet \cap {c}
  BY <1>1, Zenon DEF MmioInv, QuietInv, Idle
<1>2. CASE history'.quiet = IF Idle(Contexts \ {c}) THEN {c} ELSE {}
  BY <1>2, Zenon
<1> QED BY <1>1, <1>2, Zenon DEF Moves

LEMMA MovesQuiet ==
  ASSUME MmioInv, NEW c \in Contexts, NEW l, NEW a, NEW v, Moves(c, l, a, v),
         c \in history'.quiet => QuietState(c)'
  PROVE  \A u \in history'.quiet : QuietInv(u)'
<1> SUFFICES ASSUME NEW u \in history'.quiet PROVE QuietInv(u)'
  OBVIOUS
<1>1. u = c
  <2>1. CASE history'.quiet = history.quiet \cap {c}
    BY <2>1, Zenon
  <2>2. CASE history'.quiet = IF Idle(Contexts \ {c}) THEN {c} ELSE {}
    BY <2>2
  <2> QED BY <2>1, <2>2, Zenon DEF Moves
<1>2. Types
  BY Zenon DEF MmioInv
<1>3. Idle(Contexts \ {c})
  BY <1>1, MovesAlone, Zenon
<1>4. \A d \in Contexts \ {c} : pc'[d] = "idle"
  BY <1>2, <1>3, MovesLocals, Zenon DEF Idle
<1>5. QuietState(c)'
  BY <1>1, Zenon
<1> QED BY <1>1, <1>4, <1>5, Zenon DEF QuietInv, QuietState

\* A step that ends at one of these labels leaves nothing to show for it.
LEMMA QuietElsewhere ==
  ASSUME NEW c, pc'[c] \notin {"clear_pending", "inject_write", "read_atomics", "return"}
  PROVE  QuietState(c)'
BY Zenon DEF QuietState

-----------------------------------------------------------------------------
\* The interrupt section: a context outside it that changes none of its state,
IrqState == <<reg.irq, reg.pending_interrupts, history.raised>>

LEMMA IrqFrame ==
  ASSUME MmioInv, NEW c \in Contexts, NEW l, NEW a, NEW v, Moves(c, l, a, v),
         pc[c] \notin IrqLabels, l \notin IrqLabels, UNCHANGED IrqState,
         "irq" \in history'.exact => "irq" \in history.exact
  PROVE  IrqInv'
<1> SUFFICES ASSUME "irq" \in history'.exact PROVE IrqInv'
  BY Zenon DEF IrqInv
<1>1. Types /\ IrqInv /\ "irq" \in history.exact
  BY Zenon DEF MmioInv
<1>2. \A d \in Contexts : pc'[d] \in IrqLabels \/ pc[d] \in IrqLabels =>
                            pc'[d] = pc[d] /\ seen'[d] = seen[d]
  <2> SUFFICES ASSUME NEW d \in Contexts, pc'[d] \in IrqLabels \/ pc[d] \in IrqLabels
               PROVE  pc'[d] = pc[d] /\ seen'[d] = seen[d]
    BY Zenon
  <2>1. d # c
    <3>1. pc'[c] = l
      BY <1>1, MovesLocals, Zenon
    <3> QED BY <3>1, Zenon
  <2>2. d \in Contexts \ {c}
    BY <2>1, Zenon
  <2> QED BY <1>1, <2>2, MovesLocals, Zenon
<1>3. Settled' <=> Settled
  BY Zenon DEF Settled, IrqState
<1>4. ASSUME NEW d \in Contexts, NEW e \in Contexts, pc'[d] \in IrqLabels, pc'[e] \in IrqLabels
      PROVE  d = e
  BY <1>1, <1>2, <1>4, Zenon DEF IrqInv
<1>5. ASSUME \A d \in Contexts : pc'[d] \notin IrqLabels PROVE Settled'
  <2>1. \A d \in Contexts : pc[d] \notin IrqLabels
    BY <1>2, <1>5, Zenon
  <2> QED BY <1>1, <1>3, <2>1, Zenon DEF IrqInv
<1>6. ASSUME NEW d \in Contexts, pc'[d] \in IrqLabels
      PROVE  /\ pc'[d] \in {"clear_write", "irq_write"} => Settled' /\ seen'[d] = reg'.irq
             /\ pc'[d] = "clear_pending" => reg'.irq = {} /\ history'.raised = {}
             /\ pc'[d] = "set_pending" => reg'.irq = history'.raised /\ history'.raised # {}
  BY <1>1, <1>2, <1>3, <1>6, Zenon DEF IrqInv, IrqState
<1>7. ASSUME NEW d \in Contexts
      PROVE  /\ pc'[d] \in {"clear_write", "irq_write"} => Settled' /\ seen'[d] = reg'.irq
             /\ pc'[d] = "clear_pending" => reg'.irq = {} /\ history'.raised = {}
             /\ pc'[d] = "set_pending" => reg'.irq = history'.raised /\ history'.raised # {}
  BY <1>6, Zenon DEF IrqLabels
<1> QED BY <1>4, <1>5, <1>7, Zenon DEF IrqInv

\* and one that is alone in it.
IrqAt(c) ==
  /\ pc[c] \notin IrqLabels => Settled
  /\ pc[c] \in {"clear_write", "irq_write"} => Settled /\ seen[c] = reg.irq
  /\ pc[c] = "clear_pending" => reg.irq = {} /\ history.raised = {}
  /\ pc[c] = "set_pending" => reg.irq = history.raised /\ history.raised # {}

LEMMA IrqAlone ==
  ASSUME MmioInv, NEW c \in Contexts, NEW l, NEW a, NEW v, Moves(c, l, a, v),
         \A d \in Contexts \ {c} : pc[d] \notin IrqLabels, IrqAt(c)'
  PROVE  IrqInv'
<1>1. Types
  BY Zenon DEF MmioInv
<1>2. \A d \in Contexts : pc'[d] \in IrqLabels => d = c
  <2> SUFFICES ASSUME NEW d \in Contexts, d # c PROVE pc'[d] \notin IrqLabels
    BY Zenon
  <2>1. d \in Contexts \ {c}
    BY Zenon
  <2> QED BY <1>1, <2>1, MovesLocals, Zenon
<1>3. ASSUME NEW d \in Contexts
      PROVE  /\ pc'[d] \in {"clear_write", "irq_write"} => Settled' /\ seen'[d] = reg'.irq
             /\ pc'[d] = "clear_pending" => reg'.irq = {} /\ history'.raised = {}
             /\ pc'[d] = "set_pending" => reg'.irq = history'.raised /\ history'.raised # {}
  <2>1. CASE pc'[d] \in IrqLabels
    <3>1. d = c
      BY <1>2, <2>1, Zenon
    <3> QED BY <3>1, Zenon DEF IrqAt
  <2>2. CASE pc'[d] \notin IrqLabels
    BY <2>2, Zenon DEF IrqLabels
  <2> QED BY <2>1, <2>2, Zenon
<1>4. (\A d \in Contexts : pc'[d] \notin IrqLabels) => Settled'
  BY Zenon DEF IrqAt
<1>5. \A d, e \in Contexts : pc'[d] \in IrqLabels /\ pc'[e] \in IrqLabels => d = e
  BY <1>2, Zenon
<1> QED BY <1>3, <1>4, <1>5, Zenon DEF IrqInv

\* As long as calls do not overlap, a context in the section is alone in it.
LEMMA IrqInside ==
  ASSUME MmioInv, NEW c \in Contexts, pc[c] \in IrqLabels, "irq" \in history.exact
  PROVE  IrqAt(c) /\ \A d \in Contexts \ {c} : pc[d] \notin IrqLabels
BY Zenon DEF MmioInv, IrqInv, IrqAt

LEMMA IrqOutside ==
  ASSUME MmioInv, Inside("irq") = {}, "irq" \in history.exact
  PROVE  Settled /\ \A d \in Contexts : pc[d] \notin IrqLabels
BY InsideIrq, Zenon DEF MmioInv, IrqInv

-----------------------------------------------------------------------------
\* The status section.
LEMMA StatusFrame ==
  ASSUME MmioInv, NEW c \in Contexts, NEW l, NEW a, NEW v, Moves(c, l, a, v),
         l # "status_write", reg'.status = reg.status, history'.status = history.status,
         "status" \in history'.exact => "status" \in history.exact
  PROVE  StatusInv'
<1>1. Types /\ StatusInv
  BY Zenon DEF MmioInv
<1>2. pc'[Engine] = "status_write" => pc[Engine] = "status_write" /\ seen'[Engine] = seen[Engine]
  <2>1. CASE c = Engine
    BY <1>1, <2>1, MovesLocals, Zenon
  <2>2. CASE c # Engine
    <3>1. Engine \in Contexts \ {c}
      BY <2>2, Zenon DEF Contexts
    <3> QED BY <1>1, <3>1, MovesLocals, Zenon
  <2> QED BY <2>1, <2>2, Zenon
<1> QED BY <1>1, <1>2, Zenon DEF StatusInv

-----------------------------------------------------------------------------
\* The injection section, likewise.
InjectState == <<reg.inject, reg.simulate_errors, reg.fault_injection_rate>>

LEMMA InjectFrame ==
  ASSUME MmioInv, NEW c \in Contexts, NEW l, NEW a, NEW v, Moves(c, l, a, v),
         pc[c] # "inject_write", l # "inject_write", UNCHANGED InjectState,
         "inject" \in history'.exact => "inject" \in history.exact
  PROVE  InjectInv'
<1> SUFFICES ASSUME "inject" \in history'.exact PROVE InjectInv'
  BY Zenon DEF InjectInv
<1>1. Types /\ InjectInv /\ "inject" \in history.exact
  BY Zenon DEF MmioInv
<1>2. \A d \in Contexts : pc'[d] = "inject_write" \/ pc[d] = "inject_write" =>
                            pc'[d] = pc[d] /\ arg'[d] = arg[d]
  <2> SUFFICES ASSUME NEW d \in Contexts, pc'[d] = "inject_write" \/ pc[d] = "inject_write"
               PROVE  pc'[d] = pc[d] /\ arg'[d] = arg[d]
    BY Zenon
  <2>1. d # c
    <3>1. pc'[c] = l
      BY <1>1, MovesLocals, Zenon
    <3> QED BY <3>1, Zenon
  <2>2. d \in Contexts \ {c}
    BY <2>1, Zenon
  <2> QED BY <1>1, <2>2, MovesLocals, Zenon
<1>3. \A d, e \in Contexts : pc'[d] = "inject_write" /\ pc'[e] = "inject_write" => d = e
  BY <1>1, <1>2, Zenon DEF InjectInv
<1>4. ASSUME \A d \in Contexts : pc'[d] # "inject_write" PROVE Injects(reg.inject)'
  <2>1. \A d \in Contexts : pc[d] # "inject_write"
    BY <1>2, <1>4, Zenon
  <2>2. Injects(reg.inject)
    BY <1>1, <2>1, Zenon DEF InjectInv
  <2> QED BY <2>2, Zenon DEF Injects, InjectState
<1>5. ASSUME NEW d \in Contexts, pc'[d] = "inject_write" PROVE Injects(arg[d])'
  <2>1. Injects(arg[d]) /\ arg'[d] = arg[d]
    BY <1>1, <1>2, <1>5, Zenon DEF InjectInv
  <2>2. UNCHANGED <<reg.simulate_errors, reg.fault_injection_rate>>
    BY Zenon DEF InjectState
  <2> QED BY <2>1, <2>2, Zenon DEF Injects
<1> QED BY <1>3, <1>4, <1>5, Zenon DEF InjectInv

LEMMA InjectAlone ==
  ASSUME MmioInv, NEW c \in Contexts, NEW l, NEW a, NEW v, Moves(c, l, a, v),
         \A d \in Contexts \ {c} : pc[d] # "inject_write",
         IF l = "inject_write" THEN Injects(arg[c])' ELSE Injects(reg.inject)'
  PROVE  InjectInv'
<1>1. Types
  BY Zenon DEF MmioInv
<1>2. \A d \in Contexts : pc'[d] = "inject_write" => d = c
  <2> SUFFICES ASSUME NEW d \in Contexts, d # c PROVE pc'[d] # "inject_write"
    BY Zenon
  <2>1. d \in Contexts \ {c}
    BY Zenon
  <2> QED BY <1>1, <2>1, MovesLocals, Zenon
<1>3. pc'[c] = l
  BY <1>1, MovesLocals, Zenon
<1> QED BY <1>2, <1>3, Zenon DEF InjectInv

-----------------------------------------------------------------------------
LEMMA Assembled ==
  ASSUME MmioInv, NEW c \in Contexts, NEW l, NEW a, NEW v, Moves(c, l, a, v),
         IF c = Engine THEN l \in EngineLabels ELSE l \in UserLabels,
         LocalsOK(c)', IrqInv', StatusInv', InjectInv', c \in history'.quiet => QuietState(c)'
  PROVE  MmioInv'
<1>1. Types'
  BY MovesTypes, Zenon DEF MmioInv
<1>2. \A d \in Contexts : LocalsOK(d)'
  BY MovesLocalsOK, Zenon
<1>3. \A d \in history'.quiet : QuietInv(d)'
  BY MovesQuiet, Zenon
<1> QED BY <1>1, <1>2, <1>3, Zenon DEF MmioInv

\* A step of a user outside all sections.
LEMMA PlainStep ==
  ASSUME MmioInv, NEW u \in Users, NEW l, NEW a, NEW v, Moves(u, l, a, v),
         pc[u] \in {"idle", "read_atomics", "return"}, l \in {"idle", "read_atomics", "return"},
         UNCHANGED <<IrqState, InjectState, reg.status, history.status, history.exact>>,
         LocalsOK(u)', u \in history'.quiet => QuietState(u)'
  PROVE  MmioInv'
<1>1. u \in Contexts /\ u # Engine /\ l \in UserLabels
  BY ContextsAssumption DEF Contexts, UserLabels
<1>2. /\ pc[u] \notin IrqLabels /\ l \notin IrqLabels /\ l # "status_write"
      /\ pc[u] # "inject_write" /\ l # "inject_write"
  BY DEF IrqLabels
<1>3. IrqInv'
  BY <1>1, <1>2, IrqFrame, Zenon
<1>4. StatusInv'
  BY <1>1, <1>2, StatusFrame, Zenon
<1>5. InjectInv'
  BY <1>1, <1>2, InjectFrame, Zenon
<1> QED BY <1>1, <1>3, <1>4, <1>5, Assembled, Zenon

LEMMA InvTypes ==
  ASSUME MmioInv
  PROVE  Types /\ history \in HistoryType /\ reg \in RegType
BY Zenon DEF MmioInv, Types, HistoryType, RegType

\* Reading the status register.
LEMMA ReadSteps ==
  ASSUME MmioInv, NEW u \in Users,
         read_absent(u) \/ read_status(u) \/ read_atomics(u) \/ read_return(u)
  PROVE  MmioInv'
<1>0. Types /\ history \in HistoryType /\ reg \in RegType /\ u \in Contexts
  BY InvTypes, Zenon DEF Contexts
<1>1. CASE read_absent(u)
  <2>1. /\ pc[u] = "idle" /\ bar0_virt # "mapped" /\ UNCHANGED <<bar0_virt, reg, arg>>
        /\ pc' = [pc EXCEPT ![u] = "return"] /\ seen' = [seen EXCEPT ![u] = StatusBits]
        /\ history' = Begun(u)
    BY <1>1, Zenon DEF read_absent, Step
  <2>2. Moves(u, "return", arg[u], StatusBits)
    BY <1>0, <2>1, BegunFields, Zenon DEF Moves
  <2>3. UNCHANGED <<IrqState, InjectState, reg.status, history.status, history.exact>>
    BY <1>0, <2>1, BegunFields, Zenon DEF IrqState, InjectState
  <2>4. pc'[u] = "return"
    BY <1>0, <2>2, MovesLocals, Zenon
  <2>5. LocalsOK(u)' /\ QuietState(u)'
    BY <2>1, <2>4 DEF LocalsOK, QuietState, Comparable
  <2> QED BY <2>1, <2>2, <2>3, <2>5, PlainStep, Zenon
<1>2. CASE read_status(u)
  <2>1. /\ pc[u] = "idle" /\ UNCHANGED <<bar0_virt, reg>>
        /\ pc' = [pc EXCEPT ![u] = "read_atomics"] /\ arg' = [arg EXCEPT ![u] = {}]
        /\ seen' = [seen EXCEPT ![u] = reg.status \ {"BUSY", "PENDING"}]
        /\ history' = Begun(u)
    BY <1>2, Zenon DEF read_status, Call
  <2>2. Moves(u, "read_atomics", {}, reg.status \ {"BUSY", "PENDING"})
    BY <1>0, <2>1, BegunFields, Zenon DEF Moves
  <2>3. UNCHANGED <<IrqState, InjectState, reg.status, history.status, history.exact>>
    BY <1>0, <2>1, BegunFields, Zenon DEF IrqState, InjectState
  <2>4. pc'[u] = "read_atomics" /\ seen'[u] = reg.status \ {"BUSY", "PENDING"}
    BY <1>0, <2>1 DEF Types
  <2>5. LocalsOK(u)'
    BY <1>0, <2>4 DEF LocalsOK, RegType
  <2>6. Comparable' => reg.status = history'.status
    BY <2>3, Zenon DEF MmioInv, StatusInv, Comparable
  <2>7. QuietState(u)'
    BY <2>4, <2>6 DEF QuietState
  <2> QED BY <2>1, <2>2, <2>3, <2>5, <2>7, PlainStep, Zenon
<1>3. CASE read_atomics(u)
  <2> DEFINE v == seen[u] \cup (IF reg.pending_interrupts # 0 THEN {"PENDING"} ELSE {})
  <2>1. /\ pc[u] = "read_atomics" /\ UNCHANGED <<bar0_virt, reg, arg>>
        /\ pc' = [pc EXCEPT ![u] = "return"] /\ seen' = [seen EXCEPT ![u] = v]
        /\ history' = Disturbed(u)
    BY <1>3 DEF read_atomics, Step, dma_active
  <2> HIDE DEF v
  <2>2. Moves(u, "return", arg[u], v)
    BY <1>0, <2>1, DisturbedFields, Zenon DEF Moves
  <2>3. UNCHANGED <<IrqState, InjectState, reg.status, history.status, history.exact>>
    BY <1>0, <2>1, DisturbedFields, Zenon DEF IrqState, InjectState
  <2>4. pc'[u] = "return" /\ seen'[u] = v
    BY <1>0, <2>1 DEF Types
  <2>5. LocalsOK(u)'
    BY <2>4 DEF LocalsOK
  <2>6. ASSUME u \in history'.quiet PROVE QuietState(u)'
    <3>1. u \in history.quiet
      BY <1>0, <2>1, <2>6, DisturbedFields, Zenon
    <3>2. Idle(Contexts \ {u}) /\ QuietInv(u)
      BY <3>1, Zenon DEF MmioInv, QuietInv, Idle
    <3>3. \A c \in Contexts : pc[c] \notin IrqLabels
      <4> SUFFICES ASSUME NEW c \in Contexts PROVE pc[c] \notin IrqLabels
        OBVIOUS
      <4>1. CASE c = u
        BY <2>1, <4>1 DEF IrqLabels
      <4>2. CASE c # u
        <5>1. pc[c] = "idle"
          BY <3>2, <4>2, Zenon DEF Idle
        <5> QED BY <5>1 DEF IrqLabels
      <4> QED BY <4>1, <4>2, Zenon
    <3>4. ASSUME Comparable' 
          PROVE  /\ "PENDING" \in seen'[u] <=> history'.raised # {}
                 /\ "ERROR" \in seen'[u] <=> "ERROR" \in history'.status
      <4>1. Comparable /\ history'.raised = history.raised /\ history'.status = history.status
        BY <2>1, <2>3, <3>4, Zenon DEF Comparable, IrqState
      <4>2. "irq" \in history.exact
        BY <4>1 DEF Comparable
      <4>3. Settled
        BY <3>3, <4>2, Zenon DEF MmioInv, IrqInv
      <4>4. reg.pending_interrupts # 0 <=> history.raised # {}
        BY <4>3 DEF Settled
      <4>5. "PENDING" \notin seen[u] /\ ("ERROR" \in seen[u] <=> "ERROR" \in history.status)
        BY <2>1, <3>2, <4>1, Zenon DEF QuietInv
      <4>6. /\ "PENDING" \in v <=> reg.pending_interrupts # 0
            /\ "ERROR" \in v <=> "ERROR" \in seen[u]
        BY <4>5 DEF v
      <4> QED BY <2>4, <4>1, <4>4, <4>5, <4>6, Zenon
    <3> QED BY <2>4, <3>4 DEF QuietState
  <2> QED BY <2>1, <2>2, <2>3, <2>5, <2>6, PlainStep, Zenon
<1>4. CASE read_return(u)
  <2>1. /\ pc[u] = "return" /\ UNCHANGED <<bar0_virt, reg>>
        /\ pc' = [pc EXCEPT ![u] = "idle"] /\ seen' = [seen EXCEPT ![u] = {}]
        /\ arg' = [arg EXCEPT ![u] = {}] /\ history' = Disturbed(u)
    BY <1>4, Zenon DEF read_return, Return
  <2>2. Moves(u, "idle", {}, {})
    BY <1>0, <2>1, DisturbedFields, Zenon DEF Moves
  <2>3. UNCHANGED <<IrqState, InjectState, reg.status, history.status, history.exact>>
    BY <1>0, <2>1, DisturbedFields, Zenon DEF IrqState, InjectState
  <2>4. pc'[u] = "idle"
    BY <1>0, <2>2, MovesLocals, Zenon
  <2>5. LocalsOK(u)' /\ QuietState(u)'
    BY <2>4 DEF LocalsOK, QuietState
  <2> QED BY <2>1, <2>2, <2>3, <2>5, PlainStep, Zenon
<1> QED BY <1>1, <1>2, <1>3, <1>4, Zenon

\* Writing the status and the control register.
LEMMA WriteSteps ==
  ASSUME MmioInv, NEW u \in Users,
         \/ \E value \in StatusValues : write_status(u, value)
         \/ \E value \in ControlValues : write_control(u, value)
  PROVE  MmioInv'
<1>0. /\ Types /\ history \in HistoryType /\ reg \in RegType /\ u \in Contexts
      /\ u # Engine /\ "idle" \in UserLabels
  BY InvTypes, ContextsAssumption DEF Contexts, UserLabels
<1>1. ASSUME NEW value \in StatusValues, write_status(u, value) PROVE MmioInv'
  <2>1. /\ pc[u] = "idle" /\ UNCHANGED bar0_virt
        /\ pc' = [pc EXCEPT ![u] = "idle"] /\ seen' = [seen EXCEPT ![u] = {}]
        /\ arg' = [arg EXCEPT ![u] = {}] /\ reg' = [reg EXCEPT !.status = value]
        /\ history' = [Disturbed(u) EXCEPT !.status = value,
             !.exact = IF Inside("status") = {} THEN @ \cup {"status"} ELSE @ \ {"status"}]
    BY <1>1, Zenon DEF write_status, Call
  <2>2. /\ reg' \in RegType /\ reg'.status = value
        /\ UNCHANGED <<reg.irq, reg.pending_interrupts, InjectState>>
    BY <1>0, <2>1, ValuesAssumption DEF RegType, InjectState
  <2>3. /\ history' \in HistoryType /\ history'.status = value
        /\ history'.raised = history.raised /\ history'.quiet = history.quiet \cap {u}
        /\ history'.exact = IF Inside("status") = {} THEN history.exact \cup {"status"}
                                                     ELSE history.exact \ {"status"}
    BY <1>0, <2>1, ValuesAssumption, DisturbedFields, Zenon DEF HistoryType, Sections
  <2>4. Moves(u, "idle", {}, {})
    BY <2>1, <2>2, <2>3, Zenon DEF Moves
  <2>5. pc'[u] = "idle" /\ pc'[Engine] = pc[Engine]
    <3>1. Engine \in Contexts \ {u}
      BY <1>0, Zenon DEF Contexts
    <3> QED BY <1>0, <2>4, <3>1, MovesLocals, Zenon
  <2>6. LocalsOK(u)' /\ QuietState(u)'
    BY <2>5 DEF LocalsOK, QuietState
  <2>7. IrqInv'
    <3>1. "irq" \in history'.exact => "irq" \in history.exact
      BY <2>3
    <3>2. pc[u] \notin IrqLabels /\ "idle" \notin IrqLabels
      BY <2>1 DEF IrqLabels
    <3> QED BY <1>0, <2>2, <2>3, <2>4, <3>1, <3>2, IrqFrame, Zenon DEF IrqState
  <2>8. InjectInv'
    <3>1. "inject" \in history'.exact => "inject" \in history.exact
      BY <2>3
    <3>2. pc[u] # "inject_write" /\ "idle" # "inject_write"
      BY <2>1
    <3> QED BY <1>0, <2>2, <2>4, <3>1, <3>2, InjectFrame, Zenon
  <2>9. StatusInv'
    <3>1. "status" \in history'.exact => pc[Engine] # "status_write"
      BY <1>0, <2>3, InsideStatus
    <3> QED BY <2>2, <2>3, <2>5, <3>1, Zenon DEF StatusInv
  <2> QED BY <1>0, <2>4, <2>6, <2>7, <2>8, <2>9, Assembled, Zenon
<1>2. ASSUME NEW value \in ControlValues, write_control(u, value) PROVE MmioInv'
  <2>1. /\ pc[u] = "idle" /\ UNCHANGED bar0_virt
        /\ pc' = [pc EXCEPT ![u] = "idle"] /\ seen' = [seen EXCEPT ![u] = {}]
        /\ arg' = [arg EXCEPT ![u] = {}] /\ reg' = [reg EXCEPT !.control = value \ {"RESET"}]
        /\ history' = Disturbed(u)
    BY <1>2, Zenon DEF write_control, Call
  <2>2. reg' \in RegType
    <3>1. value \ {"RESET"} \in SUBSET {"ENABLE", "START", "IRQ_ENABLE"}
      BY ValuesAssumption
    <3> QED BY <1>0, <2>1, <3>1 DEF RegType
  <2>3. UNCHANGED <<reg.irq, reg.pending_interrupts, reg.status, InjectState>>
    BY <1>0, <2>1 DEF RegType, InjectState
  <2>4. Moves(u, "idle", {}, {})
    BY <1>0, <2>1, <2>2, DisturbedFields, Zenon DEF Moves
  <2>5. UNCHANGED <<IrqState, InjectState, reg.status, history.status, history.exact>>
    BY <1>0, <2>1, <2>3, DisturbedFields, Zenon DEF IrqState
  <2>6. pc'[u] = "idle"
    BY <1>0, <2>4, MovesLocals, Zenon
  <2>7. LocalsOK(u)' /\ QuietState(u)'
    BY <2>6 DEF LocalsOK, QuietState
  <2> QED BY <2>1, <2>4, <2>5, <2>7, PlainStep, Zenon
<1> QED BY <1>1, <1>2, Zenon

-----------------------------------------------------------------------------
\* Acknowledging interrupts.

\* The write of new to the interrupt status when no calls overlap.
LEMMA ClearStep ==
  ASSUME MmioInv, NEW u \in Users, NEW l, NEW a, NEW v, Moves(u, l, a, v),
         pc[u] \in {"idle", "clear_write", "clear_pending"},
         l \in {"idle", "clear_write", "clear_pending"},
         UNCHANGED <<InjectState, reg.status, history.status>>,
         history'.exact \ {"irq"} \subseteq history.exact,
         LocalsOK(u)', IrqInv', u \in history'.quiet => QuietState(u)'
  PROVE  MmioInv'
<1>1. u \in Contexts /\ u # Engine /\ l \in UserLabels
  BY ContextsAssumption DEF Contexts, UserLabels
<1>2. l # "status_write" /\ pc[u] # "inject_write" /\ l # "inject_write"
  OBVIOUS
<1>3. \A s \in {"status", "inject"} : s \in history'.exact => s \in history.exact
  OBVIOUS
<1>4. StatusInv'
  BY <1>1, <1>2, <1>3, StatusFrame, Zenon
<1>5. InjectInv'
  BY <1>1, <1>2, <1>3, InjectFrame, Zenon
<1> QED BY <1>1, <1>4, <1>5, Assembled, Zenon

LEMMA ClearReadStep ==
  ASSUME MmioInv, NEW u \in Users, NEW value \in ClearValues, clear_read(u, value)
  PROVE  MmioInv'
<1>0. Types /\ history \in HistoryType /\ reg \in RegType /\ u \in Contexts
  BY InvTypes, Zenon DEF Contexts
<1>1. PICK v : v = reg.irq
  BY Zenon
<1>2. /\ pc[u] = "idle" /\ UNCHANGED <<bar0_virt, reg>>
      /\ pc' = [pc EXCEPT ![u] = "clear_write"] /\ arg' = [arg EXCEPT ![u] = value]
      /\ seen' = [seen EXCEPT ![u] = v] /\ history' = Enter(Begun(u), "irq")
  BY <1>1, Zenon DEF clear_read, Call
<1>3. /\ history' \in HistoryType
      /\ history'.raised = history.raised /\ history'.status = history.status
      /\ history'.quiet = IF Idle(Contexts \ {u}) THEN {u} ELSE {}
      /\ history'.exact = IF Inside("irq") = {} THEN history.exact ELSE history.exact \ {"irq"}
  <2>1. "irq" \in Sections
    BY DEF Sections
  <2> QED BY <1>0, <1>2, <2>1, BegunEnterFields, Zenon
<1>4. Moves(u, "clear_write", value, v)
  BY <1>0, <1>2, <1>3, Zenon DEF Moves
<1>5. pc'[u] = "clear_write" /\ arg'[u] = value /\ seen'[u] = v
  BY <1>0, <1>4, MovesLocals
<1>6. LocalsOK(u)' /\ QuietState(u)'
  BY <1>0, <1>1, <1>5, ValuesAssumption DEF LocalsOK, QuietState, RegType
<1>7. IrqInv'
  <2> SUFFICES ASSUME "irq" \in history'.exact PROVE IrqInv'
    BY Zenon DEF IrqInv
  <2>1. Inside("irq") = {} /\ "irq" \in history.exact
    BY <1>3
  <2>2. Settled /\ \A d \in Contexts : pc[d] \notin IrqLabels
    BY <2>1, IrqOutside, Zenon
  <2>3. IrqAt(u)'
    BY <1>1, <1>2, <1>3, <1>5, <2>2 DEF IrqAt, Settled, IrqLabels
  <2> QED BY <1>0, <1>4, <2>2, <2>3, IrqAlone, Zenon
<1>8. history'.exact \ {"irq"} \subseteq history.exact
  BY <1>3
<1> QED BY <1>2, <1>3, <1>4, <1>6, <1>7, <1>8, ClearStep DEF InjectState

LEMMA ClearWriteStep ==
  ASSUME MmioInv, NEW u \in Users, clear_write(u)
  PROVE  MmioInv'
<1>0. /\ Types /\ history \in HistoryType /\ reg \in RegType /\ u \in Contexts /\ LocalsOK(u)
  BY InvTypes, Zenon DEF Contexts, MmioInv
<1>1. PICK new, a : new = seen[u] \ arg[u] /\ a = arg[u]
  BY Zenon
<1>2. /\ pc[u] = "clear_write" /\ UNCHANGED bar0_virt /\ seen' = [seen EXCEPT ![u] = {}]
      /\ reg' = [reg EXCEPT !.irq = new]
      /\ history' = [Disturbed(u) EXCEPT !.raised = @ \ a]
      /\ IF new = {} THEN pc' = [pc EXCEPT ![u] = "clear_pending"] /\ UNCHANGED arg
                     ELSE pc' = [pc EXCEPT ![u] = "idle"] /\ arg' = [arg EXCEPT ![u] = {}]
  BY <1>1 DEF clear_write, Step, Return
<1>3. seen[u] \subseteq Interrupts /\ a \subseteq Interrupts /\ new \subseteq Interrupts
  BY <1>0, <1>1, <1>2 DEF LocalsOK
<1>4. /\ reg' \in RegType /\ reg'.irq = new
      /\ UNCHANGED <<reg.pending_interrupts, reg.status, InjectState>>
  BY <1>0, <1>2, <1>3 DEF RegType, InjectState
<1>5. /\ history' \in HistoryType /\ history'.raised = history.raised \ a
      /\ history'.status = history.status /\ history'.exact = history.exact
      /\ history'.quiet = history.quiet \cap {u}
  BY <1>0, <1>2, DisturbedFields DEF HistoryType
<1>6. ASSUME "irq" \in history.exact
      PROVE  /\ \A d \in Contexts \ {u} : pc[d] \notin IrqLabels
             /\ new = history.raised \ a
             /\ reg.pending_interrupts = IF history.raised = {} THEN 0 ELSE 1
  <2>1. pc[u] \in IrqLabels
    BY <1>2 DEF IrqLabels
  <2>2. IrqAt(u) /\ \A d \in Contexts \ {u} : pc[d] \notin IrqLabels
    BY <1>0, <1>6, <2>1, IrqInside, Zenon
  <2> QED BY <1>1, <1>2, <2>2 DEF IrqAt, Settled
<1>7. CASE new = {}
  <2>1. Moves(u, "clear_pending", a, {})
    BY <1>1, <1>2, <1>4, <1>5, <1>7, Zenon DEF Moves
  <2>2. pc'[u] = "clear_pending" /\ arg'[u] = a /\ seen'[u] = {}
    BY <1>0, <2>1, MovesLocals
  <2>3. LocalsOK(u)'
    BY <1>3, <2>2 DEF LocalsOK
  <2>4. QuietState(u)'
    <3>1. a = Interrupts => history'.raised = {}
      BY <1>0, <1>5 DEF HistoryType
    <3> QED BY <1>4, <1>7, <2>2, <3>1 DEF QuietState
  <2>5. IrqInv'
    <3> SUFFICES ASSUME "irq" \in history'.exact PROVE IrqInv'
      BY Zenon DEF IrqInv
    <3>1. /\ \A d \in Contexts \ {u} : pc[d] \notin IrqLabels
          /\ new = history.raised \ a
      BY <1>5, <1>6, Zenon
    <3>2. IrqAt(u)'
      BY <1>4, <1>5, <1>7, <2>2, <3>1 DEF IrqAt, IrqLabels
    <3> QED BY <1>0, <2>1, <3>1, <3>2, IrqAlone, Zenon
  <2>6. history'.exact \ {"irq"} \subseteq history.exact
    BY <1>5
  <2> QED BY <1>2, <1>4, <1>5, <2>1, <2>3, <2>4, <2>5, <2>6, ClearStep
<1>8. CASE new # {}
  <2>1. Moves(u, "idle", {}, {})
    BY <1>1, <1>2, <1>4, <1>5, <1>8, Zenon DEF Moves
  <2>2. pc'[u] = "idle" /\ arg'[u] = {} /\ seen'[u] = {}
    BY <1>0, <2>1, MovesLocals
  <2>3. LocalsOK(u)' /\ QuietState(u)'
    BY <2>2 DEF LocalsOK, QuietState
  <2>5. IrqInv'
    <3> SUFFICES ASSUME "irq" \in history'.exact PROVE IrqInv'
      BY Zenon DEF IrqInv
    <3>1. /\ \A d \in Contexts \ {u} : pc[d] \notin IrqLabels
          /\ new = history.raised \ a
          /\ reg.pending_interrupts = IF history.raised = {} THEN 0 ELSE 1
      BY <1>5, <1>6, Zenon
    <3>2. IrqAt(u)'
      BY <1>4, <1>5, <1>8, <2>2, <3>1 DEF IrqAt, IrqLabels, Settled
    <3> QED BY <1>0, <2>1, <3>1, <3>2, IrqAlone, Zenon
  <2>6. history'.exact \ {"irq"} \subseteq history.exact
    BY <1>5
  <2> QED BY <1>2, <1>4, <1>5, <2>1, <2>3, <2>5, <2>6, ClearStep
<1> QED BY <1>7, <1>8, Zenon

LEMMA ClearPendingStep ==
  ASSUME MmioInv, NEW u \in Users, clear_pending(u)
  PROVE  MmioInv'
<1>0. Types /\ history \in HistoryType /\ reg \in RegType /\ u \in Contexts
  BY InvTypes, Zenon DEF Contexts
<1>1. /\ pc[u] = "clear_pending" /\ UNCHANGED bar0_virt
      /\ pc' = [pc EXCEPT ![u] = "idle"] /\ arg' = [arg EXCEPT ![u] = {}]
      /\ seen' = [seen EXCEPT ![u] = {}] /\ reg' = [reg EXCEPT !.pending_interrupts = 0]
      /\ history' = IF arg[u] = Interrupts THEN Restore(Disturbed(u), u, "irq") ELSE Disturbed(u)
  BY Zenon DEF clear_pending, Return
<1>2. /\ reg' \in RegType /\ reg'.pending_interrupts = 0
      /\ UNCHANGED <<reg.irq, reg.status, InjectState>>
  BY <1>0, <1>1 DEF RegType, InjectState
<1>3. /\ history' \in HistoryType
      /\ history'.raised = history.raised /\ history'.status = history.status
      /\ history'.quiet = history.quiet \cap {u}
      /\ history'.exact = IF arg[u] = Interrupts /\ u \in history.quiet
                          THEN history.exact \cup {"irq"} ELSE history.exact
  <2>1. "irq" \in Sections
    BY DEF Sections
  <2>2. CASE arg[u] = Interrupts
    BY <1>0, <1>1, <2>1, <2>2, DisturbedRestoreFields, Zenon
  <2>3. CASE arg[u] # Interrupts
    BY <1>0, <1>1, <2>3, DisturbedFields, Zenon
  <2> QED BY <2>2, <2>3, Zenon
<1>4. Moves(u, "idle", {}, {})
  BY <1>1, <1>2, <1>3, Zenon DEF Moves
<1>5. pc'[u] = "idle"
  BY <1>0, <1>4, MovesLocals, Zenon
<1>6. LocalsOK(u)' /\ QuietState(u)'
  BY <1>5 DEF LocalsOK, QuietState
<1>7. IrqInv'
  <2> SUFFICES ASSUME "irq" \in history'.exact PROVE IrqInv'
    BY Zenon DEF IrqInv
  <2>1. /\ \A d \in Contexts \ {u} : pc[d] \notin IrqLabels
        /\ reg.irq = {} /\ history.raised = {}
    <3>1. CASE "irq" \in history.exact
      <4>1. pc[u] \in IrqLabels
        BY <1>1 DEF IrqLabels
      <4>2. IrqAt(u) /\ \A d \in Contexts \ {u} : pc[d] \notin IrqLabels
        BY <1>0, <3>1, <4>1, IrqInside, Zenon
      <4> QED BY <1>1, <4>2, Zenon DEF IrqAt
    <3>2. CASE arg[u] = Interrupts /\ u \in history.quiet
      <4>1. QuietInv(u)
        BY <3>2, Zenon DEF MmioInv
      <4>2. reg.irq = {} /\ history.raised = {} /\ \A d \in Contexts \ {u} : pc[d] = "idle"
        BY <1>1, <3>2, <4>1, Zenon DEF QuietInv
      <4> QED BY <4>2 DEF IrqLabels
    <3> QED BY <1>3, <3>1, <3>2, Zenon
  <2>2. IrqAt(u)'
    BY <1>2, <1>3, <1>5, <2>1 DEF IrqAt, Settled, IrqLabels
  <2> QED BY <1>0, <1>4, <2>1, <2>2, IrqAlone, Zenon
<1>8. history'.exact \ {"irq"} \subseteq history.exact
  BY <1>3
<1> QED BY <1>1, <1>2, <1>3, <1>4, <1>6, <1>7, <1>8, ClearStep

-----------------------------------------------------------------------------
\* Switching error injection on and off.
LEMMA InjectStep ==
  ASSUME MmioInv, NEW u \in Users, NEW l, NEW a, NEW v, Moves(u, l, a, v),
         pc[u] \in {"idle", "inject_write"}, l \in {"idle", "inject_write"},
         UNCHANGED <<IrqState, reg.status, history.status>>,
         history'.exact \ {"inject"} \subseteq history.exact,
         LocalsOK(u)', InjectInv', u \in history'.quiet => QuietState(u)'
  PROVE  MmioInv'
<1>1. u \in Contexts /\ u # Engine /\ l \in UserLabels
  BY ContextsAssumption DEF Contexts, UserLabels
<1>2. pc[u] \notin IrqLabels /\ l \notin IrqLabels /\ l # "status_write"
  BY DEF IrqLabels
<1>3. \A s \in {"status", "irq"} : s \in history'.exact => s \in history.exact
  OBVIOUS
<1>4. StatusInv'
  BY <1>1, <1>2, <1>3, StatusFrame, Zenon
<1>5. IrqInv'
  BY <1>1, <1>2, <1>3, IrqFrame, Zenon
<1> QED BY <1>1, <1>4, <1>5, Assembled, Zenon

LEMMA InjectFlagsStep ==
  ASSUME MmioInv, NEW u \in Users, NEW value \in InjectValues, inject_flags(u, value)
  PROVE  MmioInv'
<1>0. Types /\ history \in HistoryType /\ reg \in RegType /\ u \in Contexts
  BY InvTypes, Zenon DEF Contexts
<1>1. value \in Nat /\ value % 256 \in Nat
  BY ValuesAssumption
<1>2. /\ pc[u] = "idle" /\ UNCHANGED bar0_virt
      /\ pc' = [pc EXCEPT ![u] = "inject_write"] /\ arg' = [arg EXCEPT ![u] = value]
      /\ seen' = [seen EXCEPT ![u] = {}] /\ history' = Enter(Begun(u), "inject")
      /\ reg' = [reg EXCEPT !.simulate_errors = (value % 256 # 0),
                            !.fault_injection_rate = IF value % 256 # 0 THEN value % 256 ELSE @]
  BY Zenon DEF inject_flags, Call
<1>3. /\ reg' \in RegType
      /\ UNCHANGED <<reg.irq, reg.pending_interrupts, reg.status>>
      /\ reg'.simulate_errors = (value % 256 # 0)
      /\ value % 256 # 0 => reg'.fault_injection_rate = value % 256
  <2>1. PICK low \in Nat : low = value % 256
    BY <1>1, Zenon
  <2>2. PICK on \in BOOLEAN : on = (low # 0)
    BY Zenon
  <2>3. PICK rate \in Nat : rate = IF on THEN low ELSE reg.fault_injection_rate
    BY <1>0 DEF RegType
  <2>4. reg' = [reg EXCEPT !.simulate_errors = on, !.fault_injection_rate = rate]
    BY <1>2, <2>1, <2>2, <2>3, Zenon
  <2>5. /\ reg' \in RegType
        /\ UNCHANGED <<reg.irq, reg.pending_interrupts, reg.status>>
        /\ reg'.simulate_errors = on /\ reg'.fault_injection_rate = rate
    BY <1>0, <2>4, Zenon DEF RegType
  <2> QED BY <2>1, <2>2, <2>3, <2>5, Zenon
<1>4. /\ history' \in HistoryType
      /\ history'.raised = history.raised /\ history'.status = history.status
      /\ history'.quiet = IF Idle(Contexts \ {u}) THEN {u} ELSE {}
      /\ history'.exact = IF Inside("inject") = {} THEN history.exact
                                                   ELSE history.exact \ {"inject"}
  <2>1. "inject" \in Sections
    BY DEF Sections
  <2> QED BY <1>0, <1>2, <2>1, BegunEnterFields, Zenon
<1>5. Moves(u, "inject_write", value, {})
  BY <1>2, <1>3, <1>4, Zenon DEF Moves
<1>6. pc'[u] = "inject_write" /\ arg'[u] = value
  BY <1>0, <1>5, MovesLocals
<1>7. Injects(arg[u])'
  BY <1>3, <1>6, Zenon DEF Injects
<1>8. LocalsOK(u)' /\ QuietState(u)'
  BY <1>1, <1>6, <1>7 DEF LocalsOK, QuietState
<1>9. InjectInv'
  <2> SUFFICES ASSUME "inject" \in history'.exact PROVE InjectInv'
    BY Zenon DEF InjectInv
  <2>1. Inside("inject") = {}
    BY <1>4
  <2>2. \A d \in Contexts \ {u} : pc[d] # "inject_write"
    BY <2>1, InsideInject, Zenon
  <2> QED BY <1>0, <1>5, <1>7, <2>2, InjectAlone, Zenon
<1>10. history'.exact \ {"inject"} \subseteq history.exact
  BY <1>4
<1>11. UNCHANGED <<IrqState, reg.status, history.status>>
  BY <1>3, <1>4, Zenon DEF IrqState
<1> QED BY <1>2, <1>5, <1>8, <1>9, <1>10, <1>11, InjectStep, Zenon

LEMMA InjectWriteStep ==
  ASSUME MmioInv, NEW u \in Users, inject_write(u)
  PROVE  MmioInv'
<1>0. Types /\ history \in HistoryType /\ reg \in RegType /\ u \in Contexts /\ LocalsOK(u)
  BY InvTypes, Zenon DEF Contexts, MmioInv
<1>1. PICK a : a = arg[u]
  BY Zenon
<1>2. /\ pc[u] = "inject_write" /\ UNCHANGED bar0_virt
      /\ pc' = [pc EXCEPT ![u] = "idle"] /\ arg' = [arg EXCEPT ![u] = {}]
      /\ seen' = [seen EXCEPT ![u] = {}] /\ reg' = [reg EXCEPT !.inject = a]
      /\ history' = Restore(Disturbed(u), u, "inject")
  BY <1>1, Zenon DEF inject_write, Return
<1>3. a \in Nat
  BY <1>0, <1>1, <1>2, Zenon DEF LocalsOK
<1>4. /\ reg' \in RegType /\ reg'.inject = a
      /\ UNCHANGED <<reg.irq, reg.pending_interrupts, reg.status, reg.simulate_errors,
                     reg.fault_injection_rate>>
  BY <1>0, <1>2, <1>3 DEF RegType
<1>5. /\ history' \in HistoryType
      /\ history'.raised = history.raised /\ history'.status = history.status
      /\ history'.quiet = history.quiet \cap {u}
      /\ history'.exact = IF u \in history.quiet THEN history.exact \cup {"inject"}
                                                 ELSE history.exact
  <2>1. "inject" \in Sections
    BY DEF Sections
  <2> QED BY <1>0, <1>2, <2>1, DisturbedRestoreFields, Zenon
<1>6. Moves(u, "idle", {}, {})
  BY <1>2, <1>4, <1>5, Zenon DEF Moves
<1>7. pc'[u] = "idle"
  BY <1>0, <1>6, MovesLocals, Zenon
<1>8. LocalsOK(u)' /\ QuietState(u)'
  BY <1>7 DEF LocalsOK, QuietState
<1>9. InjectInv'
  <2> SUFFICES ASSUME "inject" \in history'.exact PROVE InjectInv'
    BY Zenon DEF InjectInv
  <2>1. Injects(a) /\ \A d \in Contexts \ {u} : pc[d] # "inject_write"
    <3>1. CASE "inject" \in history.exact
      <4>1. InjectInv
        BY Zenon DEF MmioInv
      <4> QED BY <1>0, <1>1, <1>2, <3>1, <4>1, Zenon DEF InjectInv
    <3>2. CASE u \in history.quiet
      <4>1. QuietInv(u)
        BY <3>2, Zenon DEF MmioInv
      <4>2. Injects(a) /\ \A d \in Contexts \ {u} : pc[d] = "idle"
        BY <1>1, <1>2, <4>1, Zenon DEF QuietInv
      <4> QED BY <4>2
    <3> QED BY <1>5, <3>1, <3>2, Zenon
  <2>2. Injects(reg.inject)'
    BY <1>4, <2>1, Zenon DEF Injects
  <2>3. "idle" # "inject_write"
    OBVIOUS
  <2> QED BY <1>0, <1>6, <2>1, <2>2, <2>3, InjectAlone, Zenon
<1>10. history'.exact \ {"inject"} \subseteq history.exact
  BY <1>5
<1>11. UNCHANGED <<IrqState, reg.status, history.status>>
  BY <1>4, <1>5, Zenon DEF IrqState
<1> QED BY <1>2, <1>6, <1>8, <1>9, <1>10, <1>11, InjectStep, Zenon

-----------------------------------------------------------------------------
\* The engine reports a transfer.
LEMMA EngineStep ==
  ASSUME MmioInv, NEW l, NEW a, NEW v, Moves(Engine, l, a, v), l \in EngineLabels,
         UNCHANGED InjectState, history'.exact \subseteq history.exact,
         LocalsOK(Engine)', IrqInv', StatusInv'
  PROVE  MmioInv'
<1>1. Engine \in Contexts
  BY Zenon DEF Contexts
<1>2. Types
  BY Zenon DEF MmioInv
<1>3. pc[Engine] # "inject_write" /\ l # "inject_write"
  BY <1>2 DEF Types, EngineLabels
<1>4. "inject" \in history'.exact => "inject" \in history.exact
  BY Zenon
<1>5. InjectInv'
  BY <1>1, <1>3, <1>4, InjectFrame, Zenon
<1>6. pc'[Engine] = l
  BY <1>1, <1>2, MovesLocals, Zenon
<1>7. QuietState(Engine)'
  BY <1>6 DEF QuietState, EngineLabels
<1> QED BY <1>1, <1>5, <1>7, Assembled, Zenon

LEMMA UpdateDmaStep ==
  ASSUME MmioInv, NEW bit \in Interrupts, update_dma(bit)
  PROVE  MmioInv'
<1>0. Types /\ history \in HistoryType /\ reg \in RegType /\ Engine \in Contexts
  BY InvTypes, Zenon DEF Contexts
<1>1. PICK v : v = reg.status
  BY Zenon
<1>2. /\ pc[Engine] = "idle" /\ UNCHANGED <<bar0_virt, reg>>
      /\ pc' = [pc EXCEPT ![Engine] = "status_write"] /\ arg' = [arg EXCEPT ![Engine] = {bit}]
      /\ seen' = [seen EXCEPT ![Engine] = v]
      /\ history' = Enter(Begun(Engine), "status")
  BY <1>1, Zenon DEF update_dma, Call
<1>3. /\ history' \in HistoryType
      /\ history'.raised = history.raised /\ history'.status = history.status
      /\ history'.quiet = IF Idle(Contexts \ {Engine}) THEN {Engine} ELSE {}
      /\ history'.exact \subseteq history.exact
  <2>1. "status" \in Sections
    BY DEF Sections
  <2> QED BY <1>0, <1>2, <2>1, BegunEnterFields, Zenon
<1>4. Moves(Engine, "status_write", {bit}, v)
  BY <1>0, <1>2, <1>3, Zenon DEF Moves
<1>5. pc'[Engine] = "status_write" /\ arg'[Engine] = {bit} /\ seen'[Engine] = v
  BY <1>0, <1>4, MovesLocals
<1>6. LocalsOK(Engine)'
  BY <1>0, <1>1, <1>5 DEF LocalsOK, RegType
<1>7. IrqInv'
  <2>1. pc[Engine] \notin IrqLabels /\ "status_write" \notin IrqLabels
    BY <1>2 DEF IrqLabels
  <2>2. "irq" \in history'.exact => "irq" \in history.exact
    BY <1>3, Zenon
  <2>3. UNCHANGED IrqState
    BY <1>2, <1>3, Zenon DEF IrqState
  <2> QED BY <1>0, <1>4, <2>1, <2>2, <2>3, IrqFrame, Zenon
<1>8. StatusInv'
  BY <1>1, <1>2, <1>3, <1>5, Zenon DEF MmioInv, StatusInv
<1>9. UNCHANGED InjectState /\ "status_write" \in EngineLabels
  BY <1>2 DEF InjectState, EngineLabels
<1> QED BY <1>3, <1>4, <1>6, <1>7, <1>8, <1>9, EngineStep, Zenon

LEMMA UpdateStatusStep ==
  ASSUME MmioInv, update_status
  PROVE  MmioInv'
<1>0. /\ Types /\ history \in HistoryType /\ reg \in RegType /\ Engine \in Contexts
      /\ LocalsOK(Engine)
  BY InvTypes, Zenon DEF Contexts, MmioInv
<1>1. PICK a, new : a = arg[Engine] /\ new = Updated(seen[Engine], a)
  BY Zenon
<1>2. /\ pc[Engine] = "status_write" /\ UNCHANGED <<bar0_virt, arg>>
      /\ pc' = [pc EXCEPT ![Engine] = "irq_read"] /\ seen' = [seen EXCEPT ![Engine] = {}]
      /\ reg' = [reg EXCEPT !.status = new]
      /\ history' = [Disturbed(Engine) EXCEPT !.status = Updated(@, a)]
  BY <1>1, Zenon DEF update_status, Step
<1>3. a \subseteq Interrupts /\ a # {} /\ seen[Engine] \subseteq StatusBits
  BY <1>0, <1>1, <1>2 DEF LocalsOK
<1>4. \A bits \in SUBSET StatusBits : Updated(bits, a) \in SUBSET StatusBits
  BY DEF Updated, StatusBits
<1>5. new \in SUBSET StatusBits
  BY <1>1, <1>3, <1>4
<1>6. /\ reg' \in RegType /\ reg'.status = new
      /\ UNCHANGED <<reg.irq, reg.pending_interrupts, InjectState>>
  BY <1>0, <1>2, <1>5 DEF RegType, InjectState
<1>7. /\ history' \in HistoryType /\ history'.status = Updated(history.status, a)
      /\ history'.raised = history.raised /\ history'.exact = history.exact
      /\ history'.quiet = history.quiet \cap {Engine}
  <2>1. PICK h \in HistoryType :
         /\ h = Disturbed(Engine) /\ h.raised = history.raised /\ h.status = history.status
         /\ h.exact = history.exact /\ h.quiet = history.quiet \cap {Engine}
    BY <1>0, DisturbedFields, Zenon
  <2>2. PICK st \in SUBSET StatusBits : st = Updated(history.status, a)
    BY <1>0, <1>4 DEF HistoryType
  <2>3. history' = [h EXCEPT !.status = st]
    BY <1>2, <2>1, <2>2
  <2> QED BY <2>1, <2>2, <2>3 DEF HistoryType
<1>8. Moves(Engine, "irq_read", a, {})
  BY <1>1, <1>2, <1>6, <1>7, Zenon DEF Moves
<1>9. pc'[Engine] = "irq_read" /\ arg'[Engine] = a
  BY <1>0, <1>8, MovesLocals
<1>10. LocalsOK(Engine)'
  BY <1>3, <1>9 DEF LocalsOK
<1>11. IrqInv'
  <2>1. pc[Engine] \notin IrqLabels /\ "irq_read" \notin IrqLabels
    BY <1>2 DEF IrqLabels
  <2>2. UNCHANGED IrqState
    BY <1>6, <1>7, Zenon DEF IrqState
  <2> QED BY <1>0, <1>7, <1>8, <2>1, <2>2, IrqFrame, Zenon
<1>12. StatusInv'
  <2>1. "status" \in history.exact => seen[Engine] = history.status
    BY <1>2, Zenon DEF MmioInv, StatusInv
  <2> QED BY <1>1, <1>6, <1>7, <1>9, <2>1 DEF StatusInv
<1>13. "irq_read" \in EngineLabels /\ history'.exact \subseteq history.exact
  BY <1>7 DEF EngineLabels
<1> QED BY <1>6, <1>8, <1>10, <1>11, <1>12, <1>13, EngineStep, Zenon

LEMMA UpdateIrqReadStep ==
  ASSUME MmioInv, update_irq_read
  PROVE  MmioInv'
<1>0. /\ Types /\ history \in HistoryType /\ reg \in RegType /\ Engine \in Contexts
      /\ LocalsOK(Engine)
  BY InvTypes, Zenon DEF Contexts, MmioInv
<1>1. PICK a, v : a = arg[Engine] /\ v = reg.irq
  BY Zenon
<1>2. /\ pc[Engine] = "irq_read" /\ UNCHANGED <<bar0_virt, reg, arg>>
      /\ pc' = [pc EXCEPT ![Engine] = "irq_write"] /\ seen' = [seen EXCEPT ![Engine] = v]
      /\ history' = Enter(Disturbed(Engine), "irq")
  BY <1>1, Zenon DEF update_irq_read, Step
<1>3. /\ history' \in HistoryType
      /\ history'.raised = history.raised /\ history'.status = history.status
      /\ history'.quiet = history.quiet \cap {Engine}
      /\ history'.exact = IF Inside("irq") = {} THEN history.exact ELSE history.exact \ {"irq"}
  <2>1. "irq" \in Sections
    BY DEF Sections
  <2> QED BY <1>0, <1>2, <2>1, DisturbedEnterFields, Zenon
<1>4. Moves(Engine, "irq_write", a, v)
  BY <1>0, <1>1, <1>2, <1>3, Zenon DEF Moves
<1>5. pc'[Engine] = "irq_write" /\ arg'[Engine] = a /\ seen'[Engine] = v
  BY <1>0, <1>4, MovesLocals
<1>6. LocalsOK(Engine)'
  BY <1>0, <1>1, <1>2, <1>5 DEF LocalsOK, RegType
<1>7. IrqInv'
  <2> SUFFICES ASSUME "irq" \in history'.exact PROVE IrqInv'
    BY Zenon DEF IrqInv
  <2>1. Inside("irq") = {} /\ "irq" \in history.exact
    BY <1>3
  <2>2. Settled /\ \A d \in Contexts : pc[d] \notin IrqLabels
    BY <2>1, IrqOutside, Zenon
  <2>3. IrqAt(Engine)'
    BY <1>1, <1>2, <1>3, <1>5, <2>2 DEF IrqAt, Settled, IrqLabels
  <2> QED BY <1>0, <1>4, <2>2, <2>3, IrqAlone, Zenon
<1>8. StatusInv'
  <2>1. history'.exact \subseteq history.exact /\ "irq_write" # "status_write"
    BY <1>3
  <2> QED BY <1>0, <1>2, <1>3, <1>4, <2>1, StatusFrame, Zenon
<1>9. /\ UNCHANGED InjectState /\ "irq_write" \in EngineLabels
      /\ history'.exact \subseteq history.exact
  BY <1>2, <1>3 DEF InjectState, EngineLabels
<1> QED BY <1>4, <1>6, <1>7, <1>8, <1>9, EngineStep, Zenon

LEMMA UpdateIrqWriteStep ==
  ASSUME MmioInv, update_irq_write
  PROVE  MmioInv'
<1>0. /\ Types /\ history \in HistoryType /\ reg \in RegType /\ Engine \in Contexts
      /\ LocalsOK(Engine)
  BY InvTypes, Zenon DEF Contexts, MmioInv
<1>1. PICK a, new : a = arg[Engine] /\ new = seen[Engine] \cup a
  BY Zenon
<1>2. /\ pc[Engine] = "irq_write" /\ UNCHANGED <<bar0_virt, arg>>
      /\ pc' = [pc EXCEPT ![Engine] = "set_pending"] /\ seen' = [seen EXCEPT ![Engine] = {}]
      /\ reg' = [reg EXCEPT !.irq = new]
      /\ history' = [Disturbed(Engine) EXCEPT !.raised = @ \cup a]
  BY <1>1, Zenon DEF update_irq_write, Step
<1>3. a \subseteq Interrupts /\ a # {} /\ new \subseteq Interrupts
  BY <1>0, <1>1, <1>2 DEF LocalsOK
<1>4. /\ reg' \in RegType /\ reg'.irq = new /\ UNCHANGED <<reg.status, InjectState>>
  BY <1>0, <1>2, <1>3 DEF RegType, InjectState
<1>5. /\ history' \in HistoryType /\ history'.raised = history.raised \cup a
      /\ history'.status = history.status /\ history'.exact = history.exact
      /\ history'.quiet = history.quiet \cap {Engine}
  <2>1. PICK h \in HistoryType :
         /\ h = Disturbed(Engine) /\ h.raised = history.raised /\ h.status = history.status
         /\ h.exact = history.exact /\ h.quiet = history.quiet \cap {Engine}
    BY <1>0, DisturbedFields, Zenon
  <2>2. history' = [h EXCEPT !.raised = @ \cup a]
    BY <1>2, <2>1, Zenon
  <2> QED BY <1>3, <2>1, <2>2 DEF HistoryType
<1>6. Moves(Engine, "set_pending", a, {})
  BY <1>1, <1>2, <1>4, <1>5, Zenon DEF Moves
<1>7. pc'[Engine] = "set_pending" /\ arg'[Engine] = a
  BY <1>0, <1>6, MovesLocals
<1>8. LocalsOK(Engine)'
  BY <1>3, <1>7 DEF LocalsOK
<1>9. IrqInv'
  <2> SUFFICES ASSUME "irq" \in history.exact PROVE IrqInv'
    BY <1>5, Zenon DEF IrqInv
  <2>1. pc[Engine] \in IrqLabels
    BY <1>2 DEF IrqLabels
  <2>2. IrqAt(Engine) /\ \A d \in Contexts \ {Engine} : pc[d] \notin IrqLabels
    BY <1>0, <2>1, IrqInside, Zenon
  <2>3. IrqAt(Engine)'
    BY <1>1, <1>2, <1>3, <1>4, <1>5, <1>7, <2>2 DEF IrqAt, Settled, IrqLabels
  <2> QED BY <1>0, <1>6, <2>2, <2>3, IrqAlone, Zenon
<1>10. StatusInv'
  <2>1. "set_pending" # "status_write"
    OBVIOUS
  <2> QED BY <1>0, <1>4, <1>5, <1>6, <2>1, StatusFrame, Zenon
<1>11. "set_pending" \in EngineLabels /\ history'.exact \subseteq history.exact
  BY <1>5 DEF EngineLabels
<1> QED BY <1>4, <1>6, <1>8, <1>9, <1>10, <1>11, EngineStep, Zenon

LEMMA UpdatePendingStep ==
  ASSUME MmioInv, update_pending
  PROVE  MmioInv'
<1>0. Types /\ history \in HistoryType /\ reg \in RegType /\ Engine \in Contexts
  BY InvTypes, Zenon DEF Contexts
<1>1. /\ pc[Engine] = "set_pending" /\ UNCHANGED bar0_virt
      /\ pc' = [pc EXCEPT ![Engine] = "idle"] /\ seen' = [seen EXCEPT ![Engine] = {}]
      /\ arg' = [arg EXCEPT ![Engine] = {}]
      /\ reg' = [reg EXCEPT !.pending_interrupts = 1] /\ history' = Disturbed(Engine)
  BY Zenon DEF update_pending, Return
<1>2. /\ reg' \in RegType /\ reg'.pending_interrupts = 1
      /\ UNCHANGED <<reg.irq, reg.status, InjectState>>
  BY <1>0, <1>1 DEF RegType, InjectState
<1>3. /\ history' \in HistoryType
      /\ history'.raised = history.raised /\ history'.status = history.status
      /\ history'.quiet = history.quiet \cap {Engine} /\ history'.exact = history.exact
  BY <1>0, <1>1, DisturbedFields, Zenon
<1>4. Moves(Engine, "idle", {}, {})
  BY <1>1, <1>2, <1>3, Zenon DEF Moves
<1>5. pc'[Engine] = "idle"
  BY <1>0, <1>4, MovesLocals
<1>6. LocalsOK(Engine)'
  BY <1>5 DEF LocalsOK
<1>7. IrqInv'
  <2> SUFFICES ASSUME "irq" \in history.exact PROVE IrqInv'
    BY <1>3, Zenon DEF IrqInv
  <2>1. pc[Engine] \in IrqLabels
    BY <1>1 DEF IrqLabels
  <2>2. IrqAt(Engine) /\ \A d \in Contexts \ {Engine} : pc[d] \notin IrqLabels
    BY <1>0, <2>1, IrqInside, Zenon
  <2>3. IrqAt(Engine)'
    BY <1>1, <1>2, <1>3, <1>5, <2>2 DEF IrqAt, Settled, IrqLabels
  <2> QED BY <1>0, <1>4, <2>2, <2>3, IrqAlone, Zenon
<1>8. StatusInv'
  <2>1. "idle" # "status_write"
    OBVIOUS
  <2> QED BY <1>0, <1>2, <1>3, <1>4, <2>1, StatusFrame, Zenon
<1>9. "idle" \in EngineLabels /\ history'.exact \subseteq history.exact
  BY <1>3 DEF EngineLabels
<1> QED BY <1>2, <1>4, <1>6, <1>7, <1>8, <1>9, EngineStep, Zenon

-----------------------------------------------------------------------------
\* The probe maps the BAR and the removal frees it while nobody is in a call.
LEMMA MapSteps ==
  ASSUME MmioInv, pcie_sim_mmio_init \/ pcie_sim_mmio_cleanup
  PROVE  MmioInv'
<1>0. Types /\ history \in HistoryType /\ reg \in RegType
  BY InvTypes, Zenon
<1>1. /\ Idle(Contexts) /\ UNCHANGED <<pc, arg, seen>> /\ bar0_virt' \in {"mapped", "freed"}
      /\ reg' \in RegType /\ history' \in HistoryType
      /\ UNCHANGED <<reg.irq, reg.pending_interrupts, InjectState, history.raised,
                     history.exact, history.quiet>>
      /\ reg'.status = history'.status \/ UNCHANGED <<reg.status, history.status>>
  <2>1. CASE pcie_sim_mmio_init
    BY <1>0, <2>1, Zenon DEF pcie_sim_mmio_init, RegType, HistoryType, InjectState, StatusBits
  <2>2. CASE pcie_sim_mmio_cleanup
    BY <1>0, <2>2 DEF pcie_sim_mmio_cleanup, InjectState
  <2> QED BY <2>1, <2>2, Zenon
<1>2. \A c \in Contexts : pc'[c] = "idle" /\ pc[c] = "idle"
  BY <1>1, Zenon DEF Idle
<1>3. Types'
  BY <1>0, <1>1 DEF Types, RegType, HistoryType
<1>4. \A c \in Contexts : LocalsOK(c)'
  BY <1>2 DEF LocalsOK
<1>5. IrqInv'
  <2>1. \A c \in Contexts : pc[c] \notin IrqLabels /\ pc'[c] \notin IrqLabels
    BY <1>2 DEF IrqLabels
  <2>2. "irq" \in history.exact => Settled
    BY <2>1, Zenon DEF MmioInv, IrqInv
  <2>3. "irq" \in history'.exact => Settled'
    BY <1>1, <2>2 DEF Settled
  <2>4. \A c \in Contexts : pc'[c] \notin {"clear_write", "irq_write", "clear_pending", "set_pending"}
    BY <1>2
  <2> QED BY <2>1, <2>3, <2>4, Zenon DEF IrqInv
<1>6. StatusInv'
  <2>1. pc'[Engine] # "status_write"
    BY <1>2 DEF Contexts
  <2> QED BY <1>1, <2>1, Zenon DEF MmioInv, StatusInv
<1>7. InjectInv'
  <2>1. \A c \in Contexts : pc[c] # "inject_write" /\ pc'[c] # "inject_write"
    BY <1>2
  <2>2. "inject" \in history.exact => Injects(reg.inject)
    BY <2>1, Zenon DEF MmioInv, InjectInv
  <2>3. "inject" \in history'.exact => Injects(reg.inject)'
    <3>1. UNCHANGED <<reg.inject, reg.simulate_errors, reg.fault_injection_rate, history.exact>>
      BY <1>1, Zenon DEF InjectState
    <3> QED BY <2>2, <3>1, Zenon DEF Injects
  <2> QED BY <2>1, <2>3, Zenon DEF InjectInv
<1>8. ASSUME NEW u \in history'.quiet PROVE QuietInv(u)'
  <2>1. pc'[u] = "idle"
    BY <1>1, <1>2, <1>8 DEF HistoryType
  <2> QED BY <1>2, <2>1 DEF QuietInv
<1> QED BY <1>3, <1>4, <1>5, <1>6, <1>7, <1>8, Zenon DEF MmioInv

LEMMA MmioInvInit == Init => MmioInv
<1> SUFFICES ASSUME Init PROVE MmioInv
  OBVIOUS
<1>1. \A c \in Contexts : pc[c] = "idle"
  BY DEF Init
<1>2. Types
  <2>1. pc \in [Contexts -> UserLabels \cup EngineLabels]
    BY DEF Init, UserLabels
  <2>2. pc[Engine] \in EngineLabels /\ \A u \in Users : pc[u] \in UserLabels
    BY <1>1 DEF Contexts, UserLabels, EngineLabels
  <2>3. reg \in RegType /\ history \in HistoryType
    BY DEF Init, Zero, RegType, HistoryType, Sections
  <2>4. arg = [c \in Contexts |-> arg[c]] /\ seen = [c \in Contexts |-> seen[c]]
    BY DEF Init
  <2>5. bar0_virt = "new"
    BY DEF Init
  <2> QED BY <2>1, <2>2, <2>3, <2>4, <2>5 DEF Types, RegType, HistoryType
<1>3. \A c \in Contexts : LocalsOK(c)
  BY <1>1 DEF LocalsOK
<1>4. IrqInv
  BY <1>1 DEF Init, IrqInv, Settled, Zero, IrqLabels
<1>5. StatusInv
  <2>1. pc[Engine] = "idle"
    BY <1>1 DEF Contexts
  <2> QED BY <2>1 DEF Init, StatusInv, Zero
<1>6. InjectInv
  <2>1. reg.inject = 0 /\ reg.simulate_errors = FALSE
    BY DEF Init, Zero
  <2>2. 0 % 256 = 0
    OBVIOUS
  <2>3. Injects(reg.inject)
    BY <2>1, <2>2, Zenon DEF Injects
  <2> QED BY <1>1, <2>3 DEF InjectInv
<1>7. history.quiet = {}
  BY DEF Init
<1> QED BY <1>2, <1>3, <1>4, <1>5, <1>6, <1>7 DEF MmioInv

LEMMA MmioInvStep == MmioInv /\ [Next]_vars => MmioInv'
<1> SUFFICES ASSUME MmioInv, [Next]_vars PROVE MmioInv'
  OBVIOUS
<1>1. CASE Next
  <2>1. CASE pcie_sim_mmio_init \/ pcie_sim_mmio_cleanup
    BY <2>1, MapSteps, Zenon
  <2>2. ASSUME NEW u \in Users,
               \/ read_absent(u) \/ read_status(u) \/ read_atomics(u) \/ read_return(u)
               \/ \E value \in StatusValues : write_status(u, value)
               \/ \E value \in ControlValues : write_control(u, value)
               \/ \E value \in ClearValues : clear_read(u, value)
               \/ clear_write(u) \/ clear_pending(u)
               \/ \E value \in InjectValues : inject_flags(u, value)
               \/ inject_write(u)
        PROVE  MmioInv'
    BY <2>2, ReadSteps, WriteSteps, ClearReadStep, ClearWriteStep, ClearPendingStep,
       InjectFlagsStep, InjectWriteStep, Zenon
  <2>3. CASE \E bit \in Interrupts : update_dma(bit)
    BY <2>3, UpdateDmaStep, Zenon
  <2>4. CASE update_status \/ update_irq_read \/ update_irq_write \/ update_pending
    BY <2>4, UpdateStatusStep, UpdateIrqReadStep, UpdateIrqWriteStep, UpdatePendingStep, Zenon
  <2> QED BY <1>1, <2>1, <2>2, <2>3, <2>4, Zenon DEF Next
<1>2. CASE UNCHANGED vars
  <2>1. UNCHANGED <<bar0_virt, reg, pc, arg, seen, history>>
    BY <1>2, Zenon DEF vars
  <2>2. Types' /\ \A c \in Contexts : LocalsOK(c)'
    BY <2>1, Zenon DEF MmioInv, Types, LocalsOK
  <2>3. IrqInv'
    BY <2>1, Zenon DEF MmioInv, IrqInv, Settled
  <2>4. StatusInv'
    BY <2>1, Zenon DEF MmioInv, StatusInv
  <2>5. /\ Injects(reg.inject)' <=> Injects(reg.inject)
        /\ \A c \in Contexts : Injects(arg[c])' <=> Injects(arg[c])
    BY <2>1, Zenon DEF Injects
  <2>6. InjectInv'
    BY <2>1, <2>5, Zenon DEF MmioInv, InjectInv
  <2>7. ASSUME NEW u \in history'.quiet PROVE QuietInv(u)'
    <3>1. QuietInv(u) /\ u \in Contexts
      BY <2>1, <2>7, InvTypes DEF MmioInv, HistoryType
    <3>2. Comparable' <=> Comparable
      BY <2>1, Zenon DEF Comparable
    <3> QED BY <2>1, <2>5, <3>1, <3>2, Zenon DEF QuietInv
  <2> QED BY <2>2, <2>3, <2>4, <2>6, <2>7, Zenon DEF MmioInv
<1> QED BY <1>1, <1>2, Zenon

LEMMA MmioInvariant == Spec => []MmioInv
<1>1. Init => MmioInv
  BY MmioInvInit
<1>2. MmioInv /\ [Next]_vars => MmioInv'
  BY MmioInvStep
<1> QED BY <1>1, <1>2, PTL DEF Spec

-----------------------------------------------------------------------------
\* The interrupt status holds exactly the interrupts raised and not acknowledged,
\* and the pending flag says whether there are some, as long as no two calls were
\* in its read-modify-write at once, and again after an undisturbed clear of
\* everything (mmio.c:187-198 against 238-257), for any number of users.
THEOREM InterruptsAreExact == Spec => []InterruptsExact
<1>1. MmioInv => InterruptsExact
  BY IrqOutside, Zenon DEF InterruptsExact, Settled
<1> QED BY <1>1, MmioInvariant, PTL

\* The status register shows the failures since it was last written, errors are
\* injected as the injection register says, and the reset bit never reads as 1
\* (mmio.c:183, 200-213, 229-236), for any values users write.
THEOREM RegistersAreExact == Spec => []RegistersExact
<1>1. MmioInv => RegistersExact
  <2> SUFFICES ASSUME MmioInv PROVE RegistersExact
    OBVIOUS
  <2>1. "status" \in history.exact => reg.status = history.status
    BY Zenon DEF MmioInv, StatusInv
  <2>2. "inject" \in history.exact /\ Inside("inject") = {} => Injects(reg.inject)
    BY InsideInject, Zenon DEF MmioInv, InjectInv
  <2>3. "RESET" \notin reg.control
    BY InvTypes DEF RegType
  <2> QED BY <2>1, <2>2, <2>3, Zenon DEF RegistersExact, Injects
<1> QED BY <1>1, MmioInvariant, PTL

\* An undisturbed read of the status register tells whether interrupts wait and
\* whether a transfer has failed (mmio.c:136-143), for any number of users.
THEOREM UndisturbedReadsAreCurrent == Spec => []ReadsAreCurrent
<1>1. MmioInv => ReadsAreCurrent
  <2> SUFFICES ASSUME MmioInv, NEW u \in Users, pc[u] = "return", u \in history.quiet, Comparable
               PROVE  /\ "PENDING" \in seen[u] <=> history.raised # {}
                      /\ "ERROR" \in seen[u] <=> "ERROR" \in history.status
    BY DEF ReadsAreCurrent, Comparable
  <2>1. QuietInv(u)
    BY Zenon DEF MmioInv
  <2> QED BY <2>1, Zenon DEF QuietInv
<1> QED BY <1>1, MmioInvariant, PTL
=============================================================================
