-------------------------------- MODULE Mmio --------------------------------
(***************************************************************************)
(* The register file of one device, BAR 0 (kernel/mmio.c).  The functions  *)
(* take no lock: each readl, writel and atomic operation is a step of its  *)
(* own, and a register that is read, changed and written back can change   *)
(* in between.                                                             *)
(*                                                                         *)
(* The engine reports finished transfers; it is one context, because the   *)
(* ioctl that makes a transfer holds the device's mutex.  Users read and   *)
(* write registers.  A register's value is the set of its bits that are 1. *)
(* The registers that are plain storage (device ID, DMA address, size and  *)
(* control, interrupt enable) are left out, and so are the stored values   *)
(* of the performance registers, which pcie_sim_mmio_read32 never returns. *)
(***************************************************************************)
EXTENDS Naturals

CONSTANTS
  Engine,         \* the context that calls pcie_sim_mmio_update_dma
  Users,          \* the contexts that read and write registers
  StatusValues,   \* the values users write to the status register,
  ControlValues,  \* to the control register,
  ClearValues,    \* to the interrupt status register
  InjectValues    \* and to the error injection register

StatusBits == {"READY", "BUSY", "ERROR", "PENDING"}
Interrupts == {"COMPLETE", "ERROR"}

ASSUME ContextsAssumption == Engine \notin Users
ASSUME ValuesAssumption ==
  /\ StatusValues \subseteq SUBSET StatusBits
  /\ ControlValues \subseteq SUBSET {"ENABLE", "START", "RESET", "IRQ_ENABLE"}
  /\ ClearValues \subseteq SUBSET Interrupts
  /\ InjectValues \subseteq Nat

VARIABLES
  bar0_virt,  \* "new" (not allocated yet), "mapped" or "freed"
  reg,        \* the registers, and the fields of the device that belong to them
  pc,         \* where each context is
  arg,        \* the value it writes, or the interrupts it raises
  seen,       \* what it has read, or what read32 returns
  history     \* see below

vars == <<bar0_virt, reg, pc, arg, seen, history>>

Contexts == Users \cup {Engine}

\* Nothing ever sets dma_active.
dma_active == 0

Zero == [status |-> {}, control |-> {}, irq |-> {}, pending_interrupts |-> 0,
         inject |-> 0, simulate_errors |-> FALSE, fault_injection_rate |-> 0]

\* The code that changes a register in several steps.
Sections == {"irq", "status", "inject"}

Inside(s) ==
  {c \in Contexts : pc[c] \in
     CASE s = "irq"    -> {"clear_write", "clear_pending", "irq_write", "set_pending"}
       [] s = "status" -> {"status_write"}
       [] s = "inject" -> {"inject_write"}}

Idle(C) == \A c \in C : pc[c] = "idle"

\* History: the interrupts raised and not acknowledged since; the status that
\* indivisible calls would leave; the sections whose calls did not overlap; the
\* contexts during whose call nobody else has been active.
Init ==
  /\ bar0_virt = "new"
  /\ reg = Zero
  /\ pc = [c \in Contexts |-> "idle"]
  /\ arg = [c \in Contexts |-> {}]
  /\ seen = [c \in Contexts |-> {}]
  /\ history = [raised |-> {}, status |-> {}, exact |-> Sections, quiet |-> {}]

-----------------------------------------------------------------------------
\* A step of c in the middle of a call, and one that returns; both disturb the
\* calls of the others.
Step(c, label, value) ==
  /\ pc' = [pc EXCEPT ![c] = label]
  /\ seen' = [seen EXCEPT ![c] = value]
  /\ UNCHANGED <<bar0_virt, arg>>

Return(c) ==
  /\ pc' = [pc EXCEPT ![c] = "idle"]
  /\ arg' = [arg EXCEPT ![c] = {}]
  /\ seen' = [seen EXCEPT ![c] = {}]
  /\ UNCHANGED bar0_virt

Call(c, value, label, read) ==
  /\ pc[c] = "idle" /\ bar0_virt = "mapped"
  /\ pc' = [pc EXCEPT ![c] = label]
  /\ arg' = [arg EXCEPT ![c] = value]
  /\ seen' = [seen EXCEPT ![c] = read]
  /\ UNCHANGED bar0_virt

\* The history after a step of c in a call, and after its first.
Disturbed(c) == [history EXCEPT !.quiet = @ \cap {c}]
Begun(c) == [history EXCEPT !.quiet = IF Idle(Contexts \ {c}) THEN {c} ELSE {}]

\* h after somebody enters section s, where another call may be, and after a
\* write of c that fixes everything in s and makes up for earlier overlaps.
Enter(h, s) == IF Inside(s) = {} THEN h ELSE [h EXCEPT !.exact = @ \ {s}]
Restore(h, c, s) == IF c \in history.quiet THEN [h EXCEPT !.exact = @ \cup {s}] ELSE h

-----------------------------------------------------------------------------
\* A probe allocates a device, with all fields zero, and initialises it once.
\* (If kzalloc fails nothing changes.)
pcie_sim_mmio_init ==
  /\ bar0_virt = "new" /\ Idle(Contexts)
  /\ bar0_virt' = "mapped"
  /\ reg' = [reg EXCEPT !.status = {"READY"}, !.control = {"ENABLE"}]
  /\ history' = [history EXCEPT !.status = {"READY"}]
  /\ UNCHANGED <<pc, arg, seen>>

\* Callers of the others are gone by then, as for the character device.
pcie_sim_mmio_cleanup ==
  /\ bar0_virt = "mapped" /\ Idle(Contexts)
  /\ bar0_virt' = "freed"
  /\ UNCHANGED <<reg, pc, arg, seen, history>>

-----------------------------------------------------------------------------
\* pcie_sim_mmio_read32(dev, REG_STATUS): without a BAR all bits are 1; else the
\* stored bits are read, then the two atomics.
read_absent(u) ==
  /\ pc[u] = "idle" /\ bar0_virt # "mapped"
  /\ Step(u, "return", StatusBits)
  /\ history' = Begun(u)
  /\ UNCHANGED reg

\* Mutant: a stored PENDING bit shows through.
read_status_unmasked(u) ==
  /\ Call(u, {}, "read_atomics", reg.status \ {"BUSY"})
  /\ history' = Begun(u)
  /\ UNCHANGED reg

read_status(u) ==
  /\ Call(u, {}, "read_atomics", reg.status \ {"BUSY", "PENDING"})
  /\ history' = Begun(u)
  /\ UNCHANGED reg

read_atomics(u) ==
  /\ pc[u] = "read_atomics"
  /\ Step(u, "return", seen[u] \cup (IF dma_active # 0 THEN {"BUSY"} ELSE {})
                               \cup (IF reg.pending_interrupts # 0 THEN {"PENDING"} ELSE {}))
  /\ history' = Disturbed(u)
  /\ UNCHANGED reg

read_return(u) ==
  /\ pc[u] = "return"
  /\ Return(u)
  /\ history' = Disturbed(u)
  /\ UNCHANGED reg

-----------------------------------------------------------------------------
\* pcie_sim_mmio_write32(dev, offset, value), which ignores writes without a BAR.
\* REG_STATUS is stored as it is; the reset bit of REG_CONTROL clears itself.
write_status(u, value) ==
  /\ Call(u, {}, "idle", {})
  /\ reg' = [reg EXCEPT !.status = value]
  /\ history' = [Disturbed(u) EXCEPT
       !.status = value,
       !.exact = IF Inside("status") = {} THEN @ \cup {"status"} ELSE @ \ {"status"}]

write_control(u, value) ==
  /\ Call(u, {}, "idle", {})
  /\ reg' = [reg EXCEPT !.control = value \ {"RESET"}]
  /\ history' = Disturbed(u)

\* REG_INTERRUPT_STATUS
clear_read(u, value) ==
  /\ Call(u, value, "clear_write", reg.irq)
  /\ history' = Enter(Begun(u), "irq")
  /\ UNCHANGED reg

\* Mutant: the pending flag is cleared whatever is left.
clear_write_pending(u) ==
  /\ pc[u] = "clear_write"
  /\ reg' = [reg EXCEPT !.irq = seen[u] \ arg[u]]
  /\ Step(u, "clear_pending", {})
  /\ history' = [Disturbed(u) EXCEPT !.raised = @ \ arg[u]]

clear_write(u) ==
  LET new_status == seen[u] \ arg[u]
  IN  /\ pc[u] = "clear_write"
      /\ reg' = [reg EXCEPT !.irq = new_status]
      /\ IF new_status = {} THEN Step(u, "clear_pending", {}) ELSE Return(u)
      /\ history' = [Disturbed(u) EXCEPT !.raised = @ \ arg[u]]

clear_pending(u) ==
  /\ pc[u] = "clear_pending"
  /\ reg' = [reg EXCEPT !.pending_interrupts = 0]
  /\ Return(u)
  /\ history' = IF arg[u] = Interrupts THEN Restore(Disturbed(u), u, "irq") ELSE Disturbed(u)

\* Mutant: injection is switched on and never off.
inject_flags_on(u, value) ==
  /\ Call(u, value, "inject_write", {})
  /\ reg' = [reg EXCEPT !.simulate_errors = @ \/ value % 256 # 0,
                        !.fault_injection_rate = IF value % 256 # 0 THEN value % 256 ELSE @]
  /\ history' = Enter(Begun(u), "inject")

\* REG_ERROR_INJECT, whose low byte is the rate
inject_flags(u, value) ==
  /\ Call(u, value, "inject_write", {})
  /\ reg' = [reg EXCEPT !.simulate_errors = (value % 256 # 0),
                        !.fault_injection_rate = IF value % 256 # 0 THEN value % 256 ELSE @]
  /\ history' = Enter(Begun(u), "inject")

inject_write(u) ==
  /\ pc[u] = "inject_write"
  /\ reg' = [reg EXCEPT !.inject = arg[u]]
  /\ Return(u)
  /\ history' = Restore(Disturbed(u), u, "inject")

-----------------------------------------------------------------------------
\* pcie_sim_mmio_update_dma(dev, req, success), which raises COMPLETE or ERROR,
\* and does nothing without a BAR.
update_dma(bit) ==
  /\ Call(Engine, {bit}, "status_write", reg.status)
  /\ history' = Enter(Begun(Engine), "status")
  /\ UNCHANGED reg

\* What it makes of the status.
Updated(bits, irq) ==
  (bits \ {"BUSY"}) \cup (IF "ERROR" \in irq THEN {"ERROR"} ELSE {})

update_status ==
  /\ pc[Engine] = "status_write"
  /\ reg' = [reg EXCEPT !.status = Updated(seen[Engine], arg[Engine])]
  /\ Step(Engine, "irq_read", {})
  /\ history' = [Disturbed(Engine) EXCEPT !.status = Updated(@, arg[Engine])]

update_irq_read ==
  /\ pc[Engine] = "irq_read"
  /\ Step(Engine, "irq_write", reg.irq)
  /\ history' = Enter(Disturbed(Engine), "irq")
  /\ UNCHANGED reg

update_irq_write ==
  /\ pc[Engine] = "irq_write"
  /\ reg' = [reg EXCEPT !.irq = seen[Engine] \cup arg[Engine]]
  /\ Step(Engine, "set_pending", {})
  /\ history' = [Disturbed(Engine) EXCEPT !.raised = @ \cup arg[Engine]]

update_pending ==
  /\ pc[Engine] = "set_pending"
  /\ reg' = [reg EXCEPT !.pending_interrupts = 1]
  /\ Return(Engine)
  /\ history' = Disturbed(Engine)

-----------------------------------------------------------------------------
Next ==
  \/ pcie_sim_mmio_init
  \/ pcie_sim_mmio_cleanup
  \/ \E u \in Users :
       \/ read_absent(u) \/ read_status(u) \/ read_atomics(u) \/ read_return(u)
       \/ \E value \in StatusValues : write_status(u, value)
       \/ \E value \in ControlValues : write_control(u, value)
       \/ \E value \in ClearValues : clear_read(u, value)
       \/ clear_write(u) \/ clear_pending(u)
       \/ \E value \in InjectValues : inject_flags(u, value)
       \/ inject_write(u)
  \/ \E bit \in Interrupts : update_dma(bit)
  \/ update_status \/ update_irq_read \/ update_irq_write \/ update_pending

Spec == Init /\ [][Next]_vars

-----------------------------------------------------------------------------
\* As long as no two calls were in the read-modify-write of the interrupt status
\* at once, and again after a write that clears all of it undisturbed, the
\* register holds exactly the interrupts raised and not yet acknowledged, and
\* the pending flag is set exactly when there are some (mmio.c:187-198 against
\* 238-257).  An overlap can lose an interrupt, bring one back, or leave the flag
\* wrong; that never lasts beyond the next undisturbed clear.
InterruptsExact ==
  "irq" \in history.exact /\ Inside("irq") = {} =>
    /\ reg.irq = history.raised
    /\ reg.pending_interrupts = IF history.raised = {} THEN 0 ELSE 1

\* Likewise the status register shows a failure exactly when a transfer failed
\* since it was last written (mmio.c:213 against 229-236), and errors are
\* injected, at the rate written, exactly when the injection register says so
\* (mmio.c:200-213, two steps of which can interleave with another write's).  The
\* reset bit of the control register never reads as 1 (mmio.c:183).
RegistersExact ==
  /\ "status" \in history.exact /\ Inside("status") = {} => reg.status = history.status
  /\ "inject" \in history.exact /\ Inside("inject") = {} =>
       /\ reg.simulate_errors = (reg.inject % 256 # 0)
       /\ reg.simulate_errors => reg.fault_injection_rate = reg.inject % 256
  /\ "RESET" \notin reg.control

\* A read of the status register that nobody disturbed tells whether interrupts
\* wait and whether a transfer has failed, whatever the stored bits are, as long
\* as no update overlapped a write (mmio.c:136-143).
ReadsAreCurrent ==
  \A u \in Users :
    /\ pc[u] = "return" /\ u \in history.quiet /\ bar0_virt = "mapped"
    /\ {"irq", "status"} \subseteq history.exact
    => /\ "PENDING" \in seen[u] <=> history.raised # {}
       /\ "ERROR" \in seen[u] <=> "ERROR" \in history.status
=============================================================================
