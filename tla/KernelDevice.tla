---------------------------- MODULE KernelDevice ----------------------------
(***************************************************************************)
(* One probed device of the kernel module, seen from user space: ioctls on *)
(* the character device (kernel/chardev.c), the transfer they start        *)
(* (kernel/dma.c), and reads of /proc/pcie_simN/stats (kernel/procfs.c).   *)
(* dev->mutex serialises the ioctls; the proc file is read without it, so  *)
(* the statistics are written field by field here, as the code does.       *)
(***************************************************************************)
EXTENDS Integers, Sequences

CONSTANTS
  Users,         \* processes that issue ioctls
  Readers,       \* processes that read the proc file
  Issued,        \* the commands those processes issue
  Requests,      \* transfer requests: buffer, size and direction
  Latencies,     \* ktime differences across simulate_transfer_delay
  MaxSize,       \* MAX_TRANSFER_SIZE
  Nobody,        \* holder of a free mutex; no request
  MaxTransfers,  \* bound: no transfer starts beyond this many transfers ...
  MaxErrors      \* ... or errors in the statistics

\* The commands of common.h, and one with another magic number.
Commands == {"TRANSFER", "GET_STATS", "RESET_STATS", "SET_ERROR", "FOREIGN"}

\* A transfer takes at least the base delay of 10 microseconds.
ASSUME KernelAssumption ==
  /\ Issued \subseteq Commands
  /\ Latencies \subseteq Nat \ {0}
  /\ MaxSize \in Nat \ {0}
  /\ Requests \subseteq [buffer : {"null", "user"}, size : Nat, direction : Nat]
  /\ Nobody \notin Users
  /\ Users \cap Readers = {}

VARIABLES
  stats,         \* dev->stats
  mutex,         \* who holds dev->mutex
  pc,            \* where each user is
  cmd,           \* the ioctl command of a user
  req,           \* its transfer request
  lat,           \* its latency_ns
  clear,         \* the fields its memset has still to clear
  ret,           \* what its ioctl returns
  seen,          \* what each reader of the proc file has read so far
  committed      \* history: the statistics when the mutex was last free

locals == <<cmd, req, lat, clear>>
vars == <<stats, mutex, pc, locals, ret, seen, committed>>

Fields == {"transfers", "bytes", "errors", "avg", "min", "max"}
Zero == [f \in Fields |-> 0]
MinSize == 1

Ok(v) == [code |-> "ok", val |-> v]
OkStats(s) == [code |-> "ok", stats |-> s]
Error(e) == [code |-> e]
NoAnswer == [code |-> "none"]

Goto(p, l) == pc' = [pc EXCEPT ![p] = l]
Answer(p, a) == ret' = [ret EXCEPT ![p] = a]

-----------------------------------------------------------------------------
\* pcie_sim_probe has zeroed the statistics.
Init ==
  /\ stats = Zero
  /\ mutex = Nobody
  /\ pc = [p \in Users |-> "idle"]
  /\ cmd = [p \in Users |-> "none"]
  /\ req = [p \in Users |-> Nobody]
  /\ lat = [p \in Users |-> 0]
  /\ clear = [p \in Users |-> {}]
  /\ ret = [p \in Users |-> NoAnswer]
  /\ seen = [r \in Readers |-> <<>>]
  /\ committed = Zero

\* A call of pcie_sim_char_ioctl.
pcie_sim_char_ioctl(p, c, r) ==
  /\ pc[p] = "idle"
  /\ c = "TRANSFER" => stats["transfers"] < MaxTransfers /\ stats["errors"] < MaxErrors
  /\ cmd' = [cmd EXCEPT ![p] = c]
  /\ req' = [req EXCEPT ![p] = IF c = "TRANSFER" THEN r ELSE Nobody]
  /\ Goto(p, "enter")
  /\ UNCHANGED <<stats, mutex, lat, clear, ret, seen, committed>>

\* The wrong magic number.
ioctl_bad_magic(p) ==
  /\ pc[p] = "enter" /\ cmd[p] = "FOREIGN"
  /\ Answer(p, Error("EINVAL"))
  /\ Goto(p, "return")
  /\ UNCHANGED <<stats, mutex, locals, seen, committed>>

\* Mutant: the ioctl does not wait for the mutex.
ioctl_lock_missing(p) ==
  /\ pc[p] = "enter" /\ cmd[p] # "FOREIGN"
  /\ mutex' = p
  /\ Goto(p, "switch")
  /\ UNCHANGED <<stats, locals, ret, seen, committed>>

\* mutex_lock_interruptible gets the mutex ...
ioctl_lock(p) ==
  /\ pc[p] = "enter" /\ cmd[p] # "FOREIGN"
  /\ mutex = Nobody
  /\ mutex' = p
  /\ Goto(p, "switch")
  /\ UNCHANGED <<stats, locals, ret, seen, committed>>

\* ... or is interrupted by a signal while it waits.
ioctl_interrupted(p) ==
  /\ pc[p] = "enter" /\ cmd[p] # "FOREIGN"
  /\ Answer(p, Error("ERESTARTSYS"))
  /\ Goto(p, "return")
  /\ UNCHANGED <<stats, mutex, locals, seen, committed>>

-----------------------------------------------------------------------------
\* PCIE_SIM_IOC_TRANSFER: the request cannot be copied in.
transfer_copy_in_fault(p) ==
  /\ pc[p] = "switch" /\ cmd[p] = "TRANSFER"
  /\ Answer(p, Error("EFAULT"))
  /\ Goto(p, "unlock")
  /\ UNCHANGED <<stats, mutex, locals, seen, committed>>

validate_transfer_request(r) ==
  /\ r.buffer # "null"
  /\ r.size >= MinSize /\ r.size <= MaxSize
  /\ r.direction <= 1

\* pcie_sim_dma_transfer: an invalid request, no kernel buffer, or a user
\* buffer that cannot be copied (before or after the delay).
dma_transfer_error(p) ==
  /\ pc[p] = "switch" /\ cmd[p] = "TRANSFER"
  /\ IF validate_transfer_request(req[p])
     THEN \E e \in {"ENOMEM", "EFAULT"} : Answer(p, Error(e))
     ELSE Answer(p, Error("EINVAL"))
  /\ Goto(p, "errors")
  /\ UNCHANGED <<stats, mutex, locals, seen, committed>>

\* The data is copied, the delay passes, the latency is measured.
dma_transfer(p) ==
  /\ pc[p] = "switch" /\ cmd[p] = "TRANSFER"
  /\ validate_transfer_request(req[p])
  /\ \E l \in Latencies : lat' = [lat EXCEPT ![p] = l]
  /\ Goto(p, "transfers")
  /\ UNCHANGED <<stats, mutex, cmd, req, clear, ret, seen, committed>>

\* The assignments of update_transfer_stats, each on its own.
Failed(s) == [s EXCEPT !["errors"] = @ + 1]
Counted(s) == [s EXCEPT !["transfers"] = @ + 1]

Added(s, n) == [s EXCEPT !["bytes"] = @ + n]

\* Mutant: the minimum has no special case for the first transfer.
WithMin_unset(s, l) == [s EXCEPT !["min"] = IF l < @ THEN l ELSE @]

WithMin(s, l) == [s EXCEPT !["min"] = IF @ = 0 \/ l < @ THEN l ELSE @]
WithMax(s, l) == [s EXCEPT !["max"] = IF l > @ THEN l ELSE @]
WithAvg(s, l) == [s EXCEPT !["avg"] = (@ + l) \div 2]

\* Statistics s after a successful transfer of n bytes in time l.
Account(s, n, l) == WithAvg(WithMax(WithMin(Added(Counted(s), n), l), l), l)

\* One step of update_transfer_stats, visible to readers of the proc file.
Update(p, from, s, to) ==
  /\ pc[p] = from
  /\ stats' = s
  /\ Goto(p, to)
  /\ UNCHANGED <<mutex, locals, ret, seen, committed>>

update_errors(p) == Update(p, "errors", Failed(stats), "unlock")
update_transfers(p) == Update(p, "transfers", Counted(stats), "bytes")
update_bytes(p) == Update(p, "bytes", Added(stats, req[p].size), "min")
update_min(p) == Update(p, "min", WithMin(stats, lat[p]), "max")
update_max(p) == Update(p, "max", WithMax(stats, lat[p]), "avg")
update_avg(p) == Update(p, "avg", WithAvg(stats, lat[p]), "copy_out")

\* The latency is returned; the transfer stays counted when that fails.
transfer_copy_out(p) ==
  /\ pc[p] = "copy_out"
  /\ Answer(p, Ok(lat[p])) \/ Answer(p, Error("EFAULT"))
  /\ Goto(p, "unlock")
  /\ UNCHANGED <<stats, mutex, locals, seen, committed>>

-----------------------------------------------------------------------------
\* PCIE_SIM_IOC_GET_STATS: the statistics are copied out under the mutex.
ioctl_get_stats(p) ==
  /\ pc[p] = "switch" /\ cmd[p] = "GET_STATS"
  /\ Answer(p, OkStats(stats)) \/ Answer(p, Error("EFAULT"))
  /\ Goto(p, "unlock")
  /\ UNCHANGED <<stats, mutex, locals, seen, committed>>

\* PCIE_SIM_IOC_RESET_STATS: memset clears the fields in no guaranteed order.
ioctl_reset_stats(p) ==
  /\ pc[p] = "switch" /\ cmd[p] = "RESET_STATS"
  /\ clear' = [clear EXCEPT ![p] = Fields]
  /\ Goto(p, "memset")
  /\ UNCHANGED <<stats, mutex, cmd, req, lat, ret, seen, committed>>

memset_field(p) ==
  /\ pc[p] = "memset"
  /\ \E f \in clear[p] :
       /\ stats' = [stats EXCEPT ![f] = 0]
       /\ clear' = [clear EXCEPT ![p] = @ \ {f}]
  /\ UNCHANGED <<mutex, pc, cmd, req, lat, ret, seen, committed>>

\* Mutant: the mutex is released while fields are still to be cleared.
memset_done_early(p) ==
  /\ pc[p] = "memset"
  /\ clear' = [clear EXCEPT ![p] = {}]
  /\ Answer(p, Ok(0))
  /\ Goto(p, "unlock")
  /\ UNCHANGED <<stats, mutex, cmd, req, lat, seen, committed>>

memset_done(p) ==
  /\ pc[p] = "memset"
  /\ clear[p] = {}
  /\ Answer(p, Ok(0))
  /\ Goto(p, "unlock")
  /\ UNCHANGED <<stats, mutex, locals, seen, committed>>

\* Any other command, PCIE_SIM_IOC_SET_ERROR included.
ioctl_default(p) ==
  /\ pc[p] = "switch" /\ cmd[p] = "SET_ERROR"
  /\ Answer(p, Error("ENOTTY"))
  /\ Goto(p, "unlock")
  /\ UNCHANGED <<stats, mutex, locals, seen, committed>>

\* Mutant: an error leaves the ioctl without unlocking.
ioctl_unlock_on_success(p) ==
  /\ pc[p] = "unlock"
  /\ mutex' = IF ret[p].code = "ok" THEN Nobody ELSE mutex
  /\ committed' = stats
  /\ Goto(p, "return")
  /\ UNCHANGED <<stats, locals, ret, seen>>

\* mutex_unlock, on every path that locked.
ioctl_unlock(p) ==
  /\ pc[p] = "unlock"
  /\ mutex' = Nobody
  /\ committed' = stats
  /\ Goto(p, "return")
  /\ UNCHANGED <<stats, locals, ret, seen>>

\* The ioctl returns to user space.
ioctl_return(p) ==
  /\ pc[p] = "return"
  /\ Goto(p, "idle")
  /\ cmd' = [cmd EXCEPT ![p] = "none"]
  /\ req' = [req EXCEPT ![p] = Nobody]
  /\ lat' = [lat EXCEPT ![p] = 0]
  /\ Answer(p, NoAnswer)
  /\ UNCHANGED <<stats, mutex, clear, seen, committed>>

-----------------------------------------------------------------------------
\* The statistics proc_stats_show reads, in its order.  (Those that it reads
\* again for a test or a derived figure are read once here.)
ProcReads == <<"transfers", "bytes", "errors", "avg", "min", "max">>

\* proc_stats_show reads its next field, without the mutex.
proc_stats_show(r) ==
  /\ Len(seen[r]) < Len(ProcReads)
  /\ seen' = [seen EXCEPT ![r] = Append(@, stats[ProcReads[Len(@) + 1]])]
  /\ UNCHANGED <<stats, mutex, pc, locals, ret, committed>>

proc_stats_done(r) ==
  /\ Len(seen[r]) = Len(ProcReads)
  /\ seen' = [seen EXCEPT ![r] = <<>>]
  /\ UNCHANGED <<stats, mutex, pc, locals, ret, committed>>

-----------------------------------------------------------------------------
Transferring(p) ==
  \/ transfer_copy_in_fault(p)
  \/ dma_transfer_error(p)
  \/ dma_transfer(p)
  \/ transfer_copy_out(p)

Accounting(p) ==
  \/ update_errors(p)
  \/ update_transfers(p)
  \/ update_bytes(p)
  \/ update_min(p)
  \/ update_max(p)
  \/ update_avg(p)

Resetting(p) ==
  \/ ioctl_reset_stats(p)
  \/ memset_field(p)
  \/ memset_done(p)

Running(p) ==
  \/ Transferring(p)
  \/ Accounting(p)
  \/ ioctl_get_stats(p)
  \/ Resetting(p)
  \/ ioctl_default(p)
  \/ ioctl_bad_magic(p)
  \/ ioctl_unlock(p)
  \/ ioctl_return(p)

Next ==
  \/ \E p \in Users :
       \/ \E c \in Issued, r \in Requests : pcie_sim_char_ioctl(p, c, r)
       \/ ioctl_lock(p)
       \/ ioctl_interrupted(p)
       \/ Running(p)
  \/ \E r \in Readers : proc_stats_show(r) \/ proc_stats_done(r)

Spec == Init /\ [][Next]_vars

\* A process in the driver keeps running, and the mutex is handed to a waiter
\* that would otherwise starve.  No signal needs to arrive.
Fairness ==
  \A p \in Users : WF_vars(Running(p)) /\ SF_vars(ioctl_lock(p))

FairSpec == Spec /\ Fairness

-----------------------------------------------------------------------------
Labels == {"idle", "enter", "switch", "errors", "transfers", "bytes", "min", "max",
           "avg", "copy_out", "memset", "unlock", "return"}
ErrorCodes == {"EINVAL", "ERESTARTSYS", "EFAULT", "ENOMEM", "ENOTTY"}

AnswerOK(p) ==
  IF cmd[p] = "GET_STATS" /\ ret[p].code = "ok"
  THEN ret[p] = OkStats(ret[p].stats) /\ ret[p].stats \in [Fields -> Nat]
  ELSE ret[p] \in {NoAnswer, Ok(0), Ok(lat[p])} \cup {Error(e) : e \in ErrorCodes}

TypeOK ==
  /\ stats \in [Fields -> Nat] /\ committed \in [Fields -> Nat]
  /\ mutex \in Users \cup {Nobody}
  /\ pc \in [Users -> Labels]
  /\ cmd \in [Users -> Commands \cup {"none"}]
  /\ req \in [Users -> Requests \cup {Nobody}]
  /\ lat \in [Users -> Latencies \cup {0}]
  /\ clear \in [Users -> SUBSET Fields]
  /\ seen \in [Readers -> Seq(Nat)]
  /\ \A r \in Readers : Len(seen[r]) <= Len(ProcReads)
  /\ DOMAIN ret = Users /\ \A p \in Users : AnswerOK(p)

\* Where a user holds the mutex.
Holding == Labels \ {"idle", "enter", "return"}

\* What the statistics and the answer are when the mutex is about to be
\* released, in terms of the statistics when it was taken.
Outcome(p) ==
  \/ /\ cmd[p] = "TRANSFER"
     /\ \/ /\ stats = Account(committed, req[p].size, lat[p])
           /\ lat[p] \in Latencies
           /\ validate_transfer_request(req[p])
           /\ ret[p] \in {Ok(lat[p]), Error("EFAULT")}
        \/ /\ stats = Failed(committed)
           /\ ret[p] \in {Error("EINVAL"), Error("ENOMEM"), Error("EFAULT")}
        \/ stats = committed /\ ret[p] = Error("EFAULT")
  \/ /\ cmd[p] = "GET_STATS"
     /\ stats = committed
     /\ ret[p] \in {OkStats(committed), Error("EFAULT")}
  \/ cmd[p] = "RESET_STATS" /\ stats = Zero /\ ret[p] = Ok(0)
  \/ cmd[p] = "SET_ERROR" /\ stats = committed /\ ret[p] = Error("ENOTTY")

\* The transfer under way and how far it has been accounted.
AccountedTo(p) ==
  /\ cmd[p] = "TRANSFER"
  /\ lat[p] \in Latencies /\ validate_transfer_request(req[p])
  /\ LET n == req[p].size
         l == lat[p]
     IN  CASE pc[p] = "transfers" -> stats = committed
           [] pc[p] = "bytes" -> stats = Counted(committed)
           [] pc[p] = "min" -> stats = Added(Counted(committed), n)
           [] pc[p] = "max" -> stats = WithMin(Added(Counted(committed), n), l)
           [] pc[p] = "avg" -> stats = WithMax(WithMin(Added(Counted(committed), n), l), l)
           [] pc[p] = "copy_out" -> stats = Account(committed, n, l)

\* What the user inside the mutex has done to the statistics so far.
Progress(p) ==
  /\ pc[p] = "switch" => stats = committed
  /\ pc[p] = "errors" =>
       /\ stats = committed /\ cmd[p] = "TRANSFER"
       /\ ret[p] \in {Error("EINVAL"), Error("ENOMEM"), Error("EFAULT")}
  /\ pc[p] \in {"transfers", "bytes", "min", "max", "avg", "copy_out"} => AccountedTo(p)
  /\ pc[p] = "memset" =>
       /\ cmd[p] = "RESET_STATS"
       /\ \A f \in Fields \ clear[p] : stats[f] = 0
  /\ pc[p] = "unlock" => Outcome(p)

\* At every instant the mutex is free and the statistics are those of the last
\* release, or exactly one ioctl is inside and the statistics are the last
\* released ones with the first assignments of that ioctl applied, on each path
\* through chardev.c:77-116 and dma.c:113-188.
OneWriterAtATime ==
  /\ mutex = Nobody => stats = committed
  /\ \A p \in Users : (pc[p] \in Holding <=> mutex = p) /\ Progress(p)

\* What any consistent statistics satisfy: the bytes are those of that many
\* transfers within the size limits (dma.c:46), the latency fields are unset
\* exactly when nothing was transferred, and the average lies between half the
\* minimum and the maximum (dma.c:73-81; it starts at half the first latency).
Consistent(s) ==
  /\ s["transfers"] * MinSize <= s["bytes"] /\ s["bytes"] <= s["transfers"] * MaxSize
  /\ s["transfers"] = 0 => s["min"] = 0 /\ s["max"] = 0 /\ s["avg"] = 0
  /\ s["transfers"] > 0 =>
       /\ 0 < s["min"] /\ s["min"] <= s["max"]
       /\ s["min"] \div 2 <= s["avg"] /\ s["avg"] <= s["max"]

\* Whatever mix of transfers, failures and resets other processes run, the
\* statistics PCIE_SIM_IOC_GET_STATS returns (chardev.c:99-102) are consistent,
\* and so are the device's whenever the mutex is free.
SnapshotsConsistent ==
  /\ Consistent(committed)
  /\ \A p \in Users :
       cmd[p] = "GET_STATS" /\ ret[p].code = "ok" => Consistent(ret[p].stats)

\* Refinement: an ioctl takes effect when it releases the mutex, or when it
\* fails without ever taking it.
IoctlCall(p) ==
  CASE pc[p] = "idle" -> [op |-> "idle"]
    [] pc[p] = "return" -> [op |-> "returning"]
    [] pc[p] \notin {"idle", "return"} ->
         CASE cmd[p] = "TRANSFER" -> [op |-> "transfer", size |-> req[p].size]
           [] cmd[p] = "GET_STATS" -> [op |-> "get"]
           [] cmd[p] = "RESET_STATS" -> [op |-> "reset"]
           [] cmd[p] \in {"SET_ERROR", "FOREIGN"} -> [op |-> "other"]

IoctlAnswer(p) == IF pc[p] = "return" THEN ret[p] ELSE NoAnswer

Calls == [p \in Users |-> IoctlCall(p)]
Answers == [p \in Users |-> IoctlAnswer(p)]

Device == INSTANCE StatsObject WITH
  Procs <- Users,
  Sizes <- {r.size : r \in Requests},
  Errors <- ErrorCodes,
  stats <- committed,
  call <- Calls,
  answer <- Answers

\* The ioctls of a device implement an atomic statistics object: dev->mutex
\* makes each of them take effect at one instant, error paths included
\* (chardev.c:63-117).
ImplementsStatsObject == Device!Spec

\* Every ioctl returns: each path that takes dev->mutex releases it
\* (chardev.c:78-116).
IoctlsReturn == \A p \in Users : pc[p] # "idle" ~> pc[p] = "idle"

\* Reading the proc file races with the one transfer under way and with no
\* more: as long as nobody resets the statistics, the bytes reported lack at
\* most one of the transfers reported, and the minimum reported exceeds the
\* maximum only before the first transfer has set it (the order of the writes
\* in dma.c:70-81 and of the reads in procfs.c:45-46 and 74-83).
ProcLagsByOneTransfer ==
  \A r \in Readers :
    /\ Len(seen[r]) >= 2 => (seen[r][1] - 1) * MinSize <= seen[r][2]
    /\ Len(seen[r]) = 6 => seen[r][6] = 0 \/ seen[r][5] <= seen[r][6]

-----------------------------------------------------------------------------
\* The counters a reader of the proc file reports belong together, so that the
\* bytes of every transfer reported are reported too: "Read statistics
\* atomically" (procfs.c:44).
ProcCountersBelongTogether ==
  \A r \in Readers : Len(seen[r]) >= 2 => seen[r][1] * MinSize <= seen[r][2]
=============================================================================
