-------------------------------- MODULE Ring --------------------------------
(***************************************************************************)
(* One descriptor ring of the kernel module (kernel/ringbuffer.c), used by *)
(* any number of submitting and completing contexts at once.  A call is    *)
(* split where another context can observe or disturb it: the spinlock is  *)
(* taken, the descriptor at the head (or tail) is written, the index and   *)
(* the counters move and the lock is dropped, the call returns.  The ring  *)
(* uses all of its slots: head = tail means empty or full, and only count  *)
(* tells which.                                                            *)
(***************************************************************************)
EXTENDS Integers

CONSTANTS
  Procs,           \* the contexts that call the ring operations
  Requests,        \* buffer address, length and flags of a submission
  Statuses,        \* completion statuses callers pass
  Size,            \* ring->size
  Free,            \* nobody holds the lock; also "no request" after memset
  MaxSubmissions,  \* bound: no call starts beyond this many submissions
  MaxOverruns,     \* bound: no submission starts beyond this many overruns
  MaxTime          \* bound: last value of the clock

ASSUME RingAssumption ==
  /\ Size \in Nat \ {0}
  /\ MaxTime \in Nat
  /\ Free \notin Procs
  /\ Statuses \subseteq Nat

VARIABLES
  descriptors,     \* ring->descriptors
  head,            \* ring->head, the next slot to fill
  tail,            \* ring->tail, the oldest pending slot
  count,           \* ring->count
  lock,            \* who holds ring->lock
  submissions,     \* ring->submissions
  completions,     \* ring->completions
  overruns,        \* ring->overruns
  now,             \* what ktime_get_ns() returns
  pc,              \* where each context is
  req,             \* the request argument of a submission
  status,          \* the status argument of a completion
  ret,             \* what the operation returns
  latency,         \* *latency_ns, filled by a completion
  credit           \* history: the space a context last read, less what was
                   \* submitted since

ringVars == <<descriptors, head, tail, count, lock>>
counters == <<submissions, completions, overruns>>
locals == <<req, status, ret, latency>>
vars == <<ringVars, counters, now, pc, locals, credit>>

Slots == 0 .. (Size - 1)

Pending == 0

\* The return values of the operations.
Ok(v) == [code |-> "ok", val |-> v]
ENOSPC == [code |-> "ENOSPC"]
ENODATA == [code |-> "ENODATA"]
NoAnswer == [code |-> "none"]

Goto(p, l) == pc' = [pc EXCEPT ![p] = l]

-----------------------------------------------------------------------------
\* A successful init_ring: everything zero, the descriptors cleared by memset.
Init ==
  /\ descriptors = [i \in Slots |->
                      [req |-> Free, timestamp |-> 0, status |-> Pending]]
  /\ head = 0 /\ tail = 0 /\ count = 0
  /\ lock = Free
  /\ submissions = 0 /\ completions = 0 /\ overruns = 0
  /\ now = 0
  /\ pc = [p \in Procs |-> "idle"]
  /\ req = [p \in Procs |-> Free]
  /\ status = [p \in Procs |-> Pending]
  /\ ret = [p \in Procs |-> NoAnswer]
  /\ latency = [p \in Procs |-> 0]
  /\ credit = [p \in Procs |-> 0]

\* ktime_get_ns() is monotonic.
Tick ==
  /\ now < MaxTime
  /\ now' = now + 1
  /\ UNCHANGED <<ringVars, counters, pc, locals, credit>>

\* spin_lock_irqsave.
Acquire(p, from, to) ==
  /\ pc[p] = from
  /\ lock = Free
  /\ lock' = p
  /\ Goto(p, to)
  /\ UNCHANGED <<descriptors, head, tail, count, counters, now, locals, credit>>

-----------------------------------------------------------------------------
\* pcie_sim_ring_submit: the call, with its arguments.
ring_submit(p, r) ==
  /\ pc[p] = "idle"
  /\ submissions < MaxSubmissions /\ overruns < MaxOverruns
  /\ req' = [req EXCEPT ![p] = r]
  /\ Goto(p, "submit")
  /\ UNCHANGED <<ringVars, counters, now, status, ret, latency, credit>>

ring_submit_lock(p) == Acquire(p, "submit", "submit_check")

\* Mutant: the early return forgets to unlock.
ring_submit_overrun_locked(p) ==
  /\ pc[p] = "submit_check"
  /\ count >= Size
  /\ overruns' = overruns + 1
  /\ ret' = [ret EXCEPT ![p] = ENOSPC]
  /\ Goto(p, "return")
  /\ UNCHANGED <<ringVars, submissions, completions, now, req, status, latency,
                 credit>>

\* No space: count the overrun, unlock, -ENOSPC.
ring_submit_overrun(p) ==
  /\ pc[p] = "submit_check"
  /\ count >= Size
  /\ overruns' = overruns + 1
  /\ lock' = Free
  /\ ret' = [ret EXCEPT ![p] = ENOSPC]
  /\ Goto(p, "return")
  /\ UNCHANGED <<descriptors, head, tail, count, submissions, completions, now,
                 req, status, latency, credit>>

\* Mutant: the check for space is off by one, and a full ring takes one more.
ring_submit_fill_full(p) ==
  /\ pc[p] = "submit_check"
  /\ count <= Size
  /\ descriptors' = [descriptors EXCEPT ![head] =
                       [req |-> req[p], timestamp |-> now, status |-> Pending]]
  /\ Goto(p, "submit_advance")
  /\ UNCHANGED <<head, tail, count, lock, counters, now, locals, credit>>

\* Space: fill the descriptor at the head, stamped with the current time.
ring_submit_fill(p) ==
  /\ pc[p] = "submit_check"
  /\ count < Size
  /\ descriptors' = [descriptors EXCEPT ![head] =
                       [req |-> req[p], timestamp |-> now, status |-> Pending]]
  /\ Goto(p, "submit_advance")
  /\ UNCHANGED <<head, tail, count, lock, counters, now, locals, credit>>

\* What a submission takes from every space reading made before it.
Spend(c) == IF c > 0 THEN c - 1 ELSE 0

\* Mutant: the head wraps one slot late.
ring_submit_advance_late_wrap(p) ==
  /\ pc[p] = "submit_advance"
  /\ head' = IF head = Size - 1 THEN 1 % Size ELSE head + 1
  /\ count' = count + 1
  /\ submissions' = submissions + 1
  /\ lock' = Free
  /\ ret' = [ret EXCEPT ![p] = Ok(0)]
  /\ credit' = [c \in Procs |-> Spend(credit[c])]
  /\ Goto(p, "return")
  /\ UNCHANGED <<descriptors, tail, completions, overruns, now, req, status, latency>>

\* Advance the head, count the submission, unlock, return 0.
ring_submit_advance(p) ==
  /\ pc[p] = "submit_advance"
  /\ head' = (head + 1) % Size
  /\ count' = count + 1
  /\ submissions' = submissions + 1
  /\ lock' = Free
  /\ ret' = [ret EXCEPT ![p] = Ok(0)]
  /\ credit' = [c \in Procs |-> Spend(credit[c])]
  /\ Goto(p, "return")
  /\ UNCHANGED <<descriptors, tail, completions, overruns, now, req, status, latency>>

-----------------------------------------------------------------------------
\* pcie_sim_ring_complete: the call, with the status to record.
ring_complete(p, s) ==
  /\ pc[p] = "idle"
  /\ status' = [status EXCEPT ![p] = s]
  /\ Goto(p, "complete")
  /\ UNCHANGED <<ringVars, counters, now, req, ret, latency, credit>>

ring_complete_lock(p) == Acquire(p, "complete", "complete_check")

\* Nothing pending: unlock, -ENODATA.
ring_complete_empty(p) ==
  /\ pc[p] = "complete_check"
  /\ count = 0
  /\ lock' = Free
  /\ ret' = [ret EXCEPT ![p] = ENODATA]
  /\ Goto(p, "return")
  /\ UNCHANGED <<descriptors, head, tail, count, counters, now, req, status,
                 latency, credit>>

\* Mutant: the completion time is written over the submission time.
ring_complete_read_restamped(p) ==
  /\ pc[p] = "complete_check"
  /\ count # 0
  /\ ret' = [ret EXCEPT ![p] = Ok(descriptors[tail].req)]
  /\ latency' = [latency EXCEPT ![p] = now - descriptors[tail].timestamp]
  /\ descriptors' = [descriptors EXCEPT ![tail].status = status[p], ![tail].timestamp = now]
  /\ Goto(p, "complete_advance")
  /\ UNCHANGED <<head, tail, count, lock, counters, now, req, status, credit>>

\* Hand out length and latency of the oldest descriptor and mark it.
ring_complete_read(p) ==
  /\ pc[p] = "complete_check"
  /\ count # 0
  /\ ret' = [ret EXCEPT ![p] = Ok(descriptors[tail].req)]
  /\ latency' = [latency EXCEPT ![p] = now - descriptors[tail].timestamp]
  /\ descriptors' = [descriptors EXCEPT ![tail].status = status[p]]
  /\ Goto(p, "complete_advance")
  /\ UNCHANGED <<head, tail, count, lock, counters, now, req, status, credit>>

\* Mutant: the completion does not give its entry back.
ring_complete_advance_uncounted(p) ==
  /\ pc[p] = "complete_advance"
  /\ tail' = (tail + 1) % Size
  /\ completions' = completions + 1
  /\ lock' = Free
  /\ Goto(p, "return")
  /\ UNCHANGED <<descriptors, head, count, submissions, overruns, now, locals, credit>>

\* Advance the tail, count the completion, unlock, return 0.
ring_complete_advance(p) ==
  /\ pc[p] = "complete_advance"
  /\ tail' = (tail + 1) % Size
  /\ count' = count - 1
  /\ completions' = completions + 1
  /\ lock' = Free
  /\ Goto(p, "return")
  /\ UNCHANGED <<descriptors, head, submissions, overruns, now, locals, credit>>

-----------------------------------------------------------------------------
\* pcie_sim_ring_space: one atomic read without the lock (ring_count is its
\* complement).
ring_space_call(p) ==
  /\ pc[p] = "idle"
  /\ Goto(p, "space")
  /\ UNCHANGED <<ringVars, counters, now, locals, credit>>

\* Mutant: the free entries are computed from the indices, which cannot tell
\* a full ring from an empty one.
ring_space_by_index(p) ==
  /\ pc[p] = "space"
  /\ ret' = [ret EXCEPT ![p] = Ok(Size - ((head + Size - tail) % Size))]
  /\ credit' = [credit EXCEPT ![p] = Size - ((head + Size - tail) % Size)]
  /\ Goto(p, "return")
  /\ UNCHANGED <<ringVars, counters, now, req, status, latency>>

ring_space(p) ==
  /\ pc[p] = "space"
  /\ ret' = [ret EXCEPT ![p] = Ok(Size - count)]
  /\ credit' = [credit EXCEPT ![p] = Size - count]
  /\ Goto(p, "return")
  /\ UNCHANGED <<ringVars, counters, now, req, status, latency>>

\* The call returns; its arguments and results are forgotten.
Return(p) ==
  /\ pc[p] = "return"
  /\ Goto(p, "idle")
  /\ req' = [req EXCEPT ![p] = Free]
  /\ status' = [status EXCEPT ![p] = Pending]
  /\ ret' = [ret EXCEPT ![p] = NoAnswer]
  /\ latency' = [latency EXCEPT ![p] = 0]
  /\ UNCHANGED <<ringVars, counters, now, credit>>

-----------------------------------------------------------------------------
Submitting(p) ==
  \/ ring_submit_overrun(p)
  \/ ring_submit_fill(p)
  \/ ring_submit_advance(p)

Completing(p) ==
  \/ ring_complete_empty(p)
  \/ ring_complete_read(p)
  \/ ring_complete_advance(p)

Locking(p) ==
  \/ ring_submit_lock(p)
  \/ ring_complete_lock(p)

Calling(p) ==
  \/ \E r \in Requests : ring_submit(p, r)
  \/ \E s \in Statuses : ring_complete(p, s)
  \/ ring_space_call(p)

Next ==
  \/ Tick
  \/ \E p \in Procs :
       \/ Calling(p)
       \/ Locking(p)
       \/ Submitting(p)
       \/ Completing(p)
       \/ ring_space(p)
       \/ Return(p)

Spec == Init /\ [][Next]_vars

\* A context inside an operation keeps running, and the kernel's queued
\* spinlock serves every context that waits for it.
Fairness ==
  \A p \in Procs :
    /\ SF_vars(Locking(p))
    /\ WF_vars(Submitting(p) \/ Completing(p) \/ ring_space(p) \/ Return(p))

FairSpec == Spec /\ Fairness

-----------------------------------------------------------------------------
TypeOK ==
  /\ descriptors \in [Slots -> [req : Requests \cup {Free},
                                timestamp : 0 .. MaxTime,
                                status : Statuses \cup {Pending}]]
  /\ head \in Slots /\ tail \in Slots /\ count \in 0 .. Size
  /\ lock \in Procs \cup {Free}
  /\ submissions \in Nat /\ completions \in Nat /\ overruns \in Nat
  /\ now \in 0 .. MaxTime
  /\ pc \in [Procs -> {"idle", "return", "space",
                       "submit", "submit_check", "submit_advance",
                       "complete", "complete_check", "complete_advance"}]
  /\ req \in [Procs -> Requests \cup {Free}]
  /\ status \in [Procs -> Statuses \cup {Pending}]
  /\ ret \in [Procs -> {NoAnswer, ENOSPC, ENODATA}
                       \cup {Ok(v) : v \in Requests \cup {Free} \cup 0 .. Size}]
  /\ latency \in [Procs -> 0 .. MaxTime]
  /\ credit \in [Procs -> 0 .. Size]

\* The slot of the k-th pending descriptor, the oldest being number 0.
Slot(k) == (tail + k) % Size

\* The producer and consumer indices, the entry count and the statistics of a
\* ring always agree: the head is count slots past the tail, and what was
\* submitted and not completed is what is pending (ringbuffer.c:131-137 and
\* 178-183 move them).
RingIndices ==
  /\ head = Slot(count)
  /\ count = submissions - completions

\* What a step leaves of the descriptors that are pending before it: request and
\* time of each, and the status, except that a completer marks the oldest one.
KeepsPending ==
  \A k \in 0 .. (count - 1) :
    /\ descriptors'[Slot(k)].req = descriptors[Slot(k)].req
    /\ descriptors'[Slot(k)].timestamp = descriptors[Slot(k)].timestamp
    /\ \/ descriptors'[Slot(k)].status = descriptors[Slot(k)].status
       \/ k = 0 /\ \E p \in Procs : pc[p] = "complete_check"

\* A pending descriptor is not overwritten before its completion: whatever is
\* submitted or completed meanwhile, and however often the indices wrap around,
\* its request and its time stay what its submission wrote, and its status
\* changes only when it is the oldest one and is completed (ringbuffer.c:117-129
\* fill the slot at the head, 170-176 hand out and mark the one at the tail).
PendingIntact == [][KeepsPending]_vars

\* Only the oldest pending descriptor carries a completion status, and only
\* while a completer is between marking it (ringbuffer.c:176) and moving the
\* tail (179).
OnlyOldestMarked ==
  \A k \in 0 .. (count - 1) :
    descriptors[Slot(k)].status # Pending =>
      k = 0 /\ \E p \in Procs : pc[p] = "complete_advance"

\* Submission times never decrease from the tail to the head, and none lies in
\* the future, so that completion_time - desc->timestamp (ringbuffer.c:173)
\* cannot wrap around: the time is read under the lock.
TimestampsOrdered ==
  \A j, k \in 0 .. (count - 1) :
    j <= k => /\ descriptors[Slot(j)].timestamp <= descriptors[Slot(k)].timestamp
              /\ descriptors[Slot(k)].timestamp <= now

\* Where a context holds the lock.
Critical == {"submit_check", "submit_advance", "complete_check", "complete_advance"}

\* What a context established under the lock is still true when it acts on it:
\* exactly the lock holder is inside, the slot that passed the check for space
\* (ringbuffer.c:117) is still free and holds the newest descriptor when the
\* head moves, and the request handed out (170-173) is still the oldest one
\* when the tail moves.
CheckedStaysTrue ==
  \A p \in Procs :
    /\ pc[p] \in Critical <=> lock = p
    /\ pc[p] = "submit_advance" =>
         /\ count < Size
         /\ descriptors[head].req = req[p]
         /\ descriptors[head].status = Pending
         /\ descriptors[head].timestamp <= now
         /\ \A k \in 0 .. (count - 1) :
              descriptors[Slot(k)].timestamp <= descriptors[head].timestamp
    /\ pc[p] = "complete_advance" =>
         /\ count > 0
         /\ ret[p] = Ok(descriptors[tail].req)

\* A reading of pcie_sim_ring_space is made without the lock and is stale at
\* once, but it stays a promise: after n free entries were read, the next n
\* submissions by anyone find space (completions only add some).
SpaceIsPromised == \A p \in Procs : credit[p] <= Size - count

\* Refinement: the queue a ring holds is what its slots hold from the tail on,
\* and an operation takes effect when it moves an index or reads the count.
RingCall(p) ==
  CASE pc[p] = "idle" -> [op |-> "idle"]
    [] pc[p] = "return" -> [op |-> "returning"]
    [] pc[p] = "space" -> [op |-> "space"]
    [] pc[p] \in {"submit", "submit_check", "submit_advance"} ->
         [op |-> "submit", req |-> req[p]]
    [] pc[p] \in {"complete", "complete_check", "complete_advance"} ->
         [op |-> "complete"]

PendingRequests == [i \in 1 .. count |-> descriptors[Slot(i - 1)].req]

RingAnswer(p) == IF pc[p] = "return" THEN ret[p] ELSE NoAnswer

Calls == [p \in Procs |-> RingCall(p)]
Answers == [p \in Procs |-> RingAnswer(p)]

Queue == INSTANCE BoundedQueue WITH
  Capacity <- Size,
  queue <- PendingRequests,
  call <- Calls,
  answer <- Answers

\* The ring implements a bounded first-in first-out queue whose operations are
\* atomic: no request is lost, duplicated, overtaken or handed to two
\* completers, -ENOSPC is returned only when Size requests are pending and
\* -ENODATA only when none is (ringbuffer.c:108-192).
ImplementsQueue == Queue!Spec

\* Every ring operation returns: the lock is released on each path through
\* ringbuffer.c:108-192, the early returns included.
CallsReturn == \A p \in Procs : pc[p] # "idle" ~> pc[p] = "idle"
=============================================================================
