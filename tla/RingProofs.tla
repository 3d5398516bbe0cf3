----------------------------- MODULE RingProofs -----------------------------
(***************************************************************************)
(* Proofs about Ring, for every ring size, set of contexts and bounds.     *)
(*                                                                         *)
(* RingInv is inductive: the invariants of Ring need each other.  That the *)
(* latency of a completion is a natural number needs TimestampsOrdered;    *)
(* that survives a submission only because CheckedStaysTrue says that the  *)
(* new descriptor is the newest and lies outside the pending ones, which   *)
(* is RingIndices with count < Size.                                       *)
(***************************************************************************)
EXTENDS Ring, Sequences, SequenceTheorems, TLAPS

RingInv ==
  /\ TypeOK
  /\ RingIndices
  /\ OnlyOldestMarked
  /\ TimestampsOrdered
  /\ CheckedStaysTrue
  /\ SpaceIsPromised

\* Slot arithmetic without the remainder: an index that leaves the ring at the
\* top comes back at the bottom (ringbuffer.c:132 and 179).
LEMMA Wrap ==
  ASSUME NEW t \in Slots, NEW k \in 0 .. Size
  PROVE  (t + k) % Size = IF t + k < Size THEN t + k ELSE t + k - Size
BY RingAssumption DEF Slots

LEMMA WrapNext ==
  ASSUME NEW t \in Slots
  PROVE  (t + 1) % Size = IF t + 1 = Size THEN 0 ELSE t + 1
BY RingAssumption DEF Slots

LEMMA SlotValue ==
  ASSUME tail \in Slots
  PROVE  \A k \in 0 .. Size :
           Slot(k) = IF tail + k < Size THEN tail + k ELSE tail + k - Size
BY Wrap DEF Slot

\* Pending slots are slots, and distinct pending descriptors have distinct
\* slots; the head is none of them unless the ring is full.
LEMMA SlotFacts ==
  ASSUME tail \in Slots
  PROVE  /\ \A k \in 0 .. Size : Slot(k) \in Slots
         /\ Slot(0) = tail
         /\ \A j, k \in 0 .. (Size - 1) : Slot(j) = Slot(k) => j = k
BY SlotValue, RingAssumption DEF Slots

\* After a completion the k-th pending descriptor is the former (k+1)-st.
LEMMA SlotShift ==
  ASSUME tail \in Slots, tail' = (tail + 1) % Size
  PROVE  /\ tail' \in Slots
         /\ \A k \in 0 .. (Size - 1) : Slot(k)' = Slot(k + 1)
<1>1. tail' = IF tail + 1 = Size THEN 0 ELSE tail + 1
  BY WrapNext
<1>2. tail' \in Slots
  BY <1>1, RingAssumption DEF Slots
<1>3. \A k \in 0 .. Size :
        Slot(k)' = IF tail' + k < Size THEN tail' + k ELSE tail' + k - Size
  BY <1>2, Wrap DEF Slot
<1>4. \A k \in 0 .. Size :
        Slot(k) = IF tail + k < Size THEN tail + k ELSE tail + k - Size
  BY SlotValue
<1>5. ASSUME NEW k \in 0 .. (Size - 1) PROVE Slot(k)' = Slot(k + 1)
  <2>1. Slot(k)' = IF tail' + k < Size THEN tail' + k ELSE tail' + k - Size
    BY <1>3, RingAssumption
  <2>2. Slot(k + 1) = IF tail + (k + 1) < Size THEN tail + (k + 1) ELSE tail + (k + 1) - Size
    BY <1>4, RingAssumption
  <2> QED BY <1>1, <2>1, <2>2, RingAssumption DEF Slots
<1> QED BY <1>2, <1>5

\* init_ring establishes the invariant.
LEMMA RingInvInit == Init => RingInv
<1> SUFFICES ASSUME Init PROVE RingInv
  OBVIOUS
<1>1. TypeOK
  <2>1. ret \in [Procs -> {NoAnswer, ENOSPC, ENODATA}
                         \cup {Ok(v) : v \in Requests \cup {Free} \cup 0 .. Size}]
    BY DEF Init
  <2>2. descriptors \in [Slots -> [req : Requests \cup {Free}, timestamp : 0 .. MaxTime,
                                   status : Statuses \cup {Pending}]]
    BY RingAssumption DEF Init
  <2> QED BY <2>1, <2>2, RingAssumption DEF Init, TypeOK, Slots
<1>2. RingIndices
  BY RingAssumption, Wrap DEF Init, RingIndices, Slot, Slots
<1>3. OnlyOldestMarked /\ TimestampsOrdered
  BY DEF Init, OnlyOldestMarked, TimestampsOrdered
<1>4. CheckedStaysTrue
  BY RingAssumption DEF Init, CheckedStaysTrue, Critical
<1>5. SpaceIsPromised
  <2>1. count = 0 /\ \A p \in Procs : credit[p] = 0
    BY DEF Init
  <2>2. 0 <= Size - 0
    BY RingAssumption
  <2> QED BY <2>1, <2>2 DEF SpaceIsPromised
<1> QED BY <1>1, <1>2, <1>3, <1>4, <1>5 DEF RingInv

\* What the steps below use of the invariant: the pending slots are slots with
\* a time in the past, and the head follows them.
LEMMA PendingFacts ==
  ASSUME RingInv
  PROVE  /\ head \in Slots /\ tail \in Slots /\ count \in 0 .. Size
         /\ \A k \in 0 .. Size : Slot(k) \in Slots
         /\ \A i \in Slots : descriptors[i].timestamp \in 0 .. MaxTime
         /\ head = Slot(count) /\ tail = Slot(0)
         /\ count < Size => \A k \in 0 .. (count - 1) : Slot(k) # head
         /\ now \in 0 .. MaxTime
<1>1. head \in Slots /\ tail \in Slots /\ count \in 0 .. Size /\ now \in 0 .. MaxTime
  BY DEF RingInv, TypeOK
<1>2. \A i \in Slots : descriptors[i].timestamp \in 0 .. MaxTime
  BY DEF RingInv, TypeOK
<1>3. head = Slot(count)
  BY DEF RingInv, RingIndices
<1>4. /\ \A k \in 0 .. Size : Slot(k) \in Slots
      /\ Slot(0) = tail
      /\ \A j, k \in 0 .. (Size - 1) : Slot(j) = Slot(k) => j = k
  BY <1>1, SlotFacts
<1>5. ASSUME count < Size, NEW k \in 0 .. (count - 1)
      PROVE  Slot(k) # head
  BY <1>1, <1>3, <1>4, <1>5, RingAssumption
<1> QED BY <1>1, <1>2, <1>3, <1>4, <1>5

\* A step that leaves the descriptors, the indices, the count and the
\* statistics alone keeps what is only about them.
LEMMA RingUntouched ==
  ASSUME RingInv, TypeOK',
         UNCHANGED <<descriptors, head, tail, count, submissions, completions>>,
         now' \in {now, now + 1},
         \A p \in Procs : pc[p] = "complete_advance" <=> pc'[p] = "complete_advance"
  PROVE  /\ RingIndices' /\ OnlyOldestMarked' /\ TimestampsOrdered'
         /\ UNCHANGED credit => SpaceIsPromised'
         /\ \A k \in Nat : Slot(k)' = Slot(k)
<1>1. \A k \in Nat : Slot(k)' = Slot(k)
  BY DEF Slot
<1>2. RingIndices'
  BY DEF RingInv, RingIndices, Slot
<1>3. OnlyOldestMarked'
  BY <1>1, PendingFacts, RingAssumption DEF RingInv, OnlyOldestMarked
<1>4. TimestampsOrdered'
  BY <1>1, PendingFacts, RingAssumption DEF RingInv, TimestampsOrdered
<1>5. UNCHANGED credit => SpaceIsPromised'
  BY DEF RingInv, SpaceIsPromised
<1> QED BY <1>1, <1>2, <1>3, <1>4, <1>5

LEMMA TickInv == RingInv /\ Tick => RingInv'
<1> SUFFICES ASSUME RingInv, Tick PROVE RingInv'
  OBVIOUS
<1> USE DEF Tick, ringVars, counters, locals
<1>1. TypeOK'
  BY RingAssumption DEF RingInv, TypeOK
<1>2. RingIndices' /\ OnlyOldestMarked' /\ TimestampsOrdered' /\ SpaceIsPromised'
      /\ \A k \in Nat : Slot(k)' = Slot(k)
  BY <1>1, RingUntouched
<1>3. CheckedStaysTrue'
  BY <1>2, PendingFacts, RingAssumption DEF RingInv, CheckedStaysTrue
<1> QED BY <1>1, <1>2, <1>3 DEF RingInv

\* The calls and returns move only their own context, outside the lock.
LEMMA CallInv ==
  ASSUME RingInv, NEW p \in Procs, Calling(p) \/ Return(p)
  PROVE  RingInv'
<1> USE DEF ringVars, counters, locals, Goto
<1>1. /\ UNCHANGED <<descriptors, head, tail, count, lock, submissions, completions,
                     overruns, now, credit>>
      /\ pc[p] \in {"idle", "return"}
      /\ \E l \in {"idle", "submit", "complete", "space"} : pc' = [pc EXCEPT ![p] = l]
  BY DEF Calling, ring_submit, ring_complete, ring_space_call, Return
<1>2. /\ \E r \in Requests \cup {Free} : req' = [req EXCEPT ![p] = r] \/ req' = req
      /\ \E s \in Statuses \cup {Pending} : status' = [status EXCEPT ![p] = s] \/ status' = status
      /\ latency' = latency \/ latency' = [latency EXCEPT ![p] = 0]
      /\ ret' = ret \/ ret' = [ret EXCEPT ![p] = NoAnswer]
  BY DEF Calling, ring_submit, ring_complete, ring_space_call, Return
<1>3. TypeOK'
  BY <1>1, <1>2, RingAssumption DEF RingInv, TypeOK
<1>4. \A q \in Procs : pc[q] = "complete_advance" <=> pc'[q] = "complete_advance"
  BY <1>1 DEF RingInv, TypeOK
<1>5. RingIndices' /\ OnlyOldestMarked' /\ TimestampsOrdered' /\ SpaceIsPromised'
      /\ \A k \in Nat : Slot(k)' = Slot(k)
  BY <1>1, <1>3, <1>4, RingUntouched
<1>6. CheckedStaysTrue'
  <2>1. pc'[p] \notin Critical /\ pc[p] \notin Critical
    BY <1>1 DEF Critical, RingInv, TypeOK
  <2>2. \A q \in Procs \ {p} : pc'[q] = pc[q] /\ req'[q] = req[q] /\ ret'[q] = ret[q]
    BY <1>1, <1>2 DEF RingInv, TypeOK
  <2> QED BY <1>1, <1>2, <1>5, <2>1, <2>2, PendingFacts, RingAssumption, SMTT(30)
          DEF RingInv, CheckedStaysTrue, Critical
<1> QED BY <1>3, <1>5, <1>6 DEF RingInv

\* Taking the lock.
LEMMA LockingInv ==
  ASSUME RingInv, NEW p \in Procs, Locking(p)
  PROVE  RingInv'
<1>1. /\ UNCHANGED <<descriptors, head, tail, count, submissions, completions,
                     overruns, now, credit, req, status, ret, latency>>
      /\ lock = Free /\ lock' = p
      /\ pc[p] \in {"submit", "complete"}
      /\ \E l \in {"submit_check", "complete_check"} : pc' = [pc EXCEPT ![p] = l]
  BY DEF Locking, ring_submit_lock, ring_complete_lock, Acquire, counters, locals, Goto
<1>2. TypeOK'
  BY <1>1 DEF RingInv, TypeOK
<1>3. \A q \in Procs : pc[q] = "complete_advance" <=> pc'[q] = "complete_advance"
  BY <1>1 DEF RingInv, TypeOK
<1>4. RingIndices' /\ OnlyOldestMarked' /\ TimestampsOrdered' /\ SpaceIsPromised'
      /\ \A k \in Nat : Slot(k)' = Slot(k)
  BY <1>1, <1>2, <1>3, RingUntouched
<1>5. CheckedStaysTrue'
  <2>1. pc'[p] \in {"submit_check", "complete_check"}
    BY <1>1 DEF RingInv, TypeOK
  <2>2. \A q \in Procs \ {p} : pc'[q] = pc[q] /\ pc[q] \notin Critical
    BY <1>1, RingAssumption DEF RingInv, TypeOK, CheckedStaysTrue
  <2> QED BY <1>1, <2>1, <2>2, RingAssumption DEF CheckedStaysTrue, Critical
<1> QED BY <1>2, <1>4, <1>5 DEF RingInv

\* The two early returns: the lock is dropped and nothing else moves.
LEMMA EarlyReturnInv ==
  ASSUME RingInv, NEW p \in Procs, ring_submit_overrun(p) \/ ring_complete_empty(p)
  PROVE  RingInv'
<1>1. /\ UNCHANGED <<descriptors, head, tail, count, submissions, completions,
                     now, credit, req, status, latency>>
      /\ overruns' \in {overruns, overruns + 1}
      /\ lock' = Free
      /\ pc[p] \in {"submit_check", "complete_check"}
      /\ pc' = [pc EXCEPT ![p] = "return"]
      /\ ret' = [ret EXCEPT ![p] = ENOSPC] \/ ret' = [ret EXCEPT ![p] = ENODATA]
  BY DEF ring_submit_overrun, ring_complete_empty, counters, Goto
<1>2. TypeOK'
  BY <1>1 DEF RingInv, TypeOK
<1>3. \A q \in Procs : pc[q] = "complete_advance" <=> pc'[q] = "complete_advance"
  BY <1>1 DEF RingInv, TypeOK
<1>4. RingIndices' /\ OnlyOldestMarked' /\ TimestampsOrdered' /\ SpaceIsPromised'
      /\ \A k \in Nat : Slot(k)' = Slot(k)
  BY <1>1, <1>2, <1>3, RingUntouched
<1>5. CheckedStaysTrue'
  <2>1. pc'[p] = "return"
    BY <1>1 DEF RingInv, TypeOK
  <2>2. \A q \in Procs \ {p} : pc'[q] = pc[q] /\ pc[q] \notin Critical
    BY <1>1 DEF RingInv, TypeOK, CheckedStaysTrue, Critical
  <2> QED BY <1>1, <2>1, <2>2, RingAssumption DEF CheckedStaysTrue, Critical
<1> QED BY <1>2, <1>4, <1>5 DEF RingInv

\* Reading the free entries touches only the reader's own promise.
LEMMA SpaceInv ==
  ASSUME RingInv, NEW p \in Procs, ring_space(p)
  PROVE  RingInv'
<1> USE DEF ring_space, ringVars, counters, Goto
<1>1. count \in 0 .. Size /\ Size - count \in 0 .. Size
  BY RingAssumption DEF RingInv, TypeOK
<1>2. TypeOK'
  <2>1. ret' \in [Procs -> {NoAnswer, ENOSPC, ENODATA}
                         \cup {Ok(v) : v \in Requests \cup {Free} \cup 0 .. Size}]
    BY <1>1 DEF RingInv, TypeOK
  <2> QED BY <1>1, <2>1 DEF RingInv, TypeOK
<1>3. \A q \in Procs : pc[q] = "complete_advance" <=> pc'[q] = "complete_advance"
  BY DEF RingInv, TypeOK
<1>4. RingIndices' /\ OnlyOldestMarked' /\ TimestampsOrdered'
      /\ \A k \in Nat : Slot(k)' = Slot(k)
  BY <1>2, <1>3, RingUntouched
<1>5. CheckedStaysTrue'
  <2>1. pc'[p] \notin Critical /\ pc[p] \notin Critical
    BY DEF Critical, RingInv, TypeOK
  <2>2. \A q \in Procs \ {p} : pc'[q] = pc[q] /\ req'[q] = req[q] /\ ret'[q] = ret[q]
    BY DEF RingInv, TypeOK
  <2> QED BY <1>4, <2>1, <2>2, PendingFacts, RingAssumption
          DEF RingInv, CheckedStaysTrue, Critical
<1>6. SpaceIsPromised'
  BY <1>1 DEF RingInv, TypeOK, SpaceIsPromised
<1> QED BY <1>2, <1>4, <1>5, <1>6 DEF RingInv

\* Filling the head's descriptor: it lies outside the pending ones, because
\* the ring is not full.
LEMMA FillInv ==
  ASSUME RingInv, NEW p \in Procs, ring_submit_fill(p)
  PROVE  RingInv'
<1> USE DEF ring_submit_fill, counters, locals, Goto
<1>1. pc[p] = "submit_check" /\ lock = p /\ count < Size
  BY DEF RingInv, CheckedStaysTrue, Critical
<1>2. \A q \in Procs \ {p} : pc'[q] = pc[q] /\ pc[q] \notin Critical
  BY <1>1 DEF RingInv, TypeOK, CheckedStaysTrue
<1>3. pc'[p] = "submit_advance"
  BY DEF RingInv, TypeOK
<1>4. TypeOK'
  BY DEF RingInv, TypeOK
<1>5. \A k \in Nat : Slot(k)' = Slot(k)
  BY DEF Slot
<1>6. /\ descriptors'[head] = [req |-> req[p], timestamp |-> now, status |-> Pending]
      /\ \A k \in 0 .. (count - 1) : descriptors'[Slot(k)] = descriptors[Slot(k)]
  BY <1>1, PendingFacts, RingAssumption DEF RingInv, TypeOK
<1>7. RingIndices' /\ SpaceIsPromised'
  BY DEF RingInv, RingIndices, SpaceIsPromised, Slot
<1>8. OnlyOldestMarked'
  <2>1. \A q \in Procs : pc[q] # "complete_advance"
    BY <1>1, <1>2 DEF Critical
  <2>2. \A k \in 0 .. (count - 1) : descriptors'[Slot(k)].status = Pending
    BY <1>6, <2>1 DEF RingInv, OnlyOldestMarked
  <2>3. count' = count /\ \A k \in 0 .. (count - 1) : Slot(k)' = Slot(k)
    BY DEF Slot
  <2> HIDE DEF ring_submit_fill
  <2> QED BY <2>2, <2>3 DEF OnlyOldestMarked
<1>9. TimestampsOrdered'
  <2>1. \A j, k \in 0 .. (count - 1) : j <= k =>
          /\ descriptors'[Slot(j)].timestamp <= descriptors'[Slot(k)].timestamp
          /\ descriptors'[Slot(k)].timestamp <= now
    BY <1>6 DEF RingInv, TimestampsOrdered
  <2>2. count' = count /\ now' = now /\ \A k \in 0 .. (count - 1) : Slot(k)' = Slot(k)
    BY DEF Slot
  <2> HIDE DEF ring_submit_fill
  <2> QED BY <2>1, <2>2 DEF TimestampsOrdered
<1>10. CheckedStaysTrue'
  <2>1. \A k \in 0 .. (count - 1) : descriptors'[Slot(k)].timestamp <= now
    BY <1>6, PendingFacts, RingAssumption DEF RingInv, TimestampsOrdered
  <2>2. now <= now
    BY PendingFacts, RingAssumption
  <2> QED BY <1>1, <1>2, <1>3, <1>5, <1>6, <2>1, <2>2, PendingFacts, RingAssumption
          DEF CheckedStaysTrue, Critical
<1> QED BY <1>4, <1>7, <1>8, <1>9, <1>10 DEF RingInv

\* Moving the head makes the filled descriptor the newest pending one.
LEMMA SubmitAdvanceInv ==
  ASSUME RingInv, NEW p \in Procs, ring_submit_advance(p)
  PROVE  RingInv'
<1> USE DEF ring_submit_advance, Goto
<1>1. pc[p] = "submit_advance" /\ lock = p /\ count < Size
  BY DEF RingInv, CheckedStaysTrue, Critical
<1>2. \A q \in Procs \ {p} : pc'[q] = pc[q] /\ pc[q] \notin Critical
  BY <1>1 DEF RingInv, TypeOK, CheckedStaysTrue
<1>3. pc'[p] = "return"
  BY DEF RingInv, TypeOK
<1>4. \A k \in Nat : Slot(k)' = Slot(k)
  BY DEF Slot
<1>5. head' \in Slots /\ head' = Slot(count + 1)
  <2>1. head' = IF head + 1 = Size THEN 0 ELSE head + 1
    BY WrapNext, PendingFacts
  <2>2. \A k \in 0 .. Size :
          Slot(k) = IF tail + k < Size THEN tail + k ELSE tail + k - Size
    BY SlotValue, PendingFacts
  <2>3. /\ head = IF tail + count < Size THEN tail + count ELSE tail + count - Size
        /\ Slot(count + 1) = IF tail + (count + 1) < Size THEN tail + (count + 1)
                             ELSE tail + (count + 1) - Size
    BY <1>1, <2>2, PendingFacts, RingAssumption
  <2> QED BY <1>1, <2>1, <2>3, PendingFacts, RingAssumption DEF Slots
<1>6. TypeOK'
  <2>1. ret' \in [Procs -> {NoAnswer, ENOSPC, ENODATA}
                         \cup {Ok(v) : v \in Requests \cup {Free} \cup 0 .. Size}]
    BY RingAssumption DEF RingInv, TypeOK
  <2>2. credit' \in [Procs -> 0 .. Size]
    BY RingAssumption DEF RingInv, TypeOK, Spend
  <2>3. count' \in 0 .. Size
    BY <1>1, RingAssumption DEF RingInv, TypeOK
  <2> QED BY <1>5, <2>1, <2>2, <2>3 DEF RingInv, TypeOK
<1>7. RingIndices'
  <2>1. head' = (tail' + count') % Size
    BY <1>5 DEF Slot
  <2>2. count' = submissions' - completions'
    BY DEF RingInv, TypeOK, RingIndices
  <2> QED BY <2>1, <2>2 DEF RingIndices, Slot
<1>8. \A k \in 0 .. (count' - 1) : k \in 0 .. (count - 1) \/ (k = count /\ Slot(k) = head)
  BY PendingFacts, RingAssumption
<1>9. /\ descriptors[head].status = Pending
      /\ descriptors[head].timestamp <= now
      /\ \A k \in 0 .. (count - 1) :
           descriptors[Slot(k)].timestamp <= descriptors[head].timestamp
  BY <1>1 DEF RingInv, CheckedStaysTrue
<1>10. OnlyOldestMarked'
  <2>1. \A q \in Procs : pc[q] # "complete_advance" /\ pc'[q] # "complete_advance"
    BY <1>1, <1>2, <1>3 DEF Critical
  <2> QED BY <1>4, <1>8, <1>9, <2>1, PendingFacts, RingAssumption DEF RingInv, OnlyOldestMarked
<1>11. TimestampsOrdered'
  <2> SUFFICES ASSUME NEW j \in 0 .. (count' - 1), NEW k \in 0 .. (count' - 1), j <= k
               PROVE  /\ descriptors[Slot(j)].timestamp <= descriptors[Slot(k)].timestamp
                      /\ descriptors[Slot(k)].timestamp <= now
    BY <1>4, PendingFacts, RingAssumption DEF TimestampsOrdered
  <2>1. CASE k \in 0 .. (count - 1)
    BY <2>1, <1>8, PendingFacts, RingAssumption DEF RingInv, TimestampsOrdered
  <2>2. CASE k = count /\ Slot(k) = head /\ j \in 0 .. (count - 1)
    BY <2>2, <1>9, PendingFacts, RingAssumption
  <2>3. CASE k = count /\ Slot(k) = head /\ j = count
    BY <2>3, <1>9, PendingFacts, RingAssumption
  <2> QED BY <1>8, <2>1, <2>2, <2>3
<1>12. CheckedStaysTrue'
  BY <1>1, <1>2, <1>3, RingAssumption DEF CheckedStaysTrue, Critical
<1>13. SpaceIsPromised'
  <2> SUFFICES ASSUME NEW q \in Procs PROVE credit'[q] <= Size - count'
    BY DEF SpaceIsPromised
  <2>1. credit'[q] = Spend(credit[q]) /\ credit[q] \in 0 .. Size /\ credit[q] <= Size - count
    BY DEF RingInv, TypeOK, SpaceIsPromised
  <2> QED BY <1>1, <2>1, PendingFacts, RingAssumption DEF Spend
<1> QED BY <1>6, <1>7, <1>10, <1>11, <1>12, <1>13 DEF RingInv

\* Handing out the oldest descriptor changes nothing of it but its status.
LEMMA ReadInv ==
  ASSUME RingInv, NEW p \in Procs, ring_complete_read(p)
  PROVE  RingInv'
<1> USE DEF ring_complete_read, counters, Goto
<1>1. pc[p] = "complete_check" /\ lock = p /\ count > 0
  BY RingAssumption DEF RingInv, TypeOK, CheckedStaysTrue, Critical
<1>2. \A q \in Procs \ {p} : pc'[q] = pc[q] /\ pc[q] \notin Critical
  BY <1>1 DEF RingInv, TypeOK, CheckedStaysTrue
<1>3. pc'[p] = "complete_advance"
  BY DEF RingInv, TypeOK
<1>4. \A k \in Nat : Slot(k)' = Slot(k)
  BY DEF Slot
<1>5. descriptors[tail].timestamp <= now
  BY <1>1, PendingFacts, RingAssumption DEF RingInv, TimestampsOrdered
<1>6. TypeOK'
  <2>1. descriptors[tail].req \in Requests \cup {Free} /\ status[p] \in Statuses \cup {Pending}
    BY DEF RingInv, TypeOK
  <2>2. ret' \in [Procs -> {NoAnswer, ENOSPC, ENODATA}
                         \cup {Ok(v) : v \in Requests \cup {Free} \cup 0 .. Size}]
    BY <2>1 DEF RingInv, TypeOK
  <2>3. latency' \in [Procs -> 0 .. MaxTime]
    <3>1. now - descriptors[tail].timestamp \in 0 .. MaxTime
      BY <1>5, PendingFacts, RingAssumption
    <3> QED BY <3>1 DEF RingInv, TypeOK
  <2>4. descriptors' \in [Slots -> [req : Requests \cup {Free}, timestamp : 0 .. MaxTime,
                                    status : Statuses \cup {Pending}]]
    BY <2>1 DEF RingInv, TypeOK
  <2> QED BY <2>2, <2>3, <2>4 DEF RingInv, TypeOK
<1>7. RingIndices' /\ SpaceIsPromised'
  BY DEF RingInv, RingIndices, SpaceIsPromised, Slot
<1>8. \A i \in Slots : /\ descriptors'[i].timestamp = descriptors[i].timestamp
                       /\ descriptors'[i].req = descriptors[i].req
                       /\ i # tail => descriptors'[i].status = descriptors[i].status
  BY DEF RingInv, TypeOK
<1>9. OnlyOldestMarked'
  <2> SUFFICES ASSUME NEW k \in 0 .. (count - 1), descriptors'[Slot(k)].status # Pending
               PROVE  k = 0
    BY <1>3, <1>4, PendingFacts, RingAssumption DEF OnlyOldestMarked
  <2>1. CASE Slot(k) = tail
    BY <2>1, SlotFacts, PendingFacts, RingAssumption
  <2>2. CASE Slot(k) # tail
    BY <2>2, <1>8, PendingFacts, RingAssumption DEF RingInv, OnlyOldestMarked
  <2> QED BY <2>1, <2>2
<1>10. TimestampsOrdered'
  BY <1>4, <1>8, PendingFacts, RingAssumption DEF RingInv, TimestampsOrdered
<1>11. CheckedStaysTrue'
  <2>1. ret'[p] = Ok(descriptors'[tail].req)
    BY <1>8, PendingFacts DEF RingInv, TypeOK
  <2> QED BY <1>1, <1>2, <1>3, <2>1 DEF CheckedStaysTrue, Critical
<1> QED BY <1>6, <1>7, <1>9, <1>10, <1>11 DEF RingInv

\* Moving the tail drops the oldest descriptor and renumbers the others.
LEMMA CompleteAdvanceInv ==
  ASSUME RingInv, NEW p \in Procs, ring_complete_advance(p)
  PROVE  RingInv'
<1> USE DEF ring_complete_advance, locals, Goto
<1>1. pc[p] = "complete_advance" /\ lock = p /\ count > 0
  BY DEF RingInv, CheckedStaysTrue, Critical
<1>2. \A q \in Procs \ {p} : pc'[q] = pc[q] /\ pc[q] \notin Critical
  BY <1>1 DEF RingInv, TypeOK, CheckedStaysTrue
<1>3. pc'[p] = "return"
  BY DEF RingInv, TypeOK
<1>4. tail' \in Slots /\ \A k \in 0 .. (Size - 1) : Slot(k)' = Slot(k + 1)
  BY SlotShift, PendingFacts
<1>5. count' \in 0 .. (Size - 1)
  BY <1>1, PendingFacts, RingAssumption
<1>6. TypeOK'
  BY <1>4, <1>5, RingAssumption DEF RingInv, TypeOK
<1>7. RingIndices'
  <2>1. (tail' + count') % Size = Slot(count)
    <3>1. \A k \in 0 .. (Size - 1) : (tail' + k) % Size = Slot(k + 1)
      BY <1>4 DEF Slot
    <3> QED BY <1>5, <3>1, PendingFacts, RingAssumption
  <2>2. count' = submissions' - completions'
    BY DEF RingInv, TypeOK, RingIndices
  <2> QED BY <2>1, <2>2, PendingFacts DEF RingIndices, Slot
<1>8. OnlyOldestMarked'
  BY <1>4, <1>5, PendingFacts, RingAssumption, SMTT(30) DEF RingInv, OnlyOldestMarked
<1>9. TimestampsOrdered'
  BY <1>4, <1>5, PendingFacts, RingAssumption DEF RingInv, TimestampsOrdered
<1>10. CheckedStaysTrue'
  BY <1>1, <1>2, <1>3, RingAssumption DEF CheckedStaysTrue, Critical
<1>11. SpaceIsPromised'
  BY PendingFacts, RingAssumption, SMTT(30) DEF RingInv, TypeOK, SpaceIsPromised
<1> QED BY <1>6, <1>7, <1>8, <1>9, <1>10, <1>11 DEF RingInv

\* Every step keeps the invariant.
LEMMA RingInvStep == RingInv /\ [Next]_vars => RingInv'
<1> SUFFICES ASSUME RingInv, [Next]_vars PROVE RingInv'
  OBVIOUS
<1>1. CASE Tick
  BY <1>1, TickInv
<1>2. ASSUME NEW p \in Procs, Calling(p) \/ Return(p) PROVE RingInv'
  BY <1>2, CallInv
<1>3. ASSUME NEW p \in Procs, Locking(p) PROVE RingInv'
  BY <1>3, LockingInv
<1>4. ASSUME NEW p \in Procs, Submitting(p) PROVE RingInv'
  BY <1>4, EarlyReturnInv, FillInv, SubmitAdvanceInv DEF Submitting
<1>5. ASSUME NEW p \in Procs, Completing(p) PROVE RingInv'
  BY <1>5, EarlyReturnInv, ReadInv, CompleteAdvanceInv DEF Completing
<1>6. ASSUME NEW p \in Procs, ring_space(p) PROVE RingInv'
  BY <1>6, SpaceInv
<1>7. CASE UNCHANGED vars
  <2> USE <1>7 DEF vars, ringVars, counters, locals
  <2>1. TypeOK' /\ SpaceIsPromised'
    BY DEF RingInv, TypeOK, SpaceIsPromised
  <2>2. RingIndices' /\ OnlyOldestMarked' /\ TimestampsOrdered' /\ CheckedStaysTrue'
    BY DEF RingInv, RingIndices, OnlyOldestMarked, TimestampsOrdered, CheckedStaysTrue, Slot
  <2> QED BY <2>1, <2>2 DEF RingInv
<1> QED BY <1>1, <1>2, <1>3, <1>4, <1>5, <1>6, <1>7 DEF Next

LEMMA RingInvariant == Spec => []RingInv
BY RingInvInit, RingInvStep, PTL DEF Spec

\* The fields of a ring stay in range: the count never leaves 0 .. size and no
\* latency is negative (ringbuffer.c:108-192), for every ring size.
THEOREM RingTypes == Spec => []TypeOK
BY RingInvariant, PTL DEF RingInv

\* Head, tail, count and the statistics of a ring always agree
\* (ringbuffer.c:131-137, 178-183), for every ring size.
THEOREM IndicesAgree == Spec => []RingIndices
BY RingInvariant, PTL DEF RingInv

\* The head's slot is free when it is filled, and only the oldest descriptor is
\* marked; no other step writes a descriptor.
LEMMA PendingKept == RingInv /\ [Next]_vars => [KeepsPending]_vars
<1> SUFFICES ASSUME RingInv, Next PROVE KeepsPending
  OBVIOUS
<1>1. \A k \in 0 .. (count - 1) : Slot(k) \in Slots
  BY PendingFacts, RingAssumption
<1>2. CASE descriptors' = descriptors
  BY <1>2 DEF KeepsPending
<1>3. ASSUME NEW p \in Procs, ring_submit_fill(p) PROVE KeepsPending
  <2>1. \A k \in 0 .. (count - 1) : Slot(k) # head
    BY <1>3, PendingFacts, RingAssumption DEF ring_submit_fill
  <2>2. \A i \in Slots \ {head} : descriptors'[i] = descriptors[i]
    BY <1>3 DEF ring_submit_fill, RingInv, TypeOK
  <2> QED BY <1>1, <2>1, <2>2 DEF KeepsPending
<1>4. ASSUME NEW p \in Procs, ring_complete_read(p) PROVE KeepsPending
  <2>1. \A i \in Slots : /\ descriptors'[i].timestamp = descriptors[i].timestamp
                         /\ descriptors'[i].req = descriptors[i].req
                         /\ i # tail => descriptors'[i].status = descriptors[i].status
    BY <1>4 DEF ring_complete_read, RingInv, TypeOK
  <2>2. \A k \in 0 .. (count - 1) : Slot(k) = tail => k = 0
    BY SlotFacts, PendingFacts, RingAssumption
  <2>3. pc[p] = "complete_check"
    BY <1>4 DEF ring_complete_read
  <2> QED BY <1>1, <2>1, <2>2, <2>3 DEF KeepsPending
<1>5. \/ descriptors' = descriptors
      \/ \E p \in Procs : ring_submit_fill(p) \/ ring_complete_read(p)
  BY DEF Next, Tick, Calling, ring_submit, ring_complete, ring_space_call, Locking,
         ring_submit_lock, ring_complete_lock, Acquire, Submitting, ring_submit_overrun,
         ring_submit_advance, Completing, ring_complete_empty, ring_complete_advance,
         ring_space, Return, ringVars
<1> QED BY <1>2, <1>3, <1>4, <1>5

\* No step overwrites a pending descriptor, and only its own completion marks it
\* (ringbuffer.c:117-129, 170-176), for every ring size.
THEOREM PendingDescriptorsIntact == Spec => PendingIntact
BY RingInvariant, PendingKept, PTL DEF Spec, PendingIntact

\* Submission times are ordered along the ring and lie in the past, so the
\* latency subtraction cannot wrap (ringbuffer.c:128, 173).
THEOREM SubmissionTimesOrdered == Spec => []TimestampsOrdered
BY RingInvariant, PTL DEF RingInv

\* What was checked under the spinlock holds until it is acted upon.
THEOREM LockProtectsChecks == Spec => []CheckedStaysTrue
BY RingInvariant, PTL DEF RingInv

\* A lock-free reading of the free entries (ringbuffer.c:100-103) is a lower
\* bound on what later submissions find.
THEOREM SpaceReadingIsSafe == Spec => []SpaceIsPromised
BY RingInvariant, PTL DEF RingInv

-----------------------------------------------------------------------------
(***************************************************************************)
(* Refinement.  A submission takes effect when the head moves, a           *)
(* completion when the tail moves, a failing call when it reads the count; *)
(* every other step of the ring is a stuttering step of the queue.         *)
(***************************************************************************)

\* A sequence that agrees with s and has one more element is s with that
\* element appended.
LEMMA AppendByParts ==
  ASSUME NEW S, NEW s \in Seq(S), NEW t \in Seq(S), NEW x \in S,
         Len(t) = Len(s) + 1,
         \A i \in 1 .. Len(s) : t[i] = s[i],
         t[Len(s) + 1] = x
  PROVE  t = Append(s, x)
OBVIOUS

\* A sequence that is s shifted by one is the tail of s.
LEMMA TailByParts ==
  ASSUME NEW S, NEW s \in Seq(S), NEW t \in Seq(S),
         Len(s) = Len(t) + 1,
         \A i \in 1 .. Len(t) : t[i] = s[i + 1]
  PROVE  t = Tail(s)
OBVIOUS

\* The pending requests form a sequence of length count.
LEMMA PendingIsSeq ==
  ASSUME RingInv
  PROVE  /\ PendingRequests \in Seq(Requests \cup {Free})
         /\ Len(PendingRequests) = count
         /\ \A i \in 1 .. count : PendingRequests[i] = descriptors[Slot(i - 1)].req
<1>1. count \in Nat /\ \A i \in 1 .. count : Slot(i - 1) \in Slots
  BY PendingFacts, RingAssumption
<1>2. \A i \in Slots : descriptors[i].req \in Requests \cup {Free}
  BY DEF RingInv, TypeOK
<1> QED BY <1>1, <1>2 DEF PendingRequests

\* The freshly initialised ring is the empty queue.
LEMMA QueueInit == Init => Queue!Init
<1> SUFFICES ASSUME Init PROVE Queue!Init
  OBVIOUS
<1>1. PendingRequests = <<>>
  BY DEF Init, PendingRequests
<1>2. Calls = [p \in Procs |-> Queue!Idle]
  BY DEF Init, Calls, RingCall, Queue!Idle
<1>3. Answers = [p \in Procs |-> Queue!NoAnswer]
  BY DEF Init, Answers, RingAnswer, NoAnswer, Queue!NoAnswer
<1> QED BY <1>1, <1>2, <1>3 DEF Queue!Init

\* Moving the head appends the submitted request.
LEMMA AdvanceAppends ==
  ASSUME RingInv, NEW p \in Procs, ring_submit_advance(p)
  PROVE  count < Size /\ PendingRequests' = Append(PendingRequests, req[p])
<1> USE DEF ring_submit_advance
<1>1. count < Size /\ descriptors[head].req = req[p] /\ req[p] \in Requests \cup {Free}
  BY DEF RingInv, CheckedStaysTrue, TypeOK
<1>2. PendingRequests' = [i \in 1 .. (count + 1) |-> descriptors[Slot(i - 1)].req]
  BY DEF PendingRequests, Slot
<1>3. /\ count + 1 \in Nat /\ \A i \in 1 .. (count + 1) : Slot(i - 1) \in Slots
      /\ Slot((count + 1) - 1) = head
  BY <1>1, PendingFacts, RingAssumption, SMTT(30)
<1>4. \A i \in Slots : descriptors[i].req \in Requests \cup {Free}
  BY DEF RingInv, TypeOK
<1>5. /\ PendingRequests' \in Seq(Requests \cup {Free})
      /\ Len(PendingRequests') = count + 1
      /\ \A i \in 1 .. (count + 1) : PendingRequests'[i] = descriptors[Slot(i - 1)].req
  BY <1>2, <1>3, <1>4, SMTT(30)
<1>6. PendingRequests'[count + 1] = req[p]
  <2>1. count + 1 \in 1 .. (count + 1)
    BY PendingFacts, RingAssumption
  <2> QED BY <1>1, <1>3, <1>5, <2>1
<1>7. ASSUME NEW i \in 1 .. count PROVE PendingRequests'[i] = PendingRequests[i]
  <2>1. i \in 1 .. (count + 1)
    BY PendingFacts, RingAssumption
  <2> QED BY <2>1, <1>5, PendingIsSeq, Zenon
<1> QED BY <1>1, <1>5, <1>6, <1>7, PendingIsSeq, AppendByParts, SMTT(30)

\* Moving the tail removes the oldest request, the one handed out.
LEMMA AdvanceRemoves ==
  ASSUME RingInv, NEW p \in Procs, ring_complete_advance(p)
  PROVE  /\ PendingRequests # <<>>
         /\ PendingRequests' = Tail(PendingRequests)
         /\ ret[p] = Ok(Head(PendingRequests))
<1> USE DEF ring_complete_advance
<1>1. count > 0 /\ ret[p] = Ok(descriptors[tail].req)
  BY DEF RingInv, CheckedStaysTrue
<1>2. \A k \in 0 .. (Size - 1) : Slot(k)' = Slot(k + 1)
  BY SlotShift, PendingFacts
<1>3. PendingRequests' = [i \in 1 .. (count - 1) |-> descriptors[Slot(i)].req]
  <2>1. \A i \in 1 .. (count - 1) : (tail' + (i - 1)) % Size = Slot(i)
    <3>1. \A k \in 0 .. (Size - 1) : (tail' + k) % Size = Slot(k + 1)
      BY <1>2 DEF Slot
    <3> QED BY <3>1, PendingFacts, RingAssumption
  <2>2. PendingRequests' =
          [i \in 1 .. (count - 1) |-> descriptors[(tail' + (i - 1)) % Size].req]
    BY DEF PendingRequests, Slot
  <2> QED BY <2>1, <2>2
<1>4. count - 1 \in Nat /\ \A i \in 1 .. (count - 1) : Slot(i) \in Slots
  BY <1>1, PendingFacts, RingAssumption
<1>5. \A i \in Slots : descriptors[i].req \in Requests \cup {Free}
  BY DEF RingInv, TypeOK
<1>6. /\ PendingRequests' \in Seq(Requests \cup {Free})
      /\ Len(PendingRequests') = count - 1
      /\ \A i \in 1 .. (count - 1) : PendingRequests'[i] = descriptors[Slot(i)].req
  BY <1>3, <1>4, <1>5
<1>7. ASSUME NEW i \in 1 .. (count - 1) PROVE PendingRequests'[i] = PendingRequests[i + 1]
  <2>1. i + 1 \in 1 .. count /\ (i + 1) - 1 = i
    BY <1>4, PendingFacts, RingAssumption
  <2>2. PendingRequests[i + 1] = descriptors[Slot((i + 1) - 1)].req
    BY <2>1, PendingIsSeq
  <2> QED BY <2>1, <2>2, <1>6
<1>8. PendingRequests' = Tail(PendingRequests)
  BY <1>1, <1>4, <1>6, <1>7, PendingIsSeq, TailByParts, PendingFacts, RingAssumption,
     SMTT(30)
<1>9. PendingRequests # <<>> /\ Head(PendingRequests) = descriptors[tail].req
  BY <1>1, PendingIsSeq, PendingFacts, RingAssumption, SMTT(30)
<1> QED BY <1>1, <1>8, <1>9

\* A step of p changes at most p's call and answer.
LEMMA OthersKeep ==
  ASSUME NEW p \in Procs,
         \A q \in Procs \ {p} : pc'[q] = pc[q] /\ req'[q] = req[q] /\ ret'[q] = ret[q]
  PROVE  /\ Calls' = [Calls EXCEPT ![p] = RingCall(p)']
         /\ Answers' = [Answers EXCEPT ![p] = RingAnswer(p)']
         /\ Calls[p] = RingCall(p) /\ Answers[p] = RingAnswer(p)
         /\ RingCall(p)' = RingCall(p) => Calls' = Calls
         /\ RingAnswer(p)' = RingAnswer(p) => Answers' = Answers
<1>1. \A q \in Procs \ {p} : RingCall(q)' = RingCall(q) /\ RingAnswer(q)' = RingAnswer(q)
  BY Zenon DEF RingCall, RingAnswer
<1> QED BY <1>1, Zenon DEF Calls, Answers

\* Calls are the invocations of the queue.
LEMMA CallRefines ==
  ASSUME RingInv, NEW p \in Procs, Calling(p)
  PROVE  Queue!Next
<1> USE DEF ringVars, counters, locals, Goto
<1>1. PendingRequests' = PendingRequests
  BY DEF Calling, ring_submit, ring_complete, ring_space_call, PendingRequests, Slot
<1>2. PICK o \in Queue!Operations : RingCall(p)' = o
  <2>1. ASSUME NEW r \in Requests, ring_submit(p, r) PROVE RingCall(p)' = [op |-> "submit", req |-> r]
    BY <2>1 DEF ring_submit, RingCall, RingInv, TypeOK
  <2>2. ASSUME NEW s \in Statuses, ring_complete(p, s) PROVE RingCall(p)' = [op |-> "complete"]
    BY <2>2 DEF ring_complete, RingCall, RingInv, TypeOK
  <2>3. CASE ring_space_call(p)
    <3>1. RingCall(p)' = [op |-> "space"]
      BY <2>3 DEF ring_space_call, RingCall, RingInv, TypeOK
    <3> QED BY <3>1 DEF Queue!Operations
  <2> QED BY <2>1, <2>2, <2>3 DEF Calling, Queue!Operations
<1>3. RingCall(p) = Queue!Idle /\ RingAnswer(p)' = RingAnswer(p)
  BY DEF Calling, ring_submit, ring_complete, ring_space_call, RingCall, RingAnswer,
         Queue!Idle, RingInv, TypeOK
<1>4. \A q \in Procs \ {p} : pc'[q] = pc[q] /\ req'[q] = req[q] /\ ret'[q] = ret[q]
  BY DEF Calling, ring_submit, ring_complete, ring_space_call, RingInv, TypeOK
<1>5. Queue!Invoke(p, o)
  BY <1>1, <1>2, <1>3, <1>4, OthersKeep DEF Queue!Invoke
<1> QED BY <1>5 DEF Queue!Next

\* Taking the lock and writing or reading a descriptor are invisible.
LEMMA InternalStutters ==
  ASSUME RingInv, NEW p \in Procs,
         Locking(p) \/ ring_submit_fill(p) \/ ring_complete_read(p)
  PROVE  UNCHANGED <<PendingRequests, Calls, Answers>>
<1> USE DEF counters, locals, Goto
<1>1. CASE Locking(p)
  <2> USE <1>1 DEF Locking, ring_submit_lock, ring_complete_lock, Acquire
  <2>1. PendingRequests' = PendingRequests
    BY DEF PendingRequests, Slot
  <2>2. RingCall(p)' = RingCall(p) /\ RingAnswer(p)' = RingAnswer(p)
    BY DEF RingCall, RingAnswer, RingInv, TypeOK
  <2>3. \A q \in Procs \ {p} : pc'[q] = pc[q] /\ req'[q] = req[q] /\ ret'[q] = ret[q]
    BY DEF RingInv, TypeOK
  <2> QED BY <2>1, <2>2, <2>3, OthersKeep
<1>2. CASE ring_submit_fill(p)
  <2> USE <1>2 DEF ring_submit_fill
  <2>1. \A i \in 1 .. count : Slot(i - 1) # head
    BY PendingFacts, RingAssumption, SMTT(30)
  <2>2. \A i \in 1 .. count : descriptors'[Slot(i - 1)].req = descriptors[Slot(i - 1)].req
    <3>1. \A j \in Slots \ {head} : descriptors'[j] = descriptors[j]
      BY DEF RingInv, TypeOK
    <3>2. \A i \in 1 .. count : Slot(i - 1) \in Slots
      BY PendingFacts, RingAssumption
    <3> HIDE <1>2 DEF ring_submit_fill
    <3> QED BY <2>1, <3>1, <3>2
  <2>3. PendingRequests' = PendingRequests
    BY <2>2 DEF PendingRequests, Slot
  <2>4. RingCall(p)' = RingCall(p) /\ RingAnswer(p)' = RingAnswer(p)
    BY DEF RingCall, RingAnswer, RingInv, TypeOK
  <2>5. \A q \in Procs \ {p} : pc'[q] = pc[q] /\ req'[q] = req[q] /\ ret'[q] = ret[q]
    BY DEF RingInv, TypeOK
  <2> QED BY <2>3, <2>4, <2>5, OthersKeep
<1>3. CASE ring_complete_read(p)
  <2> USE <1>3 DEF ring_complete_read
  <2>1. \A i \in Slots : descriptors'[i].req = descriptors[i].req
    BY DEF RingInv, TypeOK
  <2>2. \A i \in 1 .. count : descriptors'[Slot(i - 1)].req = descriptors[Slot(i - 1)].req
    BY <2>1, PendingFacts, RingAssumption
  <2>3. PendingRequests' = PendingRequests
    BY <2>2 DEF PendingRequests, Slot
  <2>4. RingCall(p)' = RingCall(p) /\ RingAnswer(p)' = RingAnswer(p)
    BY DEF RingCall, RingAnswer, RingInv, TypeOK
  <2>5. \A q \in Procs \ {p} : pc'[q] = pc[q] /\ req'[q] = req[q] /\ ret'[q] = ret[q]
    BY DEF RingInv, TypeOK
  <2> QED BY <2>3, <2>4, <2>5, OthersKeep
<1> QED BY <1>1, <1>2, <1>3

\* The answers of the ring and of the queue are the same values.
LEMMA SameAnswers ==
  /\ \A v : Ok(v) = Queue!Ok(v)
  /\ ENOSPC = Queue!ENOSPC /\ ENODATA = Queue!ENODATA /\ NoAnswer = Queue!NoAnswer
BY DEF Ok, ENOSPC, ENODATA, NoAnswer, Queue!Ok, Queue!ENOSPC, Queue!ENODATA, Queue!NoAnswer

\* An operation that takes effect answers what it will return.
LEMMA EffectRefines ==
  ASSUME RingInv, NEW p \in Procs,
         pc' = [pc EXCEPT ![p] = "return"],
         UNCHANGED req,
         \A q \in Procs \ {p} : ret'[q] = ret[q]
  PROVE  Queue!Effect(p, ret'[p]) /\ Calls[p] = RingCall(p)
<1>1. RingCall(p)' = Queue!Returning /\ RingAnswer(p)' = ret'[p]
  BY DEF RingCall, RingAnswer, Queue!Returning, RingInv, TypeOK
<1>2. \A q \in Procs \ {p} : pc'[q] = pc[q] /\ req'[q] = req[q] /\ ret'[q] = ret[q]
  BY DEF RingInv, TypeOK
<1> QED BY <1>1, <1>2, OthersKeep DEF Queue!Effect

\* The fields of a submission's record.
LEMMA SubmitFields ==
  ASSUME NEW c, NEW r, c = [op |-> "submit", req |-> r]
  PROVE  c.op = "submit" /\ c.req = r
OBVIOUS

\* A submission succeeds or fails as the queue's does.
LEMMA SubmitRefines ==
  ASSUME RingInv, NEW p \in Procs, ring_submit_advance(p) \/ ring_submit_overrun(p)
  PROVE  Queue!Next
<1>1. Calls[p].op = "submit" /\ Calls[p].req = req[p]
  <2>1. Calls[p] = RingCall(p)
    BY DEF Calls
  <2>2. RingCall(p) = [op |-> "submit", req |-> req[p]]
    BY DEF ring_submit_advance, ring_submit_overrun, RingCall
  <2>3. Calls[p] = [op |-> "submit", req |-> req[p]]
    BY <2>1, <2>2, Zenon
  <2> QED BY <2>3, SubmitFields, ZenonT(60)
<1>2. CASE ring_submit_advance(p)
  <2>1. ret'[p] = Ok(0) /\ \A q \in Procs \ {p} : ret'[q] = ret[q]
    BY <1>2 DEF ring_submit_advance, RingInv, TypeOK
  <2>2. Queue!Effect(p, Queue!Ok(0)) /\ Calls[p] = RingCall(p)
    BY <1>2, <2>1, EffectRefines, SameAnswers, Zenon DEF ring_submit_advance, Goto
  <2>3. /\ Len(PendingRequests) < Size
        /\ PendingRequests' = Append(PendingRequests, Calls[p].req)
    <3>1. count < Size /\ PendingRequests' = Append(PendingRequests, req[p])
      BY <1>2, AdvanceAppends
    <3> QED BY <1>1, <3>1, PendingIsSeq, SMTT(30)
  <2>4. Queue!Submit(p)
    BY <1>1, <2>2, <2>3, ZenonT(60) DEF Queue!Submit
  <2> QED BY <2>4 DEF Queue!Next
<1>3. CASE ring_submit_overrun(p)
  <2> USE <1>3 DEF ring_submit_overrun, Goto
  <2>1. ret'[p] = ENOSPC /\ \A q \in Procs \ {p} : ret'[q] = ret[q]
    BY DEF RingInv, TypeOK
  <2>2. Queue!Effect(p, Queue!ENOSPC) /\ Calls[p] = RingCall(p)
    BY <2>1, EffectRefines, SameAnswers, Zenon
  <2>3. PendingRequests' = PendingRequests /\ Len(PendingRequests) >= Size
    <3>1. PendingRequests' = PendingRequests
      BY DEF PendingRequests, Slot
    <3> QED BY <3>1, PendingIsSeq, Zenon
  <2>4. Queue!Submit(p)
    BY <1>1, <2>2, <2>3, ZenonT(60) DEF Queue!Submit
  <2> QED BY <2>4 DEF Queue!Next
<1> QED BY <1>2, <1>3

\* A completion succeeds or fails as the queue's does.
LEMMA CompleteRefines ==
  ASSUME RingInv, NEW p \in Procs, ring_complete_advance(p) \/ ring_complete_empty(p)
  PROVE  Queue!Next
<1>1. Calls[p].op = "complete"
  <2>1. Calls[p] = RingCall(p)
    BY DEF Calls
  <2>2. RingCall(p) = [op |-> "complete"]
    BY DEF ring_complete_advance, ring_complete_empty, RingCall
  <2> QED BY <2>1, <2>2
<1>2. CASE ring_complete_advance(p)
  <2>1. ret' = ret /\ req' = req /\ pc' = [pc EXCEPT ![p] = "return"]
    BY <1>2 DEF ring_complete_advance, locals, Goto
  <2>2. /\ PendingRequests # <<>> /\ PendingRequests' = Tail(PendingRequests)
        /\ ret'[p] = Queue!Ok(Head(PendingRequests))
    BY <1>2, <2>1, AdvanceRemoves, SameAnswers
  <2>3. Queue!Effect(p, Queue!Ok(Head(PendingRequests))) /\ Calls[p] = RingCall(p)
    BY <2>1, <2>2, EffectRefines, Zenon
  <2>4. Queue!Complete(p)
    BY <1>1, <2>2, <2>3, ZenonT(60) DEF Queue!Complete
  <2> QED BY <2>4 DEF Queue!Next
<1>3. CASE ring_complete_empty(p)
  <2> USE <1>3 DEF ring_complete_empty, Goto, counters
  <2>1. ret'[p] = ENODATA /\ \A q \in Procs \ {p} : ret'[q] = ret[q]
    BY DEF RingInv, TypeOK
  <2>2. Queue!Effect(p, Queue!ENODATA) /\ Calls[p] = RingCall(p)
    BY <2>1, EffectRefines, SameAnswers, Zenon
  <2>3. PendingRequests' = PendingRequests
    BY DEF PendingRequests, Slot
  <2>4. PendingRequests = <<>>
    BY PendingIsSeq DEF PendingRequests
  <2>5. Queue!Complete(p)
    BY <1>1, <2>2, <2>3, <2>4, ZenonT(60) DEF Queue!Complete
  <2> QED BY <2>5 DEF Queue!Next
<1> QED BY <1>2, <1>3

\* Reading the free entries and returning.
LEMMA SpaceReturnRefines ==
  ASSUME RingInv, NEW p \in Procs, ring_space(p) \/ Return(p)
  PROVE  Queue!Next
<1> USE DEF ringVars, counters, locals, Goto
<1>1. PendingRequests' = PendingRequests
  BY DEF ring_space, Return, PendingRequests, Slot
<1>2. CASE ring_space(p)
  <2>1. Calls[p].op = "space"
    <3>1. Calls[p] = RingCall(p)
      BY DEF Calls
    <3>2. RingCall(p) = [op |-> "space"]
      BY <1>2 DEF ring_space, RingCall
    <3> QED BY <3>1, <3>2
  <2>2. ret'[p] = Ok(Size - count) /\ \A q \in Procs \ {p} : ret'[q] = ret[q]
    BY <1>2 DEF ring_space, RingInv, TypeOK
  <2>3. Queue!Effect(p, Queue!Ok(Size - Len(PendingRequests))) /\ Calls[p] = RingCall(p)
    BY <1>2, <2>2, EffectRefines, SameAnswers, PendingIsSeq DEF ring_space
  <2>4. Queue!Space(p)
    BY <1>1, <2>1, <2>3, ZenonT(60) DEF Queue!Space
  <2> QED BY <2>4 DEF Queue!Next
<1>3. CASE Return(p)
  <2>1. RingCall(p) = Queue!Returning /\ RingCall(p)' = Queue!Idle
    BY <1>3 DEF Return, RingCall, Queue!Returning, Queue!Idle, RingInv, TypeOK
  <2>2. RingAnswer(p)' = NoAnswer
    BY <1>3 DEF Return, RingAnswer, RingInv, TypeOK
  <2>3. \A q \in Procs \ {p} : pc'[q] = pc[q] /\ req'[q] = req[q] /\ ret'[q] = ret[q]
    BY <1>3 DEF Return, RingInv, TypeOK
  <2>4. Queue!Return(p)
    BY <1>1, <2>1, <2>2, <2>3, OthersKeep, SameAnswers, Zenon DEF Queue!Return
  <2> QED BY <2>4 DEF Queue!Next
<1> QED BY <1>2, <1>3

\* Every step of the ring is a step of the queue or leaves it unchanged.
LEMMA StepRefines == RingInv /\ [Next]_vars => [Queue!Next]_(Queue!qvars)
<1> SUFFICES ASSUME RingInv, [Next]_vars
             PROVE  Queue!Next \/ UNCHANGED <<PendingRequests, Calls, Answers>>
  BY DEF Queue!qvars
<1>1. CASE Tick \/ UNCHANGED vars
  <2>1. UNCHANGED <<descriptors, tail, count, pc, req, ret>>
    BY <1>1 DEF Tick, vars, ringVars, counters, locals
  <2>2. UNCHANGED PendingRequests
    BY <2>1 DEF PendingRequests, Slot
  <2>3. UNCHANGED <<Calls, Answers>>
    BY <2>1 DEF Calls, Answers, RingCall, RingAnswer
  <2> QED BY <2>2, <2>3
<1>2. ASSUME NEW p \in Procs, Calling(p) PROVE Queue!Next
  BY <1>2, CallRefines
<1>3. ASSUME NEW p \in Procs,
             Locking(p) \/ ring_submit_fill(p) \/ ring_complete_read(p)
      PROVE  UNCHANGED <<PendingRequests, Calls, Answers>>
  BY <1>3, InternalStutters
<1>4. ASSUME NEW p \in Procs, ring_submit_advance(p) \/ ring_submit_overrun(p)
      PROVE  Queue!Next
  BY <1>4, SubmitRefines
<1>5. ASSUME NEW p \in Procs, ring_complete_advance(p) \/ ring_complete_empty(p)
      PROVE  Queue!Next
  BY <1>5, CompleteRefines
<1>6. ASSUME NEW p \in Procs, ring_space(p) \/ Return(p) PROVE Queue!Next
  BY <1>6, SpaceReturnRefines
<1> QED BY <1>1, <1>2, <1>3, <1>4, <1>5, <1>6 DEF Next, Submitting, Completing

\* The descriptor ring implements an atomic bounded first-in first-out queue
\* (ringbuffer.c:108-192), for every ring size and number of contexts.
THEOREM RingImplementsQueue == Spec => ImplementsQueue
BY QueueInit, StepRefines, RingInvariant, PTL DEF Spec, ImplementsQueue, Queue!Spec
=============================================================================
