---------------------------- MODULE BoundedQueue ----------------------------
(***************************************************************************)
(* What a descriptor ring promises its callers: a first-in first-out       *)
(* queue of at most Capacity requests, on which every operation takes      *)
(* effect at one instant between its call and its return.  Nothing is      *)
(* said about slots, indices or locks; Ring shows that                     *)
(* kernel/ringbuffer.c implements this.                                    *)
(***************************************************************************)
EXTENDS Integers, Sequences

CONSTANTS
  Procs,      \* the callers
  Requests,   \* what a caller asks to transfer: address, length and flags
  Capacity    \* how many requests the queue holds

VARIABLES
  queue,      \* the pending requests, oldest first
  call,       \* what each caller is executing
  answer      \* what an operation that took effect will return

qvars == <<queue, call, answer>>

\* A caller that executes nothing, and one whose operation took effect.
Idle == [op |-> "idle"]
Returning == [op |-> "returning"]

Operations ==
  [op : {"submit"}, req : Requests] \cup [op : {"complete", "space"}]

\* The return values: success without and with a value, and the two errors.
Ok(v) == [code |-> "ok", val |-> v]
ENOSPC == [code |-> "ENOSPC"]
ENODATA == [code |-> "ENODATA"]
NoAnswer == [code |-> "none"]

Init ==
  /\ queue = <<>>
  /\ call = [p \in Procs |-> Idle]
  /\ answer = [p \in Procs |-> NoAnswer]

Invoke(p, o) ==
  /\ call[p] = Idle
  /\ call' = [call EXCEPT ![p] = o]
  /\ UNCHANGED <<queue, answer>>

\* The operation of p takes effect and answers a.
Effect(p, a) ==
  /\ call' = [call EXCEPT ![p] = Returning]
  /\ answer' = [answer EXCEPT ![p] = a]

Submit(p) ==
  /\ call[p].op = "submit"
  /\ \/ /\ Len(queue) < Capacity
        /\ queue' = Append(queue, call[p].req)
        /\ Effect(p, Ok(0))
     \/ /\ Len(queue) >= Capacity
        /\ Effect(p, ENOSPC)
        /\ UNCHANGED queue

Complete(p) ==
  /\ call[p].op = "complete"
  /\ \/ /\ queue # <<>>
        /\ queue' = Tail(queue)
        /\ Effect(p, Ok(Head(queue)))
     \/ /\ queue = <<>>
        /\ Effect(p, ENODATA)
        /\ UNCHANGED queue

Space(p) ==
  /\ call[p].op = "space"
  /\ Effect(p, Ok(Capacity - Len(queue)))
  /\ UNCHANGED queue

Return(p) ==
  /\ call[p] = Returning
  /\ call' = [call EXCEPT ![p] = Idle]
  /\ answer' = [answer EXCEPT ![p] = NoAnswer]
  /\ UNCHANGED queue

Next ==
  \E p \in Procs :
    \/ \E o \in Operations : Invoke(p, o)
    \/ Submit(p)
    \/ Complete(p)
    \/ Space(p)
    \/ Return(p)

Spec == Init /\ [][Next]_qvars
=============================================================================
