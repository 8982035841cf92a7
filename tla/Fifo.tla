-------------------------------- MODULE Fifo --------------------------------
(***************************************************************************)
(* What a Queue or SizedQueue promises its callers: a bounded FIFO whose   *)
(* operations take effect at one moment between call and return.  A call   *)
(* answers in `ret'; a call that raises has no effect.                     *)
(***************************************************************************)
EXTENDS Naturals, Sequences

CONSTANTS Threads, Values

VARIABLES max,  \* the SizedQueue's bound, 0 for a Queue
          items, closed,
          ret   \* per thread: "busy" in a call, else what the last one gave

vars == <<max, items, closed, ret>>

Init ==
  /\ max \in Nat /\ items = <<>> /\ closed = FALSE
  /\ ret = [t \in Threads |-> "ok"]

Room == max = 0 \/ Len(items) < max

Call(t) ==
  /\ ret[t] # "busy"
  /\ ret' = [ret EXCEPT ![t] = "busy"]
  /\ UNCHANGED <<items, closed>>

\* The call of t ends with r.
Answer(t, r) == ret[t] = "busy" /\ ret' = [ret EXCEPT ![t] = r]

Push(t, v) ==
  /\ ~closed /\ Room
  /\ items' = Append(items, v)
  /\ Answer(t, "ok")
  /\ UNCHANGED closed

Pop(t) ==
  /\ items # <<>>
  /\ items' = Tail(items)
  /\ Answer(t, Head(items))
  /\ UNCHANGED closed

\* A push or a pop without effect: on a closed queue, on a full or an empty one
\* (its deadline over, or non-blocking), or because a #raise ended it.
Refused(t) ==
  /\ \/ closed /\ Answer(t, "ClosedQueueError")
     \/ items = <<>> /\ Answer(t, "nil")
     \/ ~closed /\ (items = <<>> \/ ~Room) /\ Answer(t, "ThreadError")
     \/ ~closed /\ ~Room /\ Answer(t, "nil")
     \/ Answer(t, "NoMemoryError") \/ Answer(t, "raised")
  /\ UNCHANGED <<items, closed>>

Clear(t) == items' = <<>> /\ Answer(t, "ok") /\ UNCHANGED closed

Close(t) == closed' = TRUE /\ Answer(t, "ok") /\ UNCHANGED items

Next ==
  /\ \E t \in Threads :
       \/ Call(t) \/ Pop(t) \/ Refused(t) \/ Clear(t) \/ Close(t)
       \/ \E v \in Values : Push(t, v)
  /\ UNCHANGED max

Spec == Init /\ [][Next]_vars
=============================================================================
