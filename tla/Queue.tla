------------------------------- MODULE Queue -------------------------------
(***************************************************************************)
(* Queue and SizedQueue of lib/sp_sched.c: a ring buffer that grows, a     *)
(* closed flag and two lists of parked threads, all under the queue's own  *)
(* wait lock, so what happens under it is one step.  A waiter looks at the *)
(* queue and parks under the lock; a waker takes one off its list under it *)
(* and wakes it after.  A woken thread is handed nothing: it looks again,  *)
(* and may find that another thread was faster.  What lies in a free slot  *)
(* of the ring is not kept: it is never to be read.                        *)
(*                                                                         *)
(* That a thread off its list runs again is ParkWake's subject: here       *)
(* taking it off wakes it.  A #raise that wakes a thread between its       *)
(* taking and its waker's wake, which may then meet the thread's next      *)
(* wait, is CondMutex's subject and left out, as is main's wait before     *)
(* the first Thread, when no other thread exists.                          *)
(***************************************************************************)
EXTENDS Naturals, Sequences, SequencesExt, FiniteSets

CONSTANTS
  Threads, Values,
  NoValue,    \* no value: a free slot of the ring, a thread not in a push
  Maxes,      \* the bounds of SizedQueues; 0 is that of a Queue
  InitCap,    \* the ring's first capacity (8)
  WakeBatch,  \* the threads sp_queue_wake_all takes at a time (64)
  MaxLen,     \* bound: items in a Queue
  MaxRaise    \* bound: Thread#raise calls made

\* What a call answers when it is not a value; "busy" is no answer yet.
Answers == {"ok", "nil", "raised", "ThreadError", "ClosedQueueError",
            "NoMemoryError"}

ASSUME ConstAssumption ==
  /\ IsFiniteSet(Threads) /\ NoValue \notin Values /\ "busy" \notin Values
  /\ Maxes \subseteq Nat /\ InitCap \in Nat \ {0} /\ WakeBatch \in Nat \ {0}
  /\ MaxLen \in Nat /\ MaxRaise \in Nat

VARIABLES
  max,      \* q->max: the SizedQueue's bound, 0 for a Queue
  buf, head, len, cap,  \* the ring
  closed,
  pop_waiters, push_waiters,
  pc,       \* where each thread is
  how,      \* its call: "block", "timed" or "nb"
  val,      \* the value it pushes
  late,     \* timer_expired: its timer took it off its list
  inject,   \* a #raise is pending on its fiber
  nraise,   \* #raise calls made so far
  ret       \* "busy" in a call, else what the last one gave

ring    == <<buf, head, len, cap>>
lists   == <<pop_waiters, push_waiters>>
call    == <<how, val, late>>
raise   == <<inject, nraise>>
vars == <<max, ring, closed, lists, pc, call, raise, ret>>

Labels == {"run", "push", "push_timed", "push_parked", "pop", "pop_timed",
           "pop_parked", "clear", "clearing", "close", "close_pop",
           "close_push"}

Init ==
  /\ buf = [i \in 0 .. (InitCap - 1) |-> NoValue]
  /\ head = 0 /\ len = 0 /\ cap = InitCap /\ max \in Maxes
  /\ closed = FALSE /\ pop_waiters = <<>> /\ push_waiters = <<>>
  /\ pc = [t \in Threads |-> "run"]
  /\ how = [t \in Threads |-> "block"]
  /\ val = [t \in Threads |-> NoValue]
  /\ late = [t \in Threads |-> FALSE]
  /\ inject = [t \in Threads |-> FALSE] /\ nraise = 0
  /\ ret = [t \in Threads |-> "ok"]

At(t, l) == pc[t] = l
Goto(t, l) == pc' = [pc EXCEPT ![t] = l]

\* The call of t returns, or raises, r; its locals are gone.
Return(t, r) ==
  /\ Goto(t, "run")
  /\ ret' = [ret EXCEPT ![t] = r]
  /\ how' = [how EXCEPT ![t] = "block"]
  /\ val' = [val EXCEPT ![t] = NoValue]
  /\ late' = [late EXCEPT ![t] = FALSE]

sp_queue_has_room == closed \/ max = 0 \/ len < max
sp_queue_has_item == closed \/ len > 0

\* The list without its first n waiters (all of them, if there are fewer), who
\* are thereby woken.
wl_take(list, n) == SubSeq(list, n + 1, Len(list))

Listed(t) == t \in Range(pop_waiters \o push_waiters)

\* t is on a list and off its stack.
Park(t, l) ==
  /\ Goto(t, l)
  /\ UNCHANGED <<ring, closed, call, raise, ret>>

\* A pending #raise ends the call.
Fire(t) ==
  /\ inject[t]
  /\ inject' = [inject EXCEPT ![t] = FALSE]
  /\ Return(t, "raised")
  /\ UNCHANGED <<ring, closed, lists, nraise>>

\* The call ends with r and leaves the queue alone.
Refuse(t, r) ==
  /\ Return(t, r)
  /\ UNCHANGED <<ring, closed, lists, raise>>

\* The call goes on at l.
Continue(t, l) ==
  /\ Goto(t, l)
  /\ late' = [late EXCEPT ![t] = FALSE]
  /\ UNCHANGED <<ring, closed, lists, how, val, raise, ret>>

-----------------------------------------------------------------------------
(* sp_queue_push_impl. *)

CallPush(t) ==
  /\ At(t, "run") /\ (max = 0 => len < MaxLen)
  /\ \E v \in Values : val' = [val EXCEPT ![t] = v]
  /\ \E h \in (IF max = 0 THEN {"block"} ELSE {"block", "timed", "nb"}) :
       how' = [how EXCEPT ![t] = h]
  /\ Goto(t, "push")
  /\ ret' = [ret EXCEPT ![t] = "busy"]
  /\ UNCHANGED <<ring, closed, lists, late, raise>>

\* Wrong on purpose: the ring is copied as it lies.
Grown_Unrotated ==
  IF len < cap THEN ring
  ELSE << [i \in 0 .. (2 * cap - 1) |-> IF i < len THEN buf[i] ELSE NoValue],
          0, len, 2 * cap >>

\* A full ring is copied, its head first, to one of twice the capacity.
Grown ==
  IF len < cap THEN ring
  ELSE << [i \in 0 .. (2 * cap - 1) |->
             IF i < len THEN buf[(head + i) % cap] ELSE NoValue],
          0, len, 2 * cap >>

\* v is stored behind the last item.
Stored(g, v) ==
  /\ buf' = [g[1] EXCEPT ![(g[2] + g[3]) % g[4]] = v]
  /\ head' = g[2] /\ len' = g[3] + 1 /\ cap' = g[4]

\* There is room: stored, and the first waiting popper woken.
PushStore(t) ==
  /\ At(t, "push") /\ ~closed /\ sp_queue_has_room
  /\ Stored(Grown, val[t])
  /\ pop_waiters' = wl_take(pop_waiters, 1)
  /\ Return(t, "ok")
  /\ UNCHANGED <<closed, push_waiters, raise>>

\* There is no memory to grow a full ring.
PushGrowFails(t) ==
  /\ At(t, "push") /\ ~closed /\ sp_queue_has_room /\ len = cap
  /\ Refuse(t, "NoMemoryError")

\* There is no room: an error, or a park under the lock.  A timed push drops the
\* lock before it parks; one whose timeout is not positive ends at once.
PushClosed(t) == At(t, "push") /\ closed /\ Refuse(t, "ClosedQueueError")

PushWait(t) ==
  /\ At(t, "push") /\ ~sp_queue_has_room
  /\ \/ how[t] = "nb" /\ Refuse(t, "ThreadError")
     \/ how[t] = "timed" /\ (Refuse(t, "nil") \/ Continue(t, "push_timed"))
     \/ how[t] = "block" /\ Fire(t)
     \/ /\ how[t] = "block" /\ ~inject[t]
        /\ push_waiters' = Append(push_waiters, t)
        /\ Park(t, "push_parked")
        /\ UNCHANGED pop_waiters

\* sp_sched_block_timeout: it looks again under the lock before it parks; the
\* timer may find no memory.
PushTimedWait(t) ==
  /\ At(t, "push_timed")
  /\ \/ Fire(t)
     \/ ~inject[t] /\ sp_queue_has_room /\ Continue(t, "push")
     \/ ~inject[t] /\ ~sp_queue_has_room /\ Refuse(t, "NoMemoryError")
     \/ /\ ~inject[t] /\ ~sp_queue_has_room
        /\ push_waiters' = Append(push_waiters, t)
        /\ Park(t, "push_parked")
        /\ UNCHANGED pop_waiters

\* Back from the park: a #raise fires; a deadline that found no room ends it.
PushWoken(t) ==
  /\ At(t, "push_parked") /\ ~Listed(t)
  /\ \/ Fire(t)
     \/ /\ ~inject[t]
        /\ IF late[t] /\ ~sp_queue_has_room THEN Refuse(t, "nil")
           ELSE Continue(t, "push")

-----------------------------------------------------------------------------
(* sp_Queue_pop, sp_Queue_pop_timeout, sp_Queue_pop_nb. *)

CallPop(t) ==
  /\ At(t, "run")
  /\ \E h \in {"block", "timed", "nb"} : how' = [how EXCEPT ![t] = h]
  /\ Goto(t, "pop")
  /\ ret' = [ret EXCEPT ![t] = "busy"]
  /\ UNCHANGED <<ring, closed, lists, val, late, raise>>

\* Wrong on purpose: the head runs off the end of the ring.
sp_queue_take_NoWrap(t) ==
  /\ At(t, "pop") /\ len > 0
  /\ head' = head + 1 /\ len' = len - 1
  /\ buf' = [buf EXCEPT ![head] = NoValue]
  /\ IF max > 0
     THEN push_waiters' = wl_take(push_waiters, 1)
     ELSE UNCHANGED push_waiters
  /\ Return(t, buf[head])
  /\ UNCHANGED <<cap, closed, pop_waiters, raise>>

\* The head item is taken, and a SizedQueue's freed slot goes to a pusher.
sp_queue_take(t) ==
  /\ At(t, "pop") /\ len > 0
  /\ head' = (head + 1) % cap /\ len' = len - 1
  /\ buf' = [buf EXCEPT ![head] = NoValue]
  /\ IF max > 0
     THEN push_waiters' = wl_take(push_waiters, 1)
     ELSE UNCHANGED push_waiters
  /\ Return(t, buf[head])
  /\ UNCHANGED <<cap, closed, pop_waiters, raise>>

PopWait(t) ==
  /\ At(t, "pop") /\ len = 0
  /\ \/ closed /\ Refuse(t, "nil")
     \/ /\ ~closed
        /\ \/ how[t] = "nb" /\ Refuse(t, "ThreadError")
           \/ how[t] = "timed" /\ (Refuse(t, "nil") \/ Continue(t, "pop_timed"))
           \/ how[t] = "block" /\ Fire(t)
           \/ /\ how[t] = "block" /\ ~inject[t]
              /\ pop_waiters' = Append(pop_waiters, t)
              /\ Park(t, "pop_parked")
              /\ UNCHANGED push_waiters

\* Wrong on purpose: it parks on what it saw before it dropped the lock.
PopTimedWait_NoLook(t) ==
  /\ At(t, "pop_timed")
  /\ \/ Fire(t)
     \/ /\ ~inject[t]
        /\ pop_waiters' = Append(pop_waiters, t)
        /\ Park(t, "pop_parked")
        /\ UNCHANGED push_waiters

PopTimedWait(t) ==
  /\ At(t, "pop_timed")
  /\ \/ Fire(t)
     \/ ~inject[t] /\ sp_queue_has_item /\ Continue(t, "pop")
     \/ ~inject[t] /\ ~sp_queue_has_item /\ Refuse(t, "NoMemoryError")
     \/ /\ ~inject[t] /\ ~sp_queue_has_item
        /\ pop_waiters' = Append(pop_waiters, t)
        /\ Park(t, "pop_parked")
        /\ UNCHANGED push_waiters

PopWoken(t) ==
  /\ At(t, "pop_parked") /\ ~Listed(t)
  /\ \/ Fire(t)
     \/ /\ ~inject[t]
        /\ IF late[t] /\ ~sp_queue_has_item THEN Refuse(t, "nil")
           ELSE Continue(t, "pop")

-----------------------------------------------------------------------------
(* sp_Queue_clear, sp_Queue_close. *)

CallOther(t, l) ==
  /\ At(t, "run")
  /\ Goto(t, l)
  /\ ret' = [ret EXCEPT ![t] = "busy"]
  /\ UNCHANGED <<ring, closed, lists, call, raise>>

CallClear(t) == CallOther(t, "clear")
CallClose(t) == CallOther(t, "close")

\* sp_queue_wake_all: a batch of the list is taken under the lock; a full batch
\* is followed by another.
TakeBatch(t, list, again, next) ==
  Goto(t, IF Len(list) < WakeBatch THEN next ELSE again)

sp_Queue_clear(t) ==
  /\ At(t, "clear")
  /\ head' = 0 /\ len' = 0 /\ buf' = [i \in DOMAIN buf |-> NoValue]
  /\ IF max > 0
     THEN /\ push_waiters' = wl_take(push_waiters, WakeBatch)
          /\ TakeBatch(t, push_waiters, "clearing", "run")
     ELSE Goto(t, "run") /\ UNCHANGED push_waiters
  /\ ret' = [ret EXCEPT ![t] = IF pc'[t] = "run" THEN "ok" ELSE @]
  /\ UNCHANGED <<cap, closed, pop_waiters, call, raise>>

ClearMore(t) ==
  /\ At(t, "clearing")
  /\ push_waiters' = wl_take(push_waiters, WakeBatch)
  /\ TakeBatch(t, push_waiters, "clearing", "run")
  /\ ret' = [ret EXCEPT ![t] = IF pc'[t] = "run" THEN "ok" ELSE @]
  /\ UNCHANGED <<ring, closed, pop_waiters, call, raise>>

\* Closed, and every parked popper woken; then every parked pusher.
sp_Queue_close(t) ==
  /\ At(t, "close")
  /\ closed' = TRUE
  /\ pop_waiters' = wl_take(pop_waiters, WakeBatch)
  /\ TakeBatch(t, pop_waiters, "close_pop", "close_push")
  /\ UNCHANGED <<ring, push_waiters, call, raise, ret>>

CloseMorePoppers(t) ==
  /\ At(t, "close_pop")
  /\ pop_waiters' = wl_take(pop_waiters, WakeBatch)
  /\ TakeBatch(t, pop_waiters, "close_pop", "close_push")
  /\ UNCHANGED <<ring, closed, push_waiters, call, raise, ret>>

ClosePushers(t) ==
  /\ At(t, "close_push")
  /\ push_waiters' = wl_take(push_waiters, WakeBatch)
  /\ TakeBatch(t, push_waiters, "close_push", "run")
  /\ ret' = [ret EXCEPT ![t] = IF pc'[t] = "run" THEN "ok" ELSE @]
  /\ UNCHANGED <<ring, closed, pop_waiters, call, raise>>

-----------------------------------------------------------------------------
\* The deadline of a timed wait (sp_sched_timer_expire).
Expire(t) ==
  /\ how[t] = "timed" /\ Listed(t)
  /\ pop_waiters' = RemoveFirst(pop_waiters, t)
  /\ push_waiters' = RemoveFirst(push_waiters, t)
  /\ late' = [late EXCEPT ![t] = TRUE]
  /\ UNCHANGED <<ring, closed, pc, how, val, raise, ret>>

\* Thread#raise by another thread (sp_thread_deliver).
sp_thread_deliver(t) ==
  /\ nraise < MaxRaise
  /\ inject' = [inject EXCEPT ![t] = TRUE]
  /\ nraise' = nraise + 1
  /\ pop_waiters' = RemoveFirst(pop_waiters, t)
  /\ push_waiters' = RemoveFirst(push_waiters, t)
  /\ UNCHANGED <<ring, closed, pc, call, ret>>

\* A running thread meets its #raise at a Thread.pass or a preemption.
FireRunning(t) ==
  /\ At(t, "run") /\ inject[t]
  /\ inject' = [inject EXCEPT ![t] = FALSE]
  /\ UNCHANGED <<ring, closed, lists, pc, call, nraise, ret>>

-----------------------------------------------------------------------------
\* What a thread in a call goes on to do.
PushStep(t) ==
  \/ PushStore(t) \/ PushGrowFails(t) \/ PushClosed(t) \/ PushWait(t)
  \/ PushTimedWait(t) \/ PushWoken(t)
PopStep(t) == sp_queue_take(t) \/ PopWait(t) \/ PopTimedWait(t) \/ PopWoken(t)
AllStep(t) ==
  \/ sp_Queue_clear(t) \/ ClearMore(t)
  \/ sp_Queue_close(t) \/ CloseMorePoppers(t) \/ ClosePushers(t)
CallStep(t) ==
  \/ CallPush(t) \/ CallPop(t) \/ CallClear(t) \/ CallClose(t)
  \/ Expire(t) \/ sp_thread_deliver(t) \/ FireRunning(t)

Next ==
  /\ \E t \in Threads : PushStep(t) \/ PopStep(t) \/ AllStep(t) \/ CallStep(t)
  /\ UNCHANGED max

Spec == Init /\ [][Next]_vars

-----------------------------------------------------------------------------
(* Properties. *)

\* The type invariant: the ring's indices stay inside it, and every slot holds
\* a value, across growth, wrap-around, #clear and #close.
TypeOK ==
  /\ cap \in Nat \ {0} /\ head \in 0 .. (cap - 1) /\ len \in 0 .. cap
  /\ buf \in [0 .. (cap - 1) -> Values \cup {NoValue}]
  /\ max \in Maxes
  /\ closed \in BOOLEAN
  /\ pop_waiters \in Seq(Threads) /\ push_waiters \in Seq(Threads)
  /\ pc \in [Threads -> Labels]
  /\ how \in [Threads -> {"block", "timed", "nb"}]
  /\ val \in [Threads -> Values \cup {NoValue}]
  /\ late \in [Threads -> BOOLEAN]
  /\ inject \in [Threads -> BOOLEAN] /\ nraise \in Nat
  /\ ret \in [Threads -> Values \cup Answers \cup {"busy"}]

\* The items in the ring, head first.
items == [i \in 1 .. len |-> buf[(head + i - 1) % cap]]

\* A #clear or #close has had its effect when it goes on to wake the rest.
answer == [t \in Threads |->
             IF pc[t] \in {"clearing", "close_pop", "close_push"} THEN "ok"
             ELSE ret[t]]

F == INSTANCE Fifo WITH ret <- answer

\* The queue is the FIFO of Fifo: whatever pushes, pops, timeouts, clears and
\* closes meet, each takes effect once, at one moment, in order, and a timeout
\* is only answered when the queue is empty, or full, at that moment.
IsFifo == F!Spec

\* Threads that will look for an item, or for a slot.
Poppers ==
  {t \in Threads : At(t, "pop") \/ (At(t, "pop_parked") /\ ~Listed(t))}
Pushers ==
  {t \in Threads : At(t, "push") \/ (At(t, "push_parked") /\ ~Listed(t))}
Clearing == \E t \in Threads : At(t, "clearing")

\* "so a wake is not lost": while a popper is parked, each item has a popper
\* coming for it (the wake of sp_queue_push_impl, after which others may come).
ItemsHaveTakers ==
  pop_waiters # <<>> => closed \/ len <= Cardinality(Poppers)

\* So it is as long as no #raise ends a pop.
ItemsHaveTakersUnraised == nraise = 0 => ItemsHaveTakers

\* While a pusher is parked, each free slot has a pusher coming for it (the
\* wake of sp_queue_take), or a #clear goes on waking them; a #raise that ends
\* a push loses that wake as it does a pop's.
SlotsHaveTakers ==
  nraise = 0 /\ push_waiters # <<>> =>
    closed \/ Clearing \/ max - len <= Cardinality(Pushers)

\* After #close has returned nobody is parked on the queue, or parks again.
ClosedIsEmptied ==
  closed /\ (\A t \in Threads : pc[t] \notin {"close_pop", "close_push"})
    => pop_waiters = <<>> /\ push_waiters = <<>>

\* Nobody is parked in vain: not beside an item, not beside a free slot, and not
\* on a queue whose #close has ended (sp_queue_wake_all and the wakes of push and
\* take).
NoneWaitsInVain == ItemsHaveTakersUnraised /\ SlotsHaveTakers /\ ClosedIsEmptied
=============================================================================
