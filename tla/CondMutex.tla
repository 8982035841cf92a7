----------------------------- MODULE CondMutex -----------------------------
(***************************************************************************)
(* A Mutex (or Monitor) and a ConditionVariable of lib/sp_sched.c.  The    *)
(* uncontended #lock and #unlock are a compare-exchange on m->owner, taken *)
(* without the mutex's wait lock; a contended #lock counts itself in       *)
(* m->nwaiters, looks once more and parks, an #unlock clears owner, reads  *)
(* the count and wakes one waiter, which takes the mutex itself or parks   *)
(* again.  A wait on the condition variable releases the mutex once it is  *)
(* listed, and takes it back with a pending #raise deferred.               *)
(*                                                                         *)
(* Every atomic operation on owner and nwaiters is a step of its own, also *)
(* under the wait lock (wl), and a waiter is taken off its list in one     *)
(* step and made runnable in a later one: a #raise may come in between.    *)
(* That a thread made runnable does run is ParkWake's subject.  The        *)
(* condition variable's own lock guards its list alone, so what happens    *)
(* under it is one step.                                                   *)
(***************************************************************************)
EXTENDS Naturals, Sequences, SequencesExt, FiniteSets

CONSTANTS
  Threads,
  NoThread,   \* NULL
  MaxNest,    \* bound: nested #lock calls of a thread
  MaxRaise,   \* bound: Thread#raise calls made, and timers without storage
  RaiseAt,    \* the labels of a thread at which another raises in it
  Waits       \* the kinds of wait the program makes: "plain", "timed", "nb"

ASSUME ConstAssumption ==
  /\ IsFiniteSet(Threads) /\ NoThread \notin Threads
  /\ MaxNest \in Nat /\ MaxRaise \in Nat
  /\ Waits \subseteq {"plain", "timed", "nb"}

VARIABLES
  reentrant,  \* m->reentrant: a Monitor
  owner,      \* m->owner
  depth,      \* m->depth: re-acquisitions beyond the first
  nwaiters,   \* m->nwaiters
  waiters,    \* m->waiters, head first
  wl,         \* the thread holding m->wl
  cvlist,     \* cv->waiters, head first
  pc,         \* where each thread is
  nest,       \* the #lock calls a thread has not undone
  wait,       \* the kind of wait a thread is in
  saved,      \* the depth it gives back after the wait
  front,      \* repark_front
  woken,      \* the parked thread has been made runnable
  hand,       \* the threads a thread has taken off a list and has to wake
  unparking,  \* the thread a raiser found BLOCKED and is to take off its list
  raising,    \* the thread it is to make runnable after that
  crossed,    \* history: it was on no list, and is made runnable all the same
  inject,     \* a #raise is pending on its fiber
  defer,      \* inject_defer: it stays pending
  nraise      \* #raise calls made, and timers refused, so far

mutex == <<owner, depth, nwaiters, waiters, wl>>
raise == <<inject, defer, nraise>>
raiser == <<unparking, raising, crossed>>
wakes == <<woken, hand, raiser>>
prog  == <<nest, wait, saved, front>>
vars  == <<reentrant, mutex, cvlist, wakes, pc, prog, raise>>

\* Labels: of #lock, of #unlock, of a wait.
LockLabels   == {"lock", "slow", "count", "last", "park", "relock", "link",
                 "parked", "discount"}
UnlockLabels == {"unlock", "ucas", "ucheck", "uwake", "uslow", "waking"}
WaitLabels   == {"cv", "cv_release", "cv_wake", "cv_waking", "cv_parked",
                 "cv_done"}
Labels == {"run"} \cup LockLabels \cup UnlockLabels \cup WaitLabels

Init ==
  /\ reentrant \in BOOLEAN
  /\ owner = NoThread /\ depth = 0 /\ nwaiters = 0 /\ waiters = <<>>
  /\ wl = NoThread /\ cvlist = <<>>
  /\ pc = [t \in Threads |-> "run"]
  /\ nest = [t \in Threads |-> 0]
  /\ wait = [t \in Threads |-> "none"]
  /\ saved = [t \in Threads |-> 0]
  /\ front = [t \in Threads |-> FALSE]
  /\ woken = [t \in Threads |-> FALSE]
  /\ hand = [t \in Threads |-> {}]
  /\ unparking = NoThread /\ raising = NoThread /\ crossed = FALSE
  /\ inject = [t \in Threads |-> FALSE]
  /\ defer = [t \in Threads |-> FALSE]
  /\ nraise = 0

At(t, l) == pc[t] = l
Goto(t, l) == pc' = [pc EXCEPT ![t] = l]
WlFree == wl = NoThread

\* t goes on a list, at its tail or, where it lost a race after its wake, at
\* its head.
Listed(list, t) == IF front[t] THEN <<t>> \o list ELSE Append(list, t)
Parking(t) ==
  /\ front' = [front EXCEPT ![t] = FALSE]
  /\ woken' = [woken EXCEPT ![t] = FALSE]

\* t has published its park (PARKING or PARKED, or woken out of that).
Asleep(t) ==
  \/ pc[t] \in {"link", "parked"}
  \/ /\ pc[t] \in {"cv_release", "cv_wake", "cv_waking", "cv_parked"}
     /\ wait[t] # "nb"

\* sched_make_runnable: nothing happens to a thread that has not parked.
sched_make_runnable(t) ==
  woken' = [woken EXCEPT ![t] = @ \/ Asleep(t)]

\* t takes the first waiter off a list, to wake it afterwards.
wl_take_one(list) == IF list = <<>> THEN <<>> ELSE Tail(list)
TakeFirst(t, list) ==
  hand' = [hand EXCEPT ![t] = IF list = <<>> THEN {} ELSE {Head(list)}]

\* A woken thread runs on.
Consume(t) == woken' = [woken EXCEPT ![t] = FALSE]

\* A pending #raise fires: consumed, and the thread goes on in its rescue.
Fire(t) ==
  /\ inject' = [inject EXCEPT ![t] = FALSE]
  /\ UNCHANGED <<defer, nraise>>

\* The mutex is t's: #lock returns, or the wait goes on.
Acquired(t) ==
  IF wait[t] = "none"
  THEN /\ nest' = [nest EXCEPT ![t] = @ + 1] /\ Goto(t, "run")
       /\ UNCHANGED <<wait, saved, front>>
  ELSE Goto(t, "cv_done") /\ UNCHANGED prog

-----------------------------------------------------------------------------
(* sp_Mutex_lock. *)

Lock(t) ==
  /\ At(t, "run") /\ nest[t] < MaxNest
  /\ Goto(t, "lock")
  /\ UNCHANGED <<reentrant, mutex, cvlist, wakes, prog, raise>>

\* The exchange of the fast path, and of the spin.
LockFast(t) ==
  /\ At(t, "lock") /\ owner = NoThread
  /\ owner' = t
  /\ Acquired(t)
  /\ UNCHANGED <<reentrant, depth, nwaiters, waiters, wl, cvlist, wakes, raise>>

\* It failed, and so did the spin.
LockContended(t) ==
  /\ At(t, "lock") /\ owner # NoThread
  /\ Goto(t, "slow")
  /\ UNCHANGED <<reentrant, mutex, cvlist, wakes, prog, raise>>

\* Under the wait lock.  The owner's own #lock goes deeper, or raises.
LockSlow(t) ==
  /\ At(t, "slow") /\ WlFree
  /\ \/ /\ owner = t /\ reentrant
        /\ depth' = depth + 1 /\ Acquired(t)
        /\ UNCHANGED <<owner, wl>>
     \/ /\ owner = t /\ ~reentrant
        /\ Goto(t, "run")
        /\ UNCHANGED <<owner, depth, wl, prog>>
     \/ /\ owner = NoThread
        /\ owner' = t /\ Acquired(t)
        /\ UNCHANGED <<depth, wl>>
     \/ /\ owner \notin {t, NoThread}
        /\ wl' = t /\ Goto(t, "count")
        /\ UNCHANGED <<owner, depth, prog>>
  /\ UNCHANGED <<reentrant, nwaiters, waiters, cvlist, wakes, raise>>

\* Counted before the last look at owner.
LockCount(t) ==
  /\ At(t, "count")
  /\ nwaiters' = nwaiters + 1
  /\ Goto(t, "last")
  /\ UNCHANGED <<reentrant, owner, depth, waiters, wl, cvlist, wakes, prog,
                 raise>>

LockLast(t) ==
  /\ At(t, "last")
  /\ \/ /\ owner = NoThread /\ owner' = t
        /\ Goto(t, "discount")
     \/ /\ owner # NoThread
        /\ Goto(t, "park")
        /\ UNCHANGED owner
  /\ UNCHANGED <<reentrant, depth, nwaiters, waiters, wl, cvlist, wakes, prog,
                 raise>>

\* sp_sched_block_wl: a pending #raise leaves #lock; one that is deferred is
\* left pending, but the wait lock was dropped for it.
LockPark(t) ==
  /\ At(t, "park")
  /\ wl' = NoThread
  /\ \/ /\ inject[t] /\ ~defer[t]
        /\ Fire(t) /\ Goto(t, "run")
        /\ UNCHANGED <<waiters, woken, front>>
     \/ /\ inject[t] /\ defer[t]
        /\ Goto(t, "relock")
        /\ UNCHANGED <<waiters, woken, front, raise>>
     \/ /\ ~inject[t]
        /\ waiters' = Listed(waiters, t)
        /\ Parking(t)
        /\ Goto(t, "parked")
        /\ UNCHANGED raise
  /\ UNCHANGED <<reentrant, owner, depth, nwaiters, cvlist, hand, raiser, nest,
                 wait, saved>>

\* Taken again, and it parks, without the inject slot held: BLOCKED first, and
\* then on the list.
LockRelock(t) ==
  /\ At(t, "relock") /\ WlFree
  /\ wl' = t
  /\ woken' = [woken EXCEPT ![t] = FALSE]
  /\ Goto(t, "link")
  /\ UNCHANGED <<reentrant, owner, depth, nwaiters, waiters, cvlist, hand, raiser,
                 prog, raise>>

LockLink(t) ==
  /\ At(t, "link")
  /\ waiters' = Listed(waiters, t)
  /\ front' = [front EXCEPT ![t] = FALSE]
  /\ wl' = NoThread
  /\ Goto(t, "parked")
  /\ UNCHANGED <<reentrant, owner, depth, nwaiters, cvlist, wakes, nest, wait,
                 saved, raise>>

\* Wrong on purpose: the mutex is the woken waiter's, whoever took it meanwhile.
LockWoken_HandedOff(t) ==
  /\ At(t, "parked") /\ woken[t] /\ WlFree
  /\ Consume(t)
  /\ owner' = t /\ wl' = t /\ Goto(t, "discount")
  /\ UNCHANGED <<reentrant, depth, nwaiters, waiters, cvlist, hand, raiser, prog,
                 raise>>

\* Woken: it takes the mutex itself, or parks again, first in the list.
LockWoken(t) ==
  /\ At(t, "parked") /\ woken[t] /\ Consume(t)
  /\ \/ /\ inject[t] /\ ~defer[t]
        /\ Fire(t) /\ Goto(t, "run")
        /\ UNCHANGED <<owner, wl, front>>
     \/ /\ ~inject[t] \/ defer[t]
        /\ WlFree /\ wl' = t
        /\ \/ /\ owner = NoThread /\ owner' = t
              /\ Goto(t, "discount")
              /\ UNCHANGED front
           \/ /\ owner # NoThread
              /\ front' = [front EXCEPT ![t] = TRUE]
              /\ Goto(t, "park")
              /\ UNCHANGED owner
        /\ UNCHANGED raise
  /\ UNCHANGED <<reentrant, depth, nwaiters, waiters, cvlist, hand, raiser, nest,
                 wait, saved>>

LockDiscount(t) ==
  /\ At(t, "discount")
  /\ nwaiters' = nwaiters - 1
  /\ wl' = NoThread
  /\ Acquired(t)
  /\ UNCHANGED <<reentrant, owner, depth, waiters, cvlist, wakes, raise>>

\* sp_Mutex_try_lock.
sp_Mutex_try_lock(t) ==
  /\ At(t, "run") /\ nest[t] < MaxNest
  /\ \/ /\ owner = t /\ reentrant
        /\ depth' = depth + 1
        /\ UNCHANGED owner
     \/ /\ owner = NoThread /\ owner' = t
        /\ UNCHANGED depth
  /\ nest' = [nest EXCEPT ![t] = @ + 1]
  /\ UNCHANGED <<reentrant, nwaiters, waiters, wl, cvlist, wakes, pc, wait,
                 saved, front, raise>>

-----------------------------------------------------------------------------
(* sp_Mutex_unlock. *)

\* Called by the owner, or by a thread that does not hold the mutex.
Unlock(t) ==
  /\ At(t, "run")
  /\ Goto(t, "unlock")
  /\ UNCHANGED <<reentrant, mutex, cvlist, wakes, prog, raise>>

\* The fast path: nobody waits.
UnlockLook(t) ==
  /\ At(t, "unlock")
  /\ Goto(t, IF depth = 0 /\ nwaiters = 0 THEN "ucas" ELSE "uslow")
  /\ UNCHANGED <<reentrant, mutex, cvlist, wakes, prog, raise>>

\* t lets the mutex go.
Release(t) ==
  /\ owner' = NoThread
  /\ nest' = [nest EXCEPT ![t] = @ - 1]

UnlockCas(t) ==
  /\ At(t, "ucas")
  /\ \/ /\ owner = t /\ Release(t)
        /\ Goto(t, "ucheck")
     \/ /\ owner # t
        /\ Goto(t, "uslow")
        /\ UNCHANGED <<owner, nest>>
  /\ UNCHANGED <<reentrant, depth, nwaiters, waiters, wl, cvlist, wakes, wait,
                 saved, front, raise>>

\* Wrong on purpose: the count is not read again.
UnlockCheck_Once(t) ==
  /\ At(t, "ucheck")
  /\ Goto(t, "run")
  /\ UNCHANGED <<reentrant, mutex, cvlist, wakes, prog, raise>>

\* A waiter may have counted itself meanwhile.
UnlockCheck(t) ==
  /\ At(t, "ucheck")
  /\ Goto(t, IF nwaiters = 0 THEN "run" ELSE "uwake")
  /\ UNCHANGED <<reentrant, mutex, cvlist, wakes, prog, raise>>

\* Where a thread goes on that has woken whom it took.
Awakened(t) ==
  IF pc[t] \in {"uwake", "uslow", "waking"} THEN "run"
  ELSE IF wait[t] = "nb" THEN "lock" ELSE "cv_parked"

\* sp_mutex_wake_waiter: the first waiter is taken, under the wait lock.
sp_mutex_wake_waiter(t) ==
  /\ pc[t] \in {"uwake", "cv_wake"} /\ WlFree
  /\ waiters' = wl_take_one(waiters) /\ TakeFirst(t, waiters)
  /\ Goto(t, IF waiters = <<>> THEN Awakened(t)
             ELSE IF At(t, "uwake") THEN "waking" ELSE "cv_waking")
  /\ UNCHANGED <<reentrant, owner, depth, nwaiters, wl, cvlist, woken, raiser,
                 prog, raise>>

\* Whom it took it wakes, one after the other, with no wait lock held.
sched_wake_unlinked(t) ==
  \E u \in hand[t] :
    /\ sched_make_runnable(u)
    /\ hand' = [hand EXCEPT ![t] = @ \ {u}]
    /\ Goto(t, IF hand[t] = {u} THEN Awakened(t) ELSE pc[t])
    /\ UNCHANGED <<reentrant, mutex, cvlist, raiser, prog, raise>>

\* The slow path: less deep, or released and the first waiter taken, or the
\* ThreadError of a thread that is not the owner.
UnlockSlow(t) ==
  /\ At(t, "uslow") /\ WlFree
  /\ \/ /\ depth > 0 /\ owner = t
        /\ depth' = depth - 1
        /\ nest' = [nest EXCEPT ![t] = @ - 1]
        /\ Goto(t, "run")
        /\ UNCHANGED <<owner, waiters, hand>>
     \/ /\ depth = 0 /\ owner = t
        /\ Release(t)
        /\ waiters' = wl_take_one(waiters) /\ TakeFirst(t, waiters)
        /\ Goto(t, IF waiters = <<>> THEN "run" ELSE "waking")
        /\ UNCHANGED depth
     \/ /\ owner # t
        /\ Goto(t, "run")
        /\ UNCHANGED <<owner, depth, nest, waiters, hand>>
  /\ UNCHANGED <<reentrant, nwaiters, wl, cvlist, woken, raiser, wait, saved,
                 front, raise>>

-----------------------------------------------------------------------------
(* sp_CondVar_wait, sp_CondVar_wait_timeout, sp_CondVar_wait_nb. *)

\* Wrong on purpose: a Monitor's depth is left on it.
sp_cv_depth_take_Left(t) ==
  saved' = [saved EXCEPT ![t] = depth] /\ UNCHANGED depth

\* A Monitor held more than once is released whole.
sp_cv_depth_take(t) ==
  saved' = [saved EXCEPT ![t] = depth] /\ depth' = 0

\* A wait by a thread that is not the owner raises and changes nothing.
Wait(t) ==
  /\ At(t, "run") /\ owner = t
  /\ \E k \in Waits : wait' = [wait EXCEPT ![t] = k]
  /\ sp_cv_depth_take(t)
  /\ Goto(t, "cv")
  /\ UNCHANGED <<reentrant, owner, nwaiters, waiters, wl, cvlist, wakes, nest,
                 front, raise>>

\* The call is over, and its locals with it.
WaitOver(t) ==
  /\ wait' = [wait EXCEPT ![t] = "none"]
  /\ saved' = [saved EXCEPT ![t] = 0]

\* It raises out of the wait with the mutex held: what was pending, or that
\* there was no storage for the timer.
WaitRaises(t) ==
  /\ At(t, "cv")
  /\ \/ inject[t] /\ Fire(t)
     \/ /\ ~inject[t] /\ wait[t] = "timed" /\ nraise < MaxRaise
        /\ nraise' = nraise + 1
        /\ UNCHANGED <<inject, defer>>
  /\ WaitOver(t)
  /\ Goto(t, "run")
  /\ UNCHANGED <<reentrant, mutex, cvlist, wakes, nest, front>>

\* Wrong on purpose: the mutex is released before the thread is listed.
WaitList_Late(t) ==
  /\ At(t, "cv") /\ ~inject[t]
  /\ owner' = NoThread
  /\ Parking(t)
  /\ defer' = [defer EXCEPT ![t] = TRUE]
  /\ Goto(t, "cv_wake")
  /\ UNCHANGED <<reentrant, depth, nwaiters, waiters, wl, cvlist, hand, raiser,
                 nest, wait, saved, inject, nraise>>

\* Listed, while the mutex is still held.
WaitList(t) ==
  /\ At(t, "cv") /\ ~inject[t]
  /\ IF wait[t] = "nb" THEN UNCHANGED <<cvlist, woken, front>>
     ELSE cvlist' = Listed(cvlist, t) /\ Parking(t)
  /\ defer' = [defer EXCEPT ![t] = TRUE]
  /\ Goto(t, "cv_release")
  /\ UNCHANGED <<reentrant, mutex, hand, raiser, nest, wait, saved, inject,
                 nraise>>

WaitRelease(t) ==
  /\ At(t, "cv_release")
  /\ owner' = NoThread
  /\ Goto(t, "cv_wake")
  /\ UNCHANGED <<reentrant, depth, nwaiters, waiters, wl, cvlist, wakes, prog,
                 raise>>

\* The deadline of a timed wait.
Expire(t) ==
  /\ wait[t] = "timed" /\ t \in Range(cvlist)
  /\ cvlist' = RemoveFirst(cvlist, t)
  /\ sched_make_runnable(t)
  /\ UNCHANGED <<reentrant, mutex, hand, raiser, pc, prog, raise>>

\* Signalled, timed out or raised in: the mutex is taken back first.
WaitWoken(t) ==
  /\ At(t, "cv_parked") /\ woken[t] /\ Consume(t)
  /\ Goto(t, "lock")
  /\ UNCHANGED <<reentrant, mutex, cvlist, hand, raiser, prog, raise>>

\* The #raise that was deferred fires here; without one the depth is restored.
WaitDone(t) ==
  /\ At(t, "cv_done")
  /\ defer' = [defer EXCEPT ![t] = FALSE]
  /\ \/ /\ inject[t]
        /\ inject' = [inject EXCEPT ![t] = FALSE]
        /\ UNCHANGED depth
     \/ /\ ~inject[t]
        /\ depth' = saved[t]
        /\ UNCHANGED inject
  /\ WaitOver(t)
  /\ Goto(t, "run")
  /\ UNCHANGED <<reentrant, owner, nwaiters, waiters, wl, cvlist, wakes, nest,
                 front, nraise>>

\* The first of those who wait is taken, or all of them, and woken afterwards.
sp_CondVar_signal(t) ==
  /\ At(t, "run") /\ cvlist # <<>>
  /\ cvlist' = wl_take_one(cvlist) /\ TakeFirst(t, cvlist)
  /\ Goto(t, "waking")
  /\ UNCHANGED <<reentrant, mutex, woken, raiser, prog, raise>>

sp_CondVar_broadcast(t) ==
  /\ At(t, "run") /\ cvlist # <<>>
  /\ cvlist' = <<>>
  /\ hand' = [hand EXCEPT ![t] = Range(cvlist)]
  /\ Goto(t, "waking")
  /\ UNCHANGED <<reentrant, mutex, woken, raiser, prog, raise>>

-----------------------------------------------------------------------------
(* Thread#raise and Thread#kill: sp_thread_deliver, under the scheduler     *)
(* lock, so one at a time.                                                  *)

\* The inject is set and the state looked at.  A thread that was woken may still
\* be BLOCKED: it is until its worker, or its waker, has queued it.
sp_thread_deliver(t) ==
  /\ nraise < MaxRaise /\ pc[t] \in RaiseAt
  /\ unparking = NoThread /\ raising = NoThread
  /\ inject' = [inject EXCEPT ![t] = TRUE]
  /\ nraise' = nraise + 1
  /\ \/ Asleep(t) /\ unparking' = t
     \/ (Asleep(t) => woken[t]) /\ UNCHANGED unparking
  /\ UNCHANGED <<reentrant, mutex, cvlist, woken, hand, raising, crossed, pc,
                 prog, defer>>

\* sp_sched_unpark, whose answer is not looked at: a thread that is on no list,
\* since a waker has taken it, is made runnable too.
DeliverUnpark(t) ==
  /\ unparking = t
  /\ t \in Range(waiters) => WlFree
  /\ waiters' = RemoveFirst(waiters, t)
  /\ cvlist' = RemoveFirst(cvlist, t)
  /\ crossed' = (crossed \/ t \notin Range(waiters \o cvlist))
  /\ unparking' = NoThread /\ raising' = t
  /\ UNCHANGED <<reentrant, owner, depth, nwaiters, wl, woken, hand, pc, prog,
                 raise>>

DeliverWake(t) ==
  /\ raising = t
  /\ sched_make_runnable(t)
  /\ raising' = NoThread
  /\ UNCHANGED <<reentrant, mutex, cvlist, hand, unparking, crossed, pc, prog,
                 raise>>

\* A running thread meets its #raise at a Thread.pass or a preemption.
FireRunning(t) ==
  /\ At(t, "run") /\ inject[t]
  /\ Fire(t)
  /\ UNCHANGED <<reentrant, mutex, cvlist, wakes, pc, prog>>

-----------------------------------------------------------------------------
LockStep(t) ==
  \/ LockFast(t) \/ LockContended(t) \/ LockSlow(t) \/ LockCount(t)
  \/ LockLast(t) \/ LockPark(t) \/ LockRelock(t) \/ LockLink(t)
  \/ LockWoken(t) \/ LockDiscount(t)

UnlockStep(t) ==
  UnlockLook(t) \/ UnlockCas(t) \/ UnlockCheck(t) \/ UnlockSlow(t)
  \/ sp_mutex_wake_waiter(t) \/ sched_wake_unlinked(t)

WaitStep(t) ==
  WaitRaises(t) \/ WaitList(t) \/ WaitRelease(t) \/ WaitWoken(t) \/ WaitDone(t)

\* What the program calls, and what comes from outside.
CallStep(t) ==
  \/ Lock(t) \/ sp_Mutex_try_lock(t) \/ Unlock(t) \/ Wait(t)
  \/ sp_CondVar_signal(t) \/ sp_CondVar_broadcast(t) \/ Expire(t)
  \/ sp_thread_deliver(t) \/ DeliverUnpark(t) \/ DeliverWake(t)
  \/ FireRunning(t)

Next ==
  \E t \in Threads : LockStep(t) \/ UnlockStep(t) \/ WaitStep(t) \/ CallStep(t)

Spec == Init /\ [][Next]_vars

-----------------------------------------------------------------------------
(* Properties. *)

\* The type invariant of the mutex's and the condition variable's state; a
\* count of waiters that misses one goes below zero.
TypeOK ==
  /\ reentrant \in BOOLEAN
  /\ owner \in Threads \cup {NoThread} /\ wl \in Threads \cup {NoThread}
  /\ depth \in Nat /\ nwaiters \in Nat
  /\ waiters \in Seq(Threads) /\ cvlist \in Seq(Threads)
  /\ pc \in [Threads -> Labels]
  /\ nest \in [Threads -> Nat]
  /\ wait \in [Threads -> {"none", "plain", "timed", "nb"}]
  /\ saved \in [Threads -> Nat]
  /\ front \in [Threads -> BOOLEAN] /\ woken \in [Threads -> BOOLEAN]
  /\ hand \in [Threads -> SUBSET Threads] /\ crossed \in BOOLEAN
  /\ unparking \in Threads \cup {NoThread} /\ raising \in Threads \cup {NoThread}
  /\ inject \in [Threads -> BOOLEAN] /\ defer \in [Threads -> BOOLEAN]
  /\ nraise \in Nat

\* A thread is in its wait, with the mutex let go and not yet taken back.
Away(t) == wait[t] # "none" /\ pc[t] \notin {"cv", "cv_release", "cv_done"}

\* A thread inside its critical section is the mutex's owner, and a thread that
\* raises or returns out of a wait has the mutex again; so no two are inside.
\* (A store in place of the exchange once put two threads inside.)  A Monitor
\* that lost its depth to a #raise is let go too early: see DepthKept.
HoldsWhileInside ==
  (reentrant => nraise = 0) =>
    \A t \in Threads : nest[t] > 0 /\ ~Away(t) => owner = t

\* A Monitor is "released whole by a wait and taken back at the same depth": it
\* takes as many #unlock calls to let it go as there were #lock calls.
DepthKept ==
  \A t \in Threads : owner = t /\ At(t, "run") => depth = nest[t] - 1

\* So it is as long as no wait ends by raising.
DepthKeptUnraised == nraise = 0 => DepthKept

\* The waiters a contended #lock has counted.
Counted == {t \in Threads : pc[t] \in {"last", "park", "relock", "link",
                                       "parked", "discount"}}

\* "a listed waiter is a counted one": the thread that unlocks cannot take the
\* fast path while one is parked.
ListedIsCounted ==
  /\ Range(waiters) \subseteq Counted
  /\ nwaiters >= Cardinality(Counted)

\* A waker, or the raiser, has t off its list and is about to wake it.
Taken(t) == raising = t \/ \E u \in Threads : t \in hand[u]

\* Some thread will look at the list, or at the mutex.
OnTheWay ==
  \E t \in Threads :
    \/ pc[t] \in {"ucheck", "uwake", "cv_wake", "lock", "slow", "count", "last"}
    \/ At(t, "parked") /\ (woken[t] \/ Taken(t))

\* "no wake is lost": a mutex that is free while a thread is parked for it is
\* about to be offered to one.
FreeIsOffered == owner = NoThread /\ waiters # <<>> => OnTheWay

\* So it is as long as no #raise ends a #lock.
FreeIsOfferedUnraised == nraise = 0 => FreeIsOffered

\* A thread that sleeps in #lock, or in a wait that has let the mutex go, is on
\* its list: "a #signal from whoever takes the mutex next finds it there".  Or a
\* waker took it off and is on the way to wake it.
SleeperIsListed ==
  \A t \in Threads : ~woken[t] /\ ~Taken(t) =>
    /\ At(t, "parked") => t \in Range(waiters)
    /\ pc[t] \in {"cv_wake", "cv_waking", "cv_parked"} /\ wait[t] # "nb" =>
         t \in Range(cvlist)

\* Lists and counts agree: whoever is on the mutex's list is counted in nwaiters,
\* which #unlock reads without the lock, and whoever sleeps in #wait is on the
\* condition's list before the mutex is let go (sp_CondVar_wait_impl).  A #raise
\* that wakes a thread which a waker had already taken ends that: the thread may
\* be parked again, and listed, when the waker's wake comes.
ListsAgree == TypeOK /\ (~crossed => ListedIsCounted /\ SleeperIsListed)
=============================================================================
