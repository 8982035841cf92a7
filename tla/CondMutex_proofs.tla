-------------------------- MODULE CondMutex_proofs --------------------------
(***************************************************************************)
(* The safety of the mutex and the condition variable, for any number of   *)
(* threads, nested locks and raises.                                       *)
(***************************************************************************)
EXTENDS CondMutex, ListFacts, FiniteSetTheorems, WellFoundedInduction, TLAPS

\* Where a thread is in a wait, and that a raise in a wait stays pending.
WaitInv ==
  \A t \in Threads :
    /\ pc[t] \in {"run"} \cup UnlockLabels => wait[t] = "none"
    /\ pc[t] \in WaitLabels => wait[t] # "none"
    /\ wait[t] # "none" /\ pc[t] # "cv" => defer[t]
    /\ wait[t] = "none" => saved[t] = 0
    /\ inject[t] \/ pc[t] \in {"relock", "link"} => nraise > 0

\* Who has threads to wake is waking them; the raiser does one thing at a time.
WakeInv ==
  /\ \A t \in Threads : hand[t] # {} => pc[t] \in {"waking", "cv_waking"}
  /\ unparking = NoThread \/ raising = NoThread
  /\ nraise = 0 => unparking = NoThread /\ raising = NoThread /\ ~ crossed

\* Who holds the wait lock, and who is known not to own, or to own, the mutex.
HoldInv ==
  \A t \in Threads :
    /\ pc[t] \in {"count", "last", "park", "link", "discount"} => wl = t
    /\ pc[t] \in {"count", "last", "park", "relock", "link", "parked"} => owner # t
    /\ pc[t] \in {"discount", "cv", "cv_release", "cv_done"} => owner = t
    /\ pc[t] \in {"cv_wake", "cv_waking", "cv_parked", "ucheck", "uwake"} => owner # t
    /\ wait[t] # "none" /\ pc[t] \in {"lock", "slow"} => owner # t

\* A Mutex has no depth.
FlatInv == ~ reentrant => depth = 0 /\ \A t \in Threads : saved[t] = 0

\* A mutex is let go, and given away by a wait, with no depth left; the #lock
\* calls its owner has not undone are at least one more than the depth.
LowAt(t) ==
  /\ wait[t] = "none" /\ owner = t /\ pc[t] # "discount" => nest[t] > depth
  /\ wait[t] # "none" => nest[t] > saved[t]
  /\ pc[t] \in {"cv", "cv_release", "cv_done", "discount"} => depth = 0
  /\ pc[t] = "ucas" /\ owner = t => depth = 0
LowInv == (owner = NoThread => depth = 0) /\ \A t \in Threads : LowAt(t)

\* Without a raise in a Monitor's wait they are just one more.
Unharmed == reentrant => nraise = 0
NestInv ==
  Unharmed =>
    \A t \in Threads :
      /\ wait[t] = "none" =>
           nest[t] = IF owner = t /\ pc[t] # "discount" THEN depth + 1 ELSE 0
      /\ wait[t] # "none" => nest[t] = saved[t] + 1

\* Who sleeps for the mutex, and who for the condition.
Dozes(t) == pc[t] = "parked" /\ ~ woken[t]
Awaits(t) ==
  /\ pc[t] \in {"cv_release", "cv_wake", "cv_waking", "cv_parked"}
  /\ wait[t] # "nb" /\ ~ woken[t]

\* Until a #raise has crossed a wake, who is on a list sleeps there, once, and
\* who sleeps is on its list or in the hands of just one who will wake it.
OneHand(t) ==
  /\ \A a, b \in Threads : t \in hand[a] /\ t \in hand[b] => a = b
  /\ \A a \in Threads : t \in hand[a] => raising # t
Fresh(t) == pc[t] = "link" => ~ woken[t]
ListInv ==
  ~ crossed =>
    /\ IsInjective(waiters) /\ IsInjective(cvlist)
    /\ \A t \in Threads :
         /\ t \in Range(waiters) <=> Dozes(t) /\ ~ Taken(t)
         /\ t \in Range(cvlist) <=> Awaits(t) /\ ~ Taken(t)
         /\ Taken(t) => (Dozes(t) \/ Awaits(t)) /\ OneHand(t)
         /\ Fresh(t)

CountInv == nwaiters >= Cardinality(Counted)

\* A free mutex is offered to whoever waits, or is about to, for it.
OfferInv ==
  nraise = 0 /\ owner = NoThread /\ (\E t \in Threads :
      pc[t] \in {"park", "relock", "link"} \/ Dozes(t))
    => OnTheWay

IInv == /\ TypeOK /\ WaitInv /\ WakeInv /\ HoldInv /\ FlatInv /\ LowInv /\ NestInv
        /\ ListInv /\ CountInv /\ OfferInv

\* What a thread does in one step.
Step(t) == LockStep(t) \/ UnlockStep(t) \/ WaitStep(t) \/ CallStep(t)

\* A thread that has woken one goes on waking, or with what it was doing.
LEMMA AfterWake ==
  ASSUME TypeOK, WakeInv, NEW t \in Threads, sched_wake_unlinked(t)
  PROVE  /\ UNCHANGED <<reentrant, mutex, cvlist, raiser, prog, raise>>
         /\ woken' \in [Threads -> BOOLEAN]
         /\ \/ pc' = pc
            \/ pc[t] = "waking" /\ pc' = [pc EXCEPT ![t] = "run"]
            \/ pc[t] = "cv_waking" /\ wait[t] = "nb" /\ pc' = [pc EXCEPT ![t] = "lock"]
            \/ pc[t] = "cv_waking" /\ wait[t] # "nb" /\ pc' = [pc EXCEPT ![t] = "cv_parked"]
<1>1. PICK u \in hand[t] :
        /\ sched_make_runnable(u)
        /\ Goto(t, IF hand[t] = {u} THEN Awakened(t) ELSE pc[t])
        /\ UNCHANGED <<reentrant, mutex, cvlist, raiser, prog, raise>>
  BY DEF sched_wake_unlinked
<1>2. pc[t] \in {"waking", "cv_waking"}
  BY <1>1 DEF WakeInv
<1>3. pc \in [Threads -> Labels] /\ u \in Threads
  BY <1>1 DEF TypeOK
<1>4. woken' \in [Threads -> BOOLEAN]
  <2>1. woken \in [Threads -> BOOLEAN] /\ (woken[u] \/ Asleep(u)) \in BOOLEAN
    BY DEF TypeOK, Asleep
  <2> QED BY <1>1, <1>3, <2>1 DEF sched_make_runnable
<1>5. CASE hand[t] = {u}
  BY <1>1, <1>2, <1>3, <1>4, <1>5 DEF Goto, Awakened
<1>6. CASE hand[t] # {u}
  BY <1>1, <1>3, <1>4, <1>6 DEF Goto
<1> QED BY <1>5, <1>6

-----------------------------------------------------------------------------
(* Where a thread is.                                                      *)

\* Waits are entered and left with the mutex, whatever is raised.
LEMMA PlaceStep ==
  ASSUME TypeOK, WaitInv, WakeInv, HoldInv, FlatInv, NEW t \in Threads, Step(t)
  PROVE  (WaitInv /\ HoldInv /\ FlatInv)'
<1> USE ConstAssumption
<1> USE DEF TypeOK, WaitInv, HoldInv, FlatInv, At, Goto, mutex, raise, wakes, prog, Labels, LockLabels,
            UnlockLabels, WaitLabels
<1>1. CASE Lock(t)
  BY <1>1 DEF Lock
<1>2. CASE LockFast(t)
  BY <1>2 DEF LockFast, Acquired
<1>3. CASE LockContended(t)
  BY <1>3 DEF LockContended
<1>4. CASE LockSlow(t)
  <2>1. CASE wait[t] = "none"
    BY <1>4, <2>1 DEF LockSlow, Acquired, WlFree
  <2>2. CASE wait[t] # "none"
    BY <1>4, <2>2 DEF LockSlow, Acquired, WlFree
  <2> QED BY <2>1, <2>2
<1>5. CASE LockCount(t)
  BY <1>5 DEF LockCount
<1>6. CASE LockLast(t)
  BY <1>6 DEF LockLast
<1>7. CASE LockPark(t)
  BY <1>7 DEF LockPark, Fire, Parking
<1>8. CASE LockRelock(t)
  BY <1>8 DEF LockRelock, Parking, WlFree
<1>9. CASE LockWoken(t)
  BY <1>9 DEF LockWoken, Consume, Fire, WlFree
<1>10. CASE LockDiscount(t)
  BY <1>10 DEF LockDiscount, Acquired
<1>11. CASE sp_Mutex_try_lock(t)
  BY <1>11 DEF sp_Mutex_try_lock
<1>12. CASE Unlock(t)
  BY <1>12 DEF Unlock
<1>13. CASE UnlockLook(t)
  BY <1>13 DEF UnlockLook
<1>14. CASE UnlockCas(t)
  BY <1>14 DEF UnlockCas, Release
<1>15. CASE UnlockCheck(t)
  BY <1>15 DEF UnlockCheck
<1>16. CASE sp_mutex_wake_waiter(t)
  BY <1>16 DEF sp_mutex_wake_waiter, TakeFirst, Awakened, WlFree
<1>17. CASE UnlockSlow(t)
  BY <1>17 DEF UnlockSlow, Release, TakeFirst, WlFree
<1>18. CASE Wait(t)
  BY <1>18 DEF Wait, sp_cv_depth_take
<1>19. CASE WaitRaises(t)
  BY <1>19 DEF WaitRaises, Fire, WaitOver
<1>20. CASE WaitList(t)
  BY <1>20 DEF WaitList, Parking
<1>21. CASE WaitRelease(t)
  BY <1>21 DEF WaitRelease
<1>22. CASE Expire(t)
  BY <1>22 DEF Expire
<1>23. CASE WaitWoken(t)
  BY <1>23 DEF WaitWoken, Consume
<1>24. CASE WaitDone(t)
  BY <1>24 DEF WaitDone, WaitOver
<1>25. CASE sp_CondVar_signal(t)
  BY <1>25 DEF sp_CondVar_signal, TakeFirst
<1>26. CASE sp_CondVar_broadcast(t)
  BY <1>26 DEF sp_CondVar_broadcast
<1>27. CASE sp_thread_deliver(t)
  BY <1>27 DEF sp_thread_deliver, WlFree
<1>28. CASE FireRunning(t)
  BY <1>28 DEF FireRunning, Fire
<1>29. CASE LockLink(t)
  BY <1>29 DEF LockLink
<1>30. CASE sched_wake_unlinked(t)
  <2>1. /\ UNCHANGED <<reentrant, mutex, cvlist, raiser, prog, raise>>
        /\ \/ pc' = pc
           \/ pc[t] = "waking" /\ pc' = [pc EXCEPT ![t] = "run"]
           \/ pc[t] = "cv_waking" /\ pc' = [pc EXCEPT ![t] = "lock"]
           \/ pc[t] = "cv_waking" /\ pc' = [pc EXCEPT ![t] = "cv_parked"]
    BY <1>30, AfterWake
  <2> QED BY <2>1
<1>31. CASE DeliverUnpark(t)
  BY <1>31 DEF DeliverUnpark
<1>32. CASE DeliverWake(t)
  BY <1>32 DEF DeliverWake, sched_make_runnable
<1> QED BY <1>1, <1>2, <1>3, <1>4, <1>5, <1>6, <1>7, <1>8, <1>9, <1>10, <1>11, <1>12,
           <1>13, <1>14, <1>15, <1>16, <1>17, <1>18, <1>19, <1>20, <1>21, <1>22, <1>23,
           <1>24, <1>25, <1>26, <1>27, <1>28, <1>29, <1>30, <1>31, <1>32
     DEF Step, LockStep, UnlockStep, WaitStep, CallStep

-----------------------------------------------------------------------------
(* How deep a thread is inside.                                            *)

\* Each #lock adds one to the depth its thread is let out of again.
LEMMA LowStep ==
  ASSUME TypeOK, WaitInv, WakeInv, HoldInv, LowInv, NEW t \in Threads, Step(t)
  PROVE  LowInv'
<1> USE ConstAssumption
<1> USE DEF TypeOK, WaitInv, HoldInv, LowInv, LowAt, At, Goto, mutex, raise, wakes,
            prog, Labels, LockLabels, UnlockLabels, WaitLabels
<1>1. CASE Lock(t)
  BY <1>1 DEF Lock
<1>2. CASE LockFast(t)
  <2>a. /\ nest \in [Threads -> Nat] /\ pc \in [Threads -> Labels] /\ t # NoThread
        /\ depth \in Nat /\ \A u \in Threads : nest[u] \in Nat
    OBVIOUS
  <2>1. CASE wait[t] = "none"
    <3>1. /\ nest'[t] = nest[t] + 1 /\ pc'[t] = "run" /\ UNCHANGED <<wait, saved>>
          /\ \A u \in Threads : u # t => nest'[u] = nest[u] /\ pc'[u] = pc[u]
      BY <1>2, <2>1, <2>a DEF LockFast, Acquired
    <3>2. owner' = t /\ depth = 0 /\ depth' = 0 /\ owner = NoThread
      BY <1>2, <2>1, <2>a, <3>1 DEF LockFast
    <3> HIDE DEF TypeOK, WaitInv, HoldInv, LowAt, Labels, Goto, At
    <3>3. LowAt(t)'
      BY <2>1, <2>a, <3>1, <3>2 DEF LowAt
    <3>4. ASSUME NEW u \in Threads, u # t PROVE LowAt(u)'
      BY <2>1, <2>a, <3>1, <3>2, <3>4 DEF LowAt
    <3> QED BY <2>a, <3>2, <3>3, <3>4
  <2>2. CASE wait[t] # "none"
    BY <1>2, <2>2 DEF LockFast, Acquired
  <2> QED BY <2>1, <2>2
<1>3. CASE LockContended(t)
  BY <1>3 DEF LockContended
<1>4. CASE LockSlow(t)
  <2>a. /\ nest \in [Threads -> Nat] /\ pc \in [Threads -> Labels] /\ t # NoThread
        /\ depth \in Nat /\ \A u \in Threads : nest[u] \in Nat
    OBVIOUS
  <2>1. CASE Acquired(t) /\ wait[t] = "none"
    <3>1. /\ nest'[t] = nest[t] + 1 /\ pc'[t] = "run" /\ UNCHANGED <<wait, saved>>
          /\ \A u \in Threads : u # t => nest'[u] = nest[u] /\ pc'[u] = pc[u]
      BY <2>1, <2>a DEF Acquired
    <3>2. /\ owner' = t /\ UNCHANGED <<reentrant, nraise>>
          /\ \/ owner = t /\ depth' = depth + 1 /\ reentrant
             \/ owner = NoThread /\ depth' = depth
      BY <1>4, <2>1, <3>1 DEF LockSlow
    <3>3. pc[t] = "slow"
      BY <1>4 DEF LockSlow
    <3> HIDE DEF TypeOK, WaitInv, LowAt, Labels, Goto, At
    <3>4. LowAt(t)'
      BY <2>1, <2>a, <3>1, <3>2, <3>3 DEF LowAt
    <3>5. ASSUME NEW u \in Threads, u # t PROVE LowAt(u)'
      BY <2>1, <2>a, <3>1, <3>2, <3>5 DEF LowAt
    <3> QED BY <2>a, <3>2, <3>4, <3>5
  <2>2. CASE ~ (Acquired(t) /\ wait[t] = "none")
    BY <1>4, <2>2 DEF LockSlow, Acquired, WlFree
  <2> QED BY <2>1, <2>2
<1>5. CASE LockCount(t)
  BY <1>5 DEF LockCount
<1>6. CASE LockLast(t)
  BY <1>6 DEF LockLast
<1>7. CASE LockPark(t)
  BY <1>7 DEF LockPark, Fire, Parking
<1>8. CASE LockRelock(t)
  BY <1>8 DEF LockRelock, Parking, WlFree
<1>9. CASE LockWoken(t)
  BY <1>9 DEF LockWoken, Consume, Fire, WlFree
<1>10. CASE LockDiscount(t)
  <2>a. /\ nest \in [Threads -> Nat] /\ pc \in [Threads -> Labels] /\ t # NoThread
        /\ depth \in Nat /\ \A u \in Threads : nest[u] \in Nat
    OBVIOUS
  <2>1. CASE wait[t] = "none"
    <3>1. /\ nest'[t] = nest[t] + 1 /\ pc'[t] = "run" /\ UNCHANGED <<wait, saved>>
          /\ \A u \in Threads : u # t => nest'[u] = nest[u] /\ pc'[u] = pc[u]
      BY <1>10, <2>1, <2>a DEF LockDiscount, Acquired
    <3> QED BY <1>10, <2>1, <2>a, <3>1 DEF LockDiscount
  <2>2. CASE wait[t] # "none"
    BY <1>10, <2>2 DEF LockDiscount, Acquired
  <2> QED BY <2>1, <2>2
<1>11. CASE sp_Mutex_try_lock(t)
  BY <1>11 DEF sp_Mutex_try_lock
<1>12. CASE Unlock(t)
  BY <1>12 DEF Unlock
<1>13. CASE UnlockLook(t)
  BY <1>13 DEF UnlockLook
<1>14. CASE UnlockCas(t)
  <2>a. /\ nest \in [Threads -> Nat] /\ pc \in [Threads -> Labels] /\ t # NoThread
        /\ depth \in Nat /\ \A u \in Threads : nest[u] \in Nat
    OBVIOUS
  <2>1. CASE owner = t
    <3>1. /\ nest'[t] = nest[t] - 1 /\ pc'[t] = "ucheck" /\ owner' = NoThread
          /\ UNCHANGED <<wait, saved, depth, reentrant, nraise>> /\ pc[t] = "ucas"
          /\ \A u \in Threads : u # t => nest'[u] = nest[u] /\ pc'[u] = pc[u]
      BY <1>14, <2>1, <2>a DEF UnlockCas, Release
    <3> QED BY <2>1, <2>a, <3>1
  <2>2. CASE owner # t
    BY <1>14, <2>2 DEF UnlockCas, Release
  <2> QED BY <2>1, <2>2
<1>15. CASE UnlockCheck(t)
  BY <1>15 DEF UnlockCheck
<1>16. CASE sp_mutex_wake_waiter(t)
  BY <1>16 DEF sp_mutex_wake_waiter, TakeFirst, Awakened, WlFree
<1>17. CASE UnlockSlow(t)
  <2>a. /\ nest \in [Threads -> Nat] /\ pc \in [Threads -> Labels] /\ t # NoThread
        /\ depth \in Nat /\ \A u \in Threads : nest[u] \in Nat /\ saved[u] \in Nat
    OBVIOUS
  <2>b. UNCHANGED <<wait, saved>> /\ pc[t] = "uslow" /\ wait[t] = "none"
    BY <1>17 DEF UnlockSlow
  <2>1. CASE owner = t
    <3>1. /\ nest'[t] = nest[t] - 1 /\ pc'[t] \in {"run", "waking"}
          /\ \/ depth > 0 /\ owner' = t /\ depth' = depth - 1
             \/ depth = 0 /\ owner' = NoThread /\ depth' = 0
          /\ \A u \in Threads : u # t => nest'[u] = nest[u] /\ pc'[u] = pc[u]
      BY <1>17, <2>1, <2>a DEF UnlockSlow, Release
    <3>2. nest[t] > depth
      BY <2>1, <2>b
    <3>3. \A u \in Threads : pc[u] \in {"cv", "cv_release", "cv_done", "discount"} => owner = u
      OBVIOUS
    <3> HIDE DEF TypeOK, WaitInv, HoldInv, LowAt, Labels, Goto, At
    <3>4. LowAt(t)'
      BY <2>1, <2>a, <2>b, <3>1, <3>2 DEF LowAt
    <3>5. ASSUME NEW u \in Threads, u # t PROVE LowAt(u)'
      BY <2>1, <2>a, <2>b, <3>1, <3>3, <3>5 DEF LowAt
    <3> QED BY <2>a, <3>1, <3>4, <3>5
  <2>2. CASE owner # t
    BY <1>17, <2>2 DEF UnlockSlow
  <2> QED BY <2>1, <2>2
<1>18. CASE Wait(t)
  BY <1>18 DEF Wait, sp_cv_depth_take
<1>19. CASE WaitRaises(t)
  <2>1. CASE inject[t] /\ Fire(t)
    BY <1>19, <2>1 DEF WaitRaises, Fire, WaitOver
  <2>2. CASE ~ inject[t] /\ nraise' = nraise + 1 /\ UNCHANGED <<inject, defer>>
    BY <1>19, <2>2 DEF WaitRaises, Fire, WaitOver
  <2> QED BY <1>19, <2>1, <2>2 DEF WaitRaises
<1>20. CASE WaitList(t)
  BY <1>20 DEF WaitList, Parking
<1>21. CASE WaitRelease(t)
  BY <1>21 DEF WaitRelease
<1>22. CASE Expire(t)
  BY <1>22 DEF Expire
<1>23. CASE WaitWoken(t)
  BY <1>23 DEF WaitWoken, Consume
<1>24. CASE WaitDone(t)
  BY <1>24 DEF WaitDone, WaitOver
<1>25. CASE sp_CondVar_signal(t)
  BY <1>25 DEF sp_CondVar_signal, TakeFirst
<1>26. CASE sp_CondVar_broadcast(t)
  BY <1>26 DEF sp_CondVar_broadcast
<1>27. CASE sp_thread_deliver(t)
  BY <1>27 DEF sp_thread_deliver, WlFree
<1>28. CASE FireRunning(t)
  BY <1>28 DEF FireRunning, Fire
<1>29. CASE LockLink(t)
  BY <1>29 DEF LockLink
<1>30. CASE sched_wake_unlinked(t)
  <2>1. /\ UNCHANGED <<reentrant, mutex, cvlist, raiser, prog, raise>>
        /\ \/ pc' = pc
           \/ pc[t] = "waking" /\ pc' = [pc EXCEPT ![t] = "run"]
           \/ pc[t] = "cv_waking" /\ pc' = [pc EXCEPT ![t] = "lock"]
           \/ pc[t] = "cv_waking" /\ pc' = [pc EXCEPT ![t] = "cv_parked"]
    BY <1>30, AfterWake
  <2> QED BY <2>1
<1>31. CASE DeliverUnpark(t)
  BY <1>31 DEF DeliverUnpark
<1>32. CASE DeliverWake(t)
  BY <1>32 DEF DeliverWake, sched_make_runnable
<1> QED BY <1>1, <1>2, <1>3, <1>4, <1>5, <1>6, <1>7, <1>8, <1>9, <1>10, <1>11, <1>12,
           <1>13, <1>14, <1>15, <1>16, <1>17, <1>18, <1>19, <1>20, <1>21, <1>22, <1>23,
           <1>24, <1>25, <1>26, <1>27, <1>28, <1>29, <1>30, <1>31, <1>32
     DEF Step, LockStep, UnlockStep, WaitStep, CallStep

LEMMA NestStep ==
  ASSUME TypeOK, WaitInv, WakeInv, HoldInv, FlatInv, LowInv, NestInv,
         NEW t \in Threads, Step(t)
  PROVE  NestInv'
<1> USE ConstAssumption
<1> USE DEF TypeOK, WaitInv, HoldInv, FlatInv, LowInv, LowAt, NestInv, Unharmed, At, Goto, mutex,
            raise, wakes, prog, Labels, LockLabels, UnlockLabels, WaitLabels
<1>1. CASE Lock(t)
  BY <1>1 DEF Lock
<1>2. CASE LockFast(t)
  <2>a. /\ nest \in [Threads -> Nat] /\ pc \in [Threads -> Labels] /\ t # NoThread
        /\ depth \in Nat /\ \A u \in Threads : nest[u] \in Nat
    OBVIOUS
  <2>1. CASE wait[t] = "none"
    <3>1. /\ nest'[t] = nest[t] + 1 /\ pc'[t] = "run" /\ UNCHANGED <<wait, saved>>
          /\ \A u \in Threads : u # t => nest'[u] = nest[u] /\ pc'[u] = pc[u]
      BY <1>2, <2>1, <2>a DEF LockFast, Acquired
    <3> QED BY <1>2, <2>1, <2>a, <3>1 DEF LockFast
  <2>2. CASE wait[t] # "none"
    BY <1>2, <2>2 DEF LockFast, Acquired
  <2> QED BY <2>1, <2>2
<1>3. CASE LockContended(t)
  BY <1>3 DEF LockContended
<1>4. CASE LockSlow(t)
  <2>a. /\ nest \in [Threads -> Nat] /\ pc \in [Threads -> Labels] /\ t # NoThread
        /\ depth \in Nat /\ \A u \in Threads : nest[u] \in Nat
    OBVIOUS
  <2>1. CASE Acquired(t) /\ wait[t] = "none"
    <3>1. /\ nest'[t] = nest[t] + 1 /\ pc'[t] = "run" /\ UNCHANGED <<wait, saved>>
          /\ \A u \in Threads : u # t => nest'[u] = nest[u] /\ pc'[u] = pc[u]
      BY <2>1, <2>a DEF Acquired
    <3>2. /\ owner' = t /\ UNCHANGED <<reentrant, nraise>>
          /\ \/ owner = t /\ depth' = depth + 1 /\ reentrant
             \/ owner = NoThread /\ depth' = depth
      BY <1>4, <2>1, <3>1 DEF LockSlow
    <3>3. pc[t] = "slow"
      BY <1>4 DEF LockSlow
    <3> QED BY <2>1, <2>a, <3>1, <3>2, <3>3
  <2>2. CASE ~ (Acquired(t) /\ wait[t] = "none")
    BY <1>4, <2>2 DEF LockSlow, Acquired, WlFree
  <2> QED BY <2>1, <2>2
<1>5. CASE LockCount(t)
  BY <1>5 DEF LockCount
<1>6. CASE LockLast(t)
  BY <1>6 DEF LockLast
<1>7. CASE LockPark(t)
  BY <1>7 DEF LockPark, Fire, Parking
<1>8. CASE LockRelock(t)
  BY <1>8 DEF LockRelock, Parking, WlFree
<1>9. CASE LockWoken(t)
  BY <1>9 DEF LockWoken, Consume, Fire, WlFree
<1>10. CASE LockDiscount(t)
  <2>a. /\ nest \in [Threads -> Nat] /\ pc \in [Threads -> Labels] /\ t # NoThread
        /\ depth \in Nat /\ \A u \in Threads : nest[u] \in Nat
    OBVIOUS
  <2>1. CASE wait[t] = "none"
    <3>1. /\ nest'[t] = nest[t] + 1 /\ pc'[t] = "run" /\ UNCHANGED <<wait, saved>>
          /\ \A u \in Threads : u # t => nest'[u] = nest[u] /\ pc'[u] = pc[u]
      BY <1>10, <2>1, <2>a DEF LockDiscount, Acquired
    <3> QED BY <1>10, <2>1, <2>a, <3>1 DEF LockDiscount
  <2>2. CASE wait[t] # "none"
    BY <1>10, <2>2 DEF LockDiscount, Acquired
  <2> QED BY <2>1, <2>2
<1>11. CASE sp_Mutex_try_lock(t)
  BY <1>11 DEF sp_Mutex_try_lock
<1>12. CASE Unlock(t)
  BY <1>12 DEF Unlock
<1>13. CASE UnlockLook(t)
  BY <1>13 DEF UnlockLook
<1>14. CASE UnlockCas(t)
  <2>a. /\ nest \in [Threads -> Nat] /\ pc \in [Threads -> Labels] /\ t # NoThread
        /\ depth \in Nat /\ \A u \in Threads : nest[u] \in Nat
    OBVIOUS
  <2>1. CASE owner = t
    <3>1. /\ nest'[t] = nest[t] - 1 /\ pc'[t] = "ucheck" /\ owner' = NoThread
          /\ UNCHANGED <<wait, saved, depth, reentrant, nraise>> /\ pc[t] = "ucas"
          /\ \A u \in Threads : u # t => nest'[u] = nest[u] /\ pc'[u] = pc[u]
      BY <1>14, <2>1, <2>a DEF UnlockCas, Release
    <3> QED BY <2>1, <2>a, <3>1
  <2>2. CASE owner # t
    BY <1>14, <2>2 DEF UnlockCas, Release
  <2> QED BY <2>1, <2>2
<1>15. CASE UnlockCheck(t)
  BY <1>15 DEF UnlockCheck
<1>16. CASE sp_mutex_wake_waiter(t)
  BY <1>16 DEF sp_mutex_wake_waiter, TakeFirst, Awakened, WlFree
<1>17. CASE UnlockSlow(t)
  BY <1>17 DEF UnlockSlow, Release, TakeFirst, WlFree
<1>18. CASE Wait(t)
  BY <1>18 DEF Wait, sp_cv_depth_take
<1>19. CASE WaitRaises(t)
  <2>1. CASE inject[t] /\ Fire(t)
    BY <1>19, <2>1 DEF WaitRaises, Fire, WaitOver
  <2>2. CASE ~ inject[t] /\ nraise' = nraise + 1 /\ UNCHANGED <<inject, defer>>
    BY <1>19, <2>2 DEF WaitRaises, Fire, WaitOver
  <2> QED BY <1>19, <2>1, <2>2 DEF WaitRaises
<1>20. CASE WaitList(t)
  BY <1>20 DEF WaitList, Parking
<1>21. CASE WaitRelease(t)
  BY <1>21 DEF WaitRelease
<1>22. CASE Expire(t)
  BY <1>22 DEF Expire
<1>23. CASE WaitWoken(t)
  BY <1>23 DEF WaitWoken, Consume
<1>24. CASE WaitDone(t)
  BY <1>24 DEF WaitDone, WaitOver
<1>25. CASE sp_CondVar_signal(t)
  BY <1>25 DEF sp_CondVar_signal, TakeFirst
<1>26. CASE sp_CondVar_broadcast(t)
  BY <1>26 DEF sp_CondVar_broadcast
<1>27. CASE sp_thread_deliver(t)
  BY <1>27 DEF sp_thread_deliver, WlFree
<1>28. CASE FireRunning(t)
  BY <1>28 DEF FireRunning, Fire
<1>29. CASE LockLink(t)
  BY <1>29 DEF LockLink
<1>30. CASE sched_wake_unlinked(t)
  <2>1. /\ UNCHANGED <<reentrant, mutex, cvlist, raiser, prog, raise>>
        /\ \/ pc' = pc
           \/ pc[t] = "waking" /\ pc' = [pc EXCEPT ![t] = "run"]
           \/ pc[t] = "cv_waking" /\ pc' = [pc EXCEPT ![t] = "lock"]
           \/ pc[t] = "cv_waking" /\ pc' = [pc EXCEPT ![t] = "cv_parked"]
    BY <1>30, AfterWake
  <2>2. UNCHANGED <<reentrant, nraise, owner, depth, nest, wait, saved>>
    BY <2>1
  <2>3. \A u \in Threads : pc'[u] = "discount" <=> pc[u] = "discount"
    <3>1. pc \in [Threads -> Labels]
      OBVIOUS
    <3>2. CASE pc' = pc
      BY <3>2
    <3>3. CASE pc[t] = "waking" /\ pc' = [pc EXCEPT ![t] = "run"]
      BY <3>1, <3>3
    <3>4. CASE pc[t] = "cv_waking" /\ pc' = [pc EXCEPT ![t] = "lock"]
      BY <3>1, <3>4
    <3>5. CASE pc[t] = "cv_waking" /\ pc' = [pc EXCEPT ![t] = "cv_parked"]
      BY <3>1, <3>5
    <3> QED BY <2>1, <3>2, <3>3, <3>4, <3>5
  <2> QED BY <2>2, <2>3
<1>31. CASE DeliverUnpark(t)
  BY <1>31 DEF DeliverUnpark
<1>32. CASE DeliverWake(t)
  BY <1>32 DEF DeliverWake, sched_make_runnable
<1> QED BY <1>1, <1>2, <1>3, <1>4, <1>5, <1>6, <1>7, <1>8, <1>9, <1>10, <1>11, <1>12,
           <1>13, <1>14, <1>15, <1>16, <1>17, <1>18, <1>19, <1>20, <1>21, <1>22, <1>23,
           <1>24, <1>25, <1>26, <1>27, <1>28, <1>29, <1>30, <1>31, <1>32
     DEF Step, LockStep, UnlockStep, WaitStep, CallStep

-----------------------------------------------------------------------------
(* The lists.                                                              *)

LEMMA ListedList ==
  ASSUME NEW list \in Seq(Threads), IsInjective(list), NEW t \in Threads,
         t \notin Range(list)
  PROVE  /\ Listed(list, t) \in Seq(Threads) /\ IsInjective(Listed(list, t))
         /\ Range(Listed(list, t)) = Range(list) \cup {t}
<1>1. CASE front[t]
  BY <1>1, ConsList DEF Listed
<1>2. CASE ~ front[t]
  BY <1>2, AppendList DEF Listed
<1> QED BY <1>1, <1>2

LEMMA TakeOneList ==
  ASSUME NEW list \in Seq(Threads), IsInjective(list)
  PROVE  /\ wl_take_one(list) \in Seq(Threads) /\ IsInjective(wl_take_one(list))
         /\ list = <<>> => Range(wl_take_one(list)) = {} /\ Range(list) = {}
         /\ list # <<>> => /\ Head(list) \in Threads /\ Head(list) \in Range(list)
                           /\ Range(wl_take_one(list)) = Range(list) \ {Head(list)}
<1>1. CASE list = <<>>
  BY <1>1, EmptyList DEF wl_take_one
<1>2. CASE list # <<>>
  <2>1. wl_take_one(list) = Tail(list)
    BY <1>2 DEF wl_take_one
  <2>2. /\ Head(list) \in Threads /\ Head(list) \in Range(list)
        /\ Tail(list) \in Seq(Threads)
        /\ Range(list) = Range(Tail(list)) \cup {Head(list)}
        /\ IsInjective(Tail(list)) /\ Head(list) \notin Range(Tail(list))
    BY <1>2, TailList
  <2> QED BY <1>2, <2>1, <2>2
<1> QED BY <1>1, <1>2

LEMMA LeastIndex ==
  ASSUME NEW I \in SUBSET Nat, I # {}
  PROVE  Min(I) \in I
<1> DEFINE R == OpToRel(<, Nat)
<1>1. R = {ss \in Nat \X Nat : ss[1] < ss[2]}
  BY DEF OpToRel
<1>2. IsWellFoundedOn(R, Nat)
  BY NatLessThanWellFounded
<1> HIDE DEF R
<1>3. PICK x \in I : \A y \in I : ~ (<<y, x>> \in R)
  BY <1>2, WFMin
<1>4. ASSUME NEW y \in I PROVE x <= y
  <2>1. y \in Nat /\ x \in Nat
    OBVIOUS
  <2>2. ~ (y < x)
    BY <1>1, <1>3, <2>1
  <2> QED BY <2>1, <2>2
<1> QED BY <1>4 DEF Min

\* After a crossed wake a thread may be on a list twice; a list it still is.
LEMMA RemoveFirstType ==
  ASSUME NEW S, NEW s \in Seq(S), NEW e
  PROVE  RemoveFirst(s, e) \in Seq(S)
<1>1. DOMAIN s = 1 .. Len(s) /\ Len(s) \in Nat
  BY LenProperties
<1> DEFINE I == {i \in 1 .. Len(s) : s[i] = e}
<1>2. CASE I # {}
  <2>1. Min(I) \in I
    <3>1. I \in SUBSET Nat
      BY <1>1
    <3> HIDE DEF I
    <3> QED BY <1>2, <3>1, LeastIndex
  <2>2. SelectInSeq(s, LAMBDA v : v = e) = Min(I)
    BY <1>2 DEF SelectInSeq
  <2>3. RemoveFirst(s, e) = RemoveAt(s, Min(I))
    BY <1>2, <2>2 DEF RemoveFirst
  <2> QED BY <2>1, <2>3, <1>1, RemoveAtList
<1>3. CASE I = {}
  BY <1>3 DEF RemoveFirst
<1> QED BY <1>2, <1>3

\* A hand is filled by who goes on to wake, and emptied before it goes on.
LEMMA WakeStep ==
  ASSUME TypeOK, WakeInv, NEW t \in Threads, Step(t)
  PROVE  /\ WakeInv'
         /\ hand' \in [Threads -> SUBSET Threads] /\ crossed' \in BOOLEAN
         /\ unparking' \in Threads \cup {NoThread} /\ raising' \in Threads \cup {NoThread}
<1> DEFINE HandType ==
      /\ hand \in [Threads -> SUBSET Threads] /\ crossed \in BOOLEAN
      /\ unparking \in Threads \cup {NoThread} /\ raising \in Threads \cup {NoThread}
<1>a. /\ pc \in [Threads -> Labels] /\ nraise \in Nat /\ HandType
      /\ NoThread \notin Threads
  BY ConstAssumption DEF TypeOK
<1>b. waiters # <<>> => Head(waiters) \in Threads
  BY TailList DEF TypeOK
<1>c. cvlist # <<>> => Head(cvlist) \in Threads
  BY TailList DEF TypeOK
<1>d. Range(cvlist) \in SUBSET Threads
  BY EmptyList DEF TypeOK
<1>e. SUFFICES WakeInv' /\ HandType'
  OBVIOUS
<1>f. ASSUME UNCHANGED <<hand, raiser, nraise>>,
             \A u \in Threads : hand[u] # {} => pc'[u] = pc[u]
      PROVE  WakeInv' /\ HandType'
  BY <1>a, <1>f DEF WakeInv, raiser
<1>g. \A u \in Threads : hand[u] # {} => pc[u] \in {"waking", "cv_waking"}
  BY DEF WakeInv
<1> USE DEF At, Goto, mutex, raise, raiser, wakes, prog
<1>1. CASE Lock(t)
  <2>1. UNCHANGED <<hand, raiser, nraise>> /\ \A u \in Threads : hand[u] # {} => pc'[u] = pc[u]
    BY <1>1, <1>a, <1>g DEF Lock
  <2> QED BY <2>1, <1>f
<1>2. CASE LockFast(t)
  <2>1. UNCHANGED <<hand, raiser, nraise>> /\ \A u \in Threads : hand[u] # {} => pc'[u] = pc[u]
    BY <1>2, <1>a, <1>g DEF LockFast, Acquired
  <2> QED BY <2>1, <1>f
<1>3. CASE LockContended(t)
  <2>1. UNCHANGED <<hand, raiser, nraise>> /\ \A u \in Threads : hand[u] # {} => pc'[u] = pc[u]
    BY <1>3, <1>a, <1>g DEF LockContended
  <2> QED BY <2>1, <1>f
<1>4. CASE LockSlow(t)
  <2>1. UNCHANGED <<hand, raiser, nraise>> /\ \A u \in Threads : hand[u] # {} => pc'[u] = pc[u]
    BY <1>4, <1>a, <1>g DEF LockSlow, Acquired
  <2> QED BY <2>1, <1>f
<1>5. CASE LockCount(t)
  <2>1. UNCHANGED <<hand, raiser, nraise>> /\ \A u \in Threads : hand[u] # {} => pc'[u] = pc[u]
    BY <1>5, <1>a, <1>g DEF LockCount
  <2> QED BY <2>1, <1>f
<1>6. CASE LockLast(t)
  <2>1. UNCHANGED <<hand, raiser, nraise>> /\ \A u \in Threads : hand[u] # {} => pc'[u] = pc[u]
    BY <1>6, <1>a, <1>g DEF LockLast
  <2> QED BY <2>1, <1>f
<1>7. CASE LockPark(t)
  <2>1. UNCHANGED <<hand, raiser, nraise>> /\ \A u \in Threads : hand[u] # {} => pc'[u] = pc[u]
    BY <1>7, <1>a, <1>g DEF LockPark, Fire
  <2> QED BY <2>1, <1>f
<1>8. CASE LockRelock(t)
  <2>1. UNCHANGED <<hand, raiser, nraise>> /\ \A u \in Threads : hand[u] # {} => pc'[u] = pc[u]
    BY <1>8, <1>a, <1>g DEF LockRelock
  <2> QED BY <2>1, <1>f
<1>9. CASE LockWoken(t)
  <2>1. UNCHANGED <<hand, raiser, nraise>> /\ \A u \in Threads : hand[u] # {} => pc'[u] = pc[u]
    BY <1>9, <1>a, <1>g DEF LockWoken, Fire
  <2> QED BY <2>1, <1>f
<1>10. CASE LockDiscount(t)
  <2>1. UNCHANGED <<hand, raiser, nraise>> /\ \A u \in Threads : hand[u] # {} => pc'[u] = pc[u]
    BY <1>10, <1>a, <1>g DEF LockDiscount, Acquired
  <2> QED BY <2>1, <1>f
<1>11. CASE sp_Mutex_try_lock(t)
  <2>1. UNCHANGED <<hand, raiser, nraise>> /\ \A u \in Threads : hand[u] # {} => pc'[u] = pc[u]
    BY <1>11, <1>a, <1>g DEF sp_Mutex_try_lock
  <2> QED BY <2>1, <1>f
<1>12. CASE Unlock(t)
  <2>1. UNCHANGED <<hand, raiser, nraise>> /\ \A u \in Threads : hand[u] # {} => pc'[u] = pc[u]
    BY <1>12, <1>a, <1>g DEF Unlock
  <2> QED BY <2>1, <1>f
<1>13. CASE UnlockLook(t)
  <2>1. UNCHANGED <<hand, raiser, nraise>> /\ \A u \in Threads : hand[u] # {} => pc'[u] = pc[u]
    BY <1>13, <1>a, <1>g DEF UnlockLook
  <2> QED BY <2>1, <1>f
<1>14. CASE UnlockCas(t)
  <2>1. UNCHANGED <<hand, raiser, nraise>> /\ \A u \in Threads : hand[u] # {} => pc'[u] = pc[u]
    BY <1>14, <1>a, <1>g DEF UnlockCas
  <2> QED BY <2>1, <1>f
<1>15. CASE UnlockCheck(t)
  <2>1. UNCHANGED <<hand, raiser, nraise>> /\ \A u \in Threads : hand[u] # {} => pc'[u] = pc[u]
    BY <1>15, <1>a, <1>g DEF UnlockCheck
  <2> QED BY <2>1, <1>f
<1>16. CASE sp_mutex_wake_waiter(t)
  BY <1>16, <1>a, <1>b DEF sp_mutex_wake_waiter, TakeFirst, Awakened, WakeInv
<1>17. CASE UnlockSlow(t)
  BY <1>17, <1>a, <1>b DEF UnlockSlow, TakeFirst, WakeInv
<1>18. CASE Wait(t)
  <2>1. UNCHANGED <<hand, raiser, nraise>> /\ \A u \in Threads : hand[u] # {} => pc'[u] = pc[u]
    BY <1>18, <1>a, <1>g DEF Wait
  <2> QED BY <2>1, <1>f
<1>19. CASE WaitRaises(t)
  BY <1>19, <1>a DEF WaitRaises, Fire, WakeInv
<1>20. CASE WaitList(t)
  <2>1. UNCHANGED <<hand, raiser, nraise>> /\ \A u \in Threads : hand[u] # {} => pc'[u] = pc[u]
    BY <1>20, <1>a, <1>g DEF WaitList
  <2> QED BY <2>1, <1>f
<1>21. CASE WaitRelease(t)
  <2>1. UNCHANGED <<hand, raiser, nraise>> /\ \A u \in Threads : hand[u] # {} => pc'[u] = pc[u]
    BY <1>21, <1>a, <1>g DEF WaitRelease
  <2> QED BY <2>1, <1>f
<1>22. CASE Expire(t)
  <2>1. UNCHANGED <<hand, raiser, nraise>> /\ \A u \in Threads : hand[u] # {} => pc'[u] = pc[u]
    BY <1>22, <1>a, <1>g DEF Expire
  <2> QED BY <2>1, <1>f
<1>23. CASE WaitWoken(t)
  <2>1. UNCHANGED <<hand, raiser, nraise>> /\ \A u \in Threads : hand[u] # {} => pc'[u] = pc[u]
    BY <1>23, <1>a, <1>g DEF WaitWoken
  <2> QED BY <2>1, <1>f
<1>24. CASE WaitDone(t)
  <2>1. UNCHANGED <<hand, raiser, nraise>> /\ \A u \in Threads : hand[u] # {} => pc'[u] = pc[u]
    BY <1>24, <1>a, <1>g DEF WaitDone
  <2> QED BY <2>1, <1>f
<1>25. CASE sp_CondVar_signal(t)
  BY <1>25, <1>a, <1>c DEF sp_CondVar_signal, TakeFirst, WakeInv
<1>26. CASE sp_CondVar_broadcast(t)
  BY <1>26, <1>a, <1>d DEF sp_CondVar_broadcast, WakeInv
<1>27. CASE sp_thread_deliver(t)
  BY <1>27, <1>a DEF sp_thread_deliver, WakeInv
<1>28. CASE FireRunning(t)
  <2>1. UNCHANGED <<hand, raiser, nraise>> /\ \A u \in Threads : hand[u] # {} => pc'[u] = pc[u]
    BY <1>28, <1>a, <1>g DEF FireRunning, Fire
  <2> QED BY <2>1, <1>f
<1>29. CASE LockLink(t)
  <2>1. UNCHANGED <<hand, raiser, nraise>> /\ \A u \in Threads : hand[u] # {} => pc'[u] = pc[u]
    BY <1>29, <1>a, <1>g DEF LockLink
  <2> QED BY <2>1, <1>f
<1>30. CASE sched_wake_unlinked(t)
  BY <1>30, <1>a DEF sched_wake_unlinked, Awakened, WakeInv
<1>31. CASE DeliverUnpark(t)
  BY <1>31, <1>a DEF DeliverUnpark, WakeInv
<1>32. CASE DeliverWake(t)
  BY <1>32, <1>a DEF DeliverWake, WakeInv
<1> QED BY <1>1, <1>2, <1>3, <1>4, <1>5, <1>6, <1>7, <1>8, <1>9, <1>10, <1>11, <1>12,
           <1>13, <1>14, <1>15, <1>16, <1>17, <1>18, <1>19, <1>20, <1>21, <1>22, <1>23,
           <1>24, <1>25, <1>26, <1>27, <1>28, <1>29, <1>30, <1>31, <1>32
     DEF Step, LockStep, UnlockStep, WaitStep, CallStep

LEMMA ListTypeStep ==
  ASSUME TypeOK, NEW t \in Threads, Step(t)
  PROVE  waiters' \in Seq(Threads) /\ cvlist' \in Seq(Threads)
<1>a. waiters \in Seq(Threads) /\ cvlist \in Seq(Threads)
  BY DEF TypeOK
<1>b. ASSUME NEW list \in Seq(Threads)
      PROVE  /\ Listed(list, t) \in Seq(Threads) /\ wl_take_one(list) \in Seq(Threads)
             /\ RemoveFirst(list, t) \in Seq(Threads)
  <2>1. Append(list, t) \in Seq(Threads) /\ <<t>> \o list \in Seq(Threads)
    OBVIOUS
  <2>2. list # <<>> => Tail(list) \in Seq(Threads)
    OBVIOUS
  <2> QED BY <2>1, <2>2, RemoveFirstType DEF Listed, wl_take_one
<1>c. <<>> \in Seq(Threads)
  OBVIOUS
<1>1. waiters' \in {waiters, Listed(waiters, t), wl_take_one(waiters), RemoveFirst(waiters, t)}
  BY DEF Step, LockStep, UnlockStep, WaitStep, CallStep, mutex, raiser, wakes,
     Lock, LockFast, LockContended, LockSlow, LockCount, LockLast, LockPark, LockRelock,
     LockLink, LockWoken, LockDiscount, sp_Mutex_try_lock, Unlock, UnlockLook,
     UnlockCas, UnlockCheck, sp_mutex_wake_waiter, sched_wake_unlinked, UnlockSlow,
     Wait, WaitRaises, WaitList, WaitRelease, Expire, WaitWoken, WaitDone,
     sp_CondVar_signal, sp_CondVar_broadcast, sp_thread_deliver, DeliverUnpark,
     DeliverWake, FireRunning
<1>2. cvlist' \in {cvlist, Listed(cvlist, t), wl_take_one(cvlist), RemoveFirst(cvlist, t), <<>>}
  BY DEF Step, LockStep, UnlockStep, WaitStep, CallStep, mutex, raiser, wakes,
     Lock, LockFast, LockContended, LockSlow, LockCount, LockLast, LockPark, LockRelock,
     LockLink, LockWoken, LockDiscount, sp_Mutex_try_lock, Unlock, UnlockLook,
     UnlockCas, UnlockCheck, sp_mutex_wake_waiter, sched_wake_unlinked, UnlockSlow,
     Wait, WaitRaises, WaitList, WaitRelease, Expire, WaitWoken, WaitDone,
     sp_CondVar_signal, sp_CondVar_broadcast, sp_thread_deliver, DeliverUnpark,
     DeliverWake, FireRunning
<1> QED BY <1>1, <1>2, <1>a, <1>b, <1>c

\* The place of a thread on the lists, or in a hand.
Placed(t) ==
  /\ t \in Range(waiters) <=> Dozes(t) /\ ~ Taken(t)
  /\ t \in Range(cvlist) <=> Awaits(t) /\ ~ Taken(t)
  /\ Taken(t) => (Dozes(t) \/ Awaits(t)) /\ OneHand(t)
  /\ Fresh(t)

LEMMA SameHands ==
  ASSUME UNCHANGED <<hand, raising>>
  PROVE  \A u \in Threads : (Taken(u)' <=> Taken(u)) /\ (OneHand(u)' <=> OneHand(u))
BY DEF Taken, OneHand

\* A step that neither wakes anyone nor puts anyone to sleep.
LEMMA QuietList ==
  ASSUME ListInv, UNCHANGED <<waiters, cvlist, hand, raising, crossed>>,
         \A u \in Threads : (Dozes(u)' <=> Dozes(u)) /\ (Awaits(u)' <=> Awaits(u)),
         \A u \in Threads : Fresh(u) => Fresh(u)'
  PROVE  ListInv'
<1>1. \A u \in Threads : (Taken(u)' <=> Taken(u)) /\ (OneHand(u)' <=> OneHand(u))
  BY SameHands
<1> QED BY <1>1 DEF ListInv

\* t takes the threads of H off a list: they are in its hand, and nobody else's.
LEMMA TakeHands ==
  ASSUME TypeOK, NEW t \in Threads, hand[t] = {}, NEW H \in SUBSET Threads,
         hand' = [hand EXCEPT ![t] = H], raising' = raising,
         \A u \in H : ~ Taken(u)
  PROVE  \A u \in Threads : /\ Taken(u)' <=> Taken(u) \/ u \in H
                            /\ u \in H \/ OneHand(u) => OneHand(u)'
<1>1. /\ hand'[t] = H /\ \A a \in Threads : a # t => hand'[a] = hand[a]
  BY DEF TypeOK
<1> SUFFICES ASSUME NEW u \in Threads
             PROVE  /\ Taken(u)' <=> Taken(u) \/ u \in H
                    /\ u \in H \/ OneHand(u) => OneHand(u)'
  OBVIOUS
<1>2. Taken(u)' <=> Taken(u) \/ u \in H
  BY <1>1 DEF Taken
<1>3. u \in H => OneHand(u)'
  BY <1>1 DEF Taken, OneHand
<1>4. u \notin H /\ OneHand(u) => OneHand(u)'
  BY <1>1 DEF OneHand
<1> QED BY <1>2, <1>3, <1>4

\* The first of a list, taken.
LEMMA TakeFirstHand ==
  ASSUME TypeOK, NEW t \in Threads, hand[t] = {}, NEW list \in Seq(Threads),
         IsInjective(list), TakeFirst(t, list), raising' = raising,
         \A u \in Range(list) : ~ Taken(u)
  PROVE  /\ wl_take_one(list) \in Seq(Threads) /\ IsInjective(wl_take_one(list))
         /\ \A u \in Threads :
              /\ u \in Range(wl_take_one(list)) => u \in Range(list)
              /\ Taken(u)' <=> Taken(u) \/ (u \in Range(list) /\ u \notin Range(wl_take_one(list)))
              /\ OneHand(u) \/ u \in Range(list) => OneHand(u)'
<1>1. CASE list = <<>>
  <2>1. wl_take_one(list) = list /\ Range(list) = {} /\ hand' = [hand EXCEPT ![t] = {}]
    BY <1>1, TakeOneList, EmptyList DEF TakeFirst, wl_take_one
  <2>2. \A u \in Threads : /\ Taken(u)' <=> Taken(u) \/ u \in {}
                           /\ u \in {} \/ OneHand(u) => OneHand(u)'
    BY <2>1, TakeHands
  <2> QED BY <2>1, <2>2
<1>2. CASE list # <<>>
  <2> DEFINE h == Head(list)
  <2>1. /\ h \in Threads /\ h \in Range(list)
        /\ wl_take_one(list) \in Seq(Threads) /\ IsInjective(wl_take_one(list))
        /\ Range(wl_take_one(list)) = Range(list) \ {h}
    BY <1>2, TakeOneList
  <2>2. hand' = [hand EXCEPT ![t] = {h}]
    BY <1>2 DEF TakeFirst
  <2> HIDE DEF h
  <2>3. \A u \in Threads : /\ Taken(u)' <=> Taken(u) \/ u \in {h}
                           /\ u \in {h} \/ OneHand(u) => OneHand(u)'
    BY <2>1, <2>2, TakeHands
  <2>4. \A u \in Threads : ~ Taken(u) => OneHand(u)
    BY DEF Taken, OneHand
  <2> QED BY <2>1, <2>3, <2>4
<1> QED BY <1>1, <1>2

\* A thread goes on a list as it falls asleep, and is taken off it, by one thread,
\* to be woken.
LEMMA ListStep ==
  ASSUME TypeOK, WaitInv, WakeInv, HoldInv, ListInv, NEW t \in Threads, Step(t)
  PROVE  ListInv'
<1>b. pc \in [Threads -> Labels] /\ woken \in [Threads -> BOOLEAN]
      /\ wait \in [Threads -> {"none", "plain", "timed", "nb"}]
      /\ hand \in [Threads -> SUBSET Threads] /\ NoThread \notin Threads
  BY ConstAssumption DEF TypeOK
<1> SUFFICES ASSUME ~ crossed' PROVE ListInv'
  BY DEF ListInv
<1>u. ~ crossed
  BY DEF Step, LockStep, UnlockStep, WaitStep, CallStep, mutex, raiser, wakes,
     Lock, LockFast, LockContended, LockSlow, LockCount, LockLast, LockPark, LockRelock,
     LockLink, LockWoken, LockDiscount, sp_Mutex_try_lock, Unlock, UnlockLook,
     UnlockCas, UnlockCheck, sp_mutex_wake_waiter, sched_wake_unlinked, UnlockSlow,
     Wait, WaitRaises, WaitList, WaitRelease, Expire, WaitWoken, WaitDone,
     sp_CondVar_signal, sp_CondVar_broadcast, sp_thread_deliver, DeliverUnpark,
     DeliverWake, FireRunning
<1>a. waiters \in Seq(Threads) /\ IsInjective(waiters) /\ cvlist \in Seq(Threads)
      /\ IsInjective(cvlist)
  BY <1>u DEF TypeOK, ListInv
<1>c. \A u \in Threads : Placed(u)
  BY <1>u DEF ListInv, Placed
<1>d. ASSUME IsInjective(waiters'), IsInjective(cvlist'), \A u \in Threads : Placed(u)'
      PROVE  ListInv'
  BY <1>d DEF ListInv, Placed
<1>e. \A u \in Threads : ~ (Dozes(u) /\ Awaits(u))
  BY DEF Dozes, Awaits
<1>f. Range(waiters) \subseteq Threads /\ Range(cvlist) \subseteq Threads
  BY <1>a, EmptyList
<1> USE DEF At, Goto, mutex, raise, raiser, wakes, prog
<1>1. CASE Lock(t)
  <2>1. UNCHANGED <<waiters, cvlist, hand, raising, crossed>>
    BY <1>1 DEF Lock
  <2>2. \A u \in Threads : (Dozes(u)' <=> Dozes(u)) /\ (Awaits(u)' <=> Awaits(u))
    BY <1>1, <1>b DEF Lock, Dozes, Awaits
  <2>3. \A u \in Threads : Fresh(u) => Fresh(u)'
    BY <1>1, <1>b DEF Lock, Fresh
  <2> QED BY <2>1, <2>2, <2>3, QuietList
<1>2. CASE LockFast(t)
  <2>1. UNCHANGED <<waiters, cvlist, hand, raising, crossed>>
    BY <1>2 DEF LockFast, Acquired
  <2>2. \A u \in Threads : (Dozes(u)' <=> Dozes(u)) /\ (Awaits(u)' <=> Awaits(u))
    BY <1>2, <1>b DEF LockFast, Acquired, Dozes, Awaits
  <2>3. \A u \in Threads : Fresh(u) => Fresh(u)'
    BY <1>2, <1>b DEF LockFast, Acquired, Fresh
  <2> QED BY <2>1, <2>2, <2>3, QuietList
<1>3. CASE LockContended(t)
  <2>1. UNCHANGED <<waiters, cvlist, hand, raising, crossed>>
    BY <1>3 DEF LockContended
  <2>2. \A u \in Threads : (Dozes(u)' <=> Dozes(u)) /\ (Awaits(u)' <=> Awaits(u))
    BY <1>3, <1>b DEF LockContended, Dozes, Awaits
  <2>3. \A u \in Threads : Fresh(u) => Fresh(u)'
    BY <1>3, <1>b DEF LockContended, Fresh
  <2> QED BY <2>1, <2>2, <2>3, QuietList
<1>4. CASE LockSlow(t)
  <2>1. UNCHANGED <<waiters, cvlist, hand, raising, crossed>>
    BY <1>4 DEF LockSlow, Acquired, WlFree
  <2>2. \A u \in Threads : (Dozes(u)' <=> Dozes(u)) /\ (Awaits(u)' <=> Awaits(u))
    BY <1>4, <1>b DEF LockSlow, Acquired, WlFree, Dozes, Awaits
  <2>3. \A u \in Threads : Fresh(u) => Fresh(u)'
    BY <1>4, <1>b DEF LockSlow, Acquired, WlFree, Fresh
  <2> QED BY <2>1, <2>2, <2>3, QuietList
<1>5. CASE LockCount(t)
  <2>1. UNCHANGED <<waiters, cvlist, hand, raising, crossed>>
    BY <1>5 DEF LockCount
  <2>2. \A u \in Threads : (Dozes(u)' <=> Dozes(u)) /\ (Awaits(u)' <=> Awaits(u))
    BY <1>5, <1>b DEF LockCount, Dozes, Awaits
  <2>3. \A u \in Threads : Fresh(u) => Fresh(u)'
    BY <1>5, <1>b DEF LockCount, Fresh
  <2> QED BY <2>1, <2>2, <2>3, QuietList
<1>6. CASE LockLast(t)
  <2>1. UNCHANGED <<waiters, cvlist, hand, raising, crossed>>
    BY <1>6 DEF LockLast
  <2>2. \A u \in Threads : (Dozes(u)' <=> Dozes(u)) /\ (Awaits(u)' <=> Awaits(u))
    BY <1>6, <1>b DEF LockLast, Dozes, Awaits
  <2>3. \A u \in Threads : Fresh(u) => Fresh(u)'
    BY <1>6, <1>b DEF LockLast, Fresh
  <2> QED BY <2>1, <2>2, <2>3, QuietList
<1>7. CASE LockPark(t)
  <2>1. CASE inject[t]
    <3>1. UNCHANGED <<waiters, cvlist, hand, raising, crossed>>
      BY <1>7, <2>1 DEF LockPark, Fire, Parking
    <3>2. \A u \in Threads : (Dozes(u)' <=> Dozes(u)) /\ (Awaits(u)' <=> Awaits(u))
      BY <1>7, <2>1, <1>b DEF LockPark, Fire, Parking, Dozes, Awaits
    <3>3. \A u \in Threads : Fresh(u) => Fresh(u)'
      BY <1>7, <2>1, <1>b DEF LockPark, Fire, Parking, Fresh
    <3> QED BY <3>1, <3>2, <3>3, QuietList
  <2>2. CASE ~ inject[t]
    <3>1. /\ waiters' = Listed(waiters, t) /\ UNCHANGED <<cvlist, hand, raising>>
          /\ ~ Dozes(t) /\ ~ Awaits(t)
      BY <1>7, <2>2 DEF LockPark, Fire, Parking, Dozes, Awaits
    <3>2. /\ Listed(waiters, t) \in Seq(Threads) /\ IsInjective(Listed(waiters, t))
          /\ Range(Listed(waiters, t)) = Range(waiters) \cup {t}
      BY <3>1, <1>a, <1>c, ListedList DEF Placed
    <3>3. \A u \in Threads : (Dozes(u)' <=> Dozes(u) \/ u = t) /\ (Awaits(u)' <=> Awaits(u))
      BY <1>7, <2>2, <1>b DEF LockPark, Fire, Parking, Dozes, Awaits
    <3>4. \A u \in Threads : (Taken(u)' <=> Taken(u)) /\ (OneHand(u)' <=> OneHand(u))
      BY <3>1, SameHands
    <3>f. \A u \in Threads : Fresh(u) => Fresh(u)'
      BY <1>7, <2>2, <1>b DEF LockPark, Fire, Parking, Fresh
    <3>5. \A u \in Threads : Placed(u)'
      BY <3>f, <3>1, <3>2, <3>3, <3>4, <1>c DEF Placed
    <3> QED BY <3>1, <3>2, <3>5, <1>a, <1>d
  <2> QED BY <2>1, <2>2
<1>8. CASE LockRelock(t)
  <2>1. UNCHANGED <<waiters, cvlist, hand, raising, crossed>>
    BY <1>8 DEF LockRelock
  <2>2. \A u \in Threads : (Dozes(u)' <=> Dozes(u)) /\ (Awaits(u)' <=> Awaits(u))
    BY <1>8, <1>b DEF LockRelock, Dozes, Awaits
  <2>3. \A u \in Threads : Fresh(u) => Fresh(u)'
    BY <1>8, <1>b DEF LockRelock, Fresh
  <2> QED BY <2>1, <2>2, <2>3, QuietList
<1>9. CASE LockWoken(t)
  <2>1. UNCHANGED <<waiters, cvlist, hand, raising, crossed>>
    BY <1>9 DEF LockWoken, Consume, Fire, WlFree
  <2>2. \A u \in Threads : (Dozes(u)' <=> Dozes(u)) /\ (Awaits(u)' <=> Awaits(u))
    BY <1>9, <1>b DEF LockWoken, Consume, Fire, WlFree, Dozes, Awaits
  <2>3. \A u \in Threads : Fresh(u) => Fresh(u)'
    BY <1>9, <1>b DEF LockWoken, Consume, Fire, WlFree, Fresh
  <2> QED BY <2>1, <2>2, <2>3, QuietList
<1>10. CASE LockDiscount(t)
  <2>1. UNCHANGED <<waiters, cvlist, hand, raising, crossed>>
    BY <1>10 DEF LockDiscount, Acquired
  <2>2. \A u \in Threads : (Dozes(u)' <=> Dozes(u)) /\ (Awaits(u)' <=> Awaits(u))
    BY <1>10, <1>b DEF LockDiscount, Acquired, Dozes, Awaits
  <2>3. \A u \in Threads : Fresh(u) => Fresh(u)'
    BY <1>10, <1>b DEF LockDiscount, Acquired, Fresh
  <2> QED BY <2>1, <2>2, <2>3, QuietList
<1>11. CASE sp_Mutex_try_lock(t)
  <2>1. UNCHANGED <<waiters, cvlist, hand, raising, crossed>>
    BY <1>11 DEF sp_Mutex_try_lock
  <2>2. \A u \in Threads : (Dozes(u)' <=> Dozes(u)) /\ (Awaits(u)' <=> Awaits(u))
    BY <1>11, <1>b DEF sp_Mutex_try_lock, Dozes, Awaits
  <2>3. \A u \in Threads : Fresh(u) => Fresh(u)'
    BY <1>11, <1>b DEF sp_Mutex_try_lock, Fresh
  <2> QED BY <2>1, <2>2, <2>3, QuietList
<1>12. CASE Unlock(t)
  <2>1. UNCHANGED <<waiters, cvlist, hand, raising, crossed>>
    BY <1>12 DEF Unlock
  <2>2. \A u \in Threads : (Dozes(u)' <=> Dozes(u)) /\ (Awaits(u)' <=> Awaits(u))
    BY <1>12, <1>b DEF Unlock, Dozes, Awaits
  <2>3. \A u \in Threads : Fresh(u) => Fresh(u)'
    BY <1>12, <1>b DEF Unlock, Fresh
  <2> QED BY <2>1, <2>2, <2>3, QuietList
<1>13. CASE UnlockLook(t)
  <2>1. UNCHANGED <<waiters, cvlist, hand, raising, crossed>>
    BY <1>13 DEF UnlockLook
  <2>2. \A u \in Threads : (Dozes(u)' <=> Dozes(u)) /\ (Awaits(u)' <=> Awaits(u))
    BY <1>13, <1>b DEF UnlockLook, Dozes, Awaits
  <2>3. \A u \in Threads : Fresh(u) => Fresh(u)'
    BY <1>13, <1>b DEF UnlockLook, Fresh
  <2> QED BY <2>1, <2>2, <2>3, QuietList
<1>14. CASE UnlockCas(t)
  <2>1. UNCHANGED <<waiters, cvlist, hand, raising, crossed>>
    BY <1>14 DEF UnlockCas, Release
  <2>2. \A u \in Threads : (Dozes(u)' <=> Dozes(u)) /\ (Awaits(u)' <=> Awaits(u))
    BY <1>14, <1>b DEF UnlockCas, Release, Dozes, Awaits
  <2>3. \A u \in Threads : Fresh(u) => Fresh(u)'
    BY <1>14, <1>b DEF UnlockCas, Release, Fresh
  <2> QED BY <2>1, <2>2, <2>3, QuietList
<1>15. CASE UnlockCheck(t)
  <2>1. UNCHANGED <<waiters, cvlist, hand, raising, crossed>>
    BY <1>15 DEF UnlockCheck
  <2>2. \A u \in Threads : (Dozes(u)' <=> Dozes(u)) /\ (Awaits(u)' <=> Awaits(u))
    BY <1>15, <1>b DEF UnlockCheck, Dozes, Awaits
  <2>3. \A u \in Threads : Fresh(u) => Fresh(u)'
    BY <1>15, <1>b DEF UnlockCheck, Fresh
  <2> QED BY <2>1, <2>2, <2>3, QuietList
<1>16. CASE sp_mutex_wake_waiter(t)
  <2>1. /\ waiters' = wl_take_one(waiters) /\ TakeFirst(t, waiters)
        /\ UNCHANGED <<cvlist, raising, woken>> /\ hand[t] = {}
    BY <1>16 DEF sp_mutex_wake_waiter, Awakened, WakeInv
  <2>2. \A u \in Range(waiters) : ~ Taken(u)
    BY <1>c, <1>f DEF Placed
  <2>3. /\ wl_take_one(waiters) \in Seq(Threads) /\ IsInjective(wl_take_one(waiters))
        /\ \A u \in Threads :
             /\ u \in Range(wl_take_one(waiters)) => u \in Range(waiters)
             /\ Taken(u)' <=> Taken(u) \/ (u \in Range(waiters) /\ u \notin Range(wl_take_one(waiters)))
             /\ OneHand(u) \/ u \in Range(waiters) => OneHand(u)'
    BY <2>1, <2>2, <1>a, TakeFirstHand
  <2>4. \A u \in Threads : (Dozes(u)' <=> Dozes(u)) /\ (Awaits(u)' <=> Awaits(u))
    BY <1>16, <1>b DEF sp_mutex_wake_waiter, Awakened, Dozes, Awaits
  <2>f. \A u \in Threads : Fresh(u) => Fresh(u)'
    BY <1>16, <1>b DEF sp_mutex_wake_waiter, Awakened, Fresh
  <2>5. \A u \in Threads : Placed(u)'
    BY <2>f, <2>1, <2>3, <2>4, <1>c, <1>e DEF Placed
  <2> QED BY <2>1, <2>3, <2>5, <1>a, <1>d
<1>17. CASE UnlockSlow(t)
  <2>1. CASE depth = 0 /\ owner = t
    <3>1. /\ waiters' = wl_take_one(waiters) /\ TakeFirst(t, waiters)
          /\ UNCHANGED <<cvlist, raising, woken>> /\ hand[t] = {}
      BY <1>17, <2>1 DEF UnlockSlow, Release, WakeInv
    <3>2. \A u \in Range(waiters) : ~ Taken(u)
      BY <1>c, <1>f DEF Placed
    <3>3. /\ wl_take_one(waiters) \in Seq(Threads) /\ IsInjective(wl_take_one(waiters))
          /\ \A u \in Threads :
               /\ u \in Range(wl_take_one(waiters)) => u \in Range(waiters)
               /\ Taken(u)' <=> Taken(u) \/ (u \in Range(waiters) /\ u \notin Range(wl_take_one(waiters)))
               /\ OneHand(u) \/ u \in Range(waiters) => OneHand(u)'
      BY <3>1, <3>2, <1>a, TakeFirstHand
    <3>4. \A u \in Threads : (Dozes(u)' <=> Dozes(u)) /\ (Awaits(u)' <=> Awaits(u))
      BY <1>17, <2>1, <1>b DEF UnlockSlow, Release, Dozes, Awaits
    <3>f. \A u \in Threads : Fresh(u) => Fresh(u)'
      BY <1>17, <2>1, <1>b DEF UnlockSlow, Release, Fresh
    <3>5. \A u \in Threads : Placed(u)'
      BY <3>f, <3>1, <3>3, <3>4, <1>c, <1>e DEF Placed
    <3> QED BY <3>1, <3>3, <3>5, <1>a, <1>d
  <2>2. CASE ~ (depth = 0 /\ owner = t)
    <3>1. UNCHANGED <<waiters, cvlist, hand, raising, crossed>>
      BY <1>17, <2>2 DEF UnlockSlow
    <3>2. \A u \in Threads : (Dozes(u)' <=> Dozes(u)) /\ (Awaits(u)' <=> Awaits(u))
      BY <1>17, <2>2, <1>b DEF UnlockSlow, Dozes, Awaits
    <3>3. \A u \in Threads : Fresh(u) => Fresh(u)'
      BY <1>17, <2>2, <1>b DEF UnlockSlow, Fresh
    <3> QED BY <3>1, <3>2, <3>3, QuietList
  <2> QED BY <2>1, <2>2
<1>18. CASE Wait(t)
  <2>1. UNCHANGED <<waiters, cvlist, hand, raising, crossed>>
    BY <1>18 DEF Wait, sp_cv_depth_take
  <2>2. \A u \in Threads : (Dozes(u)' <=> Dozes(u)) /\ (Awaits(u)' <=> Awaits(u))
    BY <1>18, <1>b DEF Wait, sp_cv_depth_take, Dozes, Awaits
  <2>3. \A u \in Threads : Fresh(u) => Fresh(u)'
    BY <1>18, <1>b DEF Wait, sp_cv_depth_take, Fresh
  <2> QED BY <2>1, <2>2, <2>3, QuietList
<1>19. CASE WaitRaises(t)
  <2>1. UNCHANGED <<waiters, cvlist, hand, raising, crossed>>
    BY <1>19 DEF WaitRaises, Fire, WaitOver
  <2>2. \A u \in Threads : (Dozes(u)' <=> Dozes(u)) /\ (Awaits(u)' <=> Awaits(u))
    BY <1>19, <1>b DEF WaitRaises, Fire, WaitOver, Dozes, Awaits
  <2>3. \A u \in Threads : Fresh(u) => Fresh(u)'
    BY <1>19, <1>b DEF WaitRaises, Fire, WaitOver, Fresh
  <2> QED BY <2>1, <2>2, <2>3, QuietList
<1>20. CASE WaitList(t)
  <2>1. CASE wait[t] = "nb"
    <3>1. UNCHANGED <<waiters, cvlist, hand, raising, crossed>>
      BY <1>20, <2>1 DEF WaitList, Parking
    <3>2. \A u \in Threads : (Dozes(u)' <=> Dozes(u)) /\ (Awaits(u)' <=> Awaits(u))
      BY <1>20, <2>1, <1>b DEF WaitList, Parking, Dozes, Awaits
    <3>3. \A u \in Threads : Fresh(u) => Fresh(u)'
      BY <1>20, <2>1, <1>b DEF WaitList, Parking, Fresh
    <3> QED BY <3>1, <3>2, <3>3, QuietList
  <2>2. CASE wait[t] # "nb"
    <3>1. /\ cvlist' = Listed(cvlist, t) /\ UNCHANGED <<waiters, hand, raising>>
          /\ ~ Dozes(t) /\ ~ Awaits(t)
      BY <1>20, <2>2 DEF WaitList, Parking, Dozes, Awaits
    <3>2. /\ Listed(cvlist, t) \in Seq(Threads) /\ IsInjective(Listed(cvlist, t))
          /\ Range(Listed(cvlist, t)) = Range(cvlist) \cup {t}
      BY <3>1, <1>a, <1>c, ListedList DEF Placed
    <3>3. \A u \in Threads : (Dozes(u)' <=> Dozes(u)) /\ (Awaits(u)' <=> Awaits(u) \/ u = t)
      BY <1>20, <2>2, <1>b DEF WaitList, Parking, Dozes, Awaits
    <3>4. \A u \in Threads : (Taken(u)' <=> Taken(u)) /\ (OneHand(u)' <=> OneHand(u))
      BY <3>1, SameHands
    <3>f. \A u \in Threads : Fresh(u) => Fresh(u)'
      BY <1>20, <2>2, <1>b DEF WaitList, Parking, Fresh
    <3>5. \A u \in Threads : Placed(u)'
      BY <3>f, <3>1, <3>2, <3>3, <3>4, <1>c DEF Placed
    <3> QED BY <3>1, <3>2, <3>5, <1>a, <1>d
  <2> QED BY <2>1, <2>2
<1>21. CASE WaitRelease(t)
  <2>1. UNCHANGED <<waiters, cvlist, hand, raising, crossed>>
    BY <1>21 DEF WaitRelease
  <2>2. \A u \in Threads : (Dozes(u)' <=> Dozes(u)) /\ (Awaits(u)' <=> Awaits(u))
    BY <1>21, <1>b DEF WaitRelease, Dozes, Awaits
  <2>3. \A u \in Threads : Fresh(u) => Fresh(u)'
    BY <1>21, <1>b DEF WaitRelease, Fresh
  <2> QED BY <2>1, <2>2, <2>3, QuietList
<1>22. CASE Expire(t)
  <2>1. /\ cvlist' = RemoveFirst(cvlist, t) /\ UNCHANGED <<waiters, hand, raising, pc, wait>>
        /\ t \in Range(cvlist)
    BY <1>22 DEF Expire
  <2>2. Awaits(t) /\ ~ Taken(t)
    BY <2>1, <1>c DEF Placed
  <2>3. woken' = [woken EXCEPT ![t] = TRUE]
    BY <1>22, <2>2, <1>b DEF Expire, sched_make_runnable, Asleep, Awaits
  <2>4. /\ RemoveFirst(cvlist, t) \in Seq(Threads) /\ IsInjective(RemoveFirst(cvlist, t))
        /\ Range(RemoveFirst(cvlist, t)) = Range(cvlist) \ {t}
    BY <1>a, RemoveFirstList
  <2>5. \A u \in Threads : /\ Dozes(u)' <=> Dozes(u) /\ u # t
                           /\ Awaits(u)' <=> Awaits(u) /\ u # t
    BY <2>1, <2>2, <2>3, <1>b DEF Dozes, Awaits
  <2>6. \A u \in Threads : (Taken(u)' <=> Taken(u)) /\ (OneHand(u)' <=> OneHand(u))
    BY <2>1, SameHands
  <2>f. \A u \in Threads : Fresh(u) => Fresh(u)'
    BY <2>1, <2>2, <2>3, <1>b DEF Fresh, Awaits
  <2>7. \A u \in Threads : Placed(u)'
    BY <2>f, <2>1, <2>2, <2>4, <2>5, <2>6, <1>c, <1>e DEF Placed
  <2> QED BY <2>1, <2>4, <2>7, <1>a, <1>d
<1>23. CASE WaitWoken(t)
  <2>1. UNCHANGED <<waiters, cvlist, hand, raising, crossed>>
    BY <1>23 DEF WaitWoken, Consume
  <2>2. \A u \in Threads : (Dozes(u)' <=> Dozes(u)) /\ (Awaits(u)' <=> Awaits(u))
    BY <1>23, <1>b DEF WaitWoken, Consume, Dozes, Awaits
  <2>3. \A u \in Threads : Fresh(u) => Fresh(u)'
    BY <1>23, <1>b DEF WaitWoken, Consume, Fresh
  <2> QED BY <2>1, <2>2, <2>3, QuietList
<1>24. CASE WaitDone(t)
  <2>1. UNCHANGED <<waiters, cvlist, hand, raising, crossed>>
    BY <1>24 DEF WaitDone, WaitOver
  <2>2. \A u \in Threads : (Dozes(u)' <=> Dozes(u)) /\ (Awaits(u)' <=> Awaits(u))
    BY <1>24, <1>b DEF WaitDone, WaitOver, Dozes, Awaits
  <2>3. \A u \in Threads : Fresh(u) => Fresh(u)'
    BY <1>24, <1>b DEF WaitDone, WaitOver, Fresh
  <2> QED BY <2>1, <2>2, <2>3, QuietList
<1>25. CASE sp_CondVar_signal(t)
  <2>1. /\ cvlist' = wl_take_one(cvlist) /\ TakeFirst(t, cvlist)
        /\ UNCHANGED <<waiters, raising, woken>> /\ hand[t] = {}
    BY <1>25 DEF sp_CondVar_signal, WakeInv
  <2>2. \A u \in Range(cvlist) : ~ Taken(u)
    BY <1>c, <1>f DEF Placed
  <2>3. /\ wl_take_one(cvlist) \in Seq(Threads) /\ IsInjective(wl_take_one(cvlist))
        /\ \A u \in Threads :
             /\ u \in Range(wl_take_one(cvlist)) => u \in Range(cvlist)
             /\ Taken(u)' <=> Taken(u) \/ (u \in Range(cvlist) /\ u \notin Range(wl_take_one(cvlist)))
             /\ OneHand(u) \/ u \in Range(cvlist) => OneHand(u)'
    BY <2>1, <2>2, <1>a, TakeFirstHand
  <2>4. \A u \in Threads : (Dozes(u)' <=> Dozes(u)) /\ (Awaits(u)' <=> Awaits(u))
    BY <1>25, <1>b DEF sp_CondVar_signal, Dozes, Awaits
  <2>f. \A u \in Threads : Fresh(u) => Fresh(u)'
    BY <1>25, <1>b DEF sp_CondVar_signal, Fresh
  <2>5. \A u \in Threads : Placed(u)'
    BY <2>f, <2>1, <2>3, <2>4, <1>c, <1>e DEF Placed
  <2> QED BY <2>1, <2>3, <2>5, <1>a, <1>d
<1>26. CASE sp_CondVar_broadcast(t)
  <2>1. /\ cvlist' = <<>> /\ hand' = [hand EXCEPT ![t] = Range(cvlist)]
        /\ UNCHANGED <<waiters, raising, woken>> /\ hand[t] = {}
    BY <1>26 DEF sp_CondVar_broadcast, WakeInv
  <2>2. Range(<<>>) = {} /\ IsInjective(<<>>)
    BY <1>a, EmptyList
  <2>3. \A u \in Range(cvlist) : ~ Taken(u)
    BY <1>c, <1>f DEF Placed
  <2>4. \A u \in Threads : /\ Taken(u)' <=> Taken(u) \/ u \in Range(cvlist)
                           /\ u \in Range(cvlist) \/ OneHand(u) => OneHand(u)'
    BY <2>1, <2>3, <1>f, TakeHands
  <2>5. \A u \in Threads : (Dozes(u)' <=> Dozes(u)) /\ (Awaits(u)' <=> Awaits(u))
    BY <1>26, <1>b DEF sp_CondVar_broadcast, Dozes, Awaits
  <2>f. \A u \in Threads : Fresh(u) => Fresh(u)'
    BY <1>26, <1>b DEF sp_CondVar_broadcast, Fresh
  <2>6. \A u \in Threads : Placed(u)'
    BY <2>f, <2>1, <2>2, <2>4, <2>5, <1>c, <1>e DEF Placed
  <2> QED BY <2>1, <2>2, <2>6, <1>a, <1>d
<1>27. CASE sp_thread_deliver(t)
  <2>1. UNCHANGED <<waiters, cvlist, hand, raising, crossed>>
    BY <1>27 DEF sp_thread_deliver
  <2>2. \A u \in Threads : (Dozes(u)' <=> Dozes(u)) /\ (Awaits(u)' <=> Awaits(u))
    BY <1>27, <1>b DEF sp_thread_deliver, Dozes, Awaits
  <2>3. \A u \in Threads : Fresh(u) => Fresh(u)'
    BY <1>27, <1>b DEF sp_thread_deliver, Fresh
  <2> QED BY <2>1, <2>2, <2>3, QuietList
<1>28. CASE FireRunning(t)
  <2>1. UNCHANGED <<waiters, cvlist, hand, raising, crossed>>
    BY <1>28 DEF FireRunning, Fire
  <2>2. \A u \in Threads : (Dozes(u)' <=> Dozes(u)) /\ (Awaits(u)' <=> Awaits(u))
    BY <1>28, <1>b DEF FireRunning, Fire, Dozes, Awaits
  <2>3. \A u \in Threads : Fresh(u) => Fresh(u)'
    BY <1>28, <1>b DEF FireRunning, Fire, Fresh
  <2> QED BY <2>1, <2>2, <2>3, QuietList
<1>29. CASE LockLink(t)
  <2>1. /\ waiters' = Listed(waiters, t) /\ UNCHANGED <<cvlist, hand, raising>>
        /\ ~ Dozes(t) /\ ~ Awaits(t)
    BY <1>29 DEF LockLink, Dozes, Awaits
  <2>2. /\ Listed(waiters, t) \in Seq(Threads) /\ IsInjective(Listed(waiters, t))
        /\ Range(Listed(waiters, t)) = Range(waiters) \cup {t}
    BY <2>1, <1>a, <1>c, ListedList DEF Placed
  <2>3. \A u \in Threads : (Dozes(u)' <=> Dozes(u) \/ u = t) /\ (Awaits(u)' <=> Awaits(u))
    BY <1>29, <1>b, <1>c DEF LockLink, Dozes, Awaits, Placed, Fresh
  <2>4. \A u \in Threads : (Taken(u)' <=> Taken(u)) /\ (OneHand(u)' <=> OneHand(u))
    BY <2>1, SameHands
  <2>f. \A u \in Threads : Fresh(u) => Fresh(u)'
    BY <1>29, <1>b DEF LockLink, Fresh
  <2>5. \A u \in Threads : Placed(u)'
    BY <2>f, <2>1, <2>2, <2>3, <2>4, <1>c DEF Placed
  <2> QED BY <2>1, <2>2, <2>5, <1>a, <1>d
<1>30. CASE sched_wake_unlinked(t)
  <2>1. PICK u \in hand[t] :
          /\ sched_make_runnable(u) /\ hand' = [hand EXCEPT ![t] = @ \ {u}]
          /\ pc' = [pc EXCEPT ![t] = IF hand[t] = {u} THEN Awakened(t) ELSE pc[t]]
          /\ UNCHANGED <<waiters, cvlist, raising, wait>>
    BY <1>30 DEF sched_wake_unlinked
  <2>2. u \in Threads /\ Taken(u)
    BY <2>1, <1>b DEF Taken
  <2>3. (Dozes(u) \/ Awaits(u)) /\ OneHand(u) /\ u \notin Range(waiters) /\ u \notin Range(cvlist)
    BY <2>2, <1>c DEF Placed
  <2>4. woken' = [woken EXCEPT ![u] = TRUE]
    BY <2>1, <2>2, <2>3, <1>b DEF sched_make_runnable, Asleep, Dozes, Awaits
  <2>5. hand'[t] = hand[t] \ {u} /\ \A a \in Threads : a # t => hand'[a] = hand[a]
    BY <2>1, <1>b
  <2>6. \A v \in Threads : Taken(v)' <=> Taken(v) /\ v # u
    BY <2>1, <2>2, <2>3, <2>5 DEF Taken, OneHand
  <2>7. \A v \in Threads : OneHand(v) => OneHand(v)'
    BY <2>1, <2>5 DEF OneHand
  <2>8. pc[t] \in {"waking", "cv_waking"}
    BY <2>1 DEF WakeInv
  <2>9. \A v \in Threads : /\ Dozes(v)' <=> Dozes(v) /\ v # u
                           /\ Awaits(v)' <=> Awaits(v) /\ v # u
    <3>1. \A v \in Threads : woken'[v] <=> woken[v] \/ v = u
      BY <2>2, <2>4, <1>b
    <3>2. \A v \in Threads : v # t => pc'[v] = pc[v]
      BY <2>1, <1>b
    <3>3. pc'[t] = IF hand[t] = {u} THEN Awakened(t) ELSE pc[t]
      BY <2>1, <1>b
    <3>4. /\ pc[t] = "waking" => pc'[t] \in {"waking", "run"}
          /\ pc[t] = "cv_waking" => IF wait[t] = "nb" THEN pc'[t] \in {"cv_waking", "lock"}
                                                    ELSE pc'[t] \in {"cv_waking", "cv_parked"}
      BY <2>8, <3>3 DEF Awakened
    <3> QED BY <2>1, <2>8, <3>1, <3>2, <3>4 DEF Dozes, Awaits
  <2>f. \A v \in Threads : Fresh(v) => Fresh(v)'
    BY <2>1, <2>2, <2>3, <2>4, <2>8, <1>b DEF Fresh, Dozes, Awaits, Awakened
  <2>10. \A v \in Threads : Placed(v)'
    BY <2>f, <2>1, <2>3, <2>6, <2>7, <2>9, <1>c DEF Placed
  <2> QED BY <2>1, <2>10, <1>a, <1>d
<1>31. CASE DeliverUnpark(t)
  <2>1. /\ waiters' = RemoveFirst(waiters, t) /\ cvlist' = RemoveFirst(cvlist, t)
        /\ raising' = t /\ UNCHANGED <<hand, woken, pc, wait>> /\ unparking = t
        /\ t \in Range(waiters \o cvlist)
    BY <1>31 DEF DeliverUnpark
  <2>2. t \in Range(waiters) \/ t \in Range(cvlist)
    BY <2>1, <1>a, ConcatList
  <2>3. (Dozes(t) \/ Awaits(t)) /\ ~ Taken(t)
    BY <2>2, <1>c DEF Placed
  <2>4. raising = NoThread
    BY <2>1, <1>b DEF WakeInv
  <2>5. /\ IsInjective(waiters') /\ Range(waiters') = Range(waiters) \ {t}
        /\ IsInjective(cvlist') /\ Range(cvlist') = Range(cvlist) \ {t}
    BY <2>1, <1>a, RemoveFirstList
  <2>6. \A v \in Threads : Taken(v)' <=> Taken(v) \/ v = t
    BY <2>1, <2>4, <1>b DEF Taken
  <2>7. \A v \in Threads : OneHand(v) \/ v = t => OneHand(v)'
    BY <2>1, <2>3, <2>4, <1>b DEF Taken, OneHand
  <2>8. \A v \in Threads : (Dozes(v)' <=> Dozes(v)) /\ (Awaits(v)' <=> Awaits(v))
    BY <2>1 DEF Dozes, Awaits
  <2>f. \A v \in Threads : Fresh(v) => Fresh(v)'
    BY <2>1 DEF Fresh
  <2>9. \A v \in Threads : Placed(v)'
    BY <2>f, <2>3, <2>5, <2>6, <2>7, <2>8, <1>c DEF Placed
  <2> QED BY <2>5, <2>9, <1>d
<1>32. CASE DeliverWake(t)
  <2>1. /\ raising = t /\ raising' = NoThread /\ sched_make_runnable(t)
        /\ UNCHANGED <<waiters, cvlist, hand, pc, wait>>
    BY <1>32 DEF DeliverWake
  <2>2. Taken(t)
    BY <2>1 DEF Taken
  <2>3. (Dozes(t) \/ Awaits(t)) /\ OneHand(t) /\ t \notin Range(waiters) /\ t \notin Range(cvlist)
    BY <2>2, <1>c DEF Placed
  <2>4. woken' = [woken EXCEPT ![t] = TRUE]
    BY <2>1, <2>3, <1>b DEF sched_make_runnable, Asleep, Dozes, Awaits
  <2>5. \A v \in Threads : Taken(v)' <=> Taken(v) /\ v # t
    BY <2>1, <2>3, <1>b DEF Taken, OneHand
  <2>6. \A v \in Threads : OneHand(v) => OneHand(v)'
    BY <2>1, <1>b DEF OneHand
  <2>7. \A v \in Threads : /\ Dozes(v)' <=> Dozes(v) /\ v # t
                           /\ Awaits(v)' <=> Awaits(v) /\ v # t
    BY <2>1, <2>4, <1>b DEF Dozes, Awaits
  <2>f. \A v \in Threads : Fresh(v) => Fresh(v)'
    BY <2>1, <2>3, <2>4, <1>b DEF Fresh, Dozes, Awaits
  <2>8. \A v \in Threads : Placed(v)'
    BY <2>f, <2>1, <2>3, <2>5, <2>6, <2>7, <1>c DEF Placed
  <2> QED BY <2>1, <2>8, <1>a, <1>d
<1> QED BY <1>1, <1>2, <1>3, <1>4, <1>5, <1>6, <1>7, <1>8, <1>9, <1>10, <1>11, <1>12,
           <1>13, <1>14, <1>15, <1>16, <1>17, <1>18, <1>19, <1>20, <1>21, <1>22, <1>23,
           <1>24, <1>25, <1>26, <1>27, <1>28, <1>29, <1>30, <1>31, <1>32
     DEF Step, LockStep, UnlockStep, WaitStep, CallStep
-----------------------------------------------------------------------------
(* The count of the waiters.                                               *)

LEMMA CountedFacts ==
  ASSUME CountInv, TypeOK
  PROVE  /\ IsFiniteSet(Counted) /\ Cardinality(Counted) \in Nat
         /\ Counted # {} => nwaiters > 0
<1>1. IsFiniteSet(Counted)
  BY ConstAssumption, FS_Subset DEF Counted
<1>2. Cardinality(Counted) \in Nat /\ (Cardinality(Counted) = 0 <=> Counted = {})
  BY <1>1, FS_CardinalityType, FS_EmptySet
<1> QED BY <1>1, <1>2 DEF CountInv, TypeOK

\* The count is taken back only by a thread that is counted.
LEMMA CountStep ==
  ASSUME TypeOK, WakeInv, CountInv, NEW t \in Threads, Step(t)
  PROVE  nwaiters' \in Nat /\ CountInv'
<1>a. IsFiniteSet(Counted) /\ Cardinality(Counted) \in Nat /\ nwaiters \in Nat
      /\ (Counted # {} => nwaiters > 0) /\ nwaiters >= Cardinality(Counted)
  BY CountedFacts DEF TypeOK, CountInv
<1>b. pc \in [Threads -> Labels]
  BY DEF TypeOK
<1> USE DEF At, Goto, mutex, raise, raiser, wakes, prog
<1>1. CASE Lock(t)
  <2>1. nwaiters' = nwaiters /\ Counted' = Counted
    BY <1>1, <1>b DEF Lock, Counted
  <2> QED BY <2>1, <1>a DEF CountInv
<1>2. CASE LockFast(t)
  <2>1. nwaiters' = nwaiters /\ Counted' = Counted
    BY <1>2, <1>b DEF LockFast, Acquired, Counted
  <2> QED BY <2>1, <1>a DEF CountInv
<1>3. CASE LockContended(t)
  <2>1. nwaiters' = nwaiters /\ Counted' = Counted
    BY <1>3, <1>b DEF LockContended, Counted
  <2> QED BY <2>1, <1>a DEF CountInv
<1>4. CASE LockSlow(t)
  <2>1. nwaiters' = nwaiters /\ Counted' = Counted
    BY <1>4, <1>b DEF LockSlow, Acquired, WlFree, Counted
  <2> QED BY <2>1, <1>a DEF CountInv
<1>5. CASE LockCount(t)
  <2>1. Counted' = Counted \cup {t} /\ t \notin Counted /\ nwaiters' = nwaiters + 1
    BY <1>5, <1>b DEF LockCount, Counted
  <2>2. Cardinality(Counted') = Cardinality(Counted) + 1
    BY <2>1, <1>a, FS_AddElement
  <2> QED BY <2>1, <2>2, <1>a DEF CountInv
<1>6. CASE LockLast(t)
  <2>1. nwaiters' = nwaiters /\ Counted' = Counted
    BY <1>6, <1>b DEF LockLast, Counted
  <2> QED BY <2>1, <1>a DEF CountInv
<1>7. CASE LockPark(t)
  <2>1. nwaiters' = nwaiters /\ (Counted' = Counted \/ Counted' = Counted \ {t})
    BY <1>7, <1>b DEF LockPark, Fire, Parking, Counted
  <2>2. Cardinality(Counted') <= Cardinality(Counted) /\ Cardinality(Counted') \in Nat
    <3>1. CASE Counted' = Counted
      BY <3>1, <1>a
    <3>2. CASE Counted' = Counted \ {t}
      BY <3>2, <1>a, FS_Subset, FS_RemoveElement, FS_CardinalityType
    <3> QED BY <2>1, <3>1, <3>2
  <2> QED BY <2>1, <2>2, <1>a DEF CountInv
<1>8. CASE LockRelock(t)
  <2>1. nwaiters' = nwaiters /\ Counted' = Counted
    BY <1>8, <1>b DEF LockRelock, Parking, WlFree, Counted
  <2> QED BY <2>1, <1>a DEF CountInv
<1>9. CASE LockWoken(t)
  <2>1. nwaiters' = nwaiters /\ (Counted' = Counted \/ Counted' = Counted \ {t})
    BY <1>9, <1>b DEF LockWoken, Consume, Fire, WlFree, Counted
  <2>2. Cardinality(Counted') <= Cardinality(Counted) /\ Cardinality(Counted') \in Nat
    <3>1. CASE Counted' = Counted
      BY <3>1, <1>a
    <3>2. CASE Counted' = Counted \ {t}
      BY <3>2, <1>a, FS_Subset, FS_RemoveElement, FS_CardinalityType
    <3> QED BY <2>1, <3>1, <3>2
  <2> QED BY <2>1, <2>2, <1>a DEF CountInv
<1>10. CASE LockDiscount(t)
  <2>1. Counted' = Counted \ {t} /\ t \in Counted /\ nwaiters' = nwaiters - 1
    BY <1>10, <1>b DEF LockDiscount, Acquired, Counted
  <2>2. Cardinality(Counted') = Cardinality(Counted) - 1
    BY <2>1, <1>a, FS_RemoveElement
  <2>3. nwaiters > 0
    BY <2>1, <1>a
  <2> QED BY <2>1, <2>2, <2>3, <1>a DEF CountInv
<1>11. CASE sp_Mutex_try_lock(t)
  <2>1. nwaiters' = nwaiters /\ Counted' = Counted
    BY <1>11, <1>b DEF sp_Mutex_try_lock, Counted
  <2> QED BY <2>1, <1>a DEF CountInv
<1>12. CASE Unlock(t)
  <2>1. nwaiters' = nwaiters /\ Counted' = Counted
    BY <1>12, <1>b DEF Unlock, Counted
  <2> QED BY <2>1, <1>a DEF CountInv
<1>13. CASE UnlockLook(t)
  <2>1. nwaiters' = nwaiters /\ Counted' = Counted
    BY <1>13, <1>b DEF UnlockLook, Counted
  <2> QED BY <2>1, <1>a DEF CountInv
<1>14. CASE UnlockCas(t)
  <2>1. nwaiters' = nwaiters /\ Counted' = Counted
    BY <1>14, <1>b DEF UnlockCas, Release, Counted
  <2> QED BY <2>1, <1>a DEF CountInv
<1>15. CASE UnlockCheck(t)
  <2>1. nwaiters' = nwaiters /\ Counted' = Counted
    BY <1>15, <1>b DEF UnlockCheck, Counted
  <2> QED BY <2>1, <1>a DEF CountInv
<1>16. CASE sp_mutex_wake_waiter(t)
  <2>1. nwaiters' = nwaiters /\ Counted' = Counted
    BY <1>16, <1>b DEF sp_mutex_wake_waiter, TakeFirst, Awakened, WlFree, Counted
  <2> QED BY <2>1, <1>a DEF CountInv
<1>17. CASE UnlockSlow(t)
  <2>1. nwaiters' = nwaiters /\ Counted' = Counted
    BY <1>17, <1>b DEF UnlockSlow, Release, TakeFirst, WlFree, Counted
  <2> QED BY <2>1, <1>a DEF CountInv
<1>18. CASE Wait(t)
  <2>1. nwaiters' = nwaiters /\ Counted' = Counted
    BY <1>18, <1>b DEF Wait, sp_cv_depth_take, Counted
  <2> QED BY <2>1, <1>a DEF CountInv
<1>19. CASE WaitRaises(t)
  <2>1. nwaiters' = nwaiters /\ Counted' = Counted
    BY <1>19, <1>b DEF WaitRaises, Fire, WaitOver, Counted
  <2> QED BY <2>1, <1>a DEF CountInv
<1>20. CASE WaitList(t)
  <2>1. nwaiters' = nwaiters /\ Counted' = Counted
    BY <1>20, <1>b DEF WaitList, Parking, Counted
  <2> QED BY <2>1, <1>a DEF CountInv
<1>21. CASE WaitRelease(t)
  <2>1. nwaiters' = nwaiters /\ Counted' = Counted
    BY <1>21, <1>b DEF WaitRelease, Counted
  <2> QED BY <2>1, <1>a DEF CountInv
<1>22. CASE Expire(t)
  <2>1. nwaiters' = nwaiters /\ Counted' = Counted
    BY <1>22, <1>b DEF Expire, Counted
  <2> QED BY <2>1, <1>a DEF CountInv
<1>23. CASE WaitWoken(t)
  <2>1. nwaiters' = nwaiters /\ Counted' = Counted
    BY <1>23, <1>b DEF WaitWoken, Consume, Counted
  <2> QED BY <2>1, <1>a DEF CountInv
<1>24. CASE WaitDone(t)
  <2>1. nwaiters' = nwaiters /\ Counted' = Counted
    BY <1>24, <1>b DEF WaitDone, WaitOver, Counted
  <2> QED BY <2>1, <1>a DEF CountInv
<1>25. CASE sp_CondVar_signal(t)
  <2>1. nwaiters' = nwaiters /\ Counted' = Counted
    BY <1>25, <1>b DEF sp_CondVar_signal, TakeFirst, Counted
  <2> QED BY <2>1, <1>a DEF CountInv
<1>26. CASE sp_CondVar_broadcast(t)
  <2>1. nwaiters' = nwaiters /\ Counted' = Counted
    BY <1>26, <1>b DEF sp_CondVar_broadcast, Counted
  <2> QED BY <2>1, <1>a DEF CountInv
<1>27. CASE sp_thread_deliver(t)
  <2>1. nwaiters' = nwaiters /\ Counted' = Counted
    BY <1>27, <1>b DEF sp_thread_deliver, WlFree, Counted
  <2> QED BY <2>1, <1>a DEF CountInv
<1>28. CASE FireRunning(t)
  <2>1. nwaiters' = nwaiters /\ Counted' = Counted
    BY <1>28, <1>b DEF FireRunning, Fire, Counted
  <2> QED BY <2>1, <1>a DEF CountInv
<1>29. CASE LockLink(t)
  <2>1. nwaiters' = nwaiters /\ Counted' = Counted
    BY <1>29, <1>b DEF LockLink, Counted
  <2> QED BY <2>1, <1>a DEF CountInv
<1>30. CASE sched_wake_unlinked(t)
  <2>1. nwaiters' = nwaiters /\ Counted' = Counted
    BY <1>30, <1>b, AfterWake DEF Counted
  <2> QED BY <2>1, <1>a DEF CountInv
<1>31. CASE DeliverUnpark(t)
  <2>1. nwaiters' = nwaiters /\ Counted' = Counted
    BY <1>31, <1>b DEF DeliverUnpark, Counted
  <2> QED BY <2>1, <1>a DEF CountInv
<1>32. CASE DeliverWake(t)
  <2>1. nwaiters' = nwaiters /\ Counted' = Counted
    BY <1>32, <1>b DEF DeliverWake, sched_make_runnable, Counted
  <2> QED BY <2>1, <1>a DEF CountInv
<1> QED BY <1>1, <1>2, <1>3, <1>4, <1>5, <1>6, <1>7, <1>8, <1>9, <1>10, <1>11, <1>12,
           <1>13, <1>14, <1>15, <1>16, <1>17, <1>18, <1>19, <1>20, <1>21, <1>22, <1>23,
           <1>24, <1>25, <1>26, <1>27, <1>28, <1>29, <1>30, <1>31, <1>32
     DEF Step, LockStep, UnlockStep, WaitStep, CallStep

-----------------------------------------------------------------------------
(* Types.                                                                  *)

\* The types of what is neither a list, a count of waiters nor a hand.
CoreType ==
  /\ reentrant \in BOOLEAN
  /\ owner \in Threads \cup {NoThread} /\ wl \in Threads \cup {NoThread}
  /\ depth \in Nat
  /\ pc \in [Threads -> Labels]
  /\ nest \in [Threads -> Nat]
  /\ wait \in [Threads -> {"none", "plain", "timed", "nb"}]
  /\ saved \in [Threads -> Nat]
  /\ front \in [Threads -> BOOLEAN] /\ woken \in [Threads -> BOOLEAN]
  /\ inject \in [Threads -> BOOLEAN] /\ defer \in [Threads -> BOOLEAN]
  /\ nraise \in Nat

LEMMA TypeStep ==
  ASSUME TypeOK, WaitInv, WakeInv, HoldInv, LowInv, NEW t \in Threads, Step(t)
  PROVE  CoreType'
<1> USE DEF CoreType
<1>b. CoreType
  BY DEF TypeOK
<1>c. waiters # <<>> => Head(waiters) \in Threads
  BY TailList DEF TypeOK
<1>d. cvlist # <<>> => Head(cvlist) \in Threads
  BY TailList DEF TypeOK
<1>f. pc[t] \in {"ucas", "uslow"} /\ owner = t => nest[t] > 0
  BY <1>b DEF WaitInv, LowInv, LowAt, UnlockLabels, Labels
<1> USE DEF At, Goto, mutex, raise, wakes, prog, Labels, LockLabels, UnlockLabels, WaitLabels
<1>g. nest[t] + 1 \in Nat /\ (nest[t] > 0 => nest[t] - 1 \in Nat)
  BY <1>b
<1>h. ASSUME Acquired(t)
      PROVE  /\ pc' \in [Threads -> Labels] /\ nest' \in [Threads -> Nat]
             /\ UNCHANGED <<wait, saved, front>>
  <2>1. CASE wait[t] = "none"
    <3>1. nest' = [nest EXCEPT ![t] = nest[t] + 1] /\ pc' = [pc EXCEPT ![t] = "run"]
      BY <2>1, <1>h DEF Acquired
    <3> QED BY <2>1, <3>1, <1>b, <1>g, <1>h DEF Acquired
  <2>2. CASE wait[t] # "none"
    BY <2>2, <1>b, <1>h DEF Acquired
  <2> QED BY <2>1, <2>2
<1>i. ASSUME Release(t), pc[t] \in {"ucas", "uslow"}, owner = t
      PROVE  nest' \in [Threads -> Nat] /\ owner' = NoThread
  <2>1. nest[t] - 1 \in Nat
    BY <1>f, <1>g, <1>i
  <2>2. nest' = [nest EXCEPT ![t] = nest[t] - 1]
    BY <1>i DEF Release
  <2> QED BY <2>1, <2>2, <1>b, <1>i DEF Release
<1>j. ASSUME WaitOver(t)
      PROVE  /\ wait' \in [Threads -> {"none", "plain", "timed", "nb"}]
             /\ saved' \in [Threads -> Nat]
  BY <1>b, <1>j DEF WaitOver
<1>k. /\ [inject EXCEPT ![t] = FALSE] \in [Threads -> BOOLEAN]
      /\ [defer EXCEPT ![t] = FALSE] \in [Threads -> BOOLEAN]
      /\ saved[t] \in Nat /\ nraise + 1 \in Nat
  BY <1>b
<1> USE ConstAssumption
<1>1. CASE Lock(t)
  BY <1>1, <1>b DEF Lock
<1>2. CASE LockFast(t)
  BY <1>2, <1>b, <1>h DEF LockFast
<1>3. CASE LockContended(t)
  BY <1>3, <1>b DEF LockContended
<1>4. CASE LockSlow(t)
  <2>1. CASE Acquired(t)
    BY <1>4, <2>1, <1>b, <1>h DEF LockSlow
  <2>2. CASE ~ Acquired(t)
    BY <1>4, <2>2, <1>b DEF LockSlow
  <2> QED BY <2>1, <2>2
<1>5. CASE LockCount(t)
  BY <1>5, <1>b DEF LockCount
<1>6. CASE LockLast(t)
  BY <1>6, <1>b DEF LockLast
<1>7. CASE LockPark(t)
  BY <1>7, <1>b DEF LockPark, Fire, Parking
<1>8. CASE LockRelock(t)
  BY <1>8, <1>b DEF LockRelock, Parking, WlFree
<1>9. CASE LockWoken(t)
  BY <1>9, <1>b DEF LockWoken, Consume, Fire, WlFree
<1>10. CASE LockDiscount(t)
  BY <1>10, <1>b, <1>h DEF LockDiscount
<1>11. CASE sp_Mutex_try_lock(t)
  BY <1>11, <1>b DEF sp_Mutex_try_lock
<1>12. CASE Unlock(t)
  BY <1>12, <1>b DEF Unlock
<1>13. CASE UnlockLook(t)
  BY <1>13, <1>b DEF UnlockLook
<1>14. CASE UnlockCas(t)
  <2>1. CASE owner = t
    BY <1>14, <2>1, <1>b, <1>i DEF UnlockCas
  <2>2. CASE owner # t
    BY <1>14, <2>2, <1>b DEF UnlockCas
  <2> QED BY <2>1, <2>2
<1>15. CASE UnlockCheck(t)
  BY <1>15, <1>b DEF UnlockCheck
<1>16. CASE sp_mutex_wake_waiter(t)
  BY <1>16, <1>b, <1>c DEF sp_mutex_wake_waiter, TakeFirst, Awakened, WlFree
<1>17. CASE UnlockSlow(t)
  <2>1. CASE depth > 0 /\ owner = t
    <3>1. nest' = [nest EXCEPT ![t] = nest[t] - 1] /\ nest[t] - 1 \in Nat
      BY <1>17, <2>1, <1>f, <1>g DEF UnlockSlow
    <3>2. nest' \in [Threads -> Nat] /\ depth' \in Nat
      BY <1>17, <2>1, <3>1, <1>b DEF UnlockSlow
    <3>3. pc' = [pc EXCEPT ![t] = "run"]
      BY <1>17, <2>1 DEF UnlockSlow
    <3>4. UNCHANGED <<reentrant, owner, wl, woken, wait, saved, front, inject, defer, nraise>>
      BY <1>17, <2>1 DEF UnlockSlow
    <3> QED BY <3>2, <3>3, <3>4, <1>b
  <2>2. CASE depth = 0 /\ owner = t
    <3>1. nest' \in [Threads -> Nat] /\ owner' = NoThread
      BY <1>17, <2>2, <1>i DEF UnlockSlow
    <3> QED BY <1>17, <2>2, <3>1, <1>b, <1>c DEF UnlockSlow, TakeFirst
  <2>3. CASE owner # t
    BY <1>17, <2>3, <1>b DEF UnlockSlow
  <2> HIDE DEF TypeOK
  <2>4. depth = 0 \/ depth > 0
    BY DEF TypeOK
  <2> QED BY <2>1, <2>2, <2>3, <2>4
<1>18. CASE Wait(t)
  BY <1>18, <1>b DEF Wait, sp_cv_depth_take
<1>19. CASE WaitRaises(t)
  <2>1. inject' \in [Threads -> BOOLEAN] /\ defer' = defer /\ nraise' \in Nat
    BY <1>19, <1>b, <1>k DEF WaitRaises, Fire
  <2> QED BY <1>19, <2>1, <1>b, <1>j DEF WaitRaises
<1>20. CASE WaitList(t)
  <2>1. CASE wait[t] = "nb"
    BY <1>20, <2>1, <1>b DEF WaitList, Parking
  <2>2. CASE wait[t] # "nb"
    BY <1>20, <2>2, <1>b DEF WaitList, Parking
  <2> QED BY <2>1, <2>2
<1>21. CASE WaitRelease(t)
  BY <1>21, <1>b DEF WaitRelease
<1>22. CASE Expire(t)
  BY <1>22, <1>b DEF Expire, sched_make_runnable
<1>23. CASE WaitWoken(t)
  BY <1>23, <1>b DEF WaitWoken, Consume
<1>24. CASE WaitDone(t)
  <2>1. /\ inject' \in [Threads -> BOOLEAN] /\ defer' \in [Threads -> BOOLEAN]
        /\ depth' \in Nat
    BY <1>24, <1>b, <1>k DEF WaitDone
  <2> QED BY <1>24, <2>1, <1>b, <1>j DEF WaitDone
<1>25. CASE sp_CondVar_signal(t)
  BY <1>25, <1>b, <1>d DEF sp_CondVar_signal, TakeFirst
<1>26. CASE sp_CondVar_broadcast(t)
  <2>1. Range(cvlist) \in SUBSET Threads
    BY EmptyList DEF TypeOK
  <2> QED BY <1>26, <2>1, <1>b DEF sp_CondVar_broadcast
<1>27. CASE sp_thread_deliver(t)
  BY <1>27, <1>b DEF sp_thread_deliver, WlFree
<1>28. CASE FireRunning(t)
  BY <1>28, <1>b DEF FireRunning, Fire
<1>29. CASE LockLink(t)
  BY <1>29, <1>b DEF LockLink
<1>30. CASE sched_wake_unlinked(t)
  BY <1>30, <1>b, AfterWake
<1>31. CASE DeliverUnpark(t)
  BY <1>31, <1>b DEF DeliverUnpark
<1>32. CASE DeliverWake(t)
  BY <1>32, <1>b DEF DeliverWake, sched_make_runnable
<1> QED BY <1>1, <1>2, <1>3, <1>4, <1>5, <1>6, <1>7, <1>8, <1>9, <1>10, <1>11, <1>12,
           <1>13, <1>14, <1>15, <1>16, <1>17, <1>18, <1>19, <1>20, <1>21, <1>22, <1>23,
           <1>24, <1>25, <1>26, <1>27, <1>28, <1>29, <1>30, <1>31, <1>32
     DEF Step, LockStep, UnlockStep, WaitStep, CallStep

-----------------------------------------------------------------------------
(* A free mutex is offered.                                                *)

\* Who releases the mutex looks at the list, or at the count, afterwards.
LEMMA OfferStep ==
  ASSUME TypeOK, WaitInv, WakeInv, HoldInv, ListInv, CountInv, OfferInv,
         NEW t \in Threads, Step(t)
  PROVE  OfferInv'
<1> DEFINE Wants(u) == pc[u] \in {"park", "relock", "link"} \/ Dozes(u)
           Looks(u) == \/ pc[u] \in {"ucheck", "uwake", "cv_wake", "lock", "slow",
                                     "count", "last"}
                       \/ pc[u] = "parked" /\ (woken[u] \/ Taken(u))
<1>a. /\ pc \in [Threads -> Labels] /\ woken \in [Threads -> BOOLEAN]
      /\ inject \in [Threads -> BOOLEAN] /\ owner \in Threads \cup {NoThread}
      /\ NoThread \notin Threads /\ nraise \in Nat
      /\ wait \in [Threads -> {"none", "plain", "timed", "nb"}]
      /\ hand \in [Threads -> SUBSET Threads]
  BY ConstAssumption DEF TypeOK
<1>b. OnTheWay <=> \E u \in Threads : Looks(u)
  BY DEF OnTheWay, At
<1>c. OnTheWay' <=> \E u \in Threads : Looks(u)'
  BY DEF OnTheWay, At
<1>d. nraise = 0 /\ owner = NoThread /\ (\E u \in Threads : Wants(u)) =>
        \E u \in Threads : Looks(u)
  BY <1>b DEF OfferInv
<1>e. SUFFICES ASSUME nraise' = 0, owner' = NoThread, NEW v \in Threads, Wants(v)'
               PROVE  \E u \in Threads : Looks(u)'
  BY <1>c DEF OfferInv
<1>f. Counted # {} => nwaiters > 0
  BY CountedFacts
<1>n. nraise = 0
  BY <1>a, <1>e DEF Step, LockStep, UnlockStep, WaitStep, CallStep, raise, Fire,
     Lock, LockFast, LockContended, LockSlow, LockCount, LockLast, LockPark, LockRelock,
     LockLink, LockWoken, LockDiscount, sp_Mutex_try_lock, Unlock, UnlockLook,
     UnlockCas, UnlockCheck, sp_mutex_wake_waiter, sched_wake_unlinked, UnlockSlow,
     Wait, WaitRaises, WaitList, WaitRelease, Expire, WaitWoken, WaitDone,
     sp_CondVar_signal, sp_CondVar_broadcast, sp_thread_deliver, DeliverUnpark,
     DeliverWake, FireRunning
<1>o. ~ crossed /\ unparking = NoThread /\ raising = NoThread
  BY <1>n DEF WakeInv
<1>p. \A u \in Threads : ~ inject[u] /\ pc[u] \notin {"relock", "link"}
  BY <1>n, <1>a DEF WaitInv
<1>g. Dozes(v) /\ ~ Taken(v) => v \in Range(waiters)
  BY <1>o DEF ListInv
<1>h. v \in Range(waiters) => waiters # <<>>
  BY EmptyList DEF TypeOK
<1>i. waiters # <<>> => Head(waiters) \in Threads /\ Dozes(Head(waiters))
  BY <1>o, TailList DEF TypeOK, ListInv
<1>q. cvlist # <<>> => Head(cvlist) \in Threads
  BY TailList DEF TypeOK
<1>r. ASSUME UNCHANGED <<hand, raising>> PROVE \A u \in Threads : Taken(u)' <=> Taken(u)
  BY <1>r, SameHands
<1> USE DEF At, Goto, mutex, raise, raiser, wakes, prog, Labels, LockLabels, UnlockLabels,
            WaitLabels
<1>1. CASE Lock(t)
  <2>1. UNCHANGED <<hand, raising>>
    BY <1>1 DEF Lock
  <2>2. \A u \in Threads : Taken(u)' <=> Taken(u)
    BY <2>1, <1>r
  <2> QED BY <1>1, <2>2, <1>n, <1>a, <1>d, <1>e DEF Lock, Dozes
<1>2. CASE LockFast(t)
  <2>1. UNCHANGED <<hand, raising>>
    BY <1>2 DEF LockFast, Acquired
  <2>2. \A u \in Threads : Taken(u)' <=> Taken(u)
    BY <2>1, <1>r
  <2> QED BY <1>2, <2>2, <1>n, <1>a, <1>d, <1>e DEF LockFast, Acquired, Dozes
<1>3. CASE LockContended(t)
  <2>1. UNCHANGED <<hand, raising>>
    BY <1>3 DEF LockContended
  <2>2. \A u \in Threads : Taken(u)' <=> Taken(u)
    BY <2>1, <1>r
  <2> QED BY <1>3, <2>2, <1>n, <1>a, <1>d, <1>e DEF LockContended, Dozes
<1>4. CASE LockSlow(t)
  <2>1. UNCHANGED <<hand, raising>>
    BY <1>4 DEF LockSlow, Acquired, WlFree
  <2>2. \A u \in Threads : Taken(u)' <=> Taken(u)
    BY <2>1, <1>r
  <2> QED BY <1>4, <2>2, <1>n, <1>a, <1>d, <1>e DEF LockSlow, Acquired, WlFree, Dozes
<1>5. CASE LockCount(t)
  <2>1. UNCHANGED <<hand, raising>>
    BY <1>5 DEF LockCount
  <2>2. \A u \in Threads : Taken(u)' <=> Taken(u)
    BY <2>1, <1>r
  <2> QED BY <1>5, <2>2, <1>n, <1>a, <1>d, <1>e DEF LockCount, Dozes
<1>6. CASE LockLast(t)
  <2>1. UNCHANGED <<hand, raising>>
    BY <1>6 DEF LockLast
  <2>2. \A u \in Threads : Taken(u)' <=> Taken(u)
    BY <2>1, <1>r
  <2> QED BY <1>6, <2>2, <1>n, <1>a, <1>d, <1>e DEF LockLast, Dozes
<1>7. CASE LockPark(t)
  <2>1. UNCHANGED <<hand, raising>>
    BY <1>7 DEF LockPark, Fire, Parking
  <2>2. \A u \in Threads : Taken(u)' <=> Taken(u)
    BY <2>1, <1>r
  <2> QED BY <1>7, <2>2, <1>n, <1>a, <1>d, <1>e DEF LockPark, Fire, Parking, Dozes
<1>8. CASE LockRelock(t)
  BY <1>8, <1>p DEF LockRelock
<1>9. CASE LockWoken(t)
  <2>1. owner # NoThread => owner' = owner
    BY <1>9, <1>p DEF LockWoken, Consume, Fire, WlFree
  <2>2. owner = NoThread => owner' = t
    BY <1>9, <1>p DEF LockWoken, Consume, Fire, WlFree
  <2> QED BY <2>1, <2>2, <1>a, <1>e
<1>10. CASE LockDiscount(t)
  <2>1. UNCHANGED <<hand, raising>>
    BY <1>10 DEF LockDiscount, Acquired
  <2>2. \A u \in Threads : Taken(u)' <=> Taken(u)
    BY <2>1, <1>r
  <2> QED BY <1>10, <2>2, <1>n, <1>a, <1>d, <1>e DEF LockDiscount, Acquired, Dozes
<1>11. CASE sp_Mutex_try_lock(t)
  <2>1. UNCHANGED <<hand, raising>>
    BY <1>11 DEF sp_Mutex_try_lock
  <2>2. \A u \in Threads : Taken(u)' <=> Taken(u)
    BY <2>1, <1>r
  <2> QED BY <1>11, <2>2, <1>n, <1>a, <1>d, <1>e DEF sp_Mutex_try_lock, Dozes
<1>12. CASE Unlock(t)
  <2>1. UNCHANGED <<hand, raising>>
    BY <1>12 DEF Unlock
  <2>2. \A u \in Threads : Taken(u)' <=> Taken(u)
    BY <2>1, <1>r
  <2> QED BY <1>12, <2>2, <1>n, <1>a, <1>d, <1>e DEF Unlock, Dozes
<1>13. CASE UnlockLook(t)
  <2>1. UNCHANGED <<hand, raising>>
    BY <1>13 DEF UnlockLook
  <2>2. \A u \in Threads : Taken(u)' <=> Taken(u)
    BY <2>1, <1>r
  <2> QED BY <1>13, <2>2, <1>n, <1>a, <1>d, <1>e DEF UnlockLook, Dozes
<1>14. CASE UnlockCas(t)
  <2>1. UNCHANGED <<hand, raising>>
    BY <1>14 DEF UnlockCas, Release
  <2>2. \A u \in Threads : Taken(u)' <=> Taken(u)
    BY <2>1, <1>r
  <2> QED BY <1>14, <2>2, <1>n, <1>a, <1>d, <1>e DEF UnlockCas, Release, Dozes
<1>15. CASE UnlockCheck(t)
  <2>1. v \in Counted
    BY <1>15, <1>a, <1>e DEF UnlockCheck, Dozes, Counted
  <2> QED BY <1>15, <2>1, <1>a, <1>f DEF UnlockCheck
<1>16. CASE sp_mutex_wake_waiter(t)
  <2>1. CASE waiters = <<>>
    <3>1. hand' = hand /\ raising' = raising /\ woken' = woken /\ wl = NoThread
      BY <1>16, <2>1, <1>a DEF sp_mutex_wake_waiter, Awakened, WlFree, TakeFirst, WakeInv
    <3>2. /\ pc'[t] \notin {"park", "relock", "link", "parked"}
          /\ \A u \in Threads : u # t => pc'[u] = pc[u]
      BY <1>16, <2>1, <1>a DEF sp_mutex_wake_waiter, Awakened, WlFree
    <3>3. v # t /\ pc[v] # "park" /\ pc'[v] = pc[v]
      BY <3>1, <3>2, <1>a, <1>e DEF HoldInv, Dozes
    <3>4. Dozes(v)
      BY <3>1, <3>3, <1>e, <1>p DEF Dozes
    <3>5. Taken(v)
      BY <3>4, <2>1, <1>g, <1>h
    <3>6. Taken(v)'
      BY <3>1, <3>5, <1>r
    <3> QED BY <3>3, <3>4, <3>6 DEF Dozes
  <2>2. CASE waiters # <<>>
    <3>1. PICK h \in Threads : h = Head(waiters) /\ pc[h] = "parked"
      BY <2>2, <1>i DEF Dozes
    <3>2. hand' = [hand EXCEPT ![t] = {h}]
      BY <1>16, <2>2, <3>1 DEF sp_mutex_wake_waiter, Awakened, WlFree, TakeFirst
    <3>3. Taken(h)'
      BY <3>1, <3>2, <1>a DEF Taken
    <3>4. pc'[h] = "parked"
      BY <1>16, <3>1, <1>a DEF sp_mutex_wake_waiter, Awakened, WlFree
    <3> QED BY <3>1, <3>3, <3>4
  <2> QED BY <2>1, <2>2
<1>17. CASE UnlockSlow(t)
  <2>1. CASE depth = 0 /\ owner = t
    <3>1. CASE waiters = <<>>
      <4>1. hand' = hand /\ raising' = raising /\ woken' = woken /\ wl = NoThread
        BY <1>17, <2>1, <3>1, <1>a DEF UnlockSlow, Release, WlFree, TakeFirst, WakeInv
      <4>2. /\ pc'[t] \notin {"park", "relock", "link", "parked"}
            /\ \A u \in Threads : u # t => pc'[u] = pc[u]
        BY <1>17, <2>1, <3>1, <1>a DEF UnlockSlow, Release, WlFree
      <4>3. v # t /\ pc[v] # "park" /\ pc'[v] = pc[v]
        BY <4>1, <4>2, <1>a, <1>e DEF HoldInv, Dozes
      <4>4. Dozes(v)
        BY <4>1, <4>3, <1>e, <1>p DEF Dozes
      <4>5. Taken(v)
        BY <4>4, <3>1, <1>g, <1>h
      <4>6. Taken(v)'
        BY <4>1, <4>5, <1>r
      <4> QED BY <4>3, <4>4, <4>6 DEF Dozes
    <3>2. CASE waiters # <<>>
      <4>1. PICK h \in Threads : h = Head(waiters) /\ pc[h] = "parked"
        BY <3>2, <1>i DEF Dozes
      <4>2. hand' = [hand EXCEPT ![t] = {h}]
        BY <1>17, <2>1, <3>2, <4>1 DEF UnlockSlow, Release, WlFree, TakeFirst
      <4>3. Taken(h)'
        BY <4>1, <4>2, <1>a DEF Taken
      <4>4. pc'[h] = "parked"
        BY <1>17, <2>1, <4>1, <1>a DEF UnlockSlow, Release, WlFree
      <4> QED BY <4>1, <4>3, <4>4
    <3> QED BY <3>1, <3>2
  <2>2. CASE depth > 0 /\ owner = t
    BY <1>17, <2>2, <1>a, <1>e DEF UnlockSlow
  <2>3. CASE owner # t
    <3>1. UNCHANGED <<hand, raising>>
      BY <1>17, <2>3 DEF UnlockSlow
    <3>2. \A u \in Threads : Taken(u)' <=> Taken(u)
      BY <3>1, <1>r
    <3> QED BY <1>17, <2>3, <3>2, <1>n, <1>a, <1>d, <1>e DEF UnlockSlow, WlFree, HoldInv, Dozes
  <2>4. depth = 0 \/ depth > 0
    BY DEF TypeOK
  <2> QED BY <2>1, <2>2, <2>3, <2>4
<1>18. CASE Wait(t)
  <2>1. UNCHANGED <<hand, raising>>
    BY <1>18 DEF Wait, sp_cv_depth_take
  <2>2. \A u \in Threads : Taken(u)' <=> Taken(u)
    BY <2>1, <1>r
  <2> QED BY <1>18, <2>2, <1>n, <1>a, <1>d, <1>e DEF Wait, sp_cv_depth_take, Dozes
<1>19. CASE WaitRaises(t)
  <2>1. UNCHANGED <<hand, raising>>
    BY <1>19 DEF WaitRaises, Fire, WaitOver
  <2>2. \A u \in Threads : Taken(u)' <=> Taken(u)
    BY <2>1, <1>r
  <2> QED BY <1>19, <2>2, <1>n, <1>a, <1>d, <1>e DEF WaitRaises, Fire, WaitOver, Dozes
<1>20. CASE WaitList(t)
  <2>1. UNCHANGED <<hand, raising>>
    BY <1>20 DEF WaitList, Parking
  <2>2. \A u \in Threads : Taken(u)' <=> Taken(u)
    BY <2>1, <1>r
  <2> QED BY <1>20, <2>2, <1>n, <1>a, <1>d, <1>e DEF WaitList, Parking, Dozes
<1>21. CASE WaitRelease(t)
  <2>1. UNCHANGED <<hand, raising>>
    BY <1>21 DEF WaitRelease
  <2>2. \A u \in Threads : Taken(u)' <=> Taken(u)
    BY <2>1, <1>r
  <2> QED BY <1>21, <2>2, <1>n, <1>a, <1>d, <1>e DEF WaitRelease, Dozes
<1>22. CASE Expire(t)
  <2>1. UNCHANGED <<hand, raising>>
    BY <1>22 DEF Expire, sched_make_runnable
  <2>2. \A u \in Threads : Taken(u)' <=> Taken(u)
    BY <2>1, <1>r
  <2> QED BY <1>22, <2>2, <1>n, <1>a, <1>d, <1>e DEF Expire, sched_make_runnable, Dozes
<1>23. CASE WaitWoken(t)
  <2>1. UNCHANGED <<hand, raising>>
    BY <1>23 DEF WaitWoken, Consume
  <2>2. \A u \in Threads : Taken(u)' <=> Taken(u)
    BY <2>1, <1>r
  <2> QED BY <1>23, <2>2, <1>n, <1>a, <1>d, <1>e DEF WaitWoken, Consume, Dozes
<1>24. CASE WaitDone(t)
  <2>1. UNCHANGED <<hand, raising>>
    BY <1>24 DEF WaitDone, WaitOver
  <2>2. \A u \in Threads : Taken(u)' <=> Taken(u)
    BY <2>1, <1>r
  <2> QED BY <1>24, <2>2, <1>n, <1>a, <1>d, <1>e DEF WaitDone, WaitOver, Dozes
<1>25. CASE sp_CondVar_signal(t)
  <2>1. hand[t] = {} /\ UNCHANGED <<woken, raising, owner>> /\ pc' = [pc EXCEPT ![t] = "waking"]
        /\ pc[t] = "run" /\ \E H : hand' = [hand EXCEPT ![t] = H]
    BY <1>25, <1>a DEF sp_CondVar_signal, TakeFirst, WakeInv
  <2>2. \A u \in Threads : Taken(u) => Taken(u)'
    BY <2>1, <1>a DEF Taken
  <2> QED BY <2>1, <2>2, <1>n, <1>a, <1>d, <1>e DEF Dozes
<1>26. CASE sp_CondVar_broadcast(t)
  <2>1. hand[t] = {} /\ UNCHANGED <<woken, raising, owner>> /\ pc' = [pc EXCEPT ![t] = "waking"]
        /\ pc[t] = "run" /\ \E H : hand' = [hand EXCEPT ![t] = H]
    BY <1>26, <1>a DEF sp_CondVar_broadcast, TakeFirst, WakeInv
  <2>2. \A u \in Threads : Taken(u) => Taken(u)'
    BY <2>1, <1>a DEF Taken
  <2> QED BY <2>1, <2>2, <1>n, <1>a, <1>d, <1>e DEF Dozes
<1>27. CASE sp_thread_deliver(t)
  BY <1>27, <1>a, <1>e DEF sp_thread_deliver
<1>28. CASE FireRunning(t)
  <2>1. UNCHANGED <<hand, raising>>
    BY <1>28 DEF FireRunning, Fire
  <2>2. \A u \in Threads : Taken(u)' <=> Taken(u)
    BY <2>1, <1>r
  <2> QED BY <1>28, <2>2, <1>n, <1>a, <1>d, <1>e DEF FireRunning, Fire, Dozes
<1>29. CASE LockLink(t)
  BY <1>29, <1>p DEF LockLink
<1>30. CASE sched_wake_unlinked(t)
  <2>1. PICK w \in hand[t] :
          /\ sched_make_runnable(w) /\ hand' = [hand EXCEPT ![t] = @ \ {w}]
          /\ pc' = [pc EXCEPT ![t] = IF hand[t] = {w} THEN Awakened(t) ELSE pc[t]]
          /\ UNCHANGED <<raising, owner>>
    BY <1>30 DEF sched_wake_unlinked
  <2>2. w \in Threads /\ pc[t] \in {"waking", "cv_waking"}
    BY <2>1, <1>a DEF WakeInv
  <2>3. /\ \A u \in Threads : u # w => (Taken(u) => Taken(u)') /\ woken'[u] = woken[u]
        /\ woken[w] => woken'[w]
        /\ pc[w] = "parked" => woken'[w]
    BY <2>1, <2>2, <1>a DEF Taken, sched_make_runnable, Asleep
  <2>4. /\ \A u \in Threads : u # t => pc'[u] = pc[u]
        /\ pc'[t] \in {"run", "lock", "waking", "cv_waking", "cv_parked"}
    BY <2>1, <2>2, <1>a DEF Awakened
  <2>5. Wants(v)
    BY <2>3, <2>4, <1>a, <1>e DEF Dozes
  <2>6. PICK x \in Threads : Looks(x)
    BY <2>1, <2>5, <1>n, <1>d, <1>e
  <2>7. x # t
    BY <2>2, <2>6
  <2>8. Looks(x)'
    BY <2>3, <2>4, <2>6, <2>7
  <2> QED BY <2>8
<1>31. CASE DeliverUnpark(t)
  BY <1>31, <1>a, <1>o DEF DeliverUnpark
<1>32. CASE DeliverWake(t)
  BY <1>32, <1>a, <1>o DEF DeliverWake
<1> QED BY <1>1, <1>2, <1>3, <1>4, <1>5, <1>6, <1>7, <1>8, <1>9, <1>10, <1>11, <1>12,
           <1>13, <1>14, <1>15, <1>16, <1>17, <1>18, <1>19, <1>20, <1>21, <1>22, <1>23,
           <1>24, <1>25, <1>26, <1>27, <1>28, <1>29, <1>30, <1>31, <1>32
     DEF Step, LockStep, UnlockStep, WaitStep, CallStep

-----------------------------------------------------------------------------
(* The invariant.                                                          *)

LEMMA InitInv == Init => IInv
<1> SUFFICES ASSUME Init PROVE IInv
  OBVIOUS
<1>1. CoreType /\ WaitInv /\ HoldInv /\ FlatInv
  BY ConstAssumption
     DEF Init, CoreType, WaitInv, HoldInv, FlatInv, Labels, LockLabels, UnlockLabels,
         WaitLabels
<1>7. TypeOK
  <2>1. /\ waiters \in Seq(Threads) /\ cvlist \in Seq(Threads) /\ nwaiters \in Nat
        /\ unparking \in Threads \cup {NoThread} /\ raising \in Threads \cup {NoThread}
    BY DEF Init
  <2>2. hand \in [Threads -> SUBSET Threads]
    BY DEF Init
  <2>3. crossed \in BOOLEAN
    BY DEF Init
  <2> QED BY <1>1, <2>1, <2>2, <2>3 DEF TypeOK, CoreType
<1>6. LowInv /\ NestInv /\ OfferInv
  BY ConstAssumption
     DEF Init, LowInv, LowAt, NestInv, Unharmed, OfferInv, Dozes
<1>5. WakeInv
  BY DEF Init, WakeInv
<1>2. Range(<<>>) = {} /\ IsInjective(<<>>)
  BY <1>7, EmptyList DEF TypeOK
<1>3. ListInv
  BY <1>2, ConstAssumption DEF Init, ListInv, Dozes, Awaits, Taken, Fresh
<1>4. CountInv
  <2>1. Counted = {}
    BY DEF Init, Counted
  <2> QED BY <2>1, FS_EmptySet DEF Init, CountInv
<1> QED BY <1>1, <1>3, <1>4, <1>5, <1>6, <1>7 DEF IInv

LEMMA NextInv == IInv /\ [Next]_vars => IInv'
<1> SUFFICES ASSUME IInv, [Next]_vars PROVE IInv'
  OBVIOUS
<1>1. CASE Next
  <2>1. PICK t \in Threads : Step(t)
    BY <1>1 DEF Next, Step
  <2>8. /\ WakeInv'
        /\ hand' \in [Threads -> SUBSET Threads] /\ crossed' \in BOOLEAN
        /\ unparking' \in Threads \cup {NoThread} /\ raising' \in Threads \cup {NoThread}
    BY <2>1, WakeStep DEF IInv
  <2>2. (WaitInv /\ HoldInv /\ FlatInv)'
    BY <2>1, PlaceStep DEF IInv
  <2>3. (LowInv /\ NestInv)'
    BY <2>1, LowStep, NestStep DEF IInv
  <2>4. waiters' \in Seq(Threads) /\ cvlist' \in Seq(Threads) /\ ListInv'
    BY <2>1, ListTypeStep, ListStep DEF IInv
  <2>5. nwaiters' \in Nat /\ CountInv'
    BY <2>1, CountStep DEF IInv
  <2>6. OfferInv'
    BY <2>1, OfferStep DEF IInv
  <2>7. TypeOK'
    BY <2>1, <2>4, <2>5, <2>8, TypeStep DEF IInv, TypeOK, CoreType
  <2> QED BY <2>2, <2>3, <2>4, <2>5, <2>6, <2>7, <2>8 DEF IInv
<1>2. CASE UNCHANGED vars
  BY <1>2 DEF vars, mutex, raise, raiser, wakes, prog, IInv, TypeOK, WaitInv, WakeInv,
     HoldInv, FlatInv, LowInv, LowAt, NestInv, Unharmed, ListInv, Dozes, Awaits, Taken,
     OneHand, Fresh, CountInv, Counted, OfferInv, OnTheWay, At
<1> QED BY <1>1, <1>2

\* The inductive invariant of the lists, the owner and the depth holds throughout.
THEOREM Invariance == Spec => []IInv
BY InitInv, NextInv, PTL DEF Spec

-----------------------------------------------------------------------------
(* What follows.                                                           *)

\* Whoever is on the mutex's list is counted in nwaiters, which #unlock reads
\* without the wait lock, and whoever sleeps is on the list its waker looks at or
\* in the hands of the one waker, or raiser, that took it off: until a #raise
\* wakes a thread which a waker had taken (sp_thread_deliver), with raises allowed
\* anywhere.
THEOREM SleepersAreListed == Spec => []ListsAgree
<1>1. IInv => ListsAgree
  <2> SUFFICES ASSUME IInv PROVE ListsAgree
    OBVIOUS
  <2>1. Range(waiters) \subseteq Threads
    BY EmptyList DEF IInv, TypeOK
  <2>2. ~ crossed => Range(waiters) \subseteq Counted
    BY <2>1 DEF IInv, ListInv, Dozes, Counted
  <2>3. ~ crossed => SleeperIsListed
    BY DEF IInv, TypeOK, ListInv, Dozes, Awaits, SleeperIsListed, At
  <2> QED BY <2>2, <2>3 DEF IInv, CountInv, ListsAgree, ListedIsCounted
<1> QED BY Invariance, <1>1, PTL

\* A thread inside its critical section owns the mutex: no two are inside, as
\* long as no raise ends a Monitor's wait.
THEOREM MutualExclusion == Spec => []HoldsWhileInside
<1>1. IInv => HoldsWhileInside
  BY DEF IInv, TypeOK, WaitInv, HoldInv, NestInv, Unharmed, HoldsWhileInside, Away
<1> QED BY Invariance, <1>1, PTL

\* A Monitor is as deep as its owner's #lock calls say, a wait in between or not.
THEOREM MonitorKeepsDepth == Spec => []DepthKeptUnraised
<1>1. IInv => DepthKeptUnraised
  <2> SUFFICES ASSUME IInv, nraise = 0, NEW t \in Threads, owner = t, At(t, "run")
               PROVE  depth = nest[t] - 1
    BY DEF DepthKeptUnraised, DepthKept
  <2>1. depth \in Nat /\ wait[t] = "none"
    BY DEF IInv, TypeOK, WaitInv, At
  <2>2. nest[t] = depth + 1
    BY <2>1 DEF IInv, NestInv, Unharmed, At
  <2> QED BY <2>1, <2>2
<1> QED BY Invariance, <1>1, PTL

\* A free mutex with a thread parked for it is about to be offered to one: the
\* count and the owner are looked at in opposite orders by #lock and #unlock.
THEOREM NoMutexWakeIsLost == Spec => []FreeIsOfferedUnraised
<1>1. IInv => FreeIsOfferedUnraised
  <2> SUFFICES ASSUME IInv, nraise = 0, owner = NoThread, waiters # <<>> PROVE OnTheWay
    BY DEF FreeIsOfferedUnraised, FreeIsOffered
  <2>1. PICK t \in Threads : t \in Range(waiters)
    BY TailList DEF IInv, TypeOK
  <2>2. Dozes(t)
    BY <2>1 DEF IInv, WakeInv, ListInv
  <2> QED BY <2>2 DEF IInv, OfferInv
<1> QED BY Invariance, <1>1, PTL

=============================================================================
