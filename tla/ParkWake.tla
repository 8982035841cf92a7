------------------------------ MODULE ParkWake ------------------------------
(***************************************************************************)
(* How a green thread of lib/sp_sched.c parks on a wait list and is made   *)
(* runnable again.  A wait list (a Mutex's, ConditionVariable's, Queue's   *)
(* or thread's joiners) is guarded by its object's spin lock, not by the   *)
(* scheduler lock, so four kinds of actor meet here without a common lock: *)
(*                                                                         *)
(*  - the thread itself, linking itself while still on its own stack       *)
(*    (sp_sched_block_wl, sp_sched_block_timeout);                         *)
(*  - its worker, which finds it off its stack (run_thread_once);          *)
(*  - a waker, which unlinks it under the list's lock and makes it         *)
(*    runnable after dropping that lock (wl_take_one, sched_wake_unlinked);*)
(*  - the monitor, whose timer ends a timed wait (sp_timer_fire_due,       *)
(*    sp_sched_timer_expire), and a Thread#raise (sp_thread_deliver).      *)
(*                                                                         *)
(* The park word decides which of the waker and the worker queues it.  A   *)
(* started thread is pinned, so each thread has one worker (home_wid).     *)
(* A critical section of a wait lock whose variables are only accessed     *)
(* under that lock is one step.                                            *)
(***************************************************************************)
EXTENDS Naturals, Sequences, SequencesExt, FiniteSets

CONSTANTS
  Threads,    \* the spawned green threads
  Workers,    \* the helper OS workers
  Lists,      \* wait lists, each with the wait lock of its object
  home_wid,   \* the worker each thread is pinned to
  Main,       \* the main thread, here only a source of wakes
  Monitor,    \* the monitor thread (sysmon)
  NoThread, NoList, Free,
  MaxGen,     \* bound: timers armed, by all the threads
  MaxRaise,   \* bound: Thread#raise calls made
  TimerMayFail, \* whether storage for a timer can run out
  MayDefer      \* whether threads make calls that put a #raise off

ASSUME ConstAssumption ==
  /\ IsFiniteSet(Threads)
  /\ home_wid \in [Threads -> Workers]
  /\ NoThread \notin Threads /\ NoList \notin Lists /\ Free \notin Threads
  /\ Main # Monitor /\ Main \notin Threads /\ Monitor \notin Threads
  /\ MaxGen \in Nat /\ MaxRaise \in Nat
  /\ TimerMayFail \in BOOLEAN /\ MayDefer \in BOOLEAN

Actors == Threads \cup {Main, Monitor}

VARIABLES
  state,          \* "RUNNABLE", "RUNNING" or "BLOCKED" (sp_thread_state)
  park,           \* the park word: "RUN", "PARKING", "PARKED" or "WOKEN"
  waiters,        \* each list's parked threads, head first
  wait_lock,      \* the list a thread is linked on (wait_head, wait_lock)
  wl,             \* the thread holding a list's lock across steps, or Free
  tm_seq,         \* the last timer generation a thread armed
  tm_armed,       \* the generation armed for its wait, 0 when none
  wait_timer,     \* the generation its wait was published with, 0 when none
  timer_expired,  \* the wait reached its deadline
  heap,           \* timer entries <<thread, generation>> of the monitor
  due,            \* entries it claimed, not expired yet
  inject,         \* a #raise is pending on the thread's fiber
  defer,          \* it is put off: the thread is in a call that defers it
  nraise,         \* #raise calls made so far
  lrq,            \* each worker's run queue
  cur,            \* the thread whose run_thread_once a worker is in
  pc,             \* where each actor is
  obj,            \* the list a thread is to wait on, or waits on, or NoList
  timed,          \* whether with a deadline
  tgt             \* the thread an actor is waking

timerVars == <<tm_seq, tm_armed, wait_timer, timer_expired, heap, due>>
listVars  == <<waiters, wait_lock, wl>>
callVars  == <<obj, timed>>
vars == <<state, park, listVars, timerVars, inject, defer, nraise, lrq, cur,
          pc, callVars, tgt>>

ParkWord == {"RUN", "PARKING", "PARKED", "WOKEN"}
State    == {"RUNNABLE", "RUNNING", "BLOCKED"}
Entry    == Threads \X (1 .. MaxGen)
Labels   == {"new", "run", "locked", "relock", "link", "arm", "publish",
             "unlock", "out", "off", "resume", "cancel", "wake", "unpark",
             "raise"}

\* No thread has been spawned yet.
Init ==
  /\ state = [t \in Threads |-> "RUNNABLE"]
  /\ park = [t \in Threads |-> "RUN"]
  /\ waiters = [l \in Lists |-> <<>>]
  /\ wait_lock = [t \in Threads |-> NoList]
  /\ wl = [l \in Lists |-> Free]
  /\ tm_seq = [t \in Threads |-> 0]
  /\ tm_armed = [t \in Threads |-> 0]
  /\ wait_timer = [t \in Threads |-> 0]
  /\ timer_expired = [t \in Threads |-> FALSE]
  /\ heap = {} /\ due = {}
  /\ inject = [t \in Threads |-> FALSE]
  /\ defer = [t \in Threads |-> FALSE]
  /\ nraise = 0
  /\ lrq = [w \in Workers |-> <<>>]
  /\ cur = [w \in Workers |-> NoThread]
  /\ pc = [a \in Actors |-> IF a \in Threads THEN "new" ELSE "run"]
  /\ obj = [t \in Threads |-> NoList]
  /\ timed = [t \in Threads |-> FALSE]
  /\ tgt = [a \in Actors |-> NoThread]

At(a, l)    == pc[a] = l
Goto(a, l)  == pc' = [pc EXCEPT ![a] = l]
SetState(t, s) == state' = [state EXCEPT ![t] = s]
SetPark(t, p)  == park' = [park EXCEPT ![t] = p]
WaitsOn(t, l)  == obj' = [obj EXCEPT ![t] = l]

\* runq_requeue: a started thread goes to the tail of its home worker's queue.
runq_requeue(t) ==
  lrq' = [lrq EXCEPT ![home_wid[t]] = Append(@, t)]

\* t comes off the list l it is on, wherever it stands there.
Unlink(t, l) ==
  /\ \E i \in DOMAIN waiters[l] :
       /\ waiters[l][i] = t
       /\ \A j \in 1 .. (i - 1) : waiters[l][j] # t
       /\ waiters' = [waiters EXCEPT ![l] = RemoveAt(@, i)]
  /\ wait_lock' = [wait_lock EXCEPT ![t] = NoList]

\* Thread.new: the thread is placed on a worker, whose queue it joins.
Spawn(t) ==
  /\ At(t, "new")
  /\ runq_requeue(t)
  /\ Goto(t, "off")
  /\ UNCHANGED <<state, park, listVars, timerVars, inject, defer, nraise, cur,
                 callVars, tgt>>

-----------------------------------------------------------------------------
(* The waiting thread. *)

\* The timers armed so far.
Armed == Cardinality({e \in Entry : e[2] <= tm_seq[e[1]]})

\* It takes the list's lock; a timed wait also clears timer_expired.
BlockLock(t, l, dl) ==
  /\ At(t, "run") /\ wl[l] = Free
  /\ dl => Armed < MaxGen
  /\ wl' = [wl EXCEPT ![l] = t]
  /\ WaitsOn(t, l)
  /\ timed' = [timed EXCEPT ![t] = dl]
  /\ timer_expired' = [timer_expired EXCEPT ![t] = IF dl THEN FALSE ELSE @]
  /\ Goto(t, "locked")
  /\ UNCHANGED <<state, park, waiters, wait_lock, tm_seq, tm_armed,
                 wait_timer, heap, due, inject, defer, nraise, lrq, cur, tgt>>

\* Wrong on purpose: the park is published without the look at the inject slot.
BlockPublish_NoInjectCheck(t) ==
  /\ At(t, "locked")
  /\ SetState(t, "BLOCKED")
  /\ SetPark(t, "PARKING")
  /\ waiters' = [waiters EXCEPT ![obj[t]] = Append(@, t)]
  /\ wait_lock' = [wait_lock EXCEPT ![t] = obj[t]]
  /\ Goto(t, IF timed[t] THEN "arm" ELSE "unlock")
  /\ UNCHANGED <<wl, inject, timerVars, defer, nraise, lrq, cur, callVars, tgt>>

\* With the inject slot held.  A pending #raise is fired instead of parking, or,
\* deferred, is left pending, and the list's lock is dropped for the attempt; a
\* timed wait whose no_wait look answers ends at once; otherwise the park is
\* published under the list's lock.
BlockPublish(t) ==
  /\ At(t, "locked")
  /\ \/ /\ inject[t]
        /\ inject' = [inject EXCEPT ![t] = defer[t]]
        /\ wl' = [wl EXCEPT ![obj[t]] = Free]
        /\ Goto(t, IF defer[t] THEN "relock" ELSE "run")
        /\ WaitsOn(t, IF defer[t] THEN obj[t] ELSE NoList)
        /\ UNCHANGED <<state, park, waiters, wait_lock>>
     \/ /\ ~inject[t] /\ timed[t]
        /\ wl' = [wl EXCEPT ![obj[t]] = Free]
        /\ Goto(t, "run")
        /\ WaitsOn(t, NoList)
        /\ UNCHANGED <<state, park, waiters, wait_lock, inject>>
     \/ /\ ~inject[t]
        /\ SetState(t, "BLOCKED")
        /\ SetPark(t, "PARKING")
        /\ waiters' = [waiters EXCEPT ![obj[t]] = Append(@, t)]
        /\ wait_lock' = [wait_lock EXCEPT ![t] = obj[t]]
        /\ Goto(t, IF timed[t] THEN "arm" ELSE "unlock")
        /\ UNCHANGED <<wl, inject, obj>>
  /\ UNCHANGED <<timerVars, defer, nraise, lrq, cur, timed, tgt>>

\* With a deferred #raise pending the list's lock is taken back and the wait
\* goes on, without the inject slot: a second #raise may come at any point.
BlockRelock(t) ==
  /\ At(t, "relock") /\ wl[obj[t]] = Free
  /\ \/ /\ timed[t]
        /\ Goto(t, "run")
        /\ WaitsOn(t, NoList)
        /\ UNCHANGED <<state, park, wl>>
     \/ /\ wl' = [wl EXCEPT ![obj[t]] = t]
        /\ SetState(t, "BLOCKED")
        /\ SetPark(t, "PARKING")
        /\ Goto(t, "link")
        /\ UNCHANGED obj
  /\ UNCHANGED <<waiters, wait_lock, timerVars, inject, defer, nraise, lrq, cur,
                 timed, tgt>>

BlockLink(t) ==
  /\ At(t, "link")
  /\ waiters' = [waiters EXCEPT ![obj[t]] = Append(@, t)]
  /\ wait_lock' = [wait_lock EXCEPT ![t] = obj[t]]
  /\ Goto(t, IF timed[t] THEN "arm" ELSE "unlock")
  /\ UNCHANGED <<state, park, wl, timerVars, inject, defer, nraise, lrq, cur,
                 callVars, tgt>>

\* sp_timer_schedule, still under the list's lock.
sp_timer_schedule(t) ==
  /\ At(t, "arm")
  /\ tm_seq' = [tm_seq EXCEPT ![t] = @ + 1]
  /\ heap' = heap \cup {<<t, tm_seq[t] + 1>>}
  /\ tm_armed' = [tm_armed EXCEPT ![t] = tm_seq[t] + 1]
  /\ Goto(t, "publish")
  /\ UNCHANGED <<state, park, listVars, wait_timer, timer_expired, due,
                 inject, defer, nraise, lrq, cur, callVars, tgt>>

\* No storage for the timer, whose generation is spent: the wait is undone
\* before the lock is dropped.
TimerFailed(t) ==
  /\ TimerMayFail /\ At(t, "arm")
  /\ tm_seq' = [tm_seq EXCEPT ![t] = @ + 1]
  /\ Unlink(t, obj[t])
  /\ SetPark(t, "RUN")
  /\ SetState(t, "RUNNING")
  /\ wl' = [wl EXCEPT ![obj[t]] = Free]
  /\ Goto(t, "run")
  /\ WaitsOn(t, NoList)
  /\ UNCHANGED <<tm_armed, wait_timer, timer_expired, heap, due, inject,
                 defer, nraise, lrq, cur, timed, tgt>>

\* The wait is marked with its timer and the list's lock dropped.
BlockUnlock(t) ==
  /\ pc[t] \in {"publish", "unlock"}
  /\ wait_timer' = [wait_timer EXCEPT ![t] =
                      IF At(t, "publish") THEN tm_seq[t] ELSE @]
  /\ wl' = [wl EXCEPT ![obj[t]] = Free]
  /\ Goto(t, "out")
  /\ UNCHANGED <<state, park, waiters, wait_lock, tm_seq, tm_armed,
                 timer_expired, heap, due, inject, defer, nraise, lrq, cur,
                 callVars, tgt>>

\* sp_sched_switch_out: the thread leaves its stack; its worker goes on.
SwitchOut(t) ==
  /\ At(t, "out")
  /\ Goto(t, "off")
  /\ UNCHANGED <<state, park, listVars, timerVars, inject, defer, nraise, lrq, cur,
                 callVars, tgt>>

\* Thread.pass, or a preemption at a safepoint: it switches out RUNNING.
Pass(t) ==
  /\ At(t, "run")
  /\ Goto(t, "out")
  /\ UNCHANGED <<state, park, listVars, timerVars, inject, defer, nraise, lrq,
                 cur, callVars, tgt>>

\* Switched in again: the wait's timer mark is cleared and a #raise fires, unless
\* it is deferred.  A condition variable's wait, which released its mutex, defers
\* it from its switch out on; nobody but the thread looks at that.
Resume(t) ==
  /\ At(t, "resume")
  /\ wait_timer' = [wait_timer EXCEPT ![t] = 0]
  /\ \/ /\ inject' = [inject EXCEPT ![t] = @ /\ defer[t]]
        /\ UNCHANGED defer
     \/ /\ MayDefer /\ obj[t] # NoList
        /\ defer' = [defer EXCEPT ![t] = TRUE]
        /\ UNCHANGED inject
  /\ Goto(t, "run")
  /\ WaitsOn(t, NoList)
  /\ UNCHANGED <<state, park, listVars, tm_seq, tm_armed, timer_expired, heap,
                 due, nraise, lrq, cur, timed, tgt>>

\* sp_fiber_defer_inject, by a call that is about to wait: Mutex#sleep, connect,
\* a ConditionVariable#wait that does not park.
DeferInject(t) ==
  /\ MayDefer /\ At(t, "run") /\ ~defer[t]
  /\ defer' = [defer EXCEPT ![t] = TRUE]
  /\ UNCHANGED <<state, park, listVars, timerVars, inject, nraise, lrq, cur, pc,
                 callVars, tgt>>

\* sp_fiber_undefer_inject, once its mutex is taken back: what is pending fires.
UndeferInject(t) ==
  /\ At(t, "run") /\ defer[t]
  /\ defer' = [defer EXCEPT ![t] = FALSE]
  /\ inject' = [inject EXCEPT ![t] = FALSE]
  /\ UNCHANGED <<state, park, listVars, timerVars, nraise, lrq, cur, pc,
                 callVars, tgt>>

-----------------------------------------------------------------------------
(* Its worker: run_thread_once. *)

RunThread(w) ==
  /\ cur[w] = NoThread /\ lrq[w] # <<>>
  /\ LET t == Head(lrq[w]) IN
       /\ cur' = [cur EXCEPT ![w] = t]
       /\ SetState(t, "RUNNING")
       /\ SetPark(t, "RUN")
       /\ Goto(t, "resume")
  /\ lrq' = [lrq EXCEPT ![w] = Tail(@)]
  /\ UNCHANGED <<listVars, timerVars, inject, defer, nraise, callVars, tgt>>

\* Wrong on purpose: PARKED is stored over whatever the park word holds.
ThreadStopped_StoresParked(w) ==
  /\ cur[w] # NoThread /\ At(cur[w], "off")
  /\ LET t == cur[w] IN
       IF state[t] = "BLOCKED"
       THEN SetPark(t, "PARKED") /\ UNCHANGED <<state, lrq>>
       ELSE /\ SetPark(t, "RUN")
            /\ SetState(t, "RUNNABLE")
            /\ runq_requeue(t)
  /\ cur' = [cur EXCEPT ![w] = NoThread]
  /\ UNCHANGED <<listVars, timerVars, inject, defer, nraise, pc, callVars, tgt>>

\* The thread is off its stack.  BLOCKED: PARKING -> PARKED, unless a wake
\* came meanwhile, and then the worker queues it.  Otherwise it only yielded.
ThreadStopped(w) ==
  /\ cur[w] # NoThread /\ At(cur[w], "off")
  /\ LET t == cur[w] IN
       IF state[t] = "BLOCKED" /\ park[t] = "PARKING"
       THEN SetPark(t, "PARKED") /\ UNCHANGED <<state, lrq>>
       ELSE /\ SetPark(t, "RUN")
            /\ SetState(t, "RUNNABLE")
            /\ runq_requeue(t)
  /\ cur' = [cur EXCEPT ![w] = NoThread]
  /\ UNCHANGED <<listVars, timerVars, inject, defer, nraise, pc, callVars, tgt>>

-----------------------------------------------------------------------------
(* Wakers. *)

\* The program's own code runs: not the inside of a call that defers.
InProgram(a) == At(a, "run") /\ (a \in Threads => ~defer[a])

\* wl_take_one: the first waiter is taken under the list's lock.
TakeOne(a, l) ==
  /\ a # Monitor /\ InProgram(a)
  /\ wl[l] = Free /\ waiters[l] # <<>>
  /\ tgt' = [tgt EXCEPT ![a] = Head(waiters[l])]
  /\ waiters' = [waiters EXCEPT ![l] = Tail(@)]
  /\ wait_lock' = [wait_lock EXCEPT ![Head(waiters[l])] = NoList]
  /\ Goto(a, "cancel")
  /\ UNCHANGED <<state, park, wl, timerVars, inject, defer, nraise, lrq, cur,
                 callVars>>

\* sched_wake_unlinked begins by disarming the timer of the thread it took.
sp_timer_cancel(a) ==
  /\ At(a, "cancel")
  /\ tm_armed' = [tm_armed EXCEPT ![tgt[a]] = 0]
  /\ Goto(a, "wake")
  /\ UNCHANGED <<state, park, listVars, tm_seq, wait_timer, timer_expired,
                 heap, due, inject, defer, nraise, lrq, cur, callVars, tgt>>

\* Wrong on purpose: a thread still switching out is queued at once.
sched_make_runnable_QueuesParking(a) ==
  /\ pc[a] \in {"wake", "raise"}
  /\ LET t == tgt[a] IN
       \/ /\ park[t] \in {"PARKED", "PARKING"}
          /\ SetPark(t, "RUN") /\ SetState(t, "RUNNABLE") /\ runq_requeue(t)
       \/ park[t] \in {"RUN", "WOKEN"} /\ UNCHANGED <<park, state, lrq>>
  /\ tgt' = [tgt EXCEPT ![a] = NoThread]
  /\ Goto(a, "run")
  /\ UNCHANGED <<listVars, timerVars, inject, defer, nraise, cur, callVars>>

\* Wrong on purpose: the waker leaves a thread that is still switching out to itself.
sched_make_runnable_SkipsParking(a) ==
  /\ pc[a] \in {"wake", "raise"}
  /\ LET t == tgt[a] IN
       \/ park[t] = "PARKED" /\ SetPark(t, "RUN") /\ SetState(t, "RUNNABLE")
                             /\ runq_requeue(t)
       \/ park[t] # "PARKED" /\ UNCHANGED <<park, state, lrq>>
  /\ tgt' = [tgt EXCEPT ![a] = NoThread]
  /\ Goto(a, "run")
  /\ UNCHANGED <<listVars, timerVars, inject, defer, nraise, cur, callVars>>

\* PARKED -> RUN and the waker queues it; PARKING -> WOKEN and its worker
\* will; RUN or WOKEN means that it was woken already.
sched_make_runnable(a) ==
  /\ pc[a] \in {"wake", "raise"}
  /\ LET t == tgt[a] IN
       \/ park[t] = "PARKED" /\ SetPark(t, "RUN") /\ SetState(t, "RUNNABLE")
                             /\ runq_requeue(t)
       \/ park[t] = "PARKING" /\ SetPark(t, "WOKEN") /\ UNCHANGED <<state, lrq>>
       \/ park[t] \in {"RUN", "WOKEN"} /\ UNCHANGED <<park, state, lrq>>
  /\ tgt' = [tgt EXCEPT ![a] = NoThread]
  /\ Goto(a, "run")
  /\ UNCHANGED <<listVars, timerVars, inject, defer, nraise, cur, callVars>>

-----------------------------------------------------------------------------
(* The monitor's timers. *)

\* Wrong on purpose: an entry is claimed without a look at the generation armed.
sp_timer_fire_due_AnyGeneration(e) ==
  /\ e \in heap /\ At(Monitor, "run")
  /\ heap' = heap \ {e}
  /\ tm_armed' = [tm_armed EXCEPT ![e[1]] = 0]
  /\ due' = due \cup {e}
  /\ UNCHANGED <<state, park, listVars, tm_seq, wait_timer, timer_expired,
                 inject, defer, nraise, lrq, cur, pc, callVars, tgt>>

\* An entry reaches its deadline: the monitor claims its generation, or drops
\* the entry when it is no longer the one armed.
sp_timer_fire_due(e) ==
  /\ e \in heap /\ At(Monitor, "run")
  /\ heap' = heap \ {e}
  /\ \/ /\ tm_armed[e[1]] = e[2]
        /\ tm_armed' = [tm_armed EXCEPT ![e[1]] = 0]
        /\ due' = due \cup {e}
     \/ /\ tm_armed[e[1]] # e[2]
        /\ UNCHANGED <<tm_armed, due>>
  /\ UNCHANGED <<state, park, listVars, tm_seq, wait_timer, timer_expired,
                 inject, defer, nraise, lrq, cur, pc, callVars, tgt>>

\* Wrong on purpose: the comparison of the generations lets no wait of this timer end.
sp_sched_timer_expire_WrongWait(e) ==
  /\ e \in due /\ At(Monitor, "run")
  /\ due' = due \ {e}
  /\ LET t == e[1]
         l == wait_lock[t]
     IN  /\ l # NoList => wl[l] = Free
         /\ IF l # NoList /\ wait_timer[t] > e[2]
            THEN /\ Unlink(t, l)
                 /\ tm_armed' = [tm_armed EXCEPT ![t] = 0]
                 /\ timer_expired' = [timer_expired EXCEPT ![t] = TRUE]
                 /\ tgt' = [tgt EXCEPT ![Monitor] = t]
                 /\ Goto(Monitor, "wake")
            ELSE UNCHANGED <<waiters, wait_lock, tm_armed, timer_expired,
                             tgt, pc>>
  /\ UNCHANGED <<state, park, wl, tm_seq, wait_timer, heap, inject, defer, nraise,
                 lrq, cur, callVars>>

\* sp_sched_unpark_only: only the wait published with this timer is ended, and
\* only if the thread is still on its list.
sp_sched_timer_expire(e) ==
  /\ e \in due /\ At(Monitor, "run")
  /\ due' = due \ {e}
  /\ LET t == e[1]
         l == wait_lock[t]
     IN  /\ l # NoList => wl[l] = Free
         /\ IF l # NoList /\ wait_timer[t] = e[2]
            THEN /\ Unlink(t, l)
                 /\ tm_armed' = [tm_armed EXCEPT ![t] = 0]
                 /\ timer_expired' = [timer_expired EXCEPT ![t] = TRUE]
                 /\ tgt' = [tgt EXCEPT ![Monitor] = t]
                 /\ Goto(Monitor, "wake")
            ELSE UNCHANGED <<waiters, wait_lock, tm_armed, timer_expired,
                             tgt, pc>>
  /\ UNCHANGED <<state, park, wl, tm_seq, wait_timer, heap, inject, defer, nraise,
                 lrq, cur, callVars>>

-----------------------------------------------------------------------------
(* Thread#raise on another thread: sp_thread_deliver. *)

\* The scheduler lock, held from the inject to the end of the wake.
SchedHeld == \E a \in Actors : pc[a] \in {"unpark", "raise"}

\* The inject is set under the inject slot's lock; a thread found BLOCKED is
\* then taken off its list and made runnable.
DeliverInject(a, t) ==
  /\ a # Monitor /\ a # t /\ InProgram(a) /\ ~At(t, "new")
  /\ ~SchedHeld /\ nraise < MaxRaise
  /\ nraise' = nraise + 1
  /\ inject' = [inject EXCEPT ![t] = TRUE]
  /\ IF state[t] = "BLOCKED"
     THEN tgt' = [tgt EXCEPT ![a] = t] /\ Goto(a, "unpark")
     ELSE UNCHANGED <<tgt, pc>>
  /\ UNCHANGED <<state, park, listVars, timerVars, defer, lrq, cur, callVars>>

\* sp_sched_unpark.  Its answer is not looked at: the thread is made runnable
\* whether or not this took it off a list.
DeliverUnpark(a) ==
  /\ At(a, "unpark")
  /\ LET t == tgt[a]
         l == wait_lock[t]
     IN  \/ /\ l # NoList /\ wl[l] = Free
            /\ Unlink(t, l)
            /\ tm_armed' = [tm_armed EXCEPT ![t] = 0]
         \/ l = NoList /\ UNCHANGED <<waiters, wait_lock, tm_armed>>
  /\ Goto(a, "raise")
  /\ UNCHANGED <<state, park, wl, tm_seq, wait_timer, timer_expired, heap, due,
                 inject, defer, nraise, lrq, cur, callVars, tgt>>

-----------------------------------------------------------------------------
ThreadStep(t) ==
  \/ Spawn(t)
  \/ \E l \in Lists, dl \in BOOLEAN : BlockLock(t, l, dl)
  \/ BlockPublish(t) \/ BlockRelock(t) \/ BlockLink(t)
  \/ sp_timer_schedule(t) \/ TimerFailed(t) \/ BlockUnlock(t)
  \/ SwitchOut(t) \/ Pass(t) \/ Resume(t)
  \/ DeferInject(t) \/ UndeferInject(t)

WorkerStep(w) == RunThread(w) \/ ThreadStopped(w)

WakerStep(a) ==
  \/ \E l \in Lists : TakeOne(a, l)
  \/ sp_timer_cancel(a) \/ sched_make_runnable(a)
  \/ \E t \in Threads : DeliverInject(a, t)
  \/ DeliverUnpark(a)

MonitorStep ==
  \E e \in Entry : sp_timer_fire_due(e) \/ sp_sched_timer_expire(e)

Next ==
  \/ \E t \in Threads : ThreadStep(t)
  \/ \E w \in Workers : WorkerStep(w)
  \/ \E a \in Actors : WakerStep(a)
  \/ MonitorStep

Spec == Init /\ [][Next]_vars

\* What an actor's own code goes on to do once begun.
GoesOn(a) ==
  \/ sp_timer_cancel(a) \/ sched_make_runnable(a)
  \/ /\ a \in Threads
     /\ \/ BlockPublish(a) \/ BlockRelock(a) \/ BlockLink(a)
        \/ sp_timer_schedule(a) \/ BlockUnlock(a) \/ SwitchOut(a) \/ Resume(a)

\* The scheduling the code provides: an OS thread that can step does, the
\* monitor comes back for due timers, and a running thread reaches a poll
\* where its expired timeslice makes it yield (sp_safepoint_preempt).
Fairness ==
  /\ \A a \in Actors : WF_vars(GoesOn(a))
  /\ \A t \in Threads : SF_vars(Pass(t))
  /\ \A w \in Workers : WF_vars(WorkerStep(w))
  /\ SF_vars(MonitorStep)

FairSpec == Spec /\ Fairness

-----------------------------------------------------------------------------
(* Properties. *)

\* The type invariant of the park protocol's state.
TypeOK ==
  /\ state \in [Threads -> State]
  /\ park \in [Threads -> ParkWord]
  /\ waiters \in [Lists -> Seq(Threads)]
  /\ wait_lock \in [Threads -> Lists \cup {NoList}]
  /\ wl \in [Lists -> Threads \cup {Free}]
  /\ tm_seq \in [Threads -> 0 .. MaxGen]
  /\ tm_armed \in [Threads -> 0 .. MaxGen]
  /\ wait_timer \in [Threads -> 0 .. MaxGen]
  /\ timer_expired \in [Threads -> BOOLEAN]
  /\ heap \subseteq Entry /\ due \subseteq Entry
  /\ inject \in [Threads -> BOOLEAN]
  /\ defer \in [Threads -> BOOLEAN]
  /\ nraise \in 0 .. MaxRaise
  /\ lrq \in [Workers -> Seq(Threads)]
  /\ cur \in [Workers -> Threads \cup {NoThread}]
  /\ pc \in [Actors -> Labels]
  /\ obj \in [Threads -> Lists \cup {NoList}]
  /\ timed \in [Threads -> BOOLEAN]
  /\ tgt \in [Actors -> Threads \cup {NoThread}]

Queued(t, w) == \E i \in DOMAIN lrq[w] : lrq[w][i] = t
OnList(t, l) == \E i \in DOMAIN waiters[l] : waiters[l][i] = t

\* The off-CPU handshake (sched_make_runnable, run_thread_once): a thread on a
\* run queue has left its stack and its worker is done with it, it is on one
\* queue only, its home worker's, and there once.  Were it not, a second
\* run_thread_once could enter a stack that is still being switched out of.
QueuedOffStack ==
  \A w \in Workers : \A i \in DOMAIN lrq[w] :
    LET t == lrq[w][i] IN
      /\ At(t, "off") /\ home_wid[t] = w /\ cur[w] # t /\ park[t] = "RUN"
      /\ \A j \in DOMAIN lrq[w] : lrq[w][j] = t => j = i

\* No wake is lost between the two that could queue a thread: one off its stack
\* is queued, or in the hands of its worker, or parked; and a parked one that
\* is on no list has a waker that took it and has still to queue it.
NoLostWake ==
  \A t \in Threads : At(t, "off") =>
    \/ Queued(t, home_wid[t])
    \/ cur[home_wid[t]] = t
    \/ /\ park[t] = "PARKED"
       /\ wait_lock[t] # NoList \/ \E a \in Actors : tgt[a] = t

\* "a waker that got there first, under the list's own lock, owns t's wake":
\* a thread on a wait list is in the wait that put it there.  A thread that
\* runs, or waits elsewhere, while a list still names it takes the next wake
\* of that list from a real waiter and links the list's nodes twice.
ListedIsParked ==
  \A l \in Lists : \A i \in DOMAIN waiters[l] :
    LET t == waiters[l][i] IN
      /\ state[t] = "BLOCKED" /\ park[t] \in {"PARKING", "PARKED"}
      /\ wait_lock[t] = l
      /\ \A j \in DOMAIN waiters[l] : waiters[l][j] = t => j = i

\* So it is as long as no #raise has come between.
ListedIsParkedUnraised == nraise = 0 => ListedIsParked

\* A timed wait keeps its deadline (sp_timer_schedule, sp_timer_cancel): while
\* it is on its list its own timer is armed and with the monitor, or claimed
\* by it.  A cancel meant for an earlier wait would leave it to wait forever;
\* a #raise that wakes a thread which a waker has taken brings that about.
DeadlineKept ==
  \A t \in Threads : nraise = 0 /\ wait_timer[t] # 0 /\ wait_lock[t] # NoList =>
    LET e == <<t, wait_timer[t]>> IN
      \/ e \in due
      \/ e \in heap /\ tm_armed[t] = wait_timer[t]

\* A wait has one result (sp_sched_timer_expire): a timed wait that a waker
\* took off its list is not reported as timed out, unless a #raise had made the
\* waker's thread run on into a later wait.
WokenIsNotTimeout ==
  nraise = 0 => \A a \in Actors \ {Monitor} :
    pc[a] \in {"cancel", "wake"} /\ timed[tgt[a]] => ~timer_expired[tgt[a]]

\* A #raise is not slept through (sp_fiber_inject_hold): a thread that sleeps, or
\* is about to, with one pending has its raiser on the way to take it off its
\* list, or past that and about to make it runnable.  A thread that had put
\* raises off before it parked is the exception: one that comes before the park
\* is "left pending", and waits for whatever else ends that wait.
RaiseNotSleptThrough ==
  \A t \in Threads :
    inject[t] /\ ~defer[t] /\ park[t] \in {"PARKING", "PARKED"} =>
    \E a \in Actors :
      /\ tgt[a] = t
      /\ At(a, "unpark") \/ (At(a, "raise") /\ wait_lock[t] = NoList)

\* A thread in a timed wait runs again, woken or timed out.
TimedWaitEnds ==
  \A t \in Threads : (At(t, "out") /\ wait_timer[t] # 0) ~> At(t, "run")

\* A thread that a waker took off its list runs again: its wake is not lost,
\* whichever of the waker and its worker has to queue it.
WokenRuns ==
  \A t \in Threads :
    (\E a \in Actors : At(a, "wake") /\ tgt[a] = t) ~> At(t, "run")

\* Where a thread is, is told alike by the run queues, the wait lists, its park
\* word and its stack: who is queued is off its stack, and who is listed is in the
\* wait that listed it (sched_make_runnable, sp_sched_timer_expire).
PlacesAgree == TypeOK /\ QueuedOffStack /\ ListedIsParkedUnraised

\* A timed wait keeps its deadline whatever becomes of the timers of the thread's
\* earlier waits, and one that was woken does not answer that it timed out
\* (sp_timer_fire_due, sp_sched_timer_expire).
TimedWaitRight == DeadlineKept /\ WokenIsNotTimeout
=============================================================================
