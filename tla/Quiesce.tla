------------------------------ MODULE Quiesce ------------------------------
(***************************************************************************)
(* How main finds out that nothing can wake it any more, in                *)
(* lib/sp_sched.c: #join, a wait of main's, the exit drain, and the death  *)
(* of a thread that main or another thread joins.                          *)
(*                                                                         *)
(* Each worker counts the threads it queued, runs and parked with a timer  *)
(* in a slot of its own (g_cnt), under a sequence number that is odd while *)
(* the slot changes.  Main's pump adds the slots up: if a thread is        *)
(* runnable, running or has a deadline it sleeps, and the last helper to   *)
(* go idle, which adds them up too, wakes it; otherwise the caller reports *)
(* a deadlock.  Neither the counting nor the going idle takes the          *)
(* scheduler lock, under which the slots are read.                         *)
(*                                                                         *)
(* Threads are pinned to helpers and all waits are on one list or on a     *)
(* thread's joiners.  An operation on a list and the critical section of a *)
(* queue's lock are one step.                                              *)
(***************************************************************************)
EXTENDS Integers, Sequences, SequencesExt, FiniteSets, FiniteSetsExt

CONSTANTS
  Threads,    \* the green threads, runnable at the start
  Main,       \* the main thread
  NoThread,
  NHelpers,   \* helpers that have started
  Home,       \* the helper each thread is pinned to
  MaxRaise,   \* bound: raises aimed at main
  MaxOps      \* bound: what the threads do besides dying (the slots of two
              \* workers drift apart: one counts a thread up, the other down)

ASSUME ConstAssumption ==
  /\ IsFiniteSet(Threads) /\ Main \notin Threads
  /\ NoThread \notin Threads \cup {Main}
  /\ NHelpers \in Nat \ {0} /\ MaxRaise \in Nat /\ MaxOps \in Nat
  /\ Home \in [Threads -> 1 .. NHelpers]

Helpers == 1 .. NHelpers
Workers == 0 .. NHelpers     \* main is worker 0
Slots   == 0 .. NHelpers + 1 \* the workers' counts and the monitor's
MonSlot == NHelpers + 1
Free    == -1

VARIABLES
  state,      \* "RUNNABLE", "RUNNING", "BLOCKED" or "DEAD", main's too
  park,       \* "RUN", "PARKING", "PARKED" or "WOKEN" (see ParkWake)
  timer,      \* the thread has a timer armed
  counted,    \* the thread is counted in a timed wait
  waiters, joiners,   \* the wait list, and each thread's
  lrq,        \* each helper's queue
  runnable, running, timed,   \* g_cnt: the workers' and the monitor's slots
  sched,      \* holder of the scheduler lock, or Free
  nnative,    \* g_nnative: workers out of the world
  main_waits, main_cv,  \* g_main_waits; g_sched_work was signalled
  inject,     \* a raise is pending on main
  nraise, nops,
  pc, cur,    \* where a worker is and the thread it runs
  owed,       \* the threads it took off a list and has not woken yet
  joined,     \* the thread that main joins
  mode,       \* what main waits for: "join", "wait", "timed" or "drain"
  rpos, dirty, sum, read   \* a reading of the slots: where it is, the slots
                           \* changed since read, the sums, whether it held

listVars == <<waiters, joiners>>
threadVars == <<state, park, timer, counted>>
cntVars  == <<runnable, running, timed, dirty>>
mainVars == <<main_waits, main_cv, inject, nraise, mode, joined>>
readVars == <<rpos, sum, read>>
vars == <<threadVars, listVars, lrq, cntVars, sched, nnative, mainVars, pc, cur,
          owed, readVars, nops>>

Sum0   == <<0, 0, 0>>

\* Main has spawned the threads, whose first counts are in its slot.
Init ==
  /\ state = [t \in Threads \cup {Main} |->
                IF t = Main THEN "RUNNING" ELSE "RUNNABLE"]
  /\ park = [t \in Threads |-> "RUN"]
  /\ timer = [t \in Threads \cup {Main} |-> FALSE]
  /\ counted = [t \in Threads |-> FALSE]
  /\ waiters = <<>> /\ joiners = [t \in Threads |-> <<>>]
  /\ lrq = [w \in Helpers |-> SetToSeq({t \in Threads : Home[t] = w})]
  /\ runnable = [s \in Slots |-> IF s = 0 THEN Cardinality(Threads) ELSE 0]
  /\ running = [s \in Slots |-> 0] /\ timed = [s \in Slots |-> 0]
  /\ sched = Free /\ nnative = 0
  /\ main_waits = FALSE /\ main_cv = FALSE /\ inject = FALSE /\ nraise = 0 /\ nops = 0
  /\ pc = [w \in Workers |-> IF w = 0 THEN "code" ELSE "loop"]
  /\ cur = [w \in Workers |-> NoThread]
  /\ owed = [w \in Workers |-> <<>>] /\ joined = NoThread
  /\ mode = "none"
  /\ rpos = 0 /\ dirty = {} /\ sum = Sum0 /\ read = FALSE

At(w, l)     == pc[w] = l
Goto(w, l)   == pc' = [pc EXCEPT ![w] = l]
Set(f, x, v) == [f EXCEPT ![x] = v]

-----------------------------------------------------------------------------
(* Counting: cnt_add4 by a worker in its own slot.  The slot's sequence    *)
(* number is odd meanwhile, on which a reading starts over as it does when *)
(* the number has moved at the end (Touched): the change is one step.      *)

Reading(w) == At(w, "read")
Touched(w) == IF \E x \in Workers : Reading(x) THEN dirty \cup {w} ELSE {}
cnt_add4(w, dr, du, dt) ==
  /\ runnable' = [runnable EXCEPT ![w] = @ + dr]
  /\ running' = [running EXCEPT ![w] = @ + du]
  /\ timed' = [timed EXCEPT ![w] = @ + dt]
  /\ dirty' = Touched(w)

\* runq_push on its home's queue, under that queue's lock.
runq_push(w, t) ==
  /\ lrq' = [lrq EXCEPT ![Home[t]] = Append(@, t)]
  /\ cnt_add4(w, 1, 0, 0)

-----------------------------------------------------------------------------
(* counts_snapshot, with the scheduler lock: a pass that adds the slots up *)
(* one by one, and a second pass that looks whether one has moved.         *)
NSlots == NHelpers + 2
StartRead == rpos' = 0 /\ sum' = Sum0 /\ read' = FALSE
otherVars == <<threadVars, listVars, lrq, runnable, running, timed, nnative,
               mainVars, cur, owed>>

cnt_pass(w) ==
  /\ Reading(w) /\ rpos < NSlots
  /\ dirty' = dirty \ {rpos}
  /\ sum' = <<sum[1] + runnable[rpos], sum[2] + running[rpos], sum[3] + timed[rpos]>>
  /\ rpos' = rpos + 1
  /\ UNCHANGED <<otherVars, sched, pc, read>>
\* Wrong on purpose: the first pass is taken as it is.
ReadAgain_Not(w) ==
  /\ Reading(w) /\ rpos = NSlots
  /\ rpos' = 0 /\ read' = TRUE /\ dirty' = {} /\ Goto(w, "sums")
  /\ UNCHANGED <<otherVars, sched, sum>>
\* The second pass is one step: a slot that has moved stays moved, so a pass
\* that finds none moved would have found none at its start, and one that finds
\* one moved would at that moment.
ReadAgain(w) ==
  /\ Reading(w) /\ rpos = NSlots /\ dirty = {}
  /\ rpos' = 0 /\ read' = TRUE /\ Goto(w, "sums")
  /\ UNCHANGED <<otherVars, sched, sum, dirty>>
\* A slot has moved: another try, or no answer after some.
ReadFails(w) ==
  /\ Reading(w) /\ rpos = NSlots /\ dirty # {}
  /\ \/ UNCHANGED pc
     \/ Goto(w, "sums")
  /\ StartRead /\ dirty' = {}
  /\ UNCHANGED <<otherVars, sched>>

-----------------------------------------------------------------------------
(* A helper runs its queue.                                                *)

\* The thread goes from runnable to running in one change, or with the
\* scheduler lock in two (runq_pop, RUNNING_INC), which no reading comes
\* between.
runq_take(w) ==
  /\ At(w, "loop") /\ lrq[w] # <<>>
  /\ cur' = Set(cur, w, Head(lrq[w]))
  /\ lrq' = [lrq EXCEPT ![w] = Tail(@)]
  /\ Goto(w, "taken")
  /\ UNCHANGED <<threadVars, listVars, cntVars, sched, nnative, mainVars, owed,
                 readVars>>
RUNNABLE_TO_RUNNING(w) ==
  /\ At(w, "taken")
  /\ cnt_add4(w, -1, 1, 0)
  /\ state' = Set(state, cur[w], "RUNNING") /\ park' = Set(park, cur[w], "RUN")
  /\ Goto(w, IF counted[cur[w]] THEN "timed back" ELSE "run")
  /\ UNCHANGED <<timer, counted, listVars, lrq, sched, nnative, mainVars, cur, owed,
                 readVars>>
\* A timed wait it comes back from is no longer counted.
TimedBack(w) ==
  /\ At(w, "timed back")
  /\ cnt_add4(w, 0, 0, -1)
  /\ counted' = Set(counted, cur[w], FALSE)
  /\ Goto(w, "run")
  /\ UNCHANGED <<state, park, timer, listVars, lrq, sched, nnative, mainVars, cur,
                 owed, readVars>>

\* sp_sched_block_wl and sp_sched_block_timeout: on a list, still on its stack.
Publish(w, onList) ==
  /\ state' = Set(state, cur[w], "BLOCKED") /\ park' = Set(park, cur[w], "PARKING")
  /\ onList
  /\ Goto(w, "off")
sp_sched_block_wl(w) ==
  /\ At(w, "run")
  /\ Publish(w, waiters' = Append(waiters, cur[w]) /\ UNCHANGED joiners)
  /\ UNCHANGED <<timer, counted, lrq, cntVars, sched, nnative, mainVars, cur, owed,
                 readVars>>
\* A timed wait is counted before the thread stops running.
TimedCount(w) ==
  /\ At(w, "run")
  /\ cnt_add4(w, 0, 0, 1) /\ counted' = Set(counted, cur[w], TRUE)
  /\ Goto(w, "timed")
  /\ UNCHANGED <<state, park, timer, listVars, lrq, sched, nnative, mainVars, cur,
                 owed, readVars>>
sp_sched_block_timeout(w) ==
  /\ At(w, "timed")
  /\ Publish(w, waiters' = Append(waiters, cur[w]) /\ UNCHANGED joiners)
  /\ timer' = Set(timer, cur[w], TRUE)
  /\ UNCHANGED <<counted, lrq, cntVars, sched, nnative, mainVars, cur, owed,
                 readVars>>
\* #join of another thread that is alive: on its joiners, under their lock.
sp_thread_await(w) ==
  /\ At(w, "run")
  /\ \E u \in Threads \ {cur[w]} :
       /\ state[u] # "DEAD"
       /\ Publish(w, joiners' = [joiners EXCEPT ![u] = Append(@, cur[w])]
                     /\ UNCHANGED waiters)
  /\ UNCHANGED <<timer, counted, lrq, cntVars, sched, nnative, mainVars, cur, owed,
                 readVars>>
\* It is off its stack: parked, or woken meanwhile and queued again; only then
\* is it no longer counted running.
SwitchOut(w) ==
  LET t == cur[w] IN
  /\ At(w, "off")
  /\ IF park[t] = "PARKING"
     THEN park' = Set(park, t, "PARKED") /\ UNCHANGED <<state, lrq, cntVars>>
     ELSE /\ park' = Set(park, t, "RUN") /\ state' = Set(state, t, "RUNNABLE")
          /\ runq_push(w, t)
  /\ Goto(w, "stop")
  /\ UNCHANGED <<timer, counted, listVars, sched, nnative, mainVars, cur, owed,
                 readVars>>
\* Thread.pass, or a preemption.
sp_Thread_pass(w) ==
  /\ At(w, "run")
  /\ state' = Set(state, cur[w], "RUNNABLE")
  /\ runq_push(w, cur[w])
  /\ Goto(w, "stop")
  /\ UNCHANGED <<park, timer, counted, listVars, sched, nnative, mainVars, cur, owed,
                 readVars>>
RUNNING_DEC(w) ==
  /\ At(w, "stop")
  /\ cnt_add4(w, 0, -1, 0)
  /\ cur' = Set(cur, w, NoThread)
  /\ Goto(w, "loop")
  /\ UNCHANGED <<threadVars, listVars, lrq, sched, nnative, mainVars, owed,
                 readVars>>

\* The thread dies, and then its joiners are taken, all at once.
Die(w) ==
  /\ At(w, "run")
  /\ state' = Set(state, cur[w], "DEAD")
  /\ Goto(w, "dead")
  /\ UNCHANGED <<park, timer, counted, listVars, lrq, cntVars, sched, nnative,
                 mainVars, cur, owed, readVars>>
sp_thread_wake_joiners(w) ==
  LET t == cur[w] IN
  /\ At(w, "dead")
  /\ owed' = Set(owed, w, joiners[t])
  /\ joiners' = Set(joiners, t, <<>>)
  /\ Goto(w, IF joiners[t] = <<>> THEN "stop" ELSE "wake")
  /\ UNCHANGED <<threadVars, waiters, lrq, cntVars, sched, nnative, mainVars, cur,
                 readVars>>

\* A thread, or main, wakes a waiter: off the list first.
wl_take_one(w) ==
  /\ At(w, IF w = 0 THEN "code" ELSE "run") /\ waiters # <<>>
  /\ owed' = Set(owed, w, <<Head(waiters)>>) /\ waiters' = Tail(waiters)
  /\ Goto(w, "wake")
  /\ UNCHANGED <<threadVars, joiners, lrq, cntVars, sched, nnative, mainVars, cur,
                 readVars>>
\* One is woken; the worker goes on with the rest, or with what it was at.
Woken(w) ==
  /\ owed' = Set(owed, w, Tail(owed[w]))
  /\ Goto(w, IF Tail(owed[w]) # <<>> THEN "wake"
             ELSE IF w = 0 THEN "code"
             ELSE IF state[cur[w]] = "DEAD" THEN "stop" ELSE "run")
\* sched_wake_unlinked of a green thread: its timer is cancelled and it is
\* queued, or left to its worker if it is still on its stack.
sched_make_runnable(w) ==
  LET t == Head(owed[w]) IN
  /\ At(w, "wake") /\ t # Main
  /\ timer' = Set(timer, t, FALSE)
  /\ IF park[t] = "PARKED"
     THEN /\ park' = Set(park, t, "RUN") /\ state' = Set(state, t, "RUNNABLE")
          /\ runq_push(w, t)
     ELSE /\ park' = IF park[t] = "PARKING" THEN Set(park, t, "WOKEN") ELSE park
          /\ UNCHANGED <<state, lrq, cntVars>>
  /\ Woken(w)
  /\ UNCHANGED <<counted, listVars, sched, nnative, mainVars, cur, readVars>>

\* With the scheduler lock.
sched_wake_main == main_waits' = FALSE /\ main_cv' = (main_cv \/ At(0, "cv"))
\* sched_wake_unlinked of main: runnable if it is still in a wait.
WakeMain(w) ==
  /\ At(w, "wake") /\ Head(owed[w]) = Main /\ sched = Free
  /\ timer' = Set(timer, Main, FALSE)
  /\ state' = IF state[Main] = "BLOCKED" THEN Set(state, Main, "RUNNABLE") ELSE state
  /\ sched_wake_main
  /\ Woken(w)
  /\ UNCHANGED <<park, counted, listVars, lrq, cntVars, sched, nnative, inject,
                 nraise, mode, joined, cur, readVars>>
\* A raise aimed at main, which is taken off its list and woken.
sp_thread_raise_main_locked(w) ==
  /\ At(w, "run") /\ sched = Free /\ nraise < MaxRaise
  /\ nraise' = nraise + 1 /\ inject' = TRUE
  /\ IF state[Main] = "BLOCKED"
     THEN /\ state' = Set(state, Main, "RUNNABLE")
          /\ timer' = Set(timer, Main, FALSE)
          /\ waiters' = Remove(waiters, Main)
          /\ joiners' = [t \in Threads |-> Remove(joiners[t], Main)]
     ELSE UNCHANGED <<state, timer, listVars>>
  /\ sched_wake_main
  /\ UNCHANGED <<park, counted, lrq, cntVars, sched, nnative, mode, joined, pc, cur,
                 owed, readVars>>

-----------------------------------------------------------------------------
(* A helper with nothing to run goes out of the world.                     *)

\* Wrong on purpose: the number of workers out before this one is compared.
IdleOut_Before(w) ==
  /\ At(w, "loop") /\ lrq[w] = <<>>
  /\ nnative' = nnative + 1
  /\ Goto(w, IF nnative >= NHelpers THEN "last" ELSE "idle")
  /\ UNCHANGED <<threadVars, listVars, lrq, cntVars, sched, mainVars, cur, owed,
                 readVars>>
\* sp_worker_idle_unlocked: counted out, then a look whether main waits.
IdleOut(w) ==
  /\ At(w, "loop") /\ lrq[w] = <<>>
  /\ nnative' = nnative + 1
  /\ Goto(w, IF nnative + 1 >= NHelpers THEN "last" ELSE "idle")
  /\ UNCHANGED <<threadVars, listVars, lrq, cntVars, sched, mainVars, cur, owed, readVars>>
IdleLast(w) ==
  /\ At(w, "last")
  /\ Goto(w, IF main_waits THEN "ask" ELSE "idle")
  /\ UNCHANGED <<threadVars, listVars, lrq, cntVars, sched, nnative, mainVars,
                 cur, owed, readVars>>
IdleAsks(w) ==
  /\ At(w, "ask") /\ sched = Free
  /\ sched' = w
  /\ StartRead /\ Goto(w, "read")
  /\ UNCHANGED <<threadVars, listVars, lrq, cntVars, nnative, mainVars, cur, owed>>
\* sp_out_enter_locked: the same with the lock.
IdleLocked(w) ==
  /\ At(w, "loop") /\ lrq[w] = <<>> /\ sched = Free
  /\ nnative' = nnative + 1
  /\ IF nnative + 1 >= NHelpers
     THEN sched' = w /\ Goto(w, "read")
     ELSE Goto(w, "idle") /\ UNCHANGED sched
  /\ StartRead
  /\ UNCHANGED <<threadVars, listVars, lrq, cntVars, mainVars, cur, owed>>
\* sp_sched_signal_if_quiescent: nothing is runnable and nothing runs.
sp_sched_signal_if_quiescent(w) ==
  /\ At(w, "sums") /\ w # 0
  /\ IF read /\ sum[1] = 0 /\ sum[2] = 0
     THEN sched_wake_main ELSE UNCHANGED <<main_waits, main_cv>>
  /\ sched' = Free
  /\ Goto(w, "idle") /\ StartRead
  /\ UNCHANGED <<threadVars, listVars, lrq, cntVars, nnative, inject, nraise, joined, mode,
                 cur, owed>>
\* Work, or nothing, wakes it (how it is not missed: RunQueues).
IdleUp(w) ==
  /\ At(w, "idle")
  /\ nnative' = nnative - 1
  /\ Goto(w, "loop")
  /\ UNCHANGED <<threadVars, listVars, lrq, cntVars, sched, mainVars, cur, owed, readVars>>

\* Wrong on purpose: the wait is ended though a waker has taken it off its list.
sp_sched_timer_expire_Any(x) ==
  /\ sched = Free /\ timer[x]
  /\ timer' = Set(timer, x, FALSE)
  /\ waiters' = Remove(waiters, x)
  /\ x = Main
  /\ state' = Set(state, Main, "RUNNABLE")
  /\ sched_wake_main
  /\ UNCHANGED <<park, lrq, cntVars, counted, joiners, sched, nnative, inject,
                 nraise, joined, mode, pc, cur, owed, readVars>>
\* A timer of the monitor's, which has the scheduler lock: a wait still on its
\* list ends, and the monitor counts what it queues in its own slot.
sp_sched_timer_expire(x) ==
  /\ sched = Free /\ timer[x]
  /\ timer' = Set(timer, x, FALSE)
  /\ waiters' = Remove(waiters, x)
  /\ IF x \notin ToSet(waiters) THEN UNCHANGED <<state, park, lrq, runnable,
                                                main_waits, main_cv>>
     ELSE IF x = Main
     THEN /\ state' = Set(state, Main, "RUNNABLE")
          /\ sched_wake_main
          /\ UNCHANGED <<park, lrq, runnable>>
     ELSE /\ IF park[x] = "PARKED"
             THEN /\ park' = Set(park, x, "RUN")
                  /\ state' = Set(state, x, "RUNNABLE")
                  /\ lrq' = [lrq EXCEPT ![Home[x]] = Append(@, x)]
                  /\ runnable' = [runnable EXCEPT ![MonSlot] = @ + 1]
             ELSE park' = Set(park, x, "WOKEN") /\ UNCHANGED <<state, lrq, runnable>>
          /\ UNCHANGED <<main_waits, main_cv>>
  /\ UNCHANGED <<counted, joiners, running, timed, dirty, sched, nnative,
                 inject, nraise, joined, mode, pc, cur, owed, readVars>>

-----------------------------------------------------------------------------
(* Main: a join, a wait, a timed wait, the exit drain, and its pump.       *)

\* Main goes on the list and blocks.
MainBlocks(m, onList) ==
  /\ state' = Set(state, Main, "BLOCKED")
  /\ onList
  /\ mode' = m /\ Goto(0, "lock")
\* sp_thread_await by main.
MainJoins(t) ==
  /\ At(0, "code") /\ state[t] # "DEAD"
  /\ MainBlocks("join", joiners' = [joiners EXCEPT ![t] = Append(@, Main)]
                        /\ UNCHANGED waiters)
  /\ joined' = t
  /\ UNCHANGED <<park, timer, counted, lrq, cntVars, sched, nnative, main_waits,
                 main_cv, inject, nraise, cur, owed, readVars>>
\* sp_sched_block_wl by main; a pending raise is fired instead.
MainWaits ==
  /\ At(0, "code") /\ ~ inject
  /\ MainBlocks("wait", waiters' = Append(waiters, Main) /\ UNCHANGED joiners)
  /\ UNCHANGED <<park, timer, counted, lrq, cntVars, sched, nnative, main_waits,
                 main_cv, inject, nraise, joined, cur, owed, readVars>>
\* sp_sched_block_timeout by main, counted first.
MainTimedCount ==
  /\ At(0, "code") /\ ~ inject
  /\ cnt_add4(0, 0, 0, 1) /\ Goto(0, "tmain")
  /\ UNCHANGED <<threadVars, listVars, lrq, sched, nnative, mainVars, cur, owed,
                 readVars>>
MainTimedWaits ==
  /\ At(0, "tmain")
  /\ MainBlocks("timed", waiters' = Append(waiters, Main) /\ UNCHANGED joiners)
  /\ timer' = Set(timer, Main, TRUE)
  /\ UNCHANGED <<park, counted, lrq, cntVars, sched, nnative, main_waits, main_cv,
                 inject, nraise, joined, cur, owed, readVars>>
\* sp_sched_drain: main has ended.
sp_sched_drain ==
  /\ At(0, "code")
  /\ mode' = "drain" /\ Goto(0, "lock")
  /\ UNCHANGED <<threadVars, listVars, lrq, cntVars, sched, nnative, main_waits,
                 main_cv, inject, nraise, joined, cur, owed, readVars>>

\* The pump, entered with the lock; a raise queued before a join is seen here.
MainLocks ==
  /\ At(0, "lock")
  /\ sched = Free
  /\ IF mode = "join" /\ inject
     THEN Goto(0, "leave") /\ mode' = "raised" /\ UNCHANGED sched
     ELSE Goto(0, "pump") /\ sched' = 0 /\ UNCHANGED mode
  /\ UNCHANGED <<threadVars, listVars, lrq, cntVars, nnative, main_waits, main_cv,
                 inject, nraise, joined, cur, owed, readVars>>
\* It returns when main was made runnable; otherwise main says that it waits
\* before it reads the counts.
PumpLooks ==
  /\ At(0, "pump")
  /\ IF state[Main] = "RUNNABLE"
     THEN /\ state' = Set(state, Main, "RUNNING") /\ Goto(0, "back")
          /\ UNCHANGED <<main_waits, readVars>>
     ELSE /\ main_waits' = TRUE
          /\ StartRead /\ Goto(0, "read")
          /\ UNCHANGED state
  /\ UNCHANGED <<park, timer, counted, listVars, lrq, cntVars, sched, nnative,
                 main_cv, inject, nraise, joined, mode, cur, owed>>
Outstanding ==
  \/ ~ read \/ sum[1] # 0 \/ sum[2] # 0
  \/ (mode # "drain" /\ sum[3] # 0)
PumpDecides ==
  /\ At(0, "sums")
  /\ IF Outstanding
     THEN /\ nnative' = nnative + 1 /\ main_cv' = FALSE
          /\ sched' = Free /\ Goto(0, "cv")
     ELSE Goto(0, "back") /\ UNCHANGED <<nnative, main_cv, sched>>
  /\ StartRead
  /\ UNCHANGED <<threadVars, listVars, lrq, cntVars, main_waits, inject, nraise, joined,
                 mode, cur, owed>>
\* Its condvar wait ends, for a signal or for nothing.
PumpWakes ==
  /\ At(0, "cv") /\ sched = Free
  /\ sched' = 0 /\ nnative' = nnative - 1 /\ main_cv' = FALSE
  /\ Goto(0, "pump")
  /\ UNCHANGED <<threadVars, listVars, lrq, cntVars, main_waits, inject, nraise, joined,
                 mode, cur, owed, readVars>>

\* A wait is over, or sched_main_leave_deadlocked_wait: nothing can wake main
\* and it takes itself off the list, unless a waker has, whose wake is coming.
WaitBack ==
  /\ At(0, "back") /\ mode \in {"wait", "timed"}
  /\ IF state[Main] = "RUNNING"
     THEN Goto(0, "left") /\ sched' = Free /\ UNCHANGED <<state, timer, waiters>>
     ELSE IF Main \in ToSet(waiters)
     THEN /\ waiters' = Remove(waiters, Main)
          /\ timer' = Set(timer, Main, FALSE)
          /\ state' = Set(state, Main, "RUNNING")
          /\ sched' = Free /\ Goto(0, "deadlock")
     ELSE Goto(0, "pump") /\ UNCHANGED <<state, timer, waiters, sched>>
  /\ UNCHANGED <<park, counted, joiners, lrq, cntVars, nnative, mainVars, cur, owed, readVars>>
\* A wait returns; a timed one is no longer counted.
WaitReturns ==
  /\ pc[0] \in {"left", "deadlock"} /\ mode \in {"wait", "timed"}
  /\ mode' = "none"
  /\ IF mode = "timed" THEN cnt_add4(0, 0, 0, -1) ELSE UNCHANGED cntVars
  /\ Goto(0, "code")
  /\ UNCHANGED <<threadVars, listVars, lrq, sched, nnative, main_waits, main_cv,
                 inject, nraise, joined, cur, owed, readVars>>

\* The join's pump is back: with main woken, or not, or for the second time.
JoinBack ==
  /\ At(0, "back") /\ mode \in {"join", "rejoin", "raised"}
  /\ sched' = Free
  /\ IF mode = "join"
     THEN /\ Goto(0, IF state[Main] = "RUNNING" THEN "joined" ELSE "leave")
          /\ UNCHANGED state
     ELSE Goto(0, "left") /\ state' = Set(state, Main, "RUNNING")
  /\ UNCHANGED <<park, timer, counted, listVars, lrq, cntVars, nnative, mainVars,
                 cur, owed, readVars>>
\* Main takes itself off the joiners; a death that took it off first wakes it,
\* and main pumps until then.
JoinLeaves ==
  /\ At(0, "leave")
  /\ IF Main \in ToSet(joiners[joined])
     THEN /\ joiners' = [joiners EXCEPT ![joined] = Remove(@, Main)]
          /\ state' = Set(state, Main, "RUNNING")
          /\ Goto(0, "left")
          /\ UNCHANGED <<sched, mode>>
     ELSE /\ sched = Free /\ sched' = 0
          /\ Goto(0, "pump")
          /\ mode' = IF mode = "join" THEN "rejoin" ELSE mode
          /\ UNCHANGED <<state, joiners>>
  /\ UNCHANGED <<park, timer, counted, waiters, lrq, cntVars, nnative, main_waits,
                 main_cv, inject, nraise, joined, cur, owed, readVars>>
\* What the join answers: a pending raise, a deadlock, or the thread.
JoinAnswers ==
  /\ At(0, "left") /\ mode \in {"join", "rejoin", "raised"}
  /\ Goto(0, IF ~ inject /\ mode # "raised" /\ state[joined] # "DEAD"
             THEN "deadlock" ELSE "joined")
  /\ UNCHANGED <<threadVars, listVars, lrq, cntVars, sched, nnative, mainVars, cur,
                 owed, readVars>>
JoinReturns ==
  /\ pc[0] \in {"joined", "deadlock"} /\ mode \in {"join", "rejoin", "raised"}
  /\ mode' = "none" /\ Goto(0, "code")
  /\ inject' = FALSE
  /\ joined' = NoThread
  /\ UNCHANGED <<threadVars, listVars, lrq, cntVars, sched, nnative, main_waits,
                 main_cv, nraise, cur, owed, readVars>>
\* A raise fires in main's code, which rescues it.
MainRaises ==
  /\ At(0, "code") /\ inject
  /\ inject' = FALSE
  /\ UNCHANGED <<threadVars, listVars, lrq, cntVars, sched, nnative, main_waits,
                 main_cv, nraise, joined, mode, pc, cur, owed, readVars>>
DrainBack ==
  /\ At(0, "back") /\ mode = "drain"
  /\ Goto(0, "done") /\ sched' = Free
  /\ UNCHANGED <<threadVars, listVars, lrq, cntVars, nnative, mainVars, cur, owed, readVars>>

-----------------------------------------------------------------------------
ReadStep(w) == cnt_pass(w) \/ ReadAgain(w) \/ ReadFails(w)
\* What a running thread does besides dying.
ThreadStep(w) ==
  /\ nops < MaxOps /\ nops' = nops + 1
  /\ \/ sp_sched_block_wl(w) \/ TimedCount(w) \/ sp_thread_await(w)
     \/ sp_Thread_pass(w) \/ wl_take_one(w) \/ sp_thread_raise_main_locked(w)
HelperStep(w) ==
  /\ UNCHANGED nops
  /\ \/ runq_take(w) \/ RUNNABLE_TO_RUNNING(w) \/ TimedBack(w)
     \/ sp_sched_block_timeout(w) \/ SwitchOut(w) \/ RUNNING_DEC(w)
     \/ sp_thread_wake_joiners(w) \/ sched_make_runnable(w) \/ WakeMain(w)
     \/ IdleOut(w) \/ IdleLast(w) \/ IdleAsks(w) \/ IdleLocked(w)
     \/ sp_sched_signal_if_quiescent(w) \/ ReadStep(w)
     \/ lrq[w] # <<>> /\ IdleUp(w)
MainCalls ==
  /\ UNCHANGED nops
  /\ \/ \E t \in Threads : MainJoins(t)
     \/ MainWaits \/ MainTimedCount \/ sp_sched_drain \/ MainRaises \/ wl_take_one(0)
MainStep ==
  /\ UNCHANGED nops
  /\ \/ MainTimedWaits \/ MainLocks \/ PumpLooks \/ PumpDecides
     \/ WaitBack \/ WaitReturns \/ JoinBack \/ JoinLeaves \/ JoinAnswers
     \/ JoinReturns \/ DrainBack \/ ReadStep(0) \/ sched_make_runnable(0)
     \/ main_cv /\ PumpWakes

Next ==
  \/ \E w \in Helpers : ThreadStep(w) \/ HelperStep(w)
  \/ \E w \in Helpers : (Die(w) \/ IdleUp(w)) /\ UNCHANGED nops
  \/ MainCalls \/ MainStep
  \/ PumpWakes /\ UNCHANGED nops
  \/ \E x \in Threads \cup {Main} : sp_sched_timer_expire(x) /\ UNCHANGED nops

Spec == Init /\ [][Next]_vars

\* Workers go on, a lock is not kept from them for ever, a helper with work
\* wakes and so does a signalled main.  Threads may run for ever, and no timer
\* need fire.
Fairness ==
  /\ \A w \in Helpers : SF_vars(HelperStep(w))
  /\ SF_vars(MainStep)
FairSpec == Spec /\ Fairness

-----------------------------------------------------------------------------
\* Type correctness: states, park words and the scheduler lock's holder, and no
\* worker counts itself out twice (sp_out_enter_locked, sp_worker_idle_unlocked).
TypeOK ==
  /\ state \in [Threads \cup {Main} -> {"RUNNABLE", "RUNNING", "BLOCKED", "DEAD"}]
  /\ park \in [Threads -> {"RUN", "PARKING", "PARKED", "WOKEN"}]
  /\ nnative \in 0 .. NHelpers + 1
  /\ sched \in Workers \cup {Free}

\* A thread that only another one, or main, can wake.
Stuck(t) == /\ state[t] = "BLOCKED" /\ park[t] = "PARKED" /\ ~ timer[t]
            /\ \A w \in Helpers : t \notin ToSet(owed[w])
Gone(t)  == state[t] = "DEAD" /\ \A w \in Helpers : cur[w] # t

\* When main raises "deadlock detected" (sp_thread_await, sp_sched_block_wl,
\* sp_sched_block_timeout), no thread can go on by itself: each one is dead, or
\* parked with no deadline and no wake on its way.  The pump saw that in counts
\* of other workers' slots, which they change without its lock.
DeadlockIsReal == At(0, "deadlock") => \A t \in Threads : Stuck(t) \/ Gone(t)

\* A join that ends without an error and without a raise has seen its thread
\* die (sp_thread_await): main found dead, or was woken by the death.
JoinedIsDead ==
  At(0, "joined") => (state[joined] = "DEAD" \/ inject \/ mode = "raised")
\* Nobody stays on the joiners of a thread whose death is over
\* (sp_thread_wake_joiners): one that saw it alive was listed in time.
JoinersTaken == \A t \in Threads : Gone(t) => joiners[t] = <<>>
\* Joins end as they should: types are kept, no joiner is left behind, and a
\* join has seen its thread die as long as nothing was raised in main.  (After a
\* raise that took main out of a wait, the wake of whoever had taken it off the
\* list before is still to come, and ends the next join.)
JoinsRight == TypeOK /\ JoinersTaken /\ (nraise = 0 => JoinedIsDead)

\* Nothing is left that could wake main.
Quiet ==
  /\ mode = "drain" \/ (mode # "none" /\ state[Main] = "BLOCKED" /\ ~ timer[Main])
  /\ \A t \in Threads :
       Gone(t) \/ (state[t] = "BLOCKED" /\ park[t] = "PARKED" /\ ~ counted[t])
  /\ \A w \in Helpers : owed[w] = <<>>
JoinedDied ==
  mode \in {"join", "rejoin"} /\ \E t \in Threads : t = joined /\ state[t] = "DEAD"
\* Main goes on.  Once nothing is left that could wake it, its pump comes back
\* (sp_sched_pump): the last helper to go idle is the one that tells it, and reads
\* g_main_waits without the lock main waits under.  And a join of a thread that
\* has died ends, whichever of the death and main's look came first
\* (sp_thread_await, sp_thread_wake_joiners).
MainGoesOn == (Quiet \/ JoinedDied) ~> (mode = "none" \/ At(0, "done"))
====
