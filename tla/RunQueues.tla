----------------------------- MODULE RunQueues -----------------------------
(***************************************************************************)
(* Where runnable green threads wait in lib/sp_sched.c, and how a worker   *)
(* finds them.  There is one shared queue (g_grq), under the scheduler     *)
(* lock, and a queue per worker (g_lrq), each under a lock of its own.  A  *)
(* thread that has not started may run anywhere: it is placed, picked or   *)
(* stolen; where it first runs it is pinned for life (home_wid).           *)
(*                                                                         *)
(* A helper runs its own queue without the scheduler lock, steals and goes *)
(* idle without it (sp_worker_unlocked), and takes the lock only for the   *)
(* shared queue.  So a thread is queued and a sleeper chosen for it        *)
(* (sched_wake_idle_helper) while helpers look, find nothing and go to     *)
(* sleep.  What keeps the two from missing each other is the order of      *)
(* stores and looks on `parked`, `wake_sent`, `idle` and the queues.       *)
(*                                                                         *)
(* A critical section of a queue's lock is one step.  Collections and the  *)
(* exit are in StopWorld, how a thread parks in ParkWake.                  *)
(***************************************************************************)
EXTENDS Integers, Sequences, SequencesExt, FiniteSets, FiniteSetsExt

CONSTANTS
  Threads,     \* the green threads that may be spawned
  NoThread,
  g_worker_cap,  \* how many helpers the pool may grow to
  MaxFail,     \* bound: pthread_create failures
  MaxAsk       \* bound: preemptions the monitor asks for

ASSUME ConstAssumption ==
  /\ IsFiniteSet(Threads) /\ NoThread \notin Threads
  /\ g_worker_cap \in Nat \ {0} /\ MaxFail \in Nat /\ MaxAsk \in Nat

Helpers == 1 .. g_worker_cap
Workers == 0 .. g_worker_cap     \* worker 0 is main's
Free    == -1
Monitor == -2      \* the monitor thread, as the holder of the scheduler lock

VARIABLES
  state,      \* "NEW" before the spawn, "RUNNABLE", "RUNNING", "BLOCKED", "DEAD"
  home_wid,   \* the worker a thread is pinned to, -1 before its first run
  grq, lrq,   \* the shared queue and each worker's
  lrq_unstarted,  \* g_lrq_unstarted: unstarted threads on workers' queues
  pinned,     \* each worker's count of threads pinned to it
  spawned,    \* g_helpers_spawned: helpers 1 .. spawned exist
  nfail,      \* helpers that could not be created so far
  active,     \* the helper has entered its loop
  parked, wake_sent,  \* out of work and looking; a wake has chosen it
  idle, signalled,    \* on its condvar; the condvar was signalled since
  sched,      \* holder of the scheduler lock, or Free
  from,       \* who called run_thread_once: "locked", "local" or "stolen"
  locked_turn,  \* the fast path asked for one turn of the locked loop
  pc, cur,    \* where a worker is and the thread it runs
  tgt,        \* the thread it took off a queue to run
  vi,         \* the worker it looks at, in a scan of all
  preempt_request,  \* the thread is asked to yield
  npreempt,   \* g_npreempt: requests not yet consumed
  asking,     \* the worker and thread of a request the monitor is making
  nasked      \* requests made so far

threadVars == <<state, home_wid>>
queueVars  == <<grq, lrq, lrq_unstarted>>
poolVars   == <<pinned, spawned, nfail, active>>
idleVars   == <<parked, wake_sent, idle, signalled>>
runVars    == <<from, cur, tgt>>
askVars    == <<preempt_request, npreempt, asking, nasked>>
vars == <<threadVars, queueVars, poolVars, idleVars, runVars, sched,
          locked_turn, pc, vi, askVars>>

\* Main runs its own code; no helper exists and no thread.
Init ==
  /\ state = [t \in Threads |-> "NEW"]
  /\ home_wid = [t \in Threads |-> -1]
  /\ grq = <<>> /\ lrq = [w \in Workers |-> <<>>]
  /\ lrq_unstarted = 0
  /\ pinned = [w \in Workers |-> 0]
  /\ spawned = 0 /\ nfail = 0
  /\ active = [w \in Workers |-> FALSE]
  /\ parked = [w \in Workers |-> FALSE]
  /\ wake_sent = [w \in Workers |-> FALSE]
  /\ idle = [w \in Workers |-> FALSE]
  /\ signalled = [w \in Workers |-> FALSE]
  /\ sched = Free
  /\ from = [w \in Workers |-> "locked"]
  /\ locked_turn = [w \in Workers |-> FALSE]
  /\ pc = [w \in Workers |-> IF w = 0 THEN "code" ELSE "none"]
  /\ cur = [w \in Workers |-> NoThread]
  /\ tgt = [w \in Workers |-> NoThread]
  /\ vi = [w \in Workers |-> 0]
  /\ preempt_request = [t \in Threads |-> FALSE]
  /\ npreempt = 0 /\ asking = <<>> /\ nasked = 0

At(w, l)   == pc[w] = l
Goto(w, l) == pc' = [pc EXCEPT ![w] = l]
Unstarted(t) == home_wid[t] < 0
Set(f, w, x) == [f EXCEPT ![w] = x]

\* runq_push on a worker's queue, and runq_pop or runq_take of its head: an
\* unstarted thread is counted while it is on one.
runq_push(w, t) ==
  /\ lrq' = [lrq EXCEPT ![w] = Append(@, t)]
  /\ lrq_unstarted' = lrq_unstarted + IF Unstarted(t) THEN 1 ELSE 0
  /\ UNCHANGED grq
runq_take(w, t) ==
  /\ lrq' = [lrq EXCEPT ![w] = RemoveFirst(@, t)]
  /\ lrq_unstarted' = lrq_unstarted - IF Unstarted(t) THEN 1 ELSE 0
  /\ UNCHANGED grq

\* t is w's to run next.
ToRun(w, t, how) ==
  /\ tgt' = Set(tgt, w, t) /\ from' = Set(from, w, how)
  /\ UNCHANGED cur

-----------------------------------------------------------------------------
(* The pool's growth and the placing of a new thread.                      *)

\* sp_sched_spawn_helper for helpers spawned+1 .. n: they exist from now on.
\* fails: one pthread_create did not succeed, and the growth stopped.
Grow(n, fails) ==
  /\ fails => nfail < MaxFail
  /\ nfail' = nfail + IF fails THEN 1 ELSE 0
  /\ spawned' = n

\* What the helpers that come to exist do, beside w's own step to l.
GotoGrown(w, l, n) ==
  pc' = [x \in Workers |-> IF x = w THEN l
                           ELSE IF x \in (spawned + 1) .. n THEN "start"
                           ELSE pc[x]]

\* sp_sched_maybe_grow: one helper for each live thread, up to the cap.  t is
\* counted, as it is on the queue by then.
Want(t) ==
  Min({g_worker_cap,
       Cardinality({u \in Threads : state[u] \in {"RUNNABLE", "RUNNING"}}
                     \cup {t})})
sp_sched_maybe_grow(w, l, t) ==
  \/ /\ Grow(Max({spawned, Want(t)}), FALSE)
     /\ GotoGrown(w, l, Max({spawned, Want(t)}))
  \/ \E n \in spawned .. (Want(t) - 1) : Grow(n, TRUE) /\ GotoGrown(w, l, n)

\* The active helper with the fewest threads pinned to it, the first of those.
Fewest(b) == /\ b \in 1 .. spawned /\ active[b]
             /\ \A x \in 1 .. spawned :
                  active[x] => \/ pinned[b] < pinned[x]
                               \/ pinned[b] = pinned[x] /\ b <= x

\* The helper sched_place_unstarted chooses: the one with the fewest pinned
\* threads, or one it creates when all have some.  w goes to l then.
Chosen(w, b, l) ==
  \/ /\ Fewest(b)
     /\ \/ pinned[b] = 0 /\ Grow(spawned, FALSE)
        \/ spawned = g_worker_cap /\ Grow(spawned, FALSE)
        \/ pinned[b] > 0 /\ spawned < g_worker_cap /\ Grow(spawned, TRUE)
     /\ Goto(w, l)
  \/ /\ b = spawned + 1 /\ b \in Helpers
     /\ \E f \in Helpers : Fewest(f) /\ pinned[f] > 0
     /\ Grow(b, FALSE)
     /\ GotoGrown(w, l, b)

\* The thread stays with the helper w, which has it, rather than go to b.
Stays(w, b) == b = w \/ (w > 0 /\ pinned[w] <= pinned[b])

\* sched_place_unstarted gives t away: pinned to b before it ever ran, queued
\* there, and b is kicked.
Place(w, b, t) ==
  /\ Chosen(w, b, "kick") /\ ~ Stays(w, b)
  /\ home_wid' = [home_wid EXCEPT ![t] = b]
  /\ pinned' = [pinned EXCEPT ![b] = @ + 1]
  /\ lrq' = [lrq EXCEPT ![b] = Append(@, t)]
  /\ vi' = Set(vi, w, b)
  /\ UNCHANGED <<lrq_unstarted, active>>

-----------------------------------------------------------------------------
(* A helper's loop with the scheduler lock (sp_worker_main).               *)

\* The first lines of sp_worker_main.
HelperStarts(w) ==
  /\ At(w, "start") /\ sched = Free
  /\ sched' = w
  /\ active' = Set(active, w, TRUE)
  /\ Goto(w, "loop")
  /\ UNCHANGED <<threadVars, queueVars, pinned, spawned, nfail, idleVars,
                 runVars, locked_turn, vi, askVars>>

\* Wrong on purpose: straight back to the fast path, whatever it came for.
LoopHead_NoTurn(w) ==
  /\ At(w, "loop")
  /\ IF lrq[w] # <<>>
     THEN Goto(w, "ul") /\ sched' = Free /\ UNCHANGED locked_turn
     ELSE Goto(w, "pick") /\ locked_turn' = Set(locked_turn, w, FALSE)
          /\ UNCHANGED sched
  /\ UNCHANGED <<threadVars, queueVars, poolVars, idleVars, runVars, vi, askVars>>

\* The loop's head: with work on its own queue the worker goes on without the
\* lock, unless it came back for a turn with it.
LoopHead(w) ==
  /\ At(w, "loop")
  /\ IF ~ locked_turn[w] /\ lrq[w] # <<>>
     THEN Goto(w, "ul") /\ sched' = Free /\ UNCHANGED locked_turn
     ELSE Goto(w, "pick") /\ locked_turn' = Set(locked_turn, w, FALSE)
          /\ UNCHANGED sched
  /\ UNCHANGED <<threadVars, queueVars, poolVars, idleVars, runVars, vi, askVars>>

\* sched_pick: an unstarted thread off the shared queue is placed, or run here.
PickPlace(w) ==
  /\ At(w, "pick") /\ grq # <<>>
  /\ grq' = Tail(grq)
  /\ \/ /\ \E b \in Helpers : Place(w, b, Head(grq))
        /\ UNCHANGED runVars
     \/ /\ \E b \in Helpers : Chosen(w, b, "begin") /\ Stays(w, b)
        /\ ToRun(w, Head(grq), "locked")
        /\ UNCHANGED <<home_wid, lrq, lrq_unstarted, pinned, active, vi>>
  /\ UNCHANGED <<state, idleVars, sched, locked_turn, askVars>>

\* sched_pick: the worker's own queue.
PickOwn(w) ==
  /\ At(w, "pick") /\ grq = <<>> /\ lrq[w] # <<>>
  /\ runq_take(w, Head(lrq[w]))
  /\ ToRun(w, Head(lrq[w]), "locked")
  /\ Goto(w, "begin")
  /\ UNCHANGED <<threadVars, poolVars, idleVars, sched, locked_turn, vi, askVars>>

\* sched_pick: nothing here; sched_steal looks if there is a thread to steal.
PickSteal(w) ==
  /\ At(w, "pick") /\ grq = <<>> /\ lrq[w] = <<>>
  /\ Goto(w, IF lrq_unstarted > 0 THEN "steal" ELSE "lidle")
  /\ UNCHANGED <<threadVars, queueVars, poolVars, idleVars, runVars, sched,
                 locked_turn, vi, askVars>>

\* sched_steal at one other worker's queue, under that queue's lock: the first
\* unstarted thread is taken out of its middle.
FirstUnstarted(v, i) ==
  Unstarted(lrq[v][i]) /\ \A j \in 1 .. (i - 1) : ~ Unstarted(lrq[v][j])
CanSteal(w, v) == v # w /\ \E i \in DOMAIN lrq[v] : Unstarted(lrq[v][i])
Stolen(w, t) ==
  /\ ToRun(w, t, IF sched = w THEN "locked" ELSE "stolen")
  /\ Goto(w, "begin") /\ vi' = Set(vi, w, 0)
  /\ UNCHANGED <<threadVars, poolVars, idleVars, sched, locked_turn, askVars>>
\* Wrong on purpose: counted as taken but not unlinked.
sched_steal_LeavesQueued(w) ==
  /\ At(w, "steal") /\ vi[w] <= spawned /\ vi[w] # w
  /\ \E i \in DOMAIN lrq[vi[w]] :
       FirstUnstarted(vi[w], i) /\ Stolen(w, lrq[vi[w]][i])
  /\ lrq_unstarted' = lrq_unstarted - 1
  /\ UNCHANGED <<grq, lrq>>
sched_steal(w) ==
  /\ At(w, "steal") /\ vi[w] <= spawned /\ vi[w] # w
  /\ \E i \in DOMAIN lrq[vi[w]] :
       /\ FirstUnstarted(vi[w], i)
       /\ runq_take(vi[w], lrq[vi[w]][i])
       /\ Stolen(w, lrq[vi[w]][i])
StealNext(w) ==
  /\ At(w, "steal") /\ vi[w] <= spawned /\ ~ CanSteal(w, vi[w])
  /\ vi' = Set(vi, w, vi[w] + 1)
  /\ UNCHANGED <<threadVars, queueVars, poolVars, idleVars, runVars, sched,
                 locked_turn, pc, askVars>>
StealNone(w) ==
  /\ At(w, "steal") /\ vi[w] > spawned
  /\ Goto(w, IF sched = w THEN "lidle" ELSE "park")
  /\ vi' = Set(vi, w, 0)
  /\ UNCHANGED <<threadVars, queueVars, poolVars, idleVars, runVars, sched,
                 locked_turn, askVars>>

\* The locked loop's idle wait.  parked and wake_sent are read by wakers under
\* the scheduler lock, which the wait gives up, idle under the queue's.
IdleLocked(w) ==
  /\ At(w, "lidle")
  /\ wake_sent' = Set(wake_sent, w, FALSE)
  /\ IF lrq[w] = <<>>
     THEN /\ parked' = Set(parked, w, TRUE)
          /\ idle' = Set(idle, w, TRUE)
          /\ signalled' = Set(signalled, w, FALSE)
          /\ sched' = Free
          /\ Goto(w, "lcv")
     ELSE Goto(w, "loop") /\ UNCHANGED <<parked, idle, signalled, sched>>
  /\ UNCHANGED <<threadVars, queueVars, poolVars, runVars, locked_turn, vi, askVars>>
\* It wakes, for a signal or for nothing: with work it goes on without the lock.
WokenLocked(w) ==
  /\ At(w, "lcv")
  /\ idle' = Set(idle, w, FALSE)
  /\ signalled' = Set(signalled, w, FALSE)
  /\ Goto(w, IF lrq[w] # <<>> THEN "up" ELSE "lback")
  /\ UNCHANGED <<threadVars, queueVars, poolVars, parked, wake_sent, runVars,
                 sched, locked_turn, vi, askVars>>
LockedBack(w) ==
  /\ At(w, "lback") /\ sched = Free
  /\ sched' = w
  /\ parked' = Set(parked, w, FALSE)
  /\ Goto(w, "loop")
  /\ UNCHANGED <<threadVars, queueVars, poolVars, wake_sent, idle, signalled,
                 runVars, locked_turn, vi, askVars>>

-----------------------------------------------------------------------------
(* A run of a thread (run_thread_once), and what the thread does in it.    *)

\* A thread that never ran is pinned to this worker; the lock is dropped.
Begin(w) ==
  LET t == tgt[w] IN
  /\ At(w, "begin")
  /\ Unstarted(t) => sched \in {w, Free}
  /\ home_wid' = IF Unstarted(t) THEN Set(home_wid, t, w) ELSE home_wid
  /\ pinned' = IF Unstarted(t) THEN [pinned EXCEPT ![w] = @ + 1] ELSE pinned
  /\ state' = Set(state, t, "RUNNING")
  /\ cur' = Set(cur, w, t) /\ tgt' = Set(tgt, w, NoThread)
  /\ sched' = IF sched = w THEN Free ELSE sched
  /\ Goto(w, "run")
  /\ UNCHANGED <<queueVars, spawned, nfail, active, idleVars, from,
                 locked_turn, vi, askVars>>

\* The thread switches out: it parked, ended or passed.
SwitchOut(w) ==
  /\ At(w, "run")
  /\ \E l \in {"parked", "ended", "passed"} : Goto(w, l)
  /\ UNCHANGED <<threadVars, queueVars, poolVars, idleVars, runVars, sched,
                 locked_turn, vi, askVars>>

\* The request is consumed: by the thread at a safepoint or by run_thread_once.
Consume(t) ==
  /\ preempt_request' = Set(preempt_request, t, FALSE)
  /\ npreempt' = npreempt - 1
  /\ UNCHANGED <<asking, nasked>>
\* sp_safepoint_preempt: the thread yields, unless it is in a Fiber of its own.
sp_safepoint_preempt(w) ==
  /\ At(w, "run") /\ preempt_request[cur[w]] /\ sched = Free
  /\ Consume(cur[w])
  /\ \/ Goto(w, "passed")
     \/ UNCHANGED pc
  /\ UNCHANGED <<threadVars, queueVars, poolVars, idleVars, runVars, sched,
                 locked_turn, vi>>

\* run_thread_once goes on, with the lock if it was called with it: the slot no
\* longer names the thread, then a request left on it is retired.
Off(w) == pc[w] \in {"parked", "ended", "passed"} /\ cur[w] = NoThread
ClearCur(w) ==
  /\ pc[w] \in {"parked", "ended", "passed"} /\ cur[w] # NoThread
  /\ from[w] = "locked" => sched = Free
  /\ sched' = IF from[w] = "locked" THEN w ELSE sched
  /\ cur' = Set(cur, w, NoThread) /\ tgt' = Set(tgt, w, cur[w])
  /\ UNCHANGED <<threadVars, queueVars, poolVars, idleVars, from, locked_turn,
                 pc, vi, askVars>>
Retire(w) ==
  /\ Off(w) /\ preempt_request[tgt[w]]
  /\ sched \in {w, Free}
  /\ Consume(tgt[w])
  /\ UNCHANGED <<threadVars, queueVars, poolVars, idleVars, runVars, sched,
                 locked_turn, pc, vi>>
RunEnds(w) ==
  /\ Off(w) /\ ~ preempt_request[tgt[w]]
  /\ sched' = IF w = 0 THEN Free ELSE sched
  /\ tgt' = Set(tgt, w, NoThread)
  /\ from' = Set(from, w, "locked")
  /\ Goto(w, IF w = 0 THEN "code"
             ELSE CASE from[w] = "locked" -> "loop"
                    [] from[w] = "local"  -> "ulr"
                    [] OTHER              -> "ul")
  /\ UNCHANGED <<home_wid, spawned, nfail, active, idleVars, cur, locked_turn,
                 vi, askVars>>
\* Off its stack, it may be woken; it is dead; or it is queued at home again.
RunParked(w) ==
  /\ At(w, "parked") /\ RunEnds(w)
  /\ state' = Set(state, tgt[w], "BLOCKED")
  /\ UNCHANGED <<queueVars, pinned>>
RunDied(w) ==
  /\ At(w, "ended") /\ RunEnds(w)
  /\ state' = Set(state, tgt[w], "DEAD")
  /\ pinned' = [pinned EXCEPT ![home_wid[tgt[w]]] = @ - 1]
  /\ UNCHANGED queueVars
RunPassed(w) ==
  /\ At(w, "passed") /\ RunEnds(w)
  /\ state' = Set(state, tgt[w], "RUNNABLE")
  /\ runq_push(home_wid[tgt[w]], tgt[w])
  /\ UNCHANGED pinned

\* sched_preempt by the monitor, for a thread it read in a worker's slot and
\* that is past its timeslice: the request, and then one more look whether the
\* worker still runs it.
MonitorReads(w) ==
  /\ nasked < MaxAsk /\ sched = Free
  /\ cur[w] # NoThread /\ ~ preempt_request[cur[w]]
  /\ asking' = <<w, cur[w]>> /\ nasked' = nasked + 1
  /\ sched' = Monitor
  /\ UNCHANGED <<threadVars, queueVars, poolVars, idleVars, runVars,
                 locked_turn, pc, vi, preempt_request, npreempt>>
PreemptAsks ==
  /\ asking # <<>> /\ ~ preempt_request[asking[2]]
  /\ preempt_request' = Set(preempt_request, asking[2], TRUE)
  /\ UNCHANGED <<threadVars, queueVars, poolVars, idleVars, runVars, sched,
                 locked_turn, pc, vi, npreempt, asking, nasked>>
\* Wrong on purpose: without the second look.
PreemptLooks_Not ==
  /\ asking # <<>> /\ preempt_request[asking[2]]
  /\ npreempt' = npreempt + 1
  /\ asking' = <<>> /\ sched' = Free
  /\ UNCHANGED <<threadVars, queueVars, poolVars, idleVars, runVars,
                 locked_turn, pc, vi, nasked, preempt_request>>
PreemptLooks ==
  /\ asking # <<>> /\ preempt_request[asking[2]]
  /\ IF cur[asking[1]] = asking[2]
     THEN npreempt' = npreempt + 1 /\ UNCHANGED preempt_request
     ELSE /\ preempt_request' = Set(preempt_request, asking[2], FALSE)
          /\ UNCHANGED npreempt
  /\ asking' = <<>> /\ sched' = Free
  /\ UNCHANGED <<threadVars, queueVars, poolVars, idleVars, runVars,
                 locked_turn, pc, vi, nasked>>

\* A blocking native call, in which nothing can preempt the thread.
EnterNative(w) ==
  /\ At(w, "run") /\ Goto(w, "native")
  /\ UNCHANGED <<threadVars, queueVars, poolVars, idleVars, runVars, sched,
                 locked_turn, vi, askVars>>
LeaveNative(w) ==
  /\ At(w, "native") /\ Goto(w, "run")
  /\ UNCHANGED <<threadVars, queueVars, poolVars, idleVars, runVars, sched,
                 locked_turn, vi, askVars>>

\* Thread.new by a green thread: onto the queue of the worker it runs on.
SpawnLocal(w) ==
  /\ At(w, "run") /\ sched = Free
  /\ \E u \in Threads :
       /\ state[u] = "NEW"
       /\ state' = Set(state, u, "RUNNABLE")
       /\ runq_push(w, u)
  /\ sched' = w
  /\ Goto(w, "scan") /\ vi' = Set(vi, w, 1)
  /\ UNCHANGED <<home_wid, poolVars, idleVars, runVars, locked_turn, askVars>>

\* sched_push_wake of a thread pinned to a helper, by whoever wakes it: queued
\* and signalled under that queue's lock.  Main's worker is woken otherwise,
\* under the scheduler lock.
sched_push_wake(t) ==
  /\ state[t] = "BLOCKED"
  /\ home_wid[t] = 0 => sched = Free
  /\ state' = Set(state, t, "RUNNABLE")
  /\ runq_push(home_wid[t], t)
  /\ signalled' = [signalled EXCEPT ![home_wid[t]] = @ \/ idle[home_wid[t]]]
  /\ UNCHANGED <<home_wid, poolVars, parked, wake_sent, idle, runVars, sched,
                 locked_turn, pc, vi, askVars>>

-----------------------------------------------------------------------------
(* Main: it spawns threads, and runs what only it can when it waits.       *)

\* Thread.new by main: placed on a helper, or on the shared queue, where the
\* pool may grow for it and a helper is looked for.
MainSpawn ==
  /\ At(0, "code") /\ sched = Free /\ sched' = 0
  /\ \E u \in Threads :
       /\ state[u] = "NEW"
       /\ state' = Set(state, u, "RUNNABLE")
       /\ \/ /\ \E b \in Helpers : Place(0, b, u)
             /\ UNCHANGED grq
          \/ /\ \A b \in 1 .. spawned : ~ active[b]
             /\ grq' = Append(grq, u)
             /\ sp_sched_maybe_grow(0, "scan", u)
             /\ vi' = Set(vi, 0, 1)
             /\ UNCHANGED <<home_wid, lrq, lrq_unstarted, pinned, active>>
  /\ UNCHANGED <<idleVars, runVars, locked_turn, askVars>>

\* sp_sched_pump: main runs what is on its own worker's queue, and the shared
\* queue's threads while there is no helper.
PumpRun ==
  /\ At(0, "code") /\ sched = Free /\ sched' = 0
  /\ \/ /\ spawned = 0 /\ grq # <<>>
        /\ grq' = Tail(grq)
        /\ ToRun(0, Head(grq), "locked")
        /\ UNCHANGED <<lrq, lrq_unstarted>>
     \/ /\ spawned = 0 => grq = <<>>
        /\ lrq[0] # <<>>
        /\ runq_take(0, Head(lrq[0]))
        /\ ToRun(0, Head(lrq[0]), "locked")
  /\ Goto(0, "begin")
  /\ UNCHANGED <<threadVars, poolVars, idleVars, locked_turn, vi, askVars>>

-----------------------------------------------------------------------------
(* sched_wake_idle_helper, with the scheduler lock, after the thread was   *)
(* queued.                                                                 *)

\* Back from the wake: to main's code, the picking, or the running thread.
WakeDone(w) ==
  /\ Goto(w, IF w = 0 /\ cur[0] = NoThread THEN "code"
             ELSE IF cur[w] = NoThread THEN "pick" ELSE "run")
  /\ sched' = IF w > 0 /\ cur[w] = NoThread THEN w ELSE Free
  /\ vi' = Set(vi, w, 0)

\* A helper that is parked and that no other wake has chosen is chosen.
ScanParked(w) ==
  /\ At(w, "scan") /\ vi[w] <= spawned
  /\ IF parked[vi[w]] /\ ~ wake_sent[vi[w]]
     THEN /\ wake_sent' = Set(wake_sent, vi[w], TRUE)
          /\ Goto(w, "kick") /\ UNCHANGED vi
     ELSE vi' = Set(vi, w, vi[w] + 1) /\ UNCHANGED <<wake_sent, pc>>
  /\ UNCHANGED <<threadVars, queueVars, poolVars, parked, idle, signalled,
                 runVars, sched, locked_turn, askVars>>
\* None is: one that is on its condvar is kicked once more.
ScanIdle(w) ==
  /\ \/ /\ At(w, "scan") /\ vi[w] > spawned
        /\ Goto(w, "scan2") /\ vi' = Set(vi, w, 1)
        /\ UNCHANGED sched
     \/ /\ At(w, "scan2") /\ vi[w] <= spawned
        /\ IF idle[vi[w]] THEN Goto(w, "kick") /\ UNCHANGED vi
           ELSE vi' = Set(vi, w, vi[w] + 1) /\ UNCHANGED pc
        /\ UNCHANGED sched
     \/ /\ At(w, "scan2") /\ vi[w] > spawned
        /\ WakeDone(w)
  /\ UNCHANGED <<threadVars, queueVars, poolVars, idleVars, runVars,
                 locked_turn, askVars>>
\* sched_kick_worker: a signal reaches only a worker on its condvar.
sched_kick_worker(w) ==
  /\ At(w, "kick")
  /\ signalled' = [signalled EXCEPT ![vi[w]] = @ \/ idle[vi[w]]]
  /\ WakeDone(w)
  /\ UNCHANGED <<threadVars, queueVars, poolVars, parked, wake_sent, idle,
                 runVars, locked_turn, askVars>>

-----------------------------------------------------------------------------
(* A helper's rounds without the scheduler lock (sp_worker_unlocked).      *)

\* sp_worker_run_local takes the head of the worker's own queue.
RunLocal(w) ==
  /\ pc[w] \in {"ul", "ulr"} /\ lrq[w] # <<>>
  /\ runq_take(w, Head(lrq[w]))
  /\ ToRun(w, Head(lrq[w]), "local")
  /\ Goto(w, "begin")
  /\ UNCHANGED <<threadVars, poolVars, idleVars, sched, locked_turn, vi, askVars>>
\* After a run: it was the 61st pick, or the thread was preempted.
LocalTurn(w) ==
  /\ At(w, "ulr")
  /\ Goto(w, "relock")
  /\ UNCHANGED <<threadVars, queueVars, poolVars, idleVars, runVars, sched,
                 locked_turn, vi, askVars>>
\* Its queue is empty: sp_ul_wants_lock for a thread on the shared queue; one
\* to steal; and nothing.
RoundEnds(w) ==
  /\ pc[w] \in {"ul", "ulr"} /\ lrq[w] = <<>>
  /\ Goto(w, IF grq # <<>> THEN "relock"
             ELSE IF lrq_unstarted > 0 THEN "steal" ELSE "park")
  /\ UNCHANGED <<threadVars, queueVars, poolVars, idleVars, runVars, sched,
                 locked_turn, vi, askVars>>
\* Back in the locked loop, for a turn with the lock.
Relock(w) ==
  /\ At(w, "relock") /\ sched = Free
  /\ sched' = w
  /\ locked_turn' = Set(locked_turn, w, TRUE)
  /\ Goto(w, "loop")
  /\ UNCHANGED <<threadVars, queueVars, poolVars, idleVars, runVars, vi, askVars>>

\* sp_worker_idle_unlocked: parked, no wake, and then the queues once more.
IdleParks(w) ==
  /\ At(w, "park")
  /\ parked' = Set(parked, w, TRUE)
  /\ Goto(w, "reset")
  /\ UNCHANGED <<threadVars, queueVars, poolVars, wake_sent, idle, signalled,
                 runVars, sched, locked_turn, vi, askVars>>
IdleResets(w) ==
  /\ At(w, "reset")
  /\ wake_sent' = Set(wake_sent, w, FALSE)
  /\ Goto(w, "look")
  /\ UNCHANGED <<threadVars, queueVars, poolVars, parked, idle, signalled,
                 runVars, sched, locked_turn, vi, askVars>>
IdleLooks(w) ==
  /\ \/ At(w, "look")  /\ Goto(w, IF lrq[w] # <<>> THEN "up" ELSE "look2")
     \/ At(w, "look2") /\ Goto(w, IF grq # <<>> THEN "up" ELSE "look3")
     \/ At(w, "look3") /\ Goto(w, IF lrq_unstarted # 0 THEN "up" ELSE "sleep")
  /\ UNCHANGED <<threadVars, queueVars, poolVars, idleVars, runVars, sched,
                 locked_turn, vi, askVars>>
\* Wrong on purpose: wake_sent is not read again.
IdleSleeps_NoWakeSent(w) ==
  /\ At(w, "sleep")
  /\ IF lrq[w] = <<>>
     THEN /\ idle' = Set(idle, w, TRUE)
          /\ signalled' = Set(signalled, w, FALSE)
          /\ Goto(w, "cv")
     ELSE Goto(w, "up") /\ UNCHANGED <<idle, signalled>>
  /\ UNCHANGED <<threadVars, queueVars, poolVars, parked, wake_sent, runVars,
                 sched, locked_turn, vi, askVars>>
\* Under its queue's lock: what a kick was sent for is read again.
IdleSleeps(w) ==
  /\ At(w, "sleep")
  /\ IF lrq[w] = <<>> /\ ~ wake_sent[w]
     THEN /\ idle' = Set(idle, w, TRUE)
          /\ signalled' = Set(signalled, w, FALSE)
          /\ Goto(w, "cv")
     ELSE Goto(w, "up") /\ UNCHANGED <<idle, signalled>>
  /\ UNCHANGED <<threadVars, queueVars, poolVars, parked, wake_sent, runVars,
                 sched, locked_turn, vi, askVars>>
IdleWakes(w) ==
  /\ At(w, "cv")
  /\ idle' = Set(idle, w, FALSE)
  /\ signalled' = Set(signalled, w, FALSE)
  /\ Goto(w, "up")
  /\ UNCHANGED <<threadVars, queueVars, poolVars, parked, wake_sent, runVars,
                 sched, locked_turn, vi, askVars>>
IdleUp(w) ==
  /\ At(w, "up")
  /\ parked' = Set(parked, w, FALSE)
  /\ Goto(w, "ul")
  /\ UNCHANGED <<threadVars, queueVars, poolVars, wake_sent, idle, signalled,
                 runVars, sched, locked_turn, vi, askVars>>

-----------------------------------------------------------------------------
ThreadStep(w) ==
  SwitchOut(w) \/ sp_safepoint_preempt(w) \/ EnterNative(w) \/ LeaveNative(w) \/ SpawnLocal(w)

\* What the scheduler itself does on a worker.
RunStep(w) ==
  \/ Begin(w) \/ ClearCur(w) \/ Retire(w)
  \/ RunParked(w) \/ RunDied(w) \/ RunPassed(w)
WakeStep(w) == ScanParked(w) \/ ScanIdle(w) \/ sched_kick_worker(w)
LockedStep(w) ==
  \/ HelperStarts(w) \/ LoopHead(w) \/ PickPlace(w) \/ PickOwn(w) \/ PickSteal(w)
  \/ sched_steal(w) \/ StealNext(w) \/ StealNone(w)
  \/ IdleLocked(w) \/ LockedBack(w)
UnlockedStep(w) ==
  \/ RunLocal(w) \/ RoundEnds(w) \/ Relock(w)
  \/ IdleParks(w) \/ IdleResets(w) \/ IdleLooks(w) \/ IdleSleeps(w) \/ IdleUp(w)
CvWakes(w) == WokenLocked(w) \/ IdleWakes(w)

Next ==
  \/ \E w \in Helpers : \/ LockedStep(w) \/ UnlockedStep(w) \/ CvWakes(w)
                        \/ LocalTurn(w)
  \/ \E w \in Workers : ThreadStep(w) \/ WakeStep(w) \/ RunStep(w)
  \/ \E t \in Threads : sched_push_wake(t)
  \/ MainSpawn \/ PumpRun
  \/ (\E w \in Workers : MonitorReads(w)) \/ PreemptAsks \/ PreemptLooks

Spec == Init /\ [][Next]_vars

\* A worker's own steps go on; a lock is not kept from it for ever; a signalled
\* worker wakes; the 61st pick comes; and a thread that computes is preempted,
\* if nothing else.  A native call may last for ever, and main need not wait.
Fairness ==
  /\ \A w \in Helpers :
       /\ SF_vars(LockedStep(w) \/ UnlockedStep(w) \/ RunStep(w) \/ WakeStep(w))
       /\ WF_vars(signalled[w] /\ CvWakes(w))
       /\ SF_vars(LocalTurn(w))
       /\ SF_vars(SwitchOut(w))
  /\ WF_vars(RunStep(0) \/ WakeStep(0)) /\ WF_vars(PreemptAsks \/ PreemptLooks)
FairSpec == Spec /\ Fairness

-----------------------------------------------------------------------------
\* Threads are in one of five states, the pool is within its cap, and the
\* scheduler lock is with a worker, the monitor or nobody.
TypeOK ==
  /\ state \in [Threads -> {"NEW", "RUNNABLE", "RUNNING", "BLOCKED", "DEAD"}]
  /\ home_wid \in [Threads -> Workers \cup {-1}]
  /\ lrq_unstarted \in 0 .. Cardinality(Threads)
  /\ pinned \in [Workers -> 0 .. Cardinality(Threads)]
  /\ npreempt \in 0 .. Cardinality(Threads)
  /\ spawned \in 0 .. g_worker_cap
  /\ sched \in Workers \cup {Free, Monitor}

\* Where t is found: the places on the queues, and the workers' hands.
Positions(q, t) == {i \in DOMAIN q : q[i] = t}
OnQueues(t) ==
  ({Free} \X Positions(grq, t))
    \cup UNION {{w} \X Positions(lrq[w], t) : w \in Workers}
InHands(t) == {w \in Workers : cur[w] = t \/ tgt[w] = t}

\* No thread is lost and none is doubled, whatever workers take, steal, place
\* and requeue at once: a runnable thread is on one queue or in the hands of
\* the worker about to run it, a running one is with one worker.
OnePlace ==
  \A t \in Threads :
    CASE state[t] = "RUNNABLE" ->
           Cardinality(OnQueues(t)) + Cardinality(InHands(t)) = 1
      [] state[t] = "RUNNING"  -> OnQueues(t) = {} /\ Cardinality(InHands(t)) = 1
      [] OTHER                 -> OnQueues(t) = {} /\ InHands(t) = {}

\* A started thread runs on, and is queued for, its home worker only: its
\* frames cache that worker's thread-local addresses (home_wid).
RunsAtHome ==
  \A w \in Workers, t \in Threads :
    /\ cur[w] = t => home_wid[t] = w
    /\ ~ Unstarted(t) /\ (tgt[w] = t \/ t \in Range(lrq[w])) => home_wid[t] = w
    /\ t \in Range(grq) => Unstarted(t)

\* The counts that decide where a thread goes and whether anyone looks for one
\* to steal are those of the queues and the threads.
CountsMatch ==
  /\ lrq_unstarted = Cardinality({t \in Threads : /\ Unstarted(t)
                                    /\ \E w \in Workers : t \in Range(lrq[w])})
  /\ \A w \in Workers :
       pinned[w] = Cardinality({t \in Threads : /\ home_wid[t] = w
                                                /\ state[t] # "DEAD"})

Asleep(w) == idle[w] /\ ~ signalled[w]

\* A helper does not sleep over a thread on its own queue, unless the kick for
\* it is on its way.
NoSleepOverOwn ==
  \A w \in Helpers : Asleep(w) /\ lrq[w] # <<>> =>
    \E x \in Workers : At(x, "kick") /\ vi[x] = w

\* A thread that waits to start, the helpers on whose queue it is not, and
\* whether a wake is on its way to one.
Waits(t)  == Unstarted(t) /\ OnQueues(t) # {}
Others(t) == {w \in 1 .. spawned : t \notin Range(lrq[w])}
Waking == \E w \in Workers : pc[w] \in {"scan", "scan2", "kick"}

\* While a thread waits to start, one of the helpers that could take it is up:
\* it is not the case that the spawn looked for a parked helper before each of
\* them parked, and each of them looked at the queues before the spawn.
NoSleepOverWork ==
  \A t \in Threads :
    Waits(t) /\ ~ Waking /\ Others(t) # {} =>
      \E w \in Others(t) : ~ Asleep(w)

\* A request to yield is on a thread that runs, or that the worker or the
\* monitor is about to clear, and the count that keeps the safepoint flag up
\* is that of the requests: none is left on a thread that stopped.
RequestsMatch ==
  /\ \A t \in Threads : preempt_request[t] =>
       \/ \E w \in Workers : cur[w] = t \/ (Off(w) /\ tgt[w] = t)
       \/ asking # <<>> /\ asking[2] = t
  /\ npreempt = Cardinality({t \in Threads : preempt_request[t]})
                  - IF asking # <<>> /\ preempt_request[asking[2]] THEN 1 ELSE 0

\* Where a thread that is never run must be: at a worker that is in a native
\* call; or, not started, on the queue of such a worker, or main's, or the
\* shared one, while the helper that was woken for it is in a native call too.
Native(w) == pc[w] = "native"
Occupied(t) ==
  IF Unstarted(t)
  THEN /\ \A w \in Helpers : t \in Range(lrq[w]) => Native(w)
       /\ Others(t) = {} \/ \E w \in Others(t) : Native(w)
  ELSE Native(home_wid[t])

\* A runnable thread is run, unless a native call that never ends keeps its
\* worker, or main's worker, which nobody else may stand in for, does not wait.
WorkRuns ==
  \A t \in Threads :
    \/ []<>(state[t] # "RUNNABLE" \/ home_wid[t] = 0 \/ spawned = 0)
    \/ <>[]Occupied(t)

\* A thread is in one place, and that is its home once it has started
\* (sched_steal, sched_place_unstarted, runq_take).
OnePlaceAtHome == OnePlace /\ RunsAtHome

\* No helper sleeps over work, on its own queue or elsewhere
\* (sp_worker_idle_unlocked against sched_wake_idle_helper).
NoSleepOver == NoSleepOverOwn /\ NoSleepOverWork

\* The counts the scheduler decides by without a lock are exact: unstarted
\* threads, pinned threads and requests to yield.
CountsAgree == TypeOK /\ CountsMatch /\ RequestsMatch
====
