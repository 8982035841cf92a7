----------------------------- MODULE StopWorld -----------------------------
(***************************************************************************)
(* The stop-the-world barrier of lib/sp_sched.c.  A worker that collects   *)
(* raises g_stw_active and waits until every other worker is either parked *)
(* at a safepoint (g_nparked) or out of the world, in a blocking native    *)
(* call or an idle wait (g_nnative).  A worker goes out and comes back     *)
(* under the scheduler lock (sp_out_enter_locked, sp_out_leave_locked), or *)
(* when it idles with atomics alone (sp_worker_idle_unlocked): these are   *)
(* the steps that meet the collector's without a common lock.  fork(2)     *)
(* stops the world the same way, and the exit drain ends the helpers.      *)
(*                                                                         *)
(* A critical section of the scheduler lock is one step, except the one    *)
(* that raises the barrier: its store of g_stw_active and its read of      *)
(* g_nnative are ordered against the idle worker's, so it holds the lock   *)
(* over two steps (label "request").                                       *)
(***************************************************************************)
EXTENDS Naturals, Sequences, FiniteSets

CONSTANTS
  MaxWorkers,   \* g_worker_cap + 1: main is worker 0, the helpers 1, 2, ...
  MaxEpoch,     \* bound: barriers raised
  MaxDepth,     \* bound: nested sp_native_enter calls, 0 for none
  MaxCallback,  \* bound: ffi callbacks a worker is in
  MayFork, MayDrain  \* whether the program forks, and whether it exits

ASSUME ConstAssumption ==
  /\ MaxWorkers \in Nat \ {0}
  /\ MaxEpoch \in Nat /\ MaxDepth \in Nat /\ MaxCallback \in Nat
  /\ MayFork \in BOOLEAN /\ MayDrain \in BOOLEAN

Main    == 0
Workers == 0 .. (MaxWorkers - 1)

VARIABLES
  started,       \* g_workers_started: the first Thread brought up the pool
  active,        \* sp_active_workers: the barrier's participants, 0 .. active-1
  shutdown,      \* g_shutdown
  stw_active,    \* g_stw_active: the barrier is up
  stw_epoch,     \* g_stw_epoch
  nparked,       \* g_nparked: this epoch's parkers
  nnative,       \* g_nnative: workers out of the world
  native_out,    \* g_native_out: "IN", "IDLE" or "NATIVE"
  parked_fiber,  \* workers whose fibers the collector marks (g_parked_fiber)
  forking,       \* the barrier was raised by sp_sched_fork
  pc,            \* where each worker is
  my_epoch,      \* the epoch a worker parked in
  cont,          \* where it goes on once it is back in the world
  depth,         \* g_native_depth
  noop,          \* g_native_noop: entered before the pool existed
  saved          \* depths a worker's ffi callbacks give back when they return

barrier == <<stw_active, stw_epoch, nparked, parked_fiber, forking>>
pool    == <<started, active, shutdown>>
native  == <<depth, noop, saved>>
vars == <<pool, barrier, nnative, native_out, pc, my_epoch, cont, native>>

Labels ==
  {"none", "loop", "pick", "run", "request", "wait", "woken", "collect",
   "parked", "outparked", "sweep", "enter", "native", "idle_enter",
   "idle_signal", "idle", "idle_sub", "idle_readd", "leave", "evwait", "fork",
   "join", "exited"}

\* The program starts on main alone, with no pool.
Init ==
  /\ started = FALSE /\ active = 1 /\ shutdown = FALSE
  /\ stw_active = FALSE /\ stw_epoch = 0 /\ nparked = 0 /\ nnative = 0
  /\ native_out = [w \in Workers |-> "IN"]
  /\ parked_fiber = {} /\ forking = FALSE
  /\ pc = [w \in Workers |-> IF w = Main THEN "run" ELSE "none"]
  /\ my_epoch = [w \in Workers |-> 0]
  /\ cont = [w \in Workers |-> "run"]
  /\ depth = [w \in Workers |-> 0]
  /\ noop = [w \in Workers |-> FALSE]
  /\ saved = [w \in Workers |-> <<>>]

At(w, l) == pc[w] = l
Goto(w, l) == pc' = [pc EXCEPT ![w] = l]

\* The scheduler lock is free.
Unlocked == \A w \in Workers : ~At(w, "request")

\* w goes to l; where sig holds it also signals g_stw_request, on which a
\* collector may be waiting for the counts.
GotoSignal(w, l, sig) ==
  pc' = [v \in Workers |-> IF v = w THEN l
                           ELSE IF sig /\ At(v, "wait") THEN "woken"
                           ELSE pc[v]]

\* The barrier's condition, for the counts np and nn.
Full(np, nn) == np + nn >= active - 1

-----------------------------------------------------------------------------
(* The pool. *)

\* Main's first Thread starts the pool.
StartWorkers ==
  /\ At(Main, "run") /\ ~started
  /\ started' = TRUE
  /\ UNCHANGED <<active, shutdown, barrier, nnative, native_out, pc, my_epoch,
                 cont, native>>

\* A helper is created where a thread becomes runnable, never under a barrier.
sp_sched_maybe_grow ==
  /\ started /\ ~stw_active /\ active < MaxWorkers /\ Unlocked
  /\ active' = active + 1
  /\ Goto(active, "loop")
  /\ UNCHANGED <<started, shutdown, barrier, nnative, native_out, my_epoch,
                 cont, native>>

-----------------------------------------------------------------------------
(* Parking at the barrier, and leaving it. *)

\* sp_stw_park_locked up to its wait; c is where the caller goes on.
Park(w, c) ==
  /\ my_epoch' = [my_epoch EXCEPT ![w] = stw_epoch]
  /\ nparked' = nparked + 1
  /\ parked_fiber' = parked_fiber \cup {w}
  /\ cont' = [cont EXCEPT ![w] = c]
  /\ GotoSignal(w, "parked", Full(nparked + 1, nnative))
  /\ UNCHANGED <<pool, stw_active, stw_epoch, forking, nnative, native_out>>

\* A safepoint poll of running Ruby code finds the barrier up.
sp_safepoint(w) ==
  /\ At(w, "run") /\ Unlocked /\ stw_active
  /\ Park(w, "run")
  /\ UNCHANGED native

\* Wrong on purpose: a straggler of an earlier epoch takes itself out of this one's count.
Released_AnyEpoch(w) ==
  /\ pc[w] \in {"parked", "outparked"} /\ Unlocked
  /\ ~(stw_active /\ stw_epoch = my_epoch[w])
  /\ nparked' = nparked - 1
  /\ native_out' = [native_out EXCEPT ![w] =
                      IF At(w, "outparked") THEN "IN" ELSE @]
  /\ \E l \in {"sweep", cont[w]} : Goto(w, l)
  /\ UNCHANGED <<pool, stw_active, stw_epoch, parked_fiber, forking, nnative,
                 my_epoch, cont, native>>

\* Wrong on purpose: it waits for the next epoch, not for the barrier to come down.
Released_NextEpoch(w) ==
  /\ pc[w] \in {"parked", "outparked"} /\ Unlocked
  /\ stw_epoch # my_epoch[w]
  /\ native_out' = [native_out EXCEPT ![w] =
                      IF At(w, "outparked") THEN "IN" ELSE @]
  /\ \E l \in {"sweep", cont[w]} : Goto(w, l)
  /\ UNCHANGED <<pool, barrier, nnative, my_epoch, cont, native>>

\* Released: only a parker of the current epoch is still in its count.  The
\* collection may have left this worker its own lists to sweep.
Released(w) ==
  /\ pc[w] \in {"parked", "outparked"} /\ Unlocked
  /\ ~(stw_active /\ stw_epoch = my_epoch[w])
  /\ nparked' = IF stw_epoch = my_epoch[w] THEN nparked - 1 ELSE nparked
  /\ native_out' = [native_out EXCEPT ![w] =
                      IF At(w, "outparked") THEN "IN" ELSE @]
  /\ \E l \in {"sweep", cont[w]} : Goto(w, l)
  /\ UNCHANGED <<pool, stw_active, stw_epoch, parked_fiber, forking, nnative,
                 my_epoch, cont, native>>

\* sp_cs_owner_run: a worker sweeps its own lists, the world running.
sp_cs_owner_run(w) ==
  /\ At(w, "sweep")
  /\ Goto(w, cont[w])
  /\ UNCHANGED <<pool, barrier, nnative, native_out, my_epoch, cont, native>>

-----------------------------------------------------------------------------
(* Going out of the world and coming back. *)

\* sp_out_enter_locked: w waits at label l, out as `how', and goes on at c.
OutEnter(w, l, how, c) ==
  /\ native_out' = [native_out EXCEPT ![w] = how]
  /\ nnative' = nnative + 1
  /\ GotoSignal(w, l, stw_active /\ Full(nparked, nnative + 1))
  /\ cont' = [cont EXCEPT ![w] = c]
  /\ UNCHANGED <<pool, barrier, my_epoch>>

\* Wrong on purpose: it joins the parkers and stays counted out too.
sp_out_leave_locked_CountedTwice(w) ==
  /\ At(w, "leave") /\ Unlocked
  /\ \/ /\ stw_active
        /\ my_epoch' = [my_epoch EXCEPT ![w] = stw_epoch]
        /\ nparked' = nparked + 1
        /\ GotoSignal(w, "outparked", Full(nparked + 1, nnative))
        /\ UNCHANGED <<native_out, nnative>>
     \/ /\ ~stw_active
        /\ native_out' = [native_out EXCEPT ![w] = "IN"]
        /\ nnative' = nnative - 1
        /\ \E l \in {"sweep", cont[w]} : Goto(w, l)
        /\ UNCHANGED <<my_epoch, nparked>>
  /\ UNCHANGED <<pool, stw_active, stw_epoch, parked_fiber, forking, cont,
                 native>>

\* sp_out_leave_locked: under a barrier that counted it out it becomes a
\* parker of this epoch, its recorded fibers kept.
sp_out_leave_locked(w) ==
  /\ At(w, "leave") /\ Unlocked
  /\ nnative' = nnative - 1
  /\ \/ /\ stw_active
        /\ my_epoch' = [my_epoch EXCEPT ![w] = stw_epoch]
        /\ nparked' = nparked + 1
        /\ GotoSignal(w, "outparked", Full(nparked + 1, nnative - 1))
        /\ UNCHANGED native_out
     \/ /\ ~stw_active
        /\ native_out' = [native_out EXCEPT ![w] = "IN"]
        /\ \E l \in {"sweep", cont[w]} : Goto(w, l)
        /\ UNCHANGED <<my_epoch, nparked>>
  /\ UNCHANGED <<pool, stw_active, stw_epoch, parked_fiber, forking, cont,
                 native>>

\* sp_native_enter: a barrier already up is parked through first.
NativeEnter(w) ==
  IF ~started
  THEN /\ noop' = [noop EXCEPT ![w] = TRUE]
       /\ Goto(w, "native")
       /\ UNCHANGED <<pool, barrier, nnative, native_out, my_epoch, cont>>
  ELSE /\ UNCHANGED noop
       /\ IF stw_active THEN Park(w, "enter")
          ELSE OutEnter(w, "native", "NATIVE", "run")

sp_native_enter(w) ==
  /\ At(w, "run") /\ Unlocked /\ MaxDepth > 0
  /\ depth' = [depth EXCEPT ![w] = 1]
  /\ NativeEnter(w)
  /\ UNCHANGED saved

\* It was released and goes out now, whatever the barrier does by then.
NativeEntered(w) ==
  /\ At(w, "enter") /\ Unlocked
  /\ OutEnter(w, "native", "NATIVE", "run")
  /\ UNCHANGED native

\* A nested enter only counts.
NestedEnter(w) ==
  /\ At(w, "native") /\ depth[w] < MaxDepth
  /\ depth' = [depth EXCEPT ![w] = @ + 1]
  /\ UNCHANGED <<pool, barrier, nnative, native_out, pc, my_epoch, cont, noop,
                 saved>>

\* sp_native_leave: the outermost one comes back into the world.
sp_native_leave(w) ==
  /\ At(w, "native")
  /\ depth' = [depth EXCEPT ![w] = @ - 1]
  /\ noop' = [noop EXCEPT ![w] = @ /\ depth[w] > 1]
  /\ Goto(w, IF depth[w] > 1 THEN "native"
             ELSE IF noop[w] THEN "run" ELSE "leave")
  /\ UNCHANGED <<pool, barrier, nnative, native_out, my_epoch, cont, saved>>

\* Wrong on purpose: the no-op mark of the call is left for the method.
sp_native_callback_enter_KeepsNoop(w) ==
  /\ At(w, "native") /\ Len(saved[w]) < MaxCallback
  /\ saved' = [saved EXCEPT ![w] = <<depth[w]>> \o @]
  /\ depth' = [depth EXCEPT ![w] = 0]
  /\ Goto(w, IF noop[w] THEN "run" ELSE "leave")
  /\ UNCHANGED <<pool, barrier, nnative, native_out, my_epoch, cont, noop>>

\* An ffi callback runs Ruby, so it comes back for its method ...
sp_native_callback_enter(w) ==
  /\ At(w, "native") /\ Len(saved[w]) < MaxCallback
  /\ saved' = [saved EXCEPT ![w] = <<depth[w]>> \o @]
  /\ depth' = [depth EXCEPT ![w] = 0]
  /\ noop' = [noop EXCEPT ![w] = FALSE]
  /\ Goto(w, IF noop[w] THEN "run" ELSE "leave")
  /\ UNCHANGED <<pool, barrier, nnative, native_out, my_epoch, cont>>

\* ... and goes out again when the method has returned.
sp_native_callback_leave(w) ==
  /\ At(w, "run") /\ Unlocked /\ saved[w] # <<>>
  /\ depth' = [depth EXCEPT ![w] = Head(saved[w])]
  /\ saved' = [saved EXCEPT ![w] = Tail(@)]
  /\ NativeEnter(w)

\* A raise in the method unwinds out of the callback and the blocking call.
CallbackRaise(w) ==
  /\ At(w, "run") /\ saved[w] # <<>>
  /\ saved' = [saved EXCEPT ![w] = Tail(@)]
  /\ UNCHANGED <<pool, barrier, nnative, native_out, pc, my_epoch, cont, depth,
                 noop>>

-----------------------------------------------------------------------------
(* The workers' loops (sp_worker_main) and main's pump (sp_sched_pump). *)

\* A green thread stopped, or main waits for one: back to the locked loop.
ToLoop(w) ==
  /\ At(w, "run") /\ started
  /\ Goto(w, "loop")
  /\ UNCHANGED <<pool, barrier, nnative, native_out, my_epoch, cont, native>>

\* Its head: park for a barrier; a helper ends at shutdown.  The lock may be
\* dropped from here to the pick, to drain the worker's readiness set.
LoopHead(w) ==
  /\ At(w, "loop") /\ Unlocked
  /\ \/ stw_active /\ Park(w, "loop")
     \/ /\ ~stw_active
        /\ Goto(w, IF shutdown /\ w # Main THEN "exited" ELSE "pick")
        /\ UNCHANGED <<pool, barrier, nnative, native_out, my_epoch, cont>>
  /\ UNCHANGED native

\* There is a thread to run, or main is done waiting.
Pick(w) ==
  /\ At(w, "pick") /\ Unlocked
  /\ Goto(w, "run")
  /\ UNCHANGED <<pool, barrier, nnative, native_out, my_epoch, cont, native>>

\* Nothing to run: the idle wait leaves the world, except that a wait on the
\* readiness set stays in it when a barrier went up since the loop's head.
LockedIdle(w) ==
  /\ At(w, "pick") /\ Unlocked
  /\ IF ~stw_active THEN OutEnter(w, "idle", "IDLE", "loop")
     ELSE /\ Goto(w, "evwait")
          /\ UNCHANGED <<pool, barrier, nnative, native_out, my_epoch, cont>>
  /\ UNCHANGED native

\* Its kick byte, or the backstop, ends that wait.
EvWaitEnd(w) ==
  /\ At(w, "evwait") /\ Unlocked
  /\ Goto(w, "loop")
  /\ UNCHANGED <<pool, barrier, nnative, native_out, my_epoch, cont, native>>

\* sp_worker_idle_unlocked: out first, g_stw_active read after.
IdleEnter(w) ==
  /\ At(w, "run") /\ w # Main
  /\ native_out' = [native_out EXCEPT ![w] = "IDLE"]
  /\ nnative' = nnative + 1
  /\ cont' = [cont EXCEPT ![w] = "loop"]
  /\ Goto(w, "idle_enter")
  /\ UNCHANGED <<pool, barrier, my_epoch, native>>

IdleCheck(w) ==
  /\ At(w, "idle_enter")
  /\ Goto(w, IF stw_active THEN "idle_signal" ELSE "idle")
  /\ UNCHANGED <<pool, barrier, nnative, native_out, my_epoch, cont, native>>

\* Wrong on purpose: the collector is not told.
IdleSignal_Silent(w) ==
  /\ At(w, "idle_signal") /\ Unlocked
  /\ Goto(w, "idle")
  /\ UNCHANGED <<pool, barrier, nnative, native_out, my_epoch, cont, native>>

\* A collector that may be waiting for the count is told under the lock.
IdleSignal(w) ==
  /\ At(w, "idle_signal") /\ Unlocked
  /\ GotoSignal(w, "leave", stw_active /\ Full(nparked, nnative))
  /\ UNCHANGED <<pool, barrier, nnative, native_out, my_epoch, cont, native>>

\* Wrong on purpose: its fibers are taken back with the count.
IdleWake_UnrecordsFirst(w) ==
  /\ At(w, "idle")
  /\ \/ /\ Goto(w, "leave")
        /\ UNCHANGED <<nnative, native_out>>
     \/ /\ w # Main
        /\ nnative' = nnative - 1
        /\ native_out' = [native_out EXCEPT ![w] = "IN"]
        /\ Goto(w, "idle_sub")
  /\ UNCHANGED <<pool, barrier, my_epoch, cont, native>>

\* Woken: back with atomics alone, or through the lock when a collection left
\* it a sweep (and always where the wait was main's, or on its readiness set).
IdleWake(w) ==
  /\ At(w, "idle")
  /\ \/ /\ Goto(w, "leave")
        /\ UNCHANGED nnative
     \/ /\ w # Main
        /\ nnative' = nnative - 1
        /\ Goto(w, "idle_sub")
  /\ UNCHANGED <<pool, barrier, native_out, my_epoch, cont, native>>

\* Wrong on purpose: a barrier raised meanwhile is not looked for.
IdleReturn_NoCheck(w) ==
  /\ At(w, "idle_sub")
  /\ native_out' = [native_out EXCEPT ![w] = "IN"]
  /\ Goto(w, "run")
  /\ UNCHANGED <<pool, barrier, nnative, my_epoch, cont, native>>

\* The count dropped before g_stw_active is read.
IdleReturn(w) ==
  /\ At(w, "idle_sub")
  /\ \/ /\ stw_active
        /\ Goto(w, "idle_readd")
        /\ UNCHANGED native_out
     \/ /\ ~stw_active
        /\ native_out' = [native_out EXCEPT ![w] = "IN"]
        /\ Goto(w, "run")
  /\ UNCHANGED <<pool, barrier, nnative, my_epoch, cont, native>>

\* A barrier was seen: back out, and in through the lock.
IdleReadd(w) ==
  /\ At(w, "idle_readd")
  /\ nnative' = nnative + 1
  /\ Goto(w, "leave")
  /\ UNCHANGED <<pool, barrier, native_out, my_epoch, cont, native>>

-----------------------------------------------------------------------------
(* The collector, and fork. *)

\* The barrier goes up; the lock is kept for the first look at the counts.
Raise(w) ==
  /\ stw_epoch < MaxEpoch
  /\ stw_active' = TRUE
  /\ stw_epoch' = stw_epoch + 1
  /\ nparked' = 0
  /\ Goto(w, "request")
  /\ UNCHANGED <<pool, parked_fiber, nnative, native_out, my_epoch, cont>>

\* sp_stw_collect_impl: a worker whose allocation wants a collection becomes
\* the collector, or parks through the one under way.
sp_stw_collect(w) ==
  /\ At(w, "run") /\ Unlocked
  /\ IF stw_active THEN Park(w, "run")
     ELSE Raise(w) /\ forking' = FALSE
  /\ UNCHANGED native

\* sp_sched_fork: main parks through barriers until it can raise its own.
sp_sched_fork ==
  /\ MayFork /\ started /\ ~shutdown /\ pc[Main] \in {"run", "fork"} /\ Unlocked
  /\ IF stw_active THEN Park(Main, "fork")
     ELSE Raise(Main) /\ forking' = TRUE
  /\ UNCHANGED native

\* The wait for the counts.  When it is over the fibers of the workers that
\* are out are recorded too, and the lock is dropped: the world is stopped.
BarrierWait(w) ==
  /\ At(w, "request") \/ (At(w, "woken") /\ Unlocked)
  /\ \/ /\ ~Full(nparked, nnative)
        /\ Goto(w, "wait")
        /\ UNCHANGED parked_fiber
     \/ /\ Full(nparked, nnative)
        /\ Goto(w, "collect")
        /\ parked_fiber' = IF forking THEN parked_fiber
                           ELSE parked_fiber \cup {v \in 0 .. (active - 1) :
                                                     native_out[v] # "IN"}
  /\ UNCHANGED <<pool, stw_active, stw_epoch, nparked, forking, nnative,
                 native_out, my_epoch, cont, native>>

\* The collection (or the parent's fork) is over: everyone is released, and
\* the collector sweeps its own lists like them.
BarrierEnd(w) ==
  /\ At(w, "collect") /\ Unlocked
  /\ parked_fiber' = {}
  /\ stw_active' = FALSE
  /\ cont' = [cont EXCEPT ![w] = "run"]
  /\ \E l \in (IF forking THEN {"run"} ELSE {"sweep", "run"}) : Goto(w, l)
  /\ UNCHANGED <<pool, stw_epoch, nparked, forking, nnative, native_out,
                 my_epoch, native>>

\* sp_sched_fork_child: the child goes on as main alone, the pool unstarted.
sp_sched_fork_child ==
  /\ At(Main, "collect") /\ forking
  /\ started' = FALSE /\ active' = 1 /\ shutdown' = FALSE
  /\ stw_active' = FALSE /\ nparked' = 0 /\ nnative' = 0
  /\ stw_epoch' = stw_epoch + 1
  /\ parked_fiber' = {}
  /\ native_out' = [w \in Workers |-> "IN"]
  /\ pc' = [w \in Workers |-> IF w = Main THEN "run" ELSE "none"]
  /\ depth' = [w \in Workers |-> IF w = Main THEN depth[w] ELSE 0]
  /\ noop' = [w \in Workers |-> IF w = Main THEN noop[w] ELSE FALSE]
  /\ saved' = [w \in Workers |-> IF w = Main THEN saved[w] ELSE <<>>]
  /\ UNCHANGED <<forking, my_epoch, cont>>

-----------------------------------------------------------------------------
(* The exit drain: sp_sched_drain. *)

\* No helper runs a green thread: what main's pump waits for.
HelpersIdle ==
  \A w \in 1 .. (active - 1) :
    \/ pc[w] \in {"loop", "pick", "evwait", "idle_enter", "idle_signal", "idle",
                  "idle_sub", "idle_readd"}
    \/ At(w, "leave") /\ native_out[w] = "IDLE"

\* Main's pump is done; the helpers are told to end and main joins them.
sp_sched_drain ==
  /\ MayDrain /\ At(Main, "pick") /\ Unlocked /\ ~shutdown
  /\ HelpersIdle
  /\ shutdown' = TRUE
  /\ Goto(Main, "join")
  /\ UNCHANGED <<started, active, barrier, nnative, native_out, my_epoch, cont,
                 native>>

\* The helpers have ended.  What main still runs is the finalizers.
Joined ==
  /\ At(Main, "join") /\ \A w \in 1 .. (active - 1) : At(w, "exited")
  /\ Goto(Main, "run")
  /\ UNCHANGED <<pool, barrier, nnative, native_out, my_epoch, cont, native>>

-----------------------------------------------------------------------------
NativeStep(w) ==
  \/ sp_native_enter(w) \/ NativeEntered(w) \/ NestedEnter(w)
  \/ sp_native_leave(w) \/ sp_native_callback_enter(w)
  \/ sp_native_callback_leave(w) \/ CallbackRaise(w)

IdleStep(w) ==
  \/ ToLoop(w) \/ LoopHead(w) \/ Pick(w) \/ LockedIdle(w) \/ EvWaitEnd(w)
  \/ IdleEnter(w) \/ IdleCheck(w) \/ IdleSignal(w) \/ IdleWake(w)
  \/ IdleReturn(w) \/ IdleReadd(w)

BarrierStep(w) ==
  \/ sp_safepoint(w) \/ Released(w) \/ sp_cs_owner_run(w)
  \/ sp_out_leave_locked(w)
  \/ sp_stw_collect(w) \/ BarrierWait(w) \/ BarrierEnd(w)

MainStep ==
  \/ StartWorkers \/ sp_sched_maybe_grow
  \/ sp_sched_fork \/ sp_sched_fork_child \/ sp_sched_drain \/ Joined

Next ==
  \/ \E w \in Workers : NativeStep(w) \/ IdleStep(w) \/ BarrierStep(w)
  \/ MainStep

Spec == Init /\ [][Next]_vars

\* What a worker's OS thread goes on to do by itself.
Progress(w) ==
  \/ Released(w) \/ sp_cs_owner_run(w) \/ sp_out_leave_locked(w)
  \/ NativeEntered(w) \/ LoopHead(w) \/ Pick(w) \/ EvWaitEnd(w)
  \/ IdleCheck(w) \/ IdleSignal(w) \/ IdleReturn(w) \/ IdleReadd(w)
  \/ BarrierWait(w) \/ BarrierEnd(w) \/ sp_safepoint(w)
  \/ shutdown /\ IdleWake(w)
  \/ shutdown /\ w # Main /\ ToLoop(w)
  \/ w = Main /\ Joined

\* An OS thread that can step does, and gets the scheduler lock in the end; a
\* running thread reaches a safepoint poll while the flag is up; a kick or the
\* backstop ends a wait on a readiness set; at shutdown an idle worker is
\* kicked and a running thread stops.  Nothing is assumed of blocking calls.
FairSpec == Spec /\ \A w \in Workers : SF_vars(Progress(w))

-----------------------------------------------------------------------------
(* Properties. *)

\* The type invariant of the barrier's state.
TypeOK ==
  /\ started \in BOOLEAN /\ shutdown \in BOOLEAN
  /\ active \in 1 .. MaxWorkers
  /\ stw_active \in BOOLEAN /\ forking \in BOOLEAN
  /\ stw_epoch \in Nat /\ nparked \in Nat /\ nnative \in Nat
  /\ native_out \in [Workers -> {"IN", "IDLE", "NATIVE"}]
  /\ parked_fiber \in SUBSET Workers
  /\ pc \in [Workers -> Labels]
  /\ my_epoch \in [Workers -> Nat]
  /\ cont \in [Workers -> {"run", "loop", "enter", "fork"}]
  /\ depth \in [Workers -> 0 .. MaxDepth]
  /\ noop \in [Workers -> BOOLEAN]
  /\ saved \in [Workers -> Seq(1 .. MaxDepth)]

\* The workers parked in the current epoch, and those out of the world.
ParkedNow ==
  {w \in Workers : pc[w] \in {"parked", "outparked"} /\ my_epoch[w] = stw_epoch}
Out ==
  {w \in Workers : \/ pc[w] \in {"idle_enter", "idle_signal", "idle", "leave"}
                   \/ At(w, "native") /\ ~noop[w]}

\* The counts the collector trusts are exact (g_nparked, g_nnative): a
\* straggler of a finished collection is in neither, and a worker that moves
\* from one to the other is never in both.
CountsExact ==
  /\ nparked = Cardinality(ParkedNow)
  /\ nnative = Cardinality(Out)

\* Where a worker runs no Ruby and touches no heap until the barrier is down.
Stopped(w) ==
  w \in ParkedNow \cup Out \/ pc[w] \in {"idle_sub", "idle_readd"}

\* "exclusive: every other worker is parked at a safepoint" (or out): while a
\* worker collects, or forks, every other participant is stopped.
WorldStopped ==
  \A c \in Workers : At(c, "collect") =>
    stw_active /\ \A w \in 0 .. (active - 1) : w # c => Stopped(w)

\* The collector marks the fibers of every stopped worker: of a parker, of one
\* that is out, and of one that was counted out and came back meanwhile.  One
\* left out would lose its live roots to the sweep.
RootsMarked ==
  \A c \in Workers : At(c, "collect") /\ ~forking =>
    (0 .. (active - 1)) \ {c} \subseteq parked_fiber

\* A worker in a blocking call is out of the world, unless no pool exists: the
\* depth and the no-op mark survive callbacks, raises and the pool's start.
\* Were it not, the barrier would wait for the call to return.
BlockingCallIsOut ==
  \A w \in Workers :
    /\ At(w, "native") => depth[w] > 0 /\ (noop[w] <=> ~started)
    /\ At(w, "run") => depth[w] = 0 /\ ~noop[w] /\ native_out[w] = "IN"

\* A raised barrier has someone who will take it down, and just one.
OneBarrier ==
  /\ stw_active => \E c \in Workers :
       pc[c] \in {"request", "wait", "woken", "collect"}
  /\ \A c, d \in Workers :
       /\ pc[c] \in {"request", "wait", "woken", "collect"}
       /\ pc[d] \in {"request", "wait", "woken", "collect"}
       => c = d

\* A worker that raised the barrier gets the world stopped: no count goes
\* unsignalled, and no worker it waits for stays in the world.
CollectionHappens ==
  \A c \in Workers : At(c, "request") ~> At(c, "collect")

\* A parked worker is released, whichever collection it waits through.
ParkedReleased ==
  \A w \in Workers : pc[w] \in {"parked", "outparked"}
                      ~> pc[w] \notin {"parked", "outparked"}

\* "shut the helper workers down": main's exit drain ends.
DrainEnds == At(Main, "join") ~> ~At(Main, "join")

-----------------------------------------------------------------------------
(* The inductive invariant: what each worker's own state is at each label,  *)
(* and what ties the workers to the barrier.                                *)

InWorld ==
  {"none", "loop", "pick", "run", "request", "wait", "woken", "collect",
   "evwait", "fork", "join", "exited"}
Idling == {"idle_enter", "idle_signal", "idle", "idle_sub", "idle_readd"}
Raiser == {"request", "wait", "woken", "collect"}

Local(w) ==
  /\ pc[w] \in InWorld => depth[w] = 0 /\ ~noop[w] /\ native_out[w] = "IN"
  /\ pc[w] \in Idling => /\ depth[w] = 0 /\ ~noop[w]
                         /\ native_out[w] = "IDLE" /\ cont[w] = "loop"
  /\ pc[w] \in {"leave", "outparked"} =>
       /\ depth[w] = 0 /\ ~noop[w]
       /\ native_out[w] # "IN" /\ cont[w] \in {"run", "loop"}
  /\ pc[w] = "native" =>
       /\ depth[w] > 0 /\ (noop[w] <=> ~started)
       /\ IF noop[w] THEN native_out[w] = "IN"
          ELSE native_out[w] = "NATIVE" /\ cont[w] = "run"
  /\ pc[w] = "enter" => depth[w] > 0 /\ ~noop[w] /\ native_out[w] = "IN"
  /\ pc[w] \in {"parked", "sweep"} =>
       /\ ~noop[w] /\ native_out[w] = "IN"
       /\ IF cont[w] = "enter" THEN depth[w] > 0 ELSE depth[w] = 0

LocalInv == \A w \in Workers : Local(w)

\* Without a pool main is alone, and never parks.
PoolInv ==
  /\ \A w \in Workers : pc[w] = "none" <=> w >= active
  /\ ~started => /\ active = 1
                 /\ pc[Main] \in {"run", "native", "sweep"} \cup Raiser
                 /\ pc[Main] = "sweep" => cont[Main] = "run"

EpochInv == \A w \in Workers : my_epoch[w] <= stw_epoch

\* Who raised the barrier: one worker, while it is up; main if it forks.
RaiserInv ==
  /\ OneBarrier
  /\ \A c \in Workers : pc[c] \in Raiser => stw_active /\ (forking => c = Main)

\* A parker's fibers are recorded from when it parks.
ParkedRecorded ==
  stw_active => \A w \in ParkedNow : At(w, "parked") => w \in parked_fiber

IInv ==
  /\ TypeOK /\ LocalInv /\ PoolInv /\ EpochInv /\ RaiserInv /\ CountsExact
  /\ WorldStopped /\ ParkedRecorded /\ RootsMarked
=============================================================================
