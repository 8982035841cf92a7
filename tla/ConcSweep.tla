------------------------------ MODULE ConcSweep ------------------------------
(***************************************************************************)
(* The sweep that goes on beside the program (lib/sp_sched.c): a collector *)
(* leaves a list of tasks, the world resumes, and the tasks are run by the *)
(* workers that own them, by sweeper threads, and at the next barrier by   *)
(* everyone who is parked.  The task array is one for all sweeps, and no   *)
(* lock is held while it is walked.                                        *)
(*                                                                         *)
(* The barrier is what module StopWorld proves of it: who is counted       *)
(* parked or out stays stopped until it is down.                           *)
(***************************************************************************)
EXTENDS Integers, FiniteSets

CONSTANTS Workers, Sweepers, \* those of the pool, and the sweeper threads
          NTasks,            \* the tasks a sweep may have are 1 .. NTasks
          TaskWid,           \* t->wid: the worker whose slot it is, or Nobody
          Nobody,            \* old lists, and the sweepers' own slot
          Chunks,            \* the tasks of kind CS_CHUNKS
          OwnerEnv,          \* g_cs_owner_env
          MaxGC              \* bounds the barriers raised

Tasks  == 1 .. NTasks
Actors == Workers \cup Sweepers

ASSUME ConstAssumption ==
  /\ NTasks \in Nat /\ MaxGC \in Nat /\ OwnerEnv \in BOOLEAN
  /\ IsFiniteSet(Workers) /\ IsFiniteSet(Sweepers) /\ Workers \cap Sweepers = {}
  /\ Nobody \notin Workers
  /\ TaskWid \in [Tasks -> Workers \cup {Nobody}]
  /\ Chunks \subseteq Tasks

VARIABLES
  stw,        \* g_stw_active
  counted,    \* who is parked in this epoch (g_nparked)
  away,       \* who is out of the world (g_nnative)
  out,        \* g_native_out
  pc, ret,    \* where each actor is, and where a worker's walk returns to
  pos, ran,   \* a walk's place in the array, and the tasks it has run
  tasks,      \* g_cs_tasks up to g_cs_ntasks
  claimed,    \* g_cs_claimed: 0, 1 claimed, 2 done
  unclaimed, finished, running, \* the g_cs_ counters
  pending, full, help,          \* the g_cs_ flags
  fresh,      \* the sweepers whose seen is not g_cs_gen
  kind, next, \* what the barrier is for, and what the collector does once settled
  ngc         \* barriers raised, for the bound

world == <<stw, counted, away, out, kind, ngc>>
sweep == <<tasks, claimed, unclaimed, finished, running, pending, full, fresh>>
walks == <<pos, ran>>
vars  == <<world, sweep, walks, pc, ret, help, next>>

Init ==
  /\ stw = FALSE /\ counted = {} /\ away = {} /\ ngc = 0
  /\ out = [w \in Workers |-> "in"]
  /\ pc = [a \in Actors |-> IF a \in Workers THEN "run" ELSE "look"]
  /\ ret = [w \in Workers |-> "chk"]
  /\ pos = [a \in Actors |-> 0] /\ ran = [a \in Actors |-> {}]
  /\ tasks = {} /\ claimed = [t \in Tasks |-> 0] /\ fresh = {}
  /\ unclaimed = 0 /\ finished = 0 /\ running = 0
  /\ pending = FALSE /\ full = FALSE /\ help = FALSE
  /\ kind = "threshold" /\ next = "mark"

Goto(a, label) == pc' = [pc EXCEPT ![a] = label]

-----------------------------------------------------------------------------
(* The walk over the task array (sp_cs_run_tasks), by whoever is let in.   *)

sp_cs_task_is_owned_AnySlot(t) == \* Wrong on purpose: the sweepers' own slot is owned too.
  TaskWid[t] # Nobody => out[TaskWid[t]] # "native"

\* A live slot's tasks are its worker's, unless that is out in a blocking call.
sp_cs_task_is_owned(t) == TaskWid[t] # Nobody /\ out[TaskWid[t]] # "native"

\* What the three modes leave to others.
Mine(a, t) ==
  LET owned == OwnerEnv /\ sp_cs_task_is_owned(t)
  IN  CASE a \in Sweepers   -> ~ owned
        [] ret[a] = "chk"   -> owned /\ TaskWid[t] = a
        [] OTHER            -> TRUE

sp_cs_join_locked_Always(a, elsewhere) == \* Wrong on purpose: a late walk is let in.
  Goto(a, "scan") /\ running' = running + 1

\* Under g_cs_lock: no one enters a sweep that has nothing left to claim.
sp_cs_join_locked(a, elsewhere) ==
  IF unclaimed = 0
  THEN Goto(a, elsewhere) /\ UNCHANGED running
  ELSE Goto(a, "scan") /\ running' = running + 1

sp_cs_enter(w) ==
  /\ pc[w] = "enter"
  /\ sp_cs_join_locked(w, ret[w])
  /\ UNCHANGED <<world, tasks, claimed, unclaimed, finished, pending, full, fresh, walks, ret, help, next>>

\* A sweeper waits on g_cs_go for a new g_cs_gen.
SweeperWakes(s) ==
  /\ pc[s] = "look" /\ s \in fresh
  /\ fresh' = fresh \ {s}
  /\ sp_cs_join_locked(s, "look")
  /\ UNCHANGED <<world, tasks, claimed, unclaimed, finished, pending, full, walks, ret, help, next>>

\* The walk's next entry is looked at, and passed by.
ScanPass(a) ==
  LET t == pos[a] + 1 IN
  /\ pc[a] = "scan" /\ t \in Tasks
  /\ ~ (t \in tasks /\ claimed[t] = 0 /\ Mine(a, t))
  /\ pos' = [pos EXCEPT ![a] = t]
  /\ UNCHANGED <<world, sweep, ran, pc, ret, help, next>>

ScanFinds(a) ==
  LET t == pos[a] + 1 IN
  /\ pc[a] = "scan" /\ t \in tasks
  /\ claimed[t] = 0 /\ Mine(a, t)
  /\ Goto(a, "claim")
  /\ UNCHANGED <<world, sweep, walks, ret, help, next>>

Claim_NoSwap(a) == \* Wrong on purpose: the claim is stored, whoever has it.
  /\ pc[a] = "claim"
  /\ claimed' = [claimed EXCEPT ![pos[a] + 1] = 1]
  /\ Goto(a, "discount")
  /\ UNCHANGED <<world, tasks, unclaimed, finished, running, pending, full, fresh, walks, ret, help, next>>

\* The compare-and-swap, which another walk may have won.
Claim(a) ==
  LET t == pos[a] + 1 IN
  /\ pc[a] = "claim"
  /\ \/ /\ claimed[t] = 0
        /\ claimed' = [claimed EXCEPT ![t] = 1]
        /\ Goto(a, "discount")
        /\ UNCHANGED pos
     \/ /\ claimed[t] # 0
        /\ pos' = [pos EXCEPT ![a] = t]
        /\ Goto(a, "scan")
        /\ UNCHANGED claimed
  /\ UNCHANGED <<world, tasks, unclaimed, finished, running, pending, full, fresh, ran, ret, help, next>>

Discount(a) ==
  /\ pc[a] = "discount"
  /\ unclaimed' = unclaimed - 1
  /\ Goto(a, "task")
  /\ UNCHANGED <<world, tasks, claimed, finished, running, pending, full, fresh, walks, ret, help, next>>

\* The task is run (sp_cs_run_task) while pc is "task", and then said done.
TaskDone(a) ==
  LET t == pos[a] + 1 IN
  /\ pc[a] = "task"
  /\ claimed' = [claimed EXCEPT ![t] = 2]
  /\ ran' = [ran EXCEPT ![a] = @ \cup {t}]
  /\ pos' = [pos EXCEPT ![a] = t]
  /\ Goto(a, "scan")
  /\ UNCHANGED <<world, tasks, unclaimed, finished, running, pending, full, fresh, ret, help, next>>

After(a) == IF a \in Sweepers THEN "look" ELSE ret[a]
\* The collector that sleeps on g_cs_done is told once all is done and all are out.
Left(a, told) ==
  [b \in Actors |-> IF b = a THEN After(a)
                    ELSE IF told /\ pc[b] = "asleep" THEN "wait" ELSE pc[b]]

Forget(a) == pos' = [pos EXCEPT ![a] = 0] /\ ran' = [ran EXCEPT ![a] = {}]

sp_cs_finish(a) ==
  /\ pc[a] = "scan" /\ pos[a] = NTasks
  /\ finished' = finished + Cardinality(ran[a])
  /\ running' = running - 1
  /\ pc' = Left(a, finished' >= Cardinality(tasks) /\ running' = 0)
  /\ Forget(a)
  /\ UNCHANGED <<world, tasks, claimed, unclaimed, pending, full, fresh, ret, help, next>>

Walk(a) == \/ ScanPass(a) \/ ScanFinds(a) \/ Claim(a)
           \/ Discount(a) \/ TaskDone(a) \/ sp_cs_finish(a)

-----------------------------------------------------------------------------
(* A worker: out of the world and back, parked and released.               *)

\* A worker in the program, or one that wants to collect, finds a barrier up.
Park(w) ==
  /\ pc[w] = "run" /\ stw
  /\ counted' = counted \cup {w}
  /\ Goto(w, "park")
  /\ UNCHANGED <<stw, away, out, kind, ngc, sweep, walks, ret, help, next>>

Held(w) == stw /\ w \in counted

\* The collector has asked for hands.
Help(w) ==
  /\ pc[w] = "park" /\ Held(w)
  /\ help /\ unclaimed > 0
  /\ Goto(w, "enter") /\ ret' = [ret EXCEPT ![w] = "park"]
  /\ UNCHANGED <<world, sweep, walks, help, next>>

\* With the scheduler lock, before it is dropped for what the collection left.
Released(w) ==
  /\ pc[w] = "park" /\ ~ Held(w)
  /\ counted' = counted \ {w}
  /\ out' = [out EXCEPT ![w] = "in"] /\ ret' = [ret EXCEPT ![w] = "chk"]
  /\ Goto(w, IF unclaimed > 0 \/ full THEN "back" ELSE "run")
  /\ UNCHANGED <<stw, away, kind, ngc, sweep, walks, help, next>>

\* The owner's share (sp_cs_owner_run) comes before the program.
Back(w) ==
  /\ pc[w] = "back"
  /\ Goto(w, IF unclaimed > 0 THEN "enter" ELSE "chk")
  /\ UNCHANGED <<world, sweep, walks, ret, help, next>>

sp_cs_chunks_settled_Claimed(w) == \* Wrong on purpose: claimed is taken for done.
  ~ pending \/ \A t \in tasks \cap Chunks : TaskWid[t] = w => claimed[t] # 0

sp_cs_chunks_settled(w) ==
  ~ pending \/ \A t \in tasks \cap Chunks : TaskWid[t] = w => claimed[t] = 2

\* After a full cycle the worker hands its empty chunks back, if it may.
CheckRelease(w) ==
  /\ pc[w] = "chk"
  /\ Goto(w, IF full /\ sp_cs_chunks_settled(w) THEN "release" ELSE "run")
  /\ UNCHANGED <<world, sweep, walks, ret, help, next>>

\* It gives the chunks up whatever its own look at wk->sweeping, which the chunk
\* sweep sets, would say: ReleaseSettled does not rest on that look.
sp_slab_release_worker(w) ==
  /\ pc[w] = "release"
  /\ Goto(w, "run")
  /\ UNCHANGED <<world, sweep, walks, ret, help, next>>

\* A blocking call; a barrier that is up is parked through first, but one
\* raised while the worker came back from that is not looked for again.
sp_native_enter(w) ==
  /\ pc[w] = "run"
  /\ away' = away \cup {w} /\ out' = [out EXCEPT ![w] = "native"]
  /\ Goto(w, "native")
  /\ UNCHANGED <<stw, counted, kind, ngc, sweep, walks, ret, help, next>>

sp_worker_idle(w) ==
  /\ pc[w] = "run"
  /\ away' = away \cup {w} /\ out' = [out EXCEPT ![w] = "idle"]
  /\ Goto(w, "idle")
  /\ UNCHANGED <<stw, counted, kind, ngc, sweep, walks, ret, help, next>>

\* Back with the lock: a barrier that is up counts this worker as parked.
sp_out_leave_locked(w) ==
  /\ pc[w] \in {"native", "leave"}
  /\ away' = away \ {w}
  /\ \/ /\ stw
        /\ counted' = counted \cup {w} /\ Goto(w, "park")
        /\ UNCHANGED out
     \/ /\ ~ stw
        /\ out' = [out EXCEPT ![w] = "in"]
        /\ Goto(w, IF unclaimed > 0 \/ full THEN "back" ELSE "run")
        /\ UNCHANGED counted
  /\ UNCHANGED <<stw, kind, ngc, sweep, walks, ret, help, next>>

\* Back from idling with atomics alone, unless a sweep is seen ...
IdleLook(w) ==
  /\ pc[w] = "idle"
  /\ Goto(w, IF unclaimed > 0 THEN "leave" ELSE "readd")
  /\ UNCHANGED <<world, sweep, walks, ret, help, next>>

IdleReadd(w) ==
  /\ pc[w] = "readd"
  /\ away' = away \ {w}
  /\ Goto(w, "in")
  /\ UNCHANGED <<stw, counted, out, kind, ngc, sweep, walks, ret, help, next>>

\* ... or a barrier is.
IdleIn(w) ==
  /\ pc[w] = "in"
  /\ \/ /\ stw
        /\ away' = away \cup {w} /\ Goto(w, "leave")
        /\ UNCHANGED out
     \/ /\ ~ stw
        /\ out' = [out EXCEPT ![w] = "in"] /\ Goto(w, "run")
        /\ UNCHANGED away
  /\ UNCHANGED <<stw, counted, kind, ngc, sweep, walks, ret, help, next>>

-----------------------------------------------------------------------------
(* The collector, from the barrier's raising to its end.                   *)

\* A collection over the threshold, GC.start, or the barrier of a fork.
Raise(w) ==
  /\ pc[w] = "run" /\ ~ stw /\ ngc < MaxGC
  /\ stw' = TRUE /\ counted' = {} /\ ngc' = ngc + 1
  /\ \E k \in {"threshold", "request", "fork"} :
        /\ kind' = k
        /\ next' = IF k = "fork" THEN "end" ELSE "mark"
  /\ Goto(w, "stop")
  /\ UNCHANGED <<away, out, sweep, walks, ret, help>>

AllStopped(w) ==
  /\ pc[w] = "stop"
  /\ Workers \ {w} \subseteq counted \cup away
  /\ Goto(w, "settle")
  /\ UNCHANGED <<world, sweep, walks, ret, help, next>>

\* sp_sched_conc_wait: is there a sweep, and has all of it been counted ...
SettleLook_NotCounted(w) == \* Wrong on purpose: nobody in the array is taken for all done.
  /\ pc[w] = "settle"
  /\ Goto(w, IF ~ pending THEN next ELSE "settle2")
  /\ UNCHANGED <<world, sweep, walks, ret, help, next>>

SettleLook(w) ==
  /\ pc[w] = "settle"
  /\ Goto(w, IF ~ pending THEN next
             ELSE IF finished < Cardinality(tasks) THEN "ask" ELSE "settle2")
  /\ UNCHANGED <<world, sweep, walks, ret, help, next>>

\* ... and then, has everyone left the array.
SettleRunning(w) ==
  /\ pc[w] = "settle2"
  /\ Goto(w, IF running > 0 THEN "ask" ELSE "apply")
  /\ UNCHANGED <<world, sweep, walks, ret, help, next>>

\* Not yet: the parked are asked for hands, and the collector takes its share.
AskHelp(w) ==
  /\ pc[w] = "ask"
  /\ help' = TRUE
  /\ Goto(w, "enter") /\ ret' = [ret EXCEPT ![w] = "wait"]
  /\ UNCHANGED <<world, sweep, walks, next>>

\* Under g_cs_lock, which the wait for g_cs_done gives up.
WaitDone(w) ==
  /\ pc[w] = "wait"
  /\ Goto(w, IF finished < Cardinality(tasks) \/ running > 0
             THEN "asleep" ELSE "unhelp")
  /\ UNCHANGED <<world, sweep, walks, ret, help, next>>

HelpEnds(w) ==
  /\ pc[w] = "unhelp"
  /\ help' = FALSE
  /\ Goto(w, "apply")
  /\ UNCHANGED <<world, sweep, walks, ret, next>>

\* The survivors go to the old lists, and what no active worker owns is released.
Apply(w) ==
  /\ pc[w] = "apply"
  /\ pending' = FALSE
  /\ Goto(w, next)
  /\ UNCHANGED <<world, tasks, claimed, unclaimed, finished, running, full, fresh, walks, ret, help, next>>

\* The mark is over; sp_sched_conc_start detaches the lists and writes the array.
Mark(w) ==
  /\ pc[w] = "mark"
  /\ full' \in BOOLEAN
  /\ Goto(w, "start")
  /\ UNCHANGED <<world, tasks, claimed, unclaimed, finished, running, pending, fresh, walks, ret, help, next>>

\* Under g_cs_lock.  Every slot has its chunks; a list that is empty has no task.
sp_sched_conc_start(w) ==
  /\ pc[w] = "start"
  /\ \E T \in SUBSET Tasks :
        /\ Chunks \subseteq T
        /\ tasks' = T /\ unclaimed' = Cardinality(T)
  /\ finished' = 0
  /\ claimed' = [t \in Tasks |-> 0]
  /\ pending' = TRUE /\ fresh' = Sweepers
  /\ next' = "end"
  /\ Goto(w, IF kind = "request" THEN "settle" ELSE "end")
  /\ UNCHANGED <<world, running, full, walks, ret, help>>

BarrierEnd(w) ==
  /\ pc[w] = "end"
  /\ stw' = FALSE /\ kind' = "threshold" /\ next' = "mark"
  /\ ret' = [ret EXCEPT ![w] = "chk"]
  /\ Goto(w, IF kind = "fork" THEN "run" ELSE "back")
  /\ UNCHANGED <<counted, away, out, ngc, sweep, walks, help>>

-----------------------------------------------------------------------------
Mutator(w) == \/ Park(w) \/ Released(w) \/ Back(w) \/ CheckRelease(w)
              \/ sp_slab_release_worker(w) \/ sp_native_enter(w) \/ sp_worker_idle(w)
              \/ sp_out_leave_locked(w) \/ IdleLook(w) \/ IdleReadd(w) \/ IdleIn(w)
              \/ Help(w) \/ sp_cs_enter(w)

Collector(w) == \/ Raise(w) \/ AllStopped(w) \/ SettleLook(w) \/ SettleRunning(w)
                \/ AskHelp(w) \/ WaitDone(w) \/ HelpEnds(w) \/ Apply(w) \/ Mark(w)
                \/ sp_sched_conc_start(w) \/ BarrierEnd(w)

Next == \/ \E w \in Workers : Mutator(w) \/ Collector(w)
        \/ \E s \in Sweepers : SweeperWakes(s)
        \/ \E a \in Actors : Walk(a)

Spec == Init /\ [][Next]_vars

\* A walk and a collector behind the barrier run on; a sweeper wakes.
Settling(w) == \/ SettleLook(w) \/ SettleRunning(w) \/ AskHelp(w) \/ sp_cs_enter(w)
               \/ WaitDone(w) \/ HelpEnds(w) \/ Apply(w)
Fairness == /\ \A w \in Workers : WF_vars(Walk(w) \/ Settling(w))
            /\ \A s \in Sweepers : WF_vars(Walk(s) \/ SweeperWakes(s))
FairSpec == Spec /\ Fairness

-----------------------------------------------------------------------------
Walking == {"scan", "claim", "discount", "task"}
Labels  == Walking \cup
  {"run", "park", "enter", "back", "chk", "release", "native", "idle", "leave",
   "readd", "in", "stop", "settle", "settle2", "ask", "wait", "asleep",
   "unhelp", "apply", "mark", "start", "end", "look"}

\* Type correctness: no task is claimed twice, so no counter falls below zero.
TypeOK ==
  /\ stw \in BOOLEAN /\ counted \subseteq Workers /\ away \subseteq Workers
  /\ out \in [Workers -> {"in", "native", "idle"}]
  /\ pc \in [Actors -> Labels] /\ ret \in [Workers -> {"chk", "park", "wait"}]
  /\ pos \in [Actors -> 0 .. NTasks] /\ ran \in [Actors -> SUBSET Tasks]
  /\ tasks \subseteq Tasks /\ claimed \in [Tasks -> 0 .. 2]
  /\ unclaimed \in Nat /\ finished \in Nat /\ running \in Nat
  /\ pending \in BOOLEAN /\ full \in BOOLEAN /\ help \in BOOLEAN
  /\ fresh \subseteq Sweepers
  /\ kind \in {"threshold", "request", "fork"} /\ next \in {"mark", "end"}
  /\ ngc \in 0 .. MaxGC

\* While the collector writes the task array and clears the claims
\* (sp_sched_conc_start) nobody walks it: no sweeper the OS woke late, no
\* parked worker that was asked for hands, no worker that looks whether its
\* chunks are settled.
ArrayStill ==
  \A c \in Workers : pc[c] = "start" =>
    \A a \in Actors : pc[a] \notin {"scan", "claim", "discount", "task", "chk"}

\* When the collector applies a sweep, and marks the heap after it
\* (sp_sched_conc_wait, sp_gc_collect), each of its tasks is done and no
\* sweep is in a list.
SweepComplete ==
  \A c \in Workers : pc[c] \in {"apply", "mark", "start"} =>
    /\ \A t \in tasks : claimed[t] = 2
    /\ \A a \in Actors : pc[a] # "task"

\* While a worker hands its empty chunks back (sp_slab_release_worker), no
\* other thread sweeps those chunks, and none can begin to.
ReleaseSettled ==
  \A w \in Workers : pc[w] = "release" =>
    \A t \in tasks \cap Chunks : TaskWid[t] = w => claimed[t] = 2

\* The collector that finishes a sweep (sp_sched_conc_wait) comes out of it.
SettleEnds ==
  (\E w \in Workers : pc[w] = "settle") ~> (\E w \in Workers : pc[w] \in {"mark", "end"})

\* What is nobody's own is swept without waiting for the next collection.
SharedSwept ==
  \A t \in {u \in Tasks : TaskWid[u] = Nobody} :
     (t \in tasks /\ claimed[t] = 0) ~> claimed[t] # 0

\* No worker is in the program while its own lists wait for a sweep.  A worker
\* that idled through a whole collection between IdleLook and IdleReadd is: the
\* next barrier sweeps them.
OwnSweptFirst ==
  \A w \in Workers : pc[w] = "run" =>
    \A t \in tasks : TaskWid[t] = w => claimed[t] # 0

\* A sweep comes to its end: by itself for what nobody owns, and at the next
\* barrier for all (sp_cs_sweeper_main, sp_sched_conc_wait).
SweepEnds == SettleEnds /\ SharedSwept
=============================================================================
