-------------------------- MODULE ConcSweep_proofs --------------------------
(***************************************************************************)
(* The safety of the concurrent sweep, for any number of workers, sweeper  *)
(* threads and tasks.                                                      *)
(***************************************************************************)
EXTENDS ConcSweep, FiniteSetTheorems, TLAPS

\* Who walks the array, who has claimed a task and not yet counted it, the
\* tasks nobody has claimed, and those whose walk has been counted.
Inside   == {a \in Actors : pc[a] \in Walking}
Claiming == {a \in Actors : pc[a] = "discount"}
Open     == {t \in tasks : claimed[t] = 0}
Fin      == {t \in tasks : claimed[t] = 2 /\ \A a \in Actors : t \notin ran[a]}

\* Places of a worker.  A walk is the collector's, a parked worker's or an
\* owner's by where it returns to.
InWalk(w)  == pc[w] \in Walking \cup {"enter"}
IsColl(w)  == \/ pc[w] \in {"stop", "settle", "settle2", "ask", "wait", "asleep",
                            "unhelp", "apply", "mark", "start", "end"}
              \/ InWalk(w) /\ ret[w] = "wait"
Parked(w)  == pc[w] = "park" \/ (InWalk(w) /\ ret[w] = "park")
OutOf(w)   == pc[w] \in {"native", "idle", "leave", "readd"}

\* What label goes with which kind of actor, and where an owner's walk returns.
ShapeInv ==
  /\ \A s \in Sweepers : pc[s] \in Walking \cup {"look"}
  /\ \A w \in Workers :
       /\ pc[w] # "look"
       /\ pc[w] \in {"run", "native", "idle", "leave", "readd", "in", "back",
                     "chk", "release"} => ret[w] = "chk"

\* One worker has the barrier up.
CollInv ==
  /\ \A w \in Workers : IsColl(w) => stw
  /\ \A v, w \in Workers : IsColl(v) /\ IsColl(w) => v = w

\* Who is counted parked is parked, and who is counted out is out.
WorldInv ==
  /\ \A w \in counted : Parked(w)
  /\ \A w \in away : OutOf(w)

\* Past its wait, a collector has everyone else parked or out, or about to
\* see the barrier and go out again.
StopInv ==
  \A c \in Workers : IsColl(c) /\ pc[c] # "stop" =>
    \A v \in Workers \ {c} : v \in counted \/ v \in away \/ pc[v] = "in"

\* What a walk has claimed and run is its own.
WalkInv ==
  /\ \A a \in Actors : pc[a] \in {"claim", "discount", "task"} => pos[a] + 1 \in tasks
  /\ \A a \in Actors : pc[a] \in {"discount", "task"} => claimed[pos[a] + 1] = 1
  /\ \A a, b \in Actors :
       (pc[a] \in {"discount", "task"} /\ pc[b] \in {"discount", "task"} /\ pos[a] = pos[b])
         => a = b
  /\ \A a \in Actors : pc[a] \notin Walking => ran[a] = {}
  /\ \A a \in Actors : \A t \in ran[a] : t \in tasks /\ claimed[t] = 2
  /\ \A a, b \in Actors : \A t \in ran[a] : t \in ran[b] => a = b

\* The counters are exact.
CountInv ==
  /\ running = Cardinality(Inside)
  /\ unclaimed = Cardinality(Open) + Cardinality(Claiming)
  /\ finished = Cardinality(Fin)

AllDone == Fin = tasks
Settled == AllDone /\ Inside = {}

\* From the moment the collector knows it, and until it starts the next sweep,
\* the sweep is done and its walks have ended.
SettledInv ==
  /\ \A c \in Workers : pc[c] = "settle2" => AllDone
  /\ \A c \in Workers : pc[c] \in {"unhelp", "apply", "mark", "start"} => Settled
  /\ ~ pending => Settled

IInv == /\ TypeOK /\ ShapeInv /\ CollInv /\ WorldInv /\ StopInv
        /\ WalkInv /\ CountInv /\ SettledInv /\ ReleaseSettled

-----------------------------------------------------------------------------
(* Who is where.                                                           *)

\* A step that leaves the places of everybody else, and who is counted, alone:
\* that of a walk, which nobody but a sleeping collector can tell.
LEMMA WalkWorld ==
  ASSUME TypeOK, ShapeInv, CollInv, WorldInv, StopInv,
         NEW a \in Actors, Walk(a)
  PROVE  (ShapeInv /\ CollInv /\ WorldInv /\ StopInv)'
<1> USE ConstAssumption DEF Actors, Walking
<1>1. CASE ScanPass(a)
  BY <1>1 DEF ScanPass, world, sweep, TypeOK, ShapeInv, CollInv, WorldInv, StopInv, IsColl, Parked, OutOf, InWalk
<1>2. CASE ScanFinds(a)
  BY <1>2 DEF ScanFinds, Goto, world, sweep, walks, TypeOK, ShapeInv, CollInv, WorldInv, StopInv, IsColl, Parked, OutOf, InWalk
<1>3. CASE Claim(a)
  BY <1>3 DEF Claim, Goto, world, TypeOK, ShapeInv, CollInv, WorldInv, StopInv, IsColl, Parked, OutOf, InWalk
<1>4. CASE Discount(a)
  BY <1>4 DEF Discount, Goto, world, walks, TypeOK, ShapeInv, CollInv, WorldInv, StopInv, IsColl, Parked, OutOf, InWalk
<1>5. CASE TaskDone(a)
  BY <1>5 DEF TaskDone, Goto, world, TypeOK, ShapeInv, CollInv, WorldInv, StopInv, IsColl, Parked, OutOf, InWalk
<1>6. CASE sp_cs_finish(a)
  BY <1>6 DEF sp_cs_finish, Left, After, world, TypeOK, ShapeInv, CollInv, WorldInv, StopInv, IsColl, Parked, OutOf, InWalk
<1> QED BY <1>1, <1>2, <1>3, <1>4, <1>5, <1>6 DEF Walk

LEMMA MutatorWorld ==
  ASSUME TypeOK, ShapeInv, CollInv, WorldInv, StopInv,
         NEW w \in Workers, Mutator(w)
  PROVE  (ShapeInv /\ CollInv /\ WorldInv /\ StopInv)'
<1> USE ConstAssumption DEF Actors, Walking, Goto, TypeOK, ShapeInv, CollInv, WorldInv, StopInv, IsColl, Parked, OutOf, InWalk
<1>1. CASE Park(w)
  BY <1>1 DEF Park, sweep, walks
<1>2. CASE Released(w)
  BY <1>2 DEF Released, Held, sweep, walks
<1>3. CASE Back(w)
  BY <1>3 DEF Back, world, sweep, walks
<1>4. CASE CheckRelease(w)
  BY <1>4 DEF CheckRelease, world, sweep, walks
<1>5. CASE sp_slab_release_worker(w)
  BY <1>5 DEF sp_slab_release_worker, world, sweep, walks
<1>6. CASE sp_native_enter(w)
  BY <1>6 DEF sp_native_enter, sweep, walks
<1>7. CASE sp_worker_idle(w)
  BY <1>7 DEF sp_worker_idle, sweep, walks
<1>8. CASE sp_out_leave_locked(w)
  BY <1>8 DEF sp_out_leave_locked, sweep, walks
<1>9. CASE IdleLook(w)
  BY <1>9 DEF IdleLook, world, sweep, walks
<1>10. CASE IdleReadd(w)
  BY <1>10 DEF IdleReadd, sweep, walks
<1>11. CASE IdleIn(w)
  BY <1>11 DEF IdleIn, sweep, walks
<1>12. CASE Help(w)
  BY <1>12 DEF Help, Held, world, sweep, walks
<1>13. CASE sp_cs_enter(w)
  BY <1>13 DEF sp_cs_enter, sp_cs_join_locked, world, walks
<1> QED BY <1>1, <1>2, <1>3, <1>4, <1>5, <1>6, <1>7, <1>8, <1>9, <1>10, <1>11, <1>12, <1>13 DEF Mutator

LEMMA CollectorWorld ==
  ASSUME TypeOK, ShapeInv, CollInv, WorldInv, StopInv,
         NEW w \in Workers, Collector(w)
  PROVE  (ShapeInv /\ CollInv /\ WorldInv /\ StopInv)'
<1> USE ConstAssumption DEF Actors, Walking, Goto, TypeOK, ShapeInv, CollInv, WorldInv, StopInv, IsColl, Parked, OutOf, InWalk
<1>1. CASE Raise(w)
  BY <1>1 DEF Raise, sweep, walks
<1>2. CASE AllStopped(w)
  BY <1>2 DEF AllStopped, world, sweep, walks
<1>3. CASE SettleLook(w)
  BY <1>3 DEF SettleLook, world, sweep, walks
<1>4. CASE SettleRunning(w)
  BY <1>4 DEF SettleRunning, world, sweep, walks
<1>5. CASE AskHelp(w)
  BY <1>5 DEF AskHelp, world, sweep, walks
<1>6. CASE WaitDone(w)
  BY <1>6 DEF WaitDone, world, sweep, walks
<1>7. CASE HelpEnds(w)
  BY <1>7 DEF HelpEnds, world, sweep, walks
<1>8. CASE Apply(w)
  BY <1>8 DEF Apply, world, walks
<1>9. CASE Mark(w)
  BY <1>9 DEF Mark, world, walks
<1>10. CASE sp_sched_conc_start(w)
  BY <1>10 DEF sp_sched_conc_start, world, walks
<1>11. CASE BarrierEnd(w)
  BY <1>11 DEF BarrierEnd, sweep, walks
<1> QED BY <1>1, <1>2, <1>3, <1>4, <1>5, <1>6, <1>7, <1>8, <1>9, <1>10, <1>11 DEF Collector

LEMMA SweeperWorld ==
  ASSUME TypeOK, ShapeInv, CollInv, WorldInv, StopInv,
         NEW s \in Sweepers, SweeperWakes(s)
  PROVE  (ShapeInv /\ CollInv /\ WorldInv /\ StopInv)'
BY ConstAssumption DEF SweeperWakes, sp_cs_join_locked, Goto, world, walks, Actors, Walking, TypeOK,
   ShapeInv, CollInv, WorldInv, StopInv, IsColl, Parked, OutOf, InWalk

-----------------------------------------------------------------------------
(* The walks and the counters.                                             *)

LEMMA Finite ==
  ASSUME TypeOK
  PROVE  /\ IsFiniteSet(Actors) /\ IsFiniteSet(tasks)
         /\ IsFiniteSet(Inside) /\ IsFiniteSet(Claiming) /\ IsFiniteSet(Open) /\ IsFiniteSet(Fin)
         /\ \A a \in Actors : IsFiniteSet(ran[a])
<1>1. IsFiniteSet(Actors)
  BY ConstAssumption, FS_Union DEF Actors
<1>2. IsFiniteSet(Tasks)
  BY ConstAssumption, FS_Interval DEF Tasks
<1>3. IsFiniteSet(tasks)
  BY <1>2, FS_Subset DEF TypeOK
<1>4. Inside \subseteq Actors /\ Claiming \subseteq Actors /\ Open \subseteq tasks /\ Fin \subseteq tasks
  BY DEF Inside, Claiming, Open, Fin
<1>5. \A a \in Actors : ran[a] \subseteq Tasks
  BY DEF TypeOK
<1> QED BY <1>1, <1>2, <1>3, <1>4, <1>5, FS_Subset

\* Counting one more, and one less.
LEMMA OneMore ==
  ASSUME NEW S, IsFiniteSet(S), NEW x, x \notin S
  PROVE  Cardinality(S \cup {x}) = Cardinality(S) + 1 /\ Cardinality(S) \in Nat
BY FS_AddElement, FS_CardinalityType

LEMMA OneLess ==
  ASSUME NEW S, IsFiniteSet(S), NEW x \in S
  PROVE  Cardinality(S \ {x}) = Cardinality(S) - 1 /\ Cardinality(S) \in Nat \ {0}
<1>1. IsFiniteSet(S \ {x}) /\ (S \ {x}) \cup {x} = S /\ x \notin S \ {x}
  BY FS_Subset
<1>2. Cardinality((S \ {x}) \cup {x}) = Cardinality(S \ {x}) + 1 /\ Cardinality(S \ {x}) \in Nat
  BY <1>1, OneMore
<1> QED BY <1>1, <1>2

\* What a step may not undo: a sweep that is done stays done, and one whose
\* walks have ended has none begun.
Kept == (AllDone => AllDone') /\ (Settled => Settled')

\* A sweep that is done has nothing left to claim.
LEMMA DoneIsClaimed ==
  ASSUME TypeOK, WalkInv, CountInv, AllDone
  PROVE  unclaimed = 0
<1>1. Open = {} /\ Claiming = {}
  BY DEF AllDone, Fin, Open, Claiming, WalkInv, TypeOK
<1> QED BY <1>1, FS_EmptySet DEF CountInv

\* A step between places outside the array.
LEMMA QuietWalk ==
  ASSUME TypeOK, WalkInv, CountInv,
         NEW a \in Actors, NEW l, pc[a] \notin Walking, l \notin Walking,
         pc' = [pc EXCEPT ![a] = l],
         UNCHANGED <<tasks, claimed, unclaimed, finished, running, walks>>
  PROVE  (WalkInv /\ CountInv)' /\ Kept
<1>1. Inside' = Inside /\ Claiming' = Claiming
  BY DEF Inside, Claiming, Walking, TypeOK
<1>2. Open' = Open /\ Fin' = Fin
  BY DEF Open, Fin, walks
<1>3. WalkInv'
  BY DEF WalkInv, Walking, TypeOK, walks
<1> QED BY <1>1, <1>2, <1>3 DEF CountInv, Kept, AllDone, Settled

LEMMA JoinWalk ==
  ASSUME TypeOK, WalkInv, CountInv,
         NEW a \in Actors, NEW e, pc[a] \notin Walking, e \notin Walking,
         sp_cs_join_locked(a, e),
         UNCHANGED <<tasks, claimed, unclaimed, finished, walks>>
  PROVE  (WalkInv /\ CountInv)' /\ Kept
<1>1. CASE unclaimed = 0
  BY <1>1, QuietWalk DEF sp_cs_join_locked, Goto, walks
<1>2. CASE unclaimed # 0
  <2>1. pc' = [pc EXCEPT ![a] = "scan"] /\ running' = running + 1
    BY <1>2 DEF sp_cs_join_locked, Goto
  <2>2. Inside' = Inside \cup {a} /\ a \notin Inside /\ Claiming' = Claiming
    BY <2>1 DEF Inside, Claiming, Walking, TypeOK
  <2>3. Open' = Open /\ Fin' = Fin
    BY DEF Open, Fin, walks
  <2>4. Cardinality(Inside') = Cardinality(Inside) + 1
    BY <2>2, Finite, OneMore
  <2>5. WalkInv'
    BY <2>1 DEF WalkInv, Walking, TypeOK, walks
  <2>6. ~ AllDone
    BY <1>2, DoneIsClaimed
  <2> QED BY <2>1, <2>2, <2>3, <2>4, <2>5, <2>6 DEF CountInv, Kept, Settled
<1> QED BY <1>1, <1>2

LEMMA WalkWalk ==
  ASSUME TypeOK, ShapeInv, WalkInv, CountInv, NEW a \in Actors, Walk(a)
  PROVE  (WalkInv /\ CountInv)' /\ Kept
<1> DEFINE t == pos[a] + 1
<1>1. CASE ScanPass(a)
  <2>1. Inside' = Inside /\ Claiming' = Claiming /\ Open' = Open /\ Fin' = Fin
    BY <1>1 DEF ScanPass, Inside, Claiming, Open, Fin, sweep
  <2>2. WalkInv'
    BY <1>1 DEF ScanPass, WalkInv, Walking, TypeOK, sweep
  <2> QED BY <1>1, <2>1, <2>2 DEF CountInv, Kept, AllDone, Settled, ScanPass, sweep
<1>2. CASE ScanFinds(a)
  <2>1. Inside' = Inside /\ Claiming' = Claiming /\ Open' = Open /\ Fin' = Fin
    BY <1>2 DEF ScanFinds, Goto, Inside, Claiming, Open, Fin, sweep, walks, Walking, TypeOK
  <2>2. WalkInv'
    BY <1>2 DEF ScanFinds, Goto, WalkInv, Walking, TypeOK, sweep, walks
  <2> QED BY <1>2, <2>1, <2>2 DEF CountInv, Kept, AllDone, Settled, ScanFinds, sweep
<1>3. CASE Claim(a) /\ claimed[t] = 0
  <2>1. t \in tasks /\ pc[a] = "claim" /\ claimed' = [claimed EXCEPT ![t] = 1]
        /\ pc' = [pc EXCEPT ![a] = "discount"]
        /\ UNCHANGED <<tasks, unclaimed, finished, running, pos, ran>>
    BY <1>3 DEF Claim, Goto, WalkInv
  <2>2. Open' = Open \ {t} /\ t \in Open
    BY <1>3, <2>1 DEF Open, TypeOK
  <2>3. Claiming' = Claiming \cup {a} /\ a \notin Claiming /\ Inside' = Inside
    BY <2>1 DEF Claiming, Inside, Walking, TypeOK
  <2>4. Fin' = Fin
    BY <1>3, <2>1 DEF Fin, TypeOK
  <2>5. Cardinality(Open') = Cardinality(Open) - 1 /\ Cardinality(Open) \in Nat
    BY <2>2, Finite, OneLess
  <2>6. Cardinality(Claiming') = Cardinality(Claiming) + 1 /\ Cardinality(Claiming) \in Nat
    BY <2>3, Finite, OneMore
  <2>7. WalkInv'
    BY <1>3, <2>1 DEF WalkInv, Walking, TypeOK
  <2>8. ~ AllDone
    BY <2>2 DEF AllDone, Fin, Open
  <2> QED BY <2>1, <2>3, <2>4, <2>5, <2>6, <2>7, <2>8 DEF CountInv, Kept, Settled
<1>4. CASE Claim(a) /\ claimed[t] # 0
  <2>1. Inside' = Inside /\ Claiming' = Claiming /\ Open' = Open /\ Fin' = Fin
    BY <1>4 DEF Claim, Goto, Inside, Claiming, Open, Fin, Walking, TypeOK
  <2>2. WalkInv'
    BY <1>4 DEF Claim, Goto, WalkInv, Walking, TypeOK
  <2> QED BY <1>4, <2>1, <2>2 DEF CountInv, Kept, AllDone, Settled, Claim
<1>5. CASE Discount(a)
  <2>1. Claiming' = Claiming \ {a} /\ a \in Claiming /\ Inside' = Inside
    BY <1>5 DEF Discount, Goto, Claiming, Inside, Walking, TypeOK
  <2>2. Open' = Open /\ Fin' = Fin
    BY <1>5 DEF Discount, Open, Fin, walks
  <2>3. Cardinality(Claiming') = Cardinality(Claiming) - 1 /\ Cardinality(Claiming) \in Nat
    BY <2>1, Finite, OneLess
  <2>4. WalkInv'
    BY <1>5 DEF Discount, Goto, WalkInv, Walking, TypeOK, walks
  <2>5. Cardinality(Open) \in Nat
    BY Finite, FS_CardinalityType
  <2> QED BY <1>5, <2>1, <2>2, <2>3, <2>4, <2>5 DEF CountInv, Kept, AllDone, Settled, Discount
<1>6. CASE TaskDone(a)
  <2>1. t \in tasks /\ claimed[t] = 1 /\ pc[a] = "task" /\ claimed' = [claimed EXCEPT ![t] = 2]
        /\ ran' = [ran EXCEPT ![a] = @ \cup {t}] /\ pos' = [pos EXCEPT ![a] = t]
        /\ pc' = [pc EXCEPT ![a] = "scan"]
        /\ UNCHANGED <<tasks, unclaimed, finished, running>>
    BY <1>6 DEF TaskDone, Goto, WalkInv
  <2>2. Inside' = Inside /\ Claiming' = Claiming
    BY <2>1 DEF Inside, Claiming, Walking, TypeOK
  <2>3. Open' = Open
    BY <2>1 DEF Open, TypeOK
  <2>4. Fin' = Fin
    BY <2>1 DEF Fin, TypeOK
  <2>5. WalkInv'
    <3>1. \A b \in Actors \ {a} : pos'[b] = pos[b] /\ ran'[b] = ran[b] /\ pc'[b] = pc[b]
      BY <2>1 DEF TypeOK
    <3>2. pos'[a] = t /\ ran'[a] = ran[a] \cup {t} /\ pc'[a] = "scan"
      BY <2>1 DEF TypeOK
    <3>3. \A b \in Actors \ {a} : pc[b] \in {"discount", "task"} => pos[b] + 1 # t
      BY <2>1 DEF WalkInv, TypeOK
    <3>4. \A b \in Actors : t \notin ran[b]
      BY <2>1 DEF WalkInv
    <3>5. /\ \A b \in Actors : pc'[b] \in {"claim", "discount", "task"} => pos'[b] + 1 \in tasks'
          /\ \A b \in Actors : pc'[b] \in {"discount", "task"} => claimed'[pos'[b] + 1] = 1
      BY <2>1, <3>1, <3>2, <3>3 DEF WalkInv, TypeOK
    <3>6. \A b, c \in Actors :
            (pc'[b] \in {"discount", "task"} /\ pc'[c] \in {"discount", "task"} /\ pos'[b] = pos'[c]) => b = c
      BY <3>1, <3>2 DEF WalkInv
    <3>7. \A b \in Actors : pc'[b] \notin Walking => ran'[b] = {}
      BY <3>1, <3>2 DEF WalkInv, Walking
    <3>8. \A b \in Actors : \A u \in ran'[b] : u \in tasks' /\ claimed'[u] = 2
      BY <2>1, <3>1, <3>2 DEF WalkInv, TypeOK
    <3>9. \A b, c \in Actors : \A u \in ran'[b] : u \in ran'[c] => b = c
      BY <3>1, <3>2, <3>4 DEF WalkInv
    <3> QED BY <3>5, <3>6, <3>7, <3>8, <3>9 DEF WalkInv
  <2> QED BY <2>1, <2>2, <2>3, <2>4, <2>5 DEF CountInv, Kept, AllDone, Settled
<1>7. CASE sp_cs_finish(a)
  <2>1. /\ pc[a] = "scan" /\ After(a) \notin Walking
        /\ finished' = finished + Cardinality(ran[a]) /\ running' = running - 1
        /\ pos' = [pos EXCEPT ![a] = 0] /\ ran' = [ran EXCEPT ![a] = {}]
        /\ UNCHANGED <<tasks, claimed, unclaimed>>
    BY <1>7 DEF sp_cs_finish, Forget, After, TypeOK, Walking, Actors
  <2>2. /\ pc'[a] = After(a)
        /\ \A b \in Actors \ {a} : pc'[b] = pc[b] \/ (pc[b] = "asleep" /\ pc'[b] = "wait")
    BY <1>7 DEF sp_cs_finish, Left
  <2>3. Inside' = Inside \ {a} /\ a \in Inside /\ Claiming' = Claiming
    BY <2>1, <2>2 DEF Inside, Claiming, Walking
  <2>4. Open' = Open
    BY <2>1 DEF Open
  <2>5. Fin' = Fin \cup ran[a] /\ Fin \cap ran[a] = {}
    BY <2>1 DEF Fin, WalkInv, TypeOK
  <2>6. Cardinality(Fin') = Cardinality(Fin) + Cardinality(ran[a])
    <3>1. Cardinality(Fin \cup ran[a]) = Cardinality(Fin) + Cardinality(ran[a]) - Cardinality(Fin \cap ran[a])
      BY Finite, FS_Union
    <3>2. Cardinality(Fin) \in Nat /\ Cardinality(ran[a]) \in Nat
      BY Finite, FS_CardinalityType
    <3>3. Cardinality(Fin \cap ran[a]) = 0
      BY <2>5, FS_EmptySet
    <3> QED BY <2>5, <3>1, <3>2, <3>3
  <2>7. Cardinality(Inside') = Cardinality(Inside) - 1
    BY <2>3, Finite, OneLess
  <2>8. WalkInv'
    BY <2>1, <2>2 DEF WalkInv, Walking, TypeOK
  <2>9. AllDone => AllDone'
    BY <2>1, <2>5 DEF AllDone, Fin
  <2> QED BY <2>1, <2>3, <2>4, <2>6, <2>7, <2>8, <2>9 DEF CountInv, Kept, Settled
<1> QED BY <1>1, <1>2, <1>3, <1>4, <1>5, <1>6, <1>7 DEF Walk

LEMMA StartWalk ==
  ASSUME TypeOK, WalkInv, CountInv, SettledInv, NEW w \in Workers, sp_sched_conc_start(w)
  PROVE  (WalkInv /\ CountInv)'
<1>1. Settled
  BY DEF SettledInv, sp_sched_conc_start
<1>2. /\ pc' = [pc EXCEPT ![w] = IF kind = "request" THEN "settle" ELSE "end"]
      /\ tasks' \subseteq Tasks /\ unclaimed' = Cardinality(tasks') /\ finished' = 0
      /\ claimed' = [t \in Tasks |-> 0] /\ UNCHANGED <<running, pos, ran>>
  BY DEF sp_sched_conc_start, Goto, walks
<1>3. \A a \in Actors : pc[a] \notin Walking /\ ran[a] = {}
  BY <1>1 DEF Settled, Inside, WalkInv
<1>4. \A a \in Actors : pc'[a] \notin Walking /\ ran'[a] = {}
  BY <1>2, <1>3 DEF TypeOK, Walking
<1>5. Inside' = {} /\ Claiming' = {} /\ Fin' = {} /\ Open' = tasks'
  BY <1>2, <1>4 DEF Inside, Claiming, Fin, Open, Walking
<1>6. WalkInv'
  BY <1>4 DEF WalkInv, Walking
<1>7. running = 0
  BY <1>1, FS_EmptySet DEF Settled, CountInv
<1>8. Cardinality(tasks') \in Nat
  <2>1. IsFiniteSet(Tasks)
    BY ConstAssumption, FS_Interval DEF Tasks
  <2> QED BY <1>2, <2>1, FS_Subset, FS_CardinalityType
<1> QED BY <1>2, <1>5, <1>6, <1>7, <1>8, FS_EmptySet DEF CountInv

\* Every step keeps the walks' own invariant, and all but the start of a sweep
\* what is known of the sweep.
LEMMA NextWalk ==
  ASSUME TypeOK, ShapeInv, WalkInv, CountInv, SettledInv, Next
  PROVE  /\ (WalkInv /\ CountInv)'
         /\ Kept \/ \E w \in Workers : sp_sched_conc_start(w)
<1> USE DEF Goto, sweep, Walking, Actors
<1>1. ASSUME NEW w \in Workers, Mutator(w)
      PROVE  (WalkInv /\ CountInv)' /\ Kept
  <2>1. CASE sp_cs_enter(w)
    <3>1. ret[w] \notin Walking
      BY DEF TypeOK
    <3> QED BY <2>1, <3>1, JoinWalk DEF sp_cs_enter
  <2>2. CASE ~ sp_cs_enter(w)
    <3>1. PICK l : pc' = [pc EXCEPT ![w] = l] /\ l \notin Walking
      BY <1>1, <2>2 DEF Mutator, Park, Released, Back, CheckRelease, sp_slab_release_worker, sp_native_enter,
         sp_worker_idle, sp_out_leave_locked, IdleLook, IdleReadd, IdleIn, Help
    <3>2. pc[w] \notin Walking /\ UNCHANGED <<tasks, claimed, unclaimed, finished, running, walks>>
      BY <1>1, <2>2 DEF Mutator, Park, Released, Back, CheckRelease, sp_slab_release_worker, sp_native_enter,
         sp_worker_idle, sp_out_leave_locked, IdleLook, IdleReadd, IdleIn, Help
    <3> QED BY <3>1, <3>2, QuietWalk
  <2> QED BY <2>1, <2>2
<1>2. ASSUME NEW w \in Workers, Collector(w), ~ sp_sched_conc_start(w)
      PROVE  (WalkInv /\ CountInv)' /\ Kept
  <2>1. PICK l : pc' = [pc EXCEPT ![w] = l] /\ l \notin Walking
    BY <1>2 DEF Collector, Raise, AllStopped, SettleLook, SettleRunning, AskHelp, WaitDone, HelpEnds, Apply,
       Mark, BarrierEnd, TypeOK
  <2>2. pc[w] \notin Walking /\ UNCHANGED <<tasks, claimed, unclaimed, finished, running, walks>>
    BY <1>2 DEF Collector, Raise, AllStopped, SettleLook, SettleRunning, AskHelp, WaitDone, HelpEnds, Apply,
       Mark, BarrierEnd
  <2> QED BY <2>1, <2>2, QuietWalk
<1>3. ASSUME NEW s \in Sweepers, SweeperWakes(s)
      PROVE  (WalkInv /\ CountInv)' /\ Kept
  BY <1>3, JoinWalk DEF SweeperWakes
<1>4. ASSUME NEW a \in Actors, Walk(a)
      PROVE  (WalkInv /\ CountInv)' /\ Kept
  BY <1>4, WalkWalk
<1> QED BY <1>1, <1>2, <1>3, <1>4, StartWalk DEF Next

-----------------------------------------------------------------------------
(* What the collector knows, and the types.                                *)

\* The counters at rest mean what the collector takes them for.
LEMMA RestIsDone ==
  ASSUME TypeOK, CountInv
  PROVE  /\ ~ (finished < Cardinality(tasks)) => AllDone
         /\ ~ (running > 0) => Inside = {}
<1>1. Fin \subseteq tasks
  BY DEF Fin
<1>2. Cardinality(Fin) \in Nat /\ Cardinality(tasks) \in Nat /\ Cardinality(Inside) \in Nat
  BY Finite, FS_CardinalityType
<1>3. ASSUME ~ (finished < Cardinality(tasks))
      PROVE  AllDone
  <2>1. Cardinality(Fin) <= Cardinality(tasks)
    BY <1>1, Finite, FS_Subset
  <2>2. Cardinality(Fin) = Cardinality(tasks)
    BY <1>2, <1>3, <2>1 DEF CountInv
  <2> QED BY <1>1, <2>2, Finite, FS_Subset DEF AllDone
<1>4. ASSUME ~ (running > 0)
      PROVE  Inside = {}
  <2>1. Cardinality(Inside) = 0
    BY <1>2, <1>4 DEF CountInv
  <2> QED BY <2>1, Finite, FS_EmptySet
<1> QED BY <1>3, <1>4

LEMMA SettledStep ==
  ASSUME TypeOK, ShapeInv, CollInv, WalkInv, CountInv, SettledInv, Next
  PROVE  SettledInv'
<1> USE DEF Goto, Actors
<1>1. ASSUME NEW w \in Workers, Mutator(w), Kept
      PROVE  SettledInv'
  <2>1. pending' = pending
    BY <1>1 DEF Mutator, Park, Released, Back, CheckRelease, sp_slab_release_worker, sp_native_enter, sp_worker_idle,
       sp_out_leave_locked, IdleLook, IdleReadd, IdleIn, Help, sp_cs_enter, sweep
  <2>2. \A c \in Workers : pc'[c] \in {"settle2", "unhelp", "apply", "mark", "start"} => pc'[c] = pc[c]
    BY <1>1 DEF Mutator, Park, Released, Back, CheckRelease, sp_slab_release_worker, sp_native_enter, sp_worker_idle,
       sp_out_leave_locked, IdleLook, IdleReadd, IdleIn, Help, sp_cs_enter, sp_cs_join_locked, TypeOK
  <2> QED BY <1>1, <2>1, <2>2 DEF SettledInv, Kept
<1>2. ASSUME NEW s \in Sweepers, SweeperWakes(s), Kept
      PROVE  SettledInv'
  <2>1. pending' = pending /\ \A c \in Workers : pc'[c] = pc[c]
    BY <1>2, ConstAssumption DEF SweeperWakes, sp_cs_join_locked, TypeOK
  <2> QED BY <1>2, <2>1 DEF SettledInv, Kept
<1>3. ASSUME NEW a \in Actors, Walk(a), Kept
      PROVE  SettledInv'
  <2>1. pending' = pending
    BY <1>3 DEF Walk, ScanPass, ScanFinds, Claim, Discount, TaskDone, sp_cs_finish, sweep
  <2>2. \A c \in Workers : pc'[c] \in {"settle2", "unhelp", "apply", "mark", "start"} => pc'[c] = pc[c]
    BY <1>3, ConstAssumption DEF Walk, ScanPass, ScanFinds, Claim, Discount, TaskDone, sp_cs_finish, Left, After, TypeOK
  <2> QED BY <1>3, <2>1, <2>2 DEF SettledInv, Kept
<1>4. ASSUME NEW w \in Workers, Collector(w), Kept
      PROVE  SettledInv'
  <2>1. \A c \in Workers \ {w} : pc'[c] = pc[c]
    BY <1>4 DEF Collector, Raise, AllStopped, SettleLook, SettleRunning, AskHelp, WaitDone, HelpEnds, Apply,
       Mark, sp_sched_conc_start, BarrierEnd, TypeOK
  <2>2. /\ pc'[w] = "settle2" => AllDone
        /\ pc'[w] \in {"unhelp", "apply", "mark", "start"} => Settled
        /\ ~ pending' => Settled
    <3>1. CASE SettleLook(w)
      BY <3>1, RestIsDone DEF SettleLook, sweep, SettledInv, TypeOK
    <3>2. CASE SettleRunning(w)
      BY <3>2, RestIsDone DEF SettleRunning, sweep, SettledInv, Settled, TypeOK
    <3>3. CASE WaitDone(w)
      BY <3>3, RestIsDone DEF WaitDone, sweep, SettledInv, Settled, TypeOK
    <3>4. CASE Apply(w)
      BY <3>4 DEF Apply, SettledInv, TypeOK
    <3>5. CASE Raise(w) \/ AllStopped(w) \/ AskHelp(w) \/ HelpEnds(w) \/ Mark(w) \/ BarrierEnd(w)
      BY <3>5 DEF Raise, AllStopped, AskHelp, HelpEnds, Mark, BarrierEnd, sweep, SettledInv, TypeOK
    <3>6. CASE sp_sched_conc_start(w)
      BY <3>6 DEF sp_sched_conc_start, SettledInv, TypeOK
    <3> QED BY <1>4, <3>1, <3>2, <3>3, <3>4, <3>5, <3>6 DEF Collector
  <2> QED BY <1>4, <2>1, <2>2 DEF SettledInv, Kept
<1>5. ASSUME NEW w \in Workers, sp_sched_conc_start(w)
      PROVE  SettledInv'
  <2>1. pending' /\ pc'[w] \in {"settle", "end"} /\ \A c \in Workers \ {w} : pc'[c] = pc[c]
    BY <1>5 DEF sp_sched_conc_start, TypeOK
  <2>2. \A c \in Workers \ {w} : pc[c] \notin {"settle2", "unhelp", "apply", "mark", "start"}
    BY <1>5 DEF sp_sched_conc_start, CollInv, IsColl
  <2> QED BY <2>1, <2>2 DEF SettledInv
<1> QED BY <1>1, <1>2, <1>3, <1>4, <1>5, NextWalk DEF Next

\* A worker that hands its chunks back is in the world, so no sweep starts, and
\* what is done stays done.
LEMMA ReleaseStep ==
  ASSUME TypeOK, ShapeInv, CollInv, WorldInv, StopInv, WalkInv, SettledInv, ReleaseSettled, Next
  PROVE  ReleaseSettled'
<1> USE DEF Goto, Actors, sweep
<1>1. ASSUME NEW w \in Workers, sp_sched_conc_start(w)
      PROVE  ReleaseSettled'
  <2>1. \A v \in Workers \ {w} : pc[v] # "release"
    BY <1>1 DEF sp_sched_conc_start, StopInv, IsColl, WorldInv, Parked, OutOf, InWalk, Walking
  <2>2. \A v \in Workers : pc'[v] # "release"
    BY <1>1, <2>1 DEF sp_sched_conc_start, TypeOK
  <2> QED BY <2>2 DEF ReleaseSettled
<1>2. ASSUME NEW w \in Workers, CheckRelease(w)
      PROVE  ReleaseSettled'
  <2>1. pc'[w] = "release" => \A t \in tasks \cap Chunks : TaskWid[t] = w => claimed[t] = 2
    BY <1>2 DEF CheckRelease, sp_cs_chunks_settled, SettledInv, Settled, AllDone, Fin, TypeOK
  <2>2. \A v \in Workers \ {w} : pc'[v] = pc[v]
    BY <1>2 DEF CheckRelease, TypeOK
  <2> QED BY <1>2, <2>1, <2>2 DEF CheckRelease, ReleaseSettled
<1>3. ASSUME NEW a \in Actors, Walk(a)
      PROVE  ReleaseSettled'
  <2>1. tasks' = tasks /\ \A t \in tasks : claimed[t] = 2 => claimed'[t] = 2
    BY <1>3 DEF Walk, ScanPass, ScanFinds, Claim, Discount, TaskDone, sp_cs_finish, TypeOK
  <2>2. \A v \in Workers : pc'[v] = "release" => pc[v] = "release"
    BY <1>3, ConstAssumption DEF Walk, ScanPass, ScanFinds, Claim, Discount, TaskDone, sp_cs_finish, Left, After, TypeOK
  <2> QED BY <2>1, <2>2 DEF ReleaseSettled
<1>4. ASSUME NEW w \in Workers, Mutator(w), ~ CheckRelease(w)
      PROVE  ReleaseSettled'
  <2>1. tasks' = tasks /\ claimed' = claimed
    BY <1>4 DEF Mutator, Park, Released, Back, sp_slab_release_worker, sp_native_enter, sp_worker_idle,
       sp_out_leave_locked, IdleLook, IdleReadd, IdleIn, Help, sp_cs_enter
  <2>2. \A v \in Workers : pc'[v] = "release" => pc[v] = "release"
    BY <1>4 DEF Mutator, Park, Released, Back, sp_slab_release_worker, sp_native_enter, sp_worker_idle,
       sp_out_leave_locked, IdleLook, IdleReadd, IdleIn, Help, sp_cs_enter, sp_cs_join_locked, TypeOK
  <2> QED BY <2>1, <2>2 DEF ReleaseSettled
<1>5. ASSUME NEW w \in Workers, Collector(w), ~ sp_sched_conc_start(w)
      PROVE  ReleaseSettled'
  <2>1. tasks' = tasks /\ claimed' = claimed
    BY <1>5 DEF Collector, Raise, AllStopped, SettleLook, SettleRunning, AskHelp, WaitDone, HelpEnds, Apply,
       Mark, BarrierEnd
  <2>2. \A v \in Workers : pc'[v] = "release" => pc[v] = "release"
    BY <1>5 DEF Collector, Raise, AllStopped, SettleLook, SettleRunning, AskHelp, WaitDone, HelpEnds, Apply,
       Mark, BarrierEnd, TypeOK
  <2> QED BY <2>1, <2>2 DEF ReleaseSettled
<1>6. ASSUME NEW s \in Sweepers, SweeperWakes(s)
      PROVE  ReleaseSettled'
  BY <1>6, ConstAssumption DEF SweeperWakes, sp_cs_join_locked, TypeOK, ReleaseSettled
<1> QED BY <1>1, <1>2, <1>3, <1>4, <1>5, <1>6 DEF Next

LEMMA TypeStep ==
  ASSUME TypeOK, ShapeInv, WalkInv, CountInv, SettledInv, Next
  PROVE  TypeOK'
<1> USE ConstAssumption DEF Goto, Actors, sweep, world, walks, Labels, Walking
<1>1. ASSUME NEW w \in Workers, Mutator(w)
      PROVE  TypeOK'
  BY <1>1 DEF Mutator, Park, Released, Back, CheckRelease, sp_slab_release_worker, sp_native_enter, sp_worker_idle,
     sp_out_leave_locked, IdleLook, IdleReadd, IdleIn, Help, sp_cs_enter, sp_cs_join_locked, TypeOK
<1>2. ASSUME NEW w \in Workers, Collector(w), ~ sp_sched_conc_start(w)
      PROVE  TypeOK'
  <2>1. CASE Raise(w)
    BY <2>1 DEF Raise, TypeOK
  <2>2. CASE BarrierEnd(w)
    BY <2>2 DEF BarrierEnd, TypeOK
  <2>3. CASE Mark(w)
    BY <2>3 DEF Mark, TypeOK
  <2>4. CASE SettleLook(w) \/ SettleRunning(w) \/ WaitDone(w)
    <3>1. pc' \in [Actors -> Labels]
      BY <2>4 DEF SettleLook, SettleRunning, WaitDone, TypeOK
    <3> QED BY <2>4, <3>1 DEF SettleLook, SettleRunning, WaitDone, TypeOK
  <2>5. CASE AllStopped(w)
    BY <2>5 DEF AllStopped, TypeOK
  <2>6. CASE AskHelp(w)
    BY <2>6 DEF AskHelp, TypeOK
  <2>7. CASE HelpEnds(w)
    BY <2>7 DEF HelpEnds, TypeOK
  <2>8. CASE Apply(w)
    BY <2>8 DEF Apply, TypeOK
  <2> QED BY <1>2, <2>1, <2>2, <2>3, <2>4, <2>5, <2>6, <2>7, <2>8 DEF Collector
<1>3. ASSUME NEW w \in Workers, sp_sched_conc_start(w)
      PROVE  TypeOK'
  <2>1. IsFiniteSet(Tasks)
    BY FS_Interval DEF Tasks
  <2>2. tasks' \subseteq Tasks /\ unclaimed' = Cardinality(tasks')
    BY <1>3 DEF sp_sched_conc_start
  <2>3. unclaimed' \in Nat
    BY <2>1, <2>2, FS_Subset, FS_CardinalityType
  <2> QED BY <1>3, <2>2, <2>3 DEF sp_sched_conc_start, TypeOK
<1>4. ASSUME NEW s \in Sweepers, SweeperWakes(s)
      PROVE  TypeOK'
  BY <1>4 DEF SweeperWakes, sp_cs_join_locked, TypeOK
<1>5. ASSUME NEW a \in Actors, Walk(a)
      PROVE  TypeOK'
  <2>1. (CountInv /\ WalkInv)'
    BY <1>5, WalkWalk
  <2>2. CASE ScanPass(a) \/ ScanFinds(a)
    <3>1. \A t \in Tasks : t \in 0 .. NTasks
      BY DEF Tasks
    <3> QED BY <2>2, <3>1 DEF ScanPass, ScanFinds, TypeOK
  <2>3. CASE Claim(a)
    <3>1. pos[a] + 1 \in Tasks
      BY <2>3 DEF Claim, WalkInv, TypeOK
    <3>2. pos[a] + 1 \in 0 .. NTasks
      BY <3>1 DEF Tasks
    <3> QED BY <2>3, <3>1, <3>2 DEF Claim, TypeOK
  <2>4. CASE TaskDone(a)
    <3>1. pos[a] + 1 \in Tasks
      BY <2>4 DEF TaskDone, WalkInv, TypeOK
    <3>2. pos[a] + 1 \in 0 .. NTasks
      BY <3>1 DEF Tasks
    <3> QED BY <2>4, <3>1, <3>2 DEF TaskDone, TypeOK
  <2>5. CASE Discount(a)
    <3>1. a \in Claiming
      BY <2>5 DEF Discount, Claiming
    <3>2. Cardinality(Claiming) \in Nat \ {0} /\ Cardinality(Open) \in Nat
      BY <3>1, Finite, OneLess, FS_CardinalityType
    <3>3. unclaimed' \in Nat
      BY <2>5, <3>2 DEF Discount, CountInv
    <3> QED BY <2>5, <3>3 DEF Discount, TypeOK
  <2>6. CASE sp_cs_finish(a)
    <3>1. a \in Inside
      BY <2>6 DEF sp_cs_finish, Inside
    <3>2. Cardinality(Inside) \in Nat \ {0} /\ Cardinality(ran[a]) \in Nat
      BY <3>1, Finite, OneLess, FS_CardinalityType
    <3>3. running' \in Nat /\ finished' \in Nat
      BY <2>6, <3>2 DEF sp_cs_finish, CountInv, TypeOK
    <3> QED BY <2>6, <3>3 DEF sp_cs_finish, Left, After, Forget, TypeOK
  <2> QED BY <1>5, <2>2, <2>3, <2>4, <2>5, <2>6 DEF Walk
<1> QED BY <1>1, <1>2, <1>3, <1>4, <1>5 DEF Next

-----------------------------------------------------------------------------
LEMMA InitInv == Init => IInv
<1> SUFFICES ASSUME Init PROVE IInv
  OBVIOUS
<1> USE ConstAssumption DEF Init, Actors, Walking
<1>1. TypeOK
  <2>1. 0 \in 0 .. NTasks /\ 0 \in 0 .. MaxGC /\ 0 \in 0 .. 2 /\ 0 \in Nat
    OBVIOUS
  <2>2. pc \in [Actors -> Labels]
    BY DEF Labels
  <2> QED BY <2>1, <2>2 DEF TypeOK
<1>2. ShapeInv /\ CollInv /\ WorldInv /\ StopInv
  BY DEF ShapeInv, CollInv, WorldInv, StopInv, IsColl, InWalk
<1>3. WalkInv /\ ReleaseSettled
  BY DEF WalkInv, ReleaseSettled
<1>4. Inside = {} /\ Claiming = {} /\ Open = {} /\ Fin = {}
  BY DEF Inside, Claiming, Open, Fin
<1>5. CountInv /\ SettledInv
  BY <1>4, FS_EmptySet DEF CountInv, SettledInv, Settled, AllDone
<1> QED BY <1>1, <1>2, <1>3, <1>5 DEF IInv

LEMMA StepInv == IInv /\ [Next]_vars => IInv'
<1> SUFFICES ASSUME IInv, [Next]_vars PROVE IInv'
  OBVIOUS
<1>1. CASE Next
  <2>1. (ShapeInv /\ CollInv /\ WorldInv /\ StopInv)'
    BY <1>1, WalkWorld, MutatorWorld, CollectorWorld, SweeperWorld DEF Next, IInv
  <2>2. (WalkInv /\ CountInv)'
    BY <1>1, NextWalk DEF IInv
  <2>3. TypeOK' /\ SettledInv' /\ ReleaseSettled'
    BY <1>1, TypeStep, SettledStep, ReleaseStep DEF IInv
  <2> QED BY <2>1, <2>2, <2>3 DEF IInv
<1>2. CASE UNCHANGED vars
  BY <1>2 DEF vars, world, sweep, walks, IInv, TypeOK, ShapeInv, CollInv, WorldInv, StopInv, WalkInv, CountInv,
     SettledInv, ReleaseSettled, IsColl, Parked, OutOf, InWalk, Inside, Claiming, Open, Fin, AllDone, Settled
<1> QED BY <1>1, <1>2

\* The sweep's invariant holds in every behaviour.
LEMMA Invariance == Spec => []IInv
BY InitInv, StepInv, PTL DEF Spec

\* No counter of the sweep falls below zero: no task is claimed twice, and no
\* walk is counted out twice (sp_cs_run_tasks, sp_cs_finish).
THEOREM TypeCorrect == Spec => []TypeOK
<1>1. IInv => TypeOK
  BY DEF IInv
<1> QED BY <1>1, Invariance, PTL

\* Nobody walks the task array while the collector writes the next sweep into
\* it, however late a sweeper thread or a parked helper gets to it.
THEOREM ArrayIsStill == Spec => []ArrayStill
<1>1. IInv => ArrayStill
  <2> SUFFICES ASSUME IInv, NEW c \in Workers, pc[c] = "start", NEW a \in Actors
               PROVE  pc[a] \notin {"scan", "claim", "discount", "task", "chk"}
    BY DEF ArrayStill
  <2>1. pc[a] \notin Walking
    BY DEF IInv, SettledInv, Settled, Inside
  <2>2. a \in Workers => pc[a] # "chk"
    BY DEF IInv, StopInv, IsColl, WorldInv, Parked, OutOf, InWalk, Walking
  <2>3. a \in Sweepers => pc[a] # "chk"
    BY DEF IInv, ShapeInv, Walking
  <2> QED BY <2>1, <2>2, <2>3 DEF Walking, Actors
<1> QED BY <1>1, Invariance, PTL

\* What the collector applies, and the heap it then marks, is of a sweep that
\* is complete, though it may have read the two counters without the lock.
THEOREM AppliedIsComplete == Spec => []SweepComplete
<1>1. IInv => SweepComplete
  BY DEF IInv, SweepComplete, SettledInv, Settled, AllDone, Fin, Inside, Walking
<1> QED BY <1>1, Invariance, PTL

\* A worker hands its chunks back only when no other thread sweeps them.
THEOREM ReleasedIsSettled == Spec => []ReleaseSettled
<1>1. IInv => ReleaseSettled
  BY DEF IInv
<1> QED BY <1>1, Invariance, PTL
=============================================================================
