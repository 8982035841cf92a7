-------------------------- MODULE StopWorld_proofs --------------------------
(***************************************************************************)
(* StopWorld's safety properties, for any number of workers and any bounds.*)
(*                                                                         *)
(* The invariant is IInv of StopWorld.  Most actions are the step of one   *)
(* worker: the lemma WorkerStep carries IInv over such a step from what it *)
(* leaves alone (Others), what it does to the worker (Own) and to the two  *)
(* counts (Counted), and the lemma of an action shows these three.  The    *)
(* actions that raise the barrier, end it, or change the pool have proofs  *)
(* of their own.  FullMeansAll is the argument of the barrier: counts that *)
(* are exact and reach active - 1 leave no worker in the world.            *)
(***************************************************************************)
EXTENDS StopWorld, FiniteSetTheorems, TLAPS

USE DEF Main

\* The workers are a finite interval of naturals, main among them.
LEMMA WorkersFinite ==
  /\ IsFiniteSet(Workers)
  /\ Main \in Workers
  /\ \A w : w \in Workers <=> w \in Nat /\ w < MaxWorkers
  /\ MaxWorkers \in Nat /\ MaxDepth \in Nat
BY FS_Interval, ConstAssumption DEF Workers

\* Moving one worker into or out of a set changes its size by one.
LEMMA CardChange ==
  ASSUME NEW P \in SUBSET Workers, NEW Q \in SUBSET Workers, NEW w \in Workers,
         \A v \in Workers : v # w => (v \in P <=> v \in Q)
  PROVE  /\ Cardinality(P) \in Nat /\ Cardinality(Q) \in Nat
         /\ w \in P /\ w \notin Q => Cardinality(Q) = Cardinality(P) - 1
         /\ w \notin P /\ w \in Q => Cardinality(Q) = Cardinality(P) + 1
         /\ (w \in P <=> w \in Q) => Cardinality(Q) = Cardinality(P)
<1>1. IsFiniteSet(P) /\ IsFiniteSet(Q)
  BY FS_Subset, WorkersFinite
<1>2. Cardinality(P) \in Nat /\ Cardinality(Q) \in Nat
  BY <1>1, FS_CardinalityType
<1>3. ASSUME w \in P, w \notin Q PROVE Cardinality(Q) = Cardinality(P) - 1
  <2>1. Q = P \ {w}
    BY <1>3
  <2> QED BY <2>1, <1>1, <1>3, FS_RemoveElement
<1>4. ASSUME w \notin P, w \in Q PROVE Cardinality(Q) = Cardinality(P) + 1
  <2>1. Q = P \cup {w}
    BY <1>4
  <2> QED BY <2>1, <1>1, <1>4, FS_AddElement
<1>5. ASSUME w \in P <=> w \in Q PROVE Cardinality(Q) = Cardinality(P)
  <2>1. Q = P
    BY <1>5
  <2> QED BY <2>1
<1> QED BY <1>1, <1>2, <1>3, <1>4, <1>5

\* The program starts in the invariant: main alone and no pool (Init).
LEMMA InitIInv == Init => IInv
<1> SUFFICES ASSUME Init PROVE IInv
  OBVIOUS
<1>1. TypeOK
  <2>1. /\ pc \in [Workers -> Labels]
        /\ native_out \in [Workers -> {"IN", "IDLE", "NATIVE"}]
        /\ my_epoch \in [Workers -> Nat]
        /\ cont \in [Workers -> {"run", "loop", "enter", "fork"}]
    BY DEF Init, Labels
  <2>2. /\ depth \in [Workers -> 0 .. MaxDepth]
        /\ noop \in [Workers -> BOOLEAN]
        /\ saved \in [Workers -> Seq(1 .. MaxDepth)]
    BY WorkersFinite DEF Init
  <2> QED BY <2>1, <2>2, WorkersFinite DEF Init, TypeOK
<1>2. LocalInv /\ PoolInv /\ EpochInv
  BY WorkersFinite DEF Init, LocalInv, Local, PoolInv, EpochInv, InWorld,
     Idling, Raiser
<1>3. RaiserInv /\ WorldStopped /\ ParkedRecorded /\ RootsMarked
  BY DEF Init, RaiserInv, OneBarrier, WorldStopped, ParkedRecorded,
     RootsMarked, Raiser, At, ParkedNow
<1>4. ParkedNow = {} /\ Out = {}
  BY DEF Init, ParkedNow, Out, At
<1>5. CountsExact
  BY <1>4, FS_EmptySet DEF Init, CountsExact
<1> QED BY <1>1, <1>2, <1>3, <1>5 DEF IInv

\* The types but for the two counts, whose own follows from CountsExact.
Types ==
  /\ started \in BOOLEAN /\ shutdown \in BOOLEAN
  /\ active \in 1 .. MaxWorkers
  /\ stw_active \in BOOLEAN /\ forking \in BOOLEAN
  /\ stw_epoch \in Nat
  /\ native_out \in [Workers -> {"IN", "IDLE", "NATIVE"}]
  /\ parked_fiber \in SUBSET Workers
  /\ pc \in [Workers -> Labels]
  /\ my_epoch \in [Workers -> Nat]
  /\ cont \in [Workers -> {"run", "loop", "enter", "fork"}]
  /\ depth \in [Workers -> 0 .. MaxDepth]
  /\ noop \in [Workers -> BOOLEAN]
  /\ saved \in [Workers -> Seq(1 .. MaxDepth)]

IsParked(w) == pc[w] \in {"parked", "outparked"} /\ my_epoch[w] = stw_epoch
IsOut(w) == \/ pc[w] \in {"idle_enter", "idle_signal", "idle", "leave"}
            \/ pc[w] = "native" /\ ~noop[w]

\* What a worker's step leaves alone.
Others(w) ==
  /\ started' = started /\ active' = active /\ stw_active' = stw_active
  /\ stw_epoch' = stw_epoch /\ forking' = forking
  /\ parked_fiber \subseteq parked_fiber'
  /\ \A v \in Workers : v # w =>
       /\ pc'[v] = pc[v] \/ (pc[v] = "wait" /\ pc'[v] = "woken")
       /\ native_out'[v] = native_out[v] /\ my_epoch'[v] = my_epoch[v]
       /\ cont'[v] = cont[v] /\ depth'[v] = depth[v] /\ noop'[v] = noop[v]

\* What it does to the worker itself.
Own(w) ==
  /\ pc[w] \notin Raiser \cup {"none"} /\ pc'[w] \notin Raiser \cup {"none"}
  /\ my_epoch'[w] <= stw_epoch
  /\ Local(w)'
  /\ ~started /\ w = Main =>
       /\ pc'[w] \in {"run", "native", "sweep"}
       /\ pc'[w] = "sweep" => cont'[w] = "run"
  /\ stw_active /\ Stopped(w) => Stopped(w)'
  /\ stw_active /\ pc'[w] = "parked" /\ IsParked(w)' => w \in parked_fiber'

\* What it does to the counts.
Counted(w) ==
  /\ IsParked(w) /\ ~IsParked(w)' => nparked' = nparked - 1
  /\ ~IsParked(w) /\ IsParked(w)' => nparked' = nparked + 1
  /\ (IsParked(w) <=> IsParked(w)') => nparked' = nparked
  /\ IsOut(w) /\ ~IsOut(w)' => nnative' = nnative - 1
  /\ ~IsOut(w) /\ IsOut(w)' => nnative' = nnative + 1
  /\ (IsOut(w) <=> IsOut(w)') => nnative' = nnative

\* The invariant gives the types.
LEMMA TypesHold == IInv => Types
BY DEF IInv, TypeOK, Types

\* Before the pool is started, and while main is not collecting, no barrier
\* is up: sp_native_enter may then skip the count.
LEMMA NoPoolNoBarrier ==
  ASSUME IInv, ~started, pc[Main] \notin Raiser
  PROVE  ~stw_active
<1>1. \A v \in Workers : v # Main => pc[v] = "none"
  BY WorkersFinite DEF IInv, PoolInv
<1> QED BY <1>1 DEF IInv, RaiserInv, OneBarrier, Raiser

\* A step that signals g_stw_request keeps pc well typed.
LEMMA SignalType ==
  ASSUME NEW w \in Workers, NEW l \in Labels, NEW sig, Types,
         GotoSignal(w, l, sig)
  PROVE  pc' \in [Workers -> Labels]
<1>1. "woken" \in Labels /\ pc \in [Workers -> Labels]
  BY DEF Types, Labels
<1> QED BY <1>1 DEF GotoSignal

\* What parking at the barrier (sp_stw_park_locked) assigns has its type.
LEMMA ParkType ==
  ASSUME Types, NEW w \in Workers, NEW c \in {"run", "loop", "enter", "fork"},
         Park(w, c)
  PROVE  /\ pc' \in [Workers -> Labels]
         /\ my_epoch' \in [Workers -> Nat]
         /\ cont' \in [Workers -> {"run", "loop", "enter", "fork"}]
         /\ parked_fiber' \in SUBSET Workers
<1>1. "parked" \in Labels
  BY DEF Labels
<1>2. GotoSignal(w, "parked", Full(nparked + 1, nnative))
  BY DEF Park
<1>3. pc' \in [Workers -> Labels]
  BY <1>1, <1>2, SignalType
<1>4. my_epoch \in [Workers -> Nat] /\ stw_epoch \in Nat
  BY DEF Types
<1>5. my_epoch' \in [Workers -> Nat]
  BY <1>4 DEF Park
<1>6. cont' \in [Workers -> {"run", "loop", "enter", "fork"}]
  BY DEF Park, Types
<1>7. parked_fiber' \in SUBSET Workers
  BY DEF Park, Types
<1> QED BY <1>3, <1>5, <1>6, <1>7

\* A step of one worker that adjusts g_nparked and g_nnative by its own
\* coming and going keeps both counts exact.
LEMMA CountsFromMembers ==
  ASSUME Types, Types', CountsExact, NEW w \in Workers,
         \A v \in Workers : v # w => /\ IsParked(v) <=> IsParked(v)'
                                     /\ IsOut(v) <=> IsOut(v)',
         Counted(w)
  PROVE  CountsExact' /\ nparked' \in Nat /\ nnative' \in Nat
<1>1. /\ ParkedNow \in SUBSET Workers /\ ParkedNow' \in SUBSET Workers
      /\ Out \in SUBSET Workers /\ Out' \in SUBSET Workers
  BY DEF ParkedNow, Out
<1>2. \A v \in Workers : /\ v \in ParkedNow <=> IsParked(v)
                         /\ v \in ParkedNow' <=> IsParked(v)'
                         /\ v \in Out <=> IsOut(v)
                         /\ v \in Out' <=> IsOut(v)'
  BY DEF ParkedNow, Out, IsParked, IsOut, At
<1>3. nparked' = Cardinality(ParkedNow') /\ nparked' \in Nat
  <2>1. \A v \in Workers : v # w => (v \in ParkedNow <=> v \in ParkedNow')
    BY <1>2
  <2>2. /\ Cardinality(ParkedNow) \in Nat /\ Cardinality(ParkedNow') \in Nat
        /\ w \in ParkedNow /\ w \notin ParkedNow'
             => Cardinality(ParkedNow') = Cardinality(ParkedNow) - 1
        /\ w \notin ParkedNow /\ w \in ParkedNow'
             => Cardinality(ParkedNow') = Cardinality(ParkedNow) + 1
        /\ (w \in ParkedNow <=> w \in ParkedNow')
             => Cardinality(ParkedNow') = Cardinality(ParkedNow)
    BY <1>1, <2>1, CardChange
  <2> QED BY <1>2, <2>2 DEF Counted, CountsExact
<1>4. nnative' = Cardinality(Out') /\ nnative' \in Nat
  <2>1. \A v \in Workers : v # w => (v \in Out <=> v \in Out')
    BY <1>2
  <2>2. /\ Cardinality(Out) \in Nat /\ Cardinality(Out') \in Nat
        /\ w \in Out /\ w \notin Out'
             => Cardinality(Out') = Cardinality(Out) - 1
        /\ w \notin Out /\ w \in Out'
             => Cardinality(Out') = Cardinality(Out) + 1
        /\ (w \in Out <=> w \in Out')
             => Cardinality(Out') = Cardinality(Out)
    BY <1>1, <2>1, CardChange
  <2> QED BY <1>2, <2>2 DEF Counted, CountsExact
<1> QED BY <1>3, <1>4 DEF CountsExact

\* A step of one worker that leaves the barrier up or down, and moves the
\* worker and the counts together, keeps the invariant.
LEMMA WorkerStep ==
  ASSUME IInv, Types', NEW w \in Workers, Others(w), Own(w), Counted(w)
  PROVE  IInv'
<1>0. Types
  BY DEF IInv, TypeOK, Types
<1>1. CountsExact' /\ nparked' \in Nat /\ nnative' \in Nat
  <2>1. \A v \in Workers : v # w => /\ IsParked(v) <=> IsParked(v)'
                                    /\ IsOut(v) <=> IsOut(v)'
    BY DEF Others, IsParked, IsOut
  <2> QED BY <1>0, <2>1, CountsFromMembers DEF IInv
<1>2. TypeOK'
  BY <1>1 DEF Types, TypeOK
<1>3. LocalInv'
  <2> SUFFICES ASSUME NEW v \in Workers PROVE Local(v)'
    BY DEF LocalInv
  <2>1. CASE v = w
    BY <2>1 DEF Own
  <2>2. CASE v # w
    BY <2>2 DEF Others, IInv, LocalInv, Local, InWorld, Idling
  <2> QED BY <2>1, <2>2
<1>4. PoolInv'
  <2>1. \A v \in Workers : pc'[v] = "none" <=> v >= active'
    BY DEF IInv, PoolInv, Others, Own
  <2>2. ~started' => /\ active' = 1
                     /\ pc'[Main] \in {"run", "native", "sweep"} \cup Raiser
                     /\ pc'[Main] = "sweep" => cont'[Main] = "run"
    <3>1. CASE w = Main
      BY <3>1 DEF IInv, PoolInv, Others, Own
    <3>2. CASE w # Main
      BY <3>2, <1>0, WorkersFinite DEF IInv, PoolInv, Others, Own, Types, Raiser
    <3> QED BY <3>1, <3>2
  <2> QED BY <2>1, <2>2 DEF PoolInv
<1>5. EpochInv'
  BY DEF IInv, EpochInv, Others, Own
<1>6. \A v \in Workers : pc'[v] \in Raiser <=> pc[v] \in Raiser
  BY DEF Others, Own, Raiser
<1>7. RaiserInv'
  BY <1>6 DEF IInv, RaiserInv, OneBarrier, Others, Raiser
<1>8. \A c \in Workers : At(c, "collect")' => At(c, "collect") /\ c # w
  BY DEF At, Others, Own, Raiser
<1>9. WorldStopped'
  <2> SUFFICES ASSUME NEW c \in Workers, At(c, "collect")'
               PROVE  /\ stw_active'
                      /\ \A v \in 0 .. (active' - 1) : v # c => Stopped(v)'
    BY DEF WorldStopped
  <2>0. stw_active' /\ stw_active /\ At(c, "collect")
    BY <1>8 DEF IInv, WorldStopped, Others
  <2> SUFFICES ASSUME NEW v \in 0 .. (active' - 1), v # c
               PROVE  Stopped(v)'
    BY <2>0
  <2>4. v \in 0 .. (active - 1) /\ active \in 1 .. MaxWorkers
    BY <1>0 DEF Others, Types
  <2>5. v \in Workers
    BY <2>4, WorkersFinite
  <2>1. stw_active /\ Stopped(v) /\ v \in Workers
    BY <2>0, <2>4, <2>5 DEF IInv, WorldStopped
  <2>2. CASE v = w
    BY <2>1, <2>2 DEF Own, Others
  <2>3. CASE v # w
    BY <2>1, <2>3 DEF Others, Stopped, ParkedNow, Out, At
  <2> QED BY <2>2, <2>3
<1>10. ParkedRecorded'
  <2> SUFFICES ASSUME stw_active', NEW v \in ParkedNow', At(v, "parked")'
               PROVE  v \in parked_fiber'
    BY DEF ParkedRecorded
  <2>1. v \in Workers
    BY DEF ParkedNow
  <2>2. CASE v = w
    BY <2>1, <2>2 DEF Own, Others, At, ParkedNow, IsParked
  <2>3. CASE v # w
    BY <2>1, <2>3 DEF IInv, ParkedRecorded, Others, At, ParkedNow
  <2> QED BY <2>2, <2>3
<1>11. RootsMarked'
  BY <1>8 DEF IInv, RootsMarked, Others
<1> QED BY <1>1, <1>2, <1>3, <1>4, <1>5, <1>7, <1>9, <1>10, <1>11 DEF IInv

\* sp_safepoint keeps the invariant.
LEMMA Step_sp_safepoint ==
  ASSUME IInv, NEW w \in Workers, sp_safepoint(w)
  PROVE  IInv'
<1> USE DEF sp_safepoint, Park, GotoSignal, At, Types, pool, barrier, native
<1>0. Types /\ Local(w)
  BY TypesHold DEF IInv, LocalInv
<1>1. Types'
  BY <1>0 DEF Labels
<1>2. Others(w)
  BY <1>0 DEF Others
<1>3. Own(w)
  BY <1>0, WorkersFinite, NoPoolNoBarrier DEF Own, Local, InWorld, Idling,
     Raiser, Stopped, ParkedNow, Out, IsParked, IInv, EpochInv, PoolInv
<1>4. Counted(w)
  BY <1>0, WorkersFinite DEF Counted, IsParked, IsOut, Local, InWorld, Idling
<1> QED BY <1>1, <1>2, <1>3, <1>4, WorkerStep

\* Released keeps the invariant.
LEMMA Step_Released ==
  ASSUME IInv, NEW w \in Workers, Released(w)
  PROVE  IInv'
<1> USE DEF Released, Goto, At, Types, pool, barrier, native
<1>0. Types /\ Local(w)
  BY TypesHold DEF IInv, LocalInv
<1>1. Types'
  <2>1. cont[w] \in Labels /\ "sweep" \in Labels
    BY <1>0 DEF Labels
  <2> QED BY <1>0, <2>1
<1>2. Others(w)
  BY <1>0 DEF Others
<1>3. Own(w)
  BY <1>0, WorkersFinite, NoPoolNoBarrier DEF Own, Local, InWorld, Idling,
     Raiser, Stopped, ParkedNow, Out, IsParked, IInv, EpochInv, PoolInv
<1>4. Counted(w)
  BY <1>0, WorkersFinite DEF Counted, IsParked, IsOut, Local, InWorld, Idling
<1> QED BY <1>1, <1>2, <1>3, <1>4, WorkerStep

\* sp_cs_owner_run keeps the invariant.
LEMMA Step_sp_cs_owner_run ==
  ASSUME IInv, NEW w \in Workers, sp_cs_owner_run(w)
  PROVE  IInv'
<1> USE DEF sp_cs_owner_run, Goto, At, Types, pool, barrier, native
<1>0. Types /\ Local(w)
  BY TypesHold DEF IInv, LocalInv
<1>1. Types'
  BY <1>0 DEF Labels
<1>2. Others(w)
  BY <1>0 DEF Others
<1>3. Own(w)
  BY <1>0, WorkersFinite, NoPoolNoBarrier DEF Own, Local, InWorld, Idling,
     Raiser, Stopped, ParkedNow, Out, IsParked, IInv, EpochInv, PoolInv
<1>4. Counted(w)
  BY <1>0, WorkersFinite DEF Counted, IsParked, IsOut, Local, InWorld, Idling
<1> QED BY <1>1, <1>2, <1>3, <1>4, WorkerStep

\* sp_out_leave_locked keeps the invariant.
LEMMA Step_sp_out_leave_locked ==
  ASSUME IInv, NEW w \in Workers, sp_out_leave_locked(w)
  PROVE  IInv'
<1> USE DEF sp_out_leave_locked, Goto, GotoSignal, At, Types, pool, barrier,
   native
<1>0. Types /\ Local(w)
  BY TypesHold DEF IInv, LocalInv
<1>1. Types'
  <2>1. /\ cont[w] \in Labels /\ "sweep" \in Labels
        /\ "outparked" \in Labels /\ "woken" \in Labels
    BY <1>0 DEF Labels
  <2>2. CASE stw_active
    <3>1. pc' \in [Workers -> Labels]
      BY <1>0, <2>1, <2>2
    <3> QED BY <1>0, <2>2, <3>1
  <2>3. CASE ~stw_active
    <3>0. PICK l \in {"sweep", cont[w]} : pc' = [pc EXCEPT ![w] = l]
      BY <2>3
    <3>1. pc' \in [Workers -> Labels]
      BY <1>0, <2>1, <3>0
    <3>2. native_out' \in [Workers -> {"IN", "IDLE", "NATIVE"}]
      BY <1>0, <2>3
    <3> QED BY <1>0, <2>3, <3>1, <3>2
  <2> QED BY <2>2, <2>3
<1>2. Others(w)
  BY <1>0 DEF Others
<1>3. Own(w)
  <2>0. /\ pc[w] = "leave" /\ depth[w] = 0 /\ ~noop[w]
        /\ depth'[w] = depth[w] /\ noop'[w] = noop[w] /\ cont'[w] = cont[w]
        /\ native_out[w] # "IN" /\ cont[w] \in {"run", "loop"}
        /\ my_epoch[w] <= stw_epoch /\ stw_epoch \in Nat
        /\ stw_epoch' = stw_epoch
    BY <1>0 DEF Local, IInv, EpochInv
  <2>1. started
    BY <2>0, WorkersFinite DEF IInv, PoolInv, Raiser, Local
  <2>2. CASE stw_active
    <3>1. /\ pc'[w] = "outparked" /\ native_out'[w] = native_out[w]
          /\ my_epoch'[w] = stw_epoch
      BY <1>0, <2>2
    <3> HIDE DEF sp_out_leave_locked, Types
    <3>2. Local(w)'
      BY <2>0, <3>1 DEF Local, InWorld, Idling
    <3>3. Stopped(w)'
      BY <2>0, <3>1 DEF Stopped, ParkedNow
    <3> QED BY <2>0, <2>1, <3>1, <3>2, <3>3 DEF Own, Raiser
  <2>3. CASE ~stw_active
    <3>1. /\ pc'[w] \in {"sweep", cont[w]} /\ native_out'[w] = "IN"
          /\ my_epoch'[w] = my_epoch[w]
      BY <1>0, <2>3
    <3> HIDE DEF sp_out_leave_locked, Types
    <3>2. Local(w)'
      BY <2>0, <3>1 DEF Local, InWorld, Idling
    <3> QED BY <2>0, <2>1, <2>3, <3>1, <3>2 DEF Own, Raiser
  <2> QED BY <2>2, <2>3
<1>4. Counted(w)
  BY <1>0, WorkersFinite DEF Counted, IsParked, IsOut, Local, InWorld, Idling
<1> QED BY <1>1, <1>2, <1>3, <1>4, WorkerStep

\* NativeEntered keeps the invariant.
LEMMA Step_NativeEntered ==
  ASSUME IInv, NEW w \in Workers, NativeEntered(w)
  PROVE  IInv'
<1> USE DEF NativeEntered, OutEnter, GotoSignal, At, Types, pool, barrier,
   native
<1>0. Types /\ Local(w)
  BY TypesHold DEF IInv, LocalInv
<1>1. Types'
  BY <1>0 DEF Labels
<1>2. Others(w)
  BY <1>0 DEF Others
<1>3. Own(w)
  BY <1>0, WorkersFinite, NoPoolNoBarrier DEF Own, Local, InWorld, Idling,
     Raiser, Stopped, ParkedNow, Out, IsParked, IInv, EpochInv, PoolInv
<1>4. Counted(w)
  BY <1>0, WorkersFinite DEF Counted, IsParked, IsOut, Local, InWorld, Idling
<1> QED BY <1>1, <1>2, <1>3, <1>4, WorkerStep

\* NestedEnter keeps the invariant.
LEMMA Step_NestedEnter ==
  ASSUME IInv, NEW w \in Workers, NestedEnter(w)
  PROVE  IInv'
<1> USE DEF NestedEnter, At, Types, pool, barrier, native
<1>0. Types /\ Local(w)
  BY TypesHold DEF IInv, LocalInv
<1>1. Types'
  <2>1. depth[w] + 1 \in 0 .. MaxDepth
    BY <1>0, WorkersFinite
  <2> QED BY <1>0, <2>1
<1>2. Others(w)
  BY <1>0 DEF Others
<1>3. Own(w)
  BY <1>0, WorkersFinite, NoPoolNoBarrier DEF Own, Local, InWorld, Idling,
     Raiser, Stopped, ParkedNow, Out, IsParked, IInv, EpochInv, PoolInv
<1>4. Counted(w)
  BY <1>0, WorkersFinite DEF Counted, IsParked, IsOut, Local, InWorld, Idling
<1> QED BY <1>1, <1>2, <1>3, <1>4, WorkerStep

\* sp_native_leave keeps the invariant.
LEMMA Step_sp_native_leave ==
  ASSUME IInv, NEW w \in Workers, sp_native_leave(w)
  PROVE  IInv'
<1> USE DEF sp_native_leave, Goto, At, Types, pool, barrier, native
<1>0. Types /\ Local(w)
  BY TypesHold DEF IInv, LocalInv
<1>1. Types'
  <2>1. depth[w] - 1 \in 0 .. MaxDepth
    BY <1>0, WorkersFinite DEF Local
  <2>2. (noop[w] /\ depth[w] > 1) \in BOOLEAN
    OBVIOUS
  <2> QED BY <1>0, <2>1, <2>2 DEF Labels
<1>2. Others(w)
  BY <1>0 DEF Others
<1>3. Own(w)
  BY <1>0, WorkersFinite, NoPoolNoBarrier DEF Own, Local, InWorld, Idling,
     Raiser, Stopped, ParkedNow, Out, IsParked, IInv, EpochInv, PoolInv
<1>4. Counted(w)
  BY <1>0, WorkersFinite DEF Counted, IsParked, IsOut, Local, InWorld, Idling
<1> QED BY <1>1, <1>2, <1>3, <1>4, WorkerStep

\* sp_native_callback_enter keeps the invariant.
LEMMA Step_sp_native_callback_enter ==
  ASSUME IInv, NEW w \in Workers, sp_native_callback_enter(w)
  PROVE  IInv'
<1> USE DEF sp_native_callback_enter, Goto, At, Types, pool, barrier, native
<1>0. Types /\ Local(w)
  BY TypesHold DEF IInv, LocalInv
<1>1. Types'
  <2>1. 0 \in 0 .. MaxDepth /\ depth[w] \in 1 .. MaxDepth
    BY <1>0, WorkersFinite DEF Local
  <2>2. <<depth[w]>> \o saved[w] \in Seq(1 .. MaxDepth)
    BY <1>0, <2>1
  <2> QED BY <1>0, <2>1, <2>2 DEF Labels
<1>2. Others(w)
  BY <1>0 DEF Others
<1>3. Own(w)
  BY <1>0, WorkersFinite, NoPoolNoBarrier DEF Own, Local, InWorld, Idling,
     Raiser, Stopped, ParkedNow, Out, IsParked, IInv, EpochInv, PoolInv
<1>4. Counted(w)
  BY <1>0, WorkersFinite DEF Counted, IsParked, IsOut, Local, InWorld, Idling
<1> QED BY <1>1, <1>2, <1>3, <1>4, WorkerStep

\* CallbackRaise keeps the invariant.
LEMMA Step_CallbackRaise ==
  ASSUME IInv, NEW w \in Workers, CallbackRaise(w)
  PROVE  IInv'
<1> USE DEF CallbackRaise, At, Types, pool, barrier, native
<1>0. Types /\ Local(w)
  BY TypesHold DEF IInv, LocalInv
<1>1. Types'
  BY <1>0 DEF Labels
<1>2. Others(w)
  BY <1>0 DEF Others
<1>3. Own(w)
  BY <1>0, WorkersFinite, NoPoolNoBarrier DEF Own, Local, InWorld, Idling,
     Raiser, Stopped, ParkedNow, Out, IsParked, IInv, EpochInv, PoolInv
<1>4. Counted(w)
  BY <1>0, WorkersFinite DEF Counted, IsParked, IsOut, Local, InWorld, Idling
<1> QED BY <1>1, <1>2, <1>3, <1>4, WorkerStep

\* ToLoop keeps the invariant.
LEMMA Step_ToLoop ==
  ASSUME IInv, NEW w \in Workers, ToLoop(w)
  PROVE  IInv'
<1> USE DEF ToLoop, Goto, At, Types, pool, barrier, native
<1>0. Types /\ Local(w)
  BY TypesHold DEF IInv, LocalInv
<1>1. Types'
  BY <1>0 DEF Labels
<1>2. Others(w)
  BY <1>0 DEF Others
<1>3. Own(w)
  BY <1>0, WorkersFinite, NoPoolNoBarrier DEF Own, Local, InWorld, Idling,
     Raiser, Stopped, ParkedNow, Out, IsParked, IInv, EpochInv, PoolInv
<1>4. Counted(w)
  BY <1>0, WorkersFinite DEF Counted, IsParked, IsOut, Local, InWorld, Idling
<1> QED BY <1>1, <1>2, <1>3, <1>4, WorkerStep

\* Pick keeps the invariant.
LEMMA Step_Pick ==
  ASSUME IInv, NEW w \in Workers, Pick(w)
  PROVE  IInv'
<1> USE DEF Pick, Goto, At, Types, pool, barrier, native
<1>0. Types /\ Local(w)
  BY TypesHold DEF IInv, LocalInv
<1>1. Types'
  BY <1>0 DEF Labels
<1>2. Others(w)
  BY <1>0 DEF Others
<1>3. Own(w)
  BY <1>0, WorkersFinite, NoPoolNoBarrier DEF Own, Local, InWorld, Idling,
     Raiser, Stopped, ParkedNow, Out, IsParked, IInv, EpochInv, PoolInv
<1>4. Counted(w)
  BY <1>0, WorkersFinite DEF Counted, IsParked, IsOut, Local, InWorld, Idling
<1> QED BY <1>1, <1>2, <1>3, <1>4, WorkerStep

\* EvWaitEnd keeps the invariant.
LEMMA Step_EvWaitEnd ==
  ASSUME IInv, NEW w \in Workers, EvWaitEnd(w)
  PROVE  IInv'
<1> USE DEF EvWaitEnd, Goto, At, Types, pool, barrier, native
<1>0. Types /\ Local(w)
  BY TypesHold DEF IInv, LocalInv
<1>1. Types'
  BY <1>0 DEF Labels
<1>2. Others(w)
  BY <1>0 DEF Others
<1>3. Own(w)
  BY <1>0, WorkersFinite, NoPoolNoBarrier DEF Own, Local, InWorld, Idling,
     Raiser, Stopped, ParkedNow, Out, IsParked, IInv, EpochInv, PoolInv
<1>4. Counted(w)
  BY <1>0, WorkersFinite DEF Counted, IsParked, IsOut, Local, InWorld, Idling
<1> QED BY <1>1, <1>2, <1>3, <1>4, WorkerStep

\* IdleEnter keeps the invariant.
LEMMA Step_IdleEnter ==
  ASSUME IInv, NEW w \in Workers, IdleEnter(w)
  PROVE  IInv'
<1> USE DEF IdleEnter, Goto, At, Types, pool, barrier, native
<1>0. Types /\ Local(w)
  BY TypesHold DEF IInv, LocalInv
<1>1. Types'
  BY <1>0 DEF Labels
<1>2. Others(w)
  BY <1>0 DEF Others
<1>3. Own(w)
  BY <1>0, WorkersFinite, NoPoolNoBarrier DEF Own, Local, InWorld, Idling,
     Raiser, Stopped, ParkedNow, Out, IsParked, IInv, EpochInv, PoolInv
<1>4. Counted(w)
  BY <1>0, WorkersFinite DEF Counted, IsParked, IsOut, Local, InWorld, Idling
<1> QED BY <1>1, <1>2, <1>3, <1>4, WorkerStep

\* IdleCheck keeps the invariant.
LEMMA Step_IdleCheck ==
  ASSUME IInv, NEW w \in Workers, IdleCheck(w)
  PROVE  IInv'
<1> USE DEF IdleCheck, Goto, At, Types, pool, barrier, native
<1>0. Types /\ Local(w)
  BY TypesHold DEF IInv, LocalInv
<1>1. Types'
  BY <1>0 DEF Labels
<1>2. Others(w)
  BY <1>0 DEF Others
<1>3. Own(w)
  BY <1>0, WorkersFinite, NoPoolNoBarrier DEF Own, Local, InWorld, Idling,
     Raiser, Stopped, ParkedNow, Out, IsParked, IInv, EpochInv, PoolInv
<1>4. Counted(w)
  BY <1>0, WorkersFinite DEF Counted, IsParked, IsOut, Local, InWorld, Idling
<1> QED BY <1>1, <1>2, <1>3, <1>4, WorkerStep

\* IdleSignal keeps the invariant.
LEMMA Step_IdleSignal ==
  ASSUME IInv, NEW w \in Workers, IdleSignal(w)
  PROVE  IInv'
<1> USE DEF IdleSignal, GotoSignal, At, Types, pool, barrier, native
<1>0. Types /\ Local(w)
  BY TypesHold DEF IInv, LocalInv
<1>1. Types'
  BY <1>0 DEF Labels
<1>2. Others(w)
  BY <1>0 DEF Others
<1>3. Own(w)
  BY <1>0, WorkersFinite, NoPoolNoBarrier DEF Own, Local, InWorld, Idling,
     Raiser, Stopped, ParkedNow, Out, IsParked, IInv, EpochInv, PoolInv
<1>4. Counted(w)
  BY <1>0, WorkersFinite DEF Counted, IsParked, IsOut, Local, InWorld, Idling
<1> QED BY <1>1, <1>2, <1>3, <1>4, WorkerStep

\* IdleWake keeps the invariant.
LEMMA Step_IdleWake ==
  ASSUME IInv, NEW w \in Workers, IdleWake(w)
  PROVE  IInv'
<1> USE DEF IdleWake, Goto, At, Types, pool, barrier, native
<1>0. Types /\ Local(w)
  BY TypesHold DEF IInv, LocalInv
<1>1. Types'
  BY <1>0 DEF Labels
<1>2. Others(w)
  BY <1>0 DEF Others
<1>3. Own(w)
  BY <1>0, WorkersFinite, NoPoolNoBarrier DEF Own, Local, InWorld, Idling,
     Raiser, Stopped, ParkedNow, Out, IsParked, IInv, EpochInv, PoolInv
<1>4. Counted(w)
  BY <1>0, WorkersFinite DEF Counted, IsParked, IsOut, Local, InWorld, Idling
<1> QED BY <1>1, <1>2, <1>3, <1>4, WorkerStep

\* IdleReturn keeps the invariant.
LEMMA Step_IdleReturn ==
  ASSUME IInv, NEW w \in Workers, IdleReturn(w)
  PROVE  IInv'
<1> USE DEF IdleReturn, Goto, At, Types, pool, barrier, native
<1>0. Types /\ Local(w)
  BY TypesHold DEF IInv, LocalInv
<1>1. Types'
  BY <1>0 DEF Labels
<1>2. Others(w)
  BY <1>0 DEF Others
<1>3. Own(w)
  BY <1>0, WorkersFinite, NoPoolNoBarrier DEF Own, Local, InWorld, Idling,
     Raiser, Stopped, ParkedNow, Out, IsParked, IInv, EpochInv, PoolInv
<1>4. Counted(w)
  BY <1>0, WorkersFinite DEF Counted, IsParked, IsOut, Local, InWorld, Idling
<1> QED BY <1>1, <1>2, <1>3, <1>4, WorkerStep

\* IdleReadd keeps the invariant.
LEMMA Step_IdleReadd ==
  ASSUME IInv, NEW w \in Workers, IdleReadd(w)
  PROVE  IInv'
<1> USE DEF IdleReadd, Goto, At, Types, pool, barrier, native
<1>0. Types /\ Local(w)
  BY TypesHold DEF IInv, LocalInv
<1>1. Types'
  BY <1>0 DEF Labels
<1>2. Others(w)
  BY <1>0 DEF Others
<1>3. Own(w)
  BY <1>0, WorkersFinite, NoPoolNoBarrier DEF Own, Local, InWorld, Idling,
     Raiser, Stopped, ParkedNow, Out, IsParked, IInv, EpochInv, PoolInv
<1>4. Counted(w)
  BY <1>0, WorkersFinite DEF Counted, IsParked, IsOut, Local, InWorld, Idling
<1> QED BY <1>1, <1>2, <1>3, <1>4, WorkerStep

\* sp_native_enter keeps the invariant.
LEMMA Step_sp_native_enter ==
  ASSUME IInv, NEW w \in Workers, sp_native_enter(w)
  PROVE  IInv'
<1> USE DEF sp_native_enter, NativeEnter, At, Types, pool, barrier, native
<1>0. Types /\ Local(w)
  BY TypesHold DEF IInv, LocalInv
<1>1. 1 \in 0 .. MaxDepth
  BY WorkersFinite
<1>2. CASE ~started
  <2>1. Types'
    BY <1>0, <1>1, <1>2 DEF Goto, Labels
  <2>2. Others(w)
    BY <1>0, <1>2 DEF Others, Goto
  <2>3. Own(w)
    BY <1>0, <1>2, WorkersFinite, NoPoolNoBarrier DEF Goto, Own, Local,
       InWorld, Idling, Raiser, Stopped, ParkedNow, Out, IInv, EpochInv
  <2>4. Counted(w)
    BY <1>0, <1>2 DEF Goto, Counted, IsParked, IsOut
  <2> QED BY <2>1, <2>2, <2>3, <2>4, WorkerStep
<1>3. CASE started /\ stw_active
  <2>1. Types'
    <3>1. Park(w, "enter")
      BY <1>3
    <3>2. /\ pc' \in [Workers -> Labels] /\ my_epoch' \in [Workers -> Nat]
          /\ cont' \in [Workers -> {"run", "loop", "enter", "fork"}]
          /\ parked_fiber' \in SUBSET Workers
      BY <1>0, <3>1, ParkType
    <3>3. depth' \in [Workers -> 0 .. MaxDepth]
      BY <1>0, <1>1
    <3>4. saved' \in [Workers -> Seq(1 .. MaxDepth)]
      BY <1>0, <1>1
    <3> QED BY <1>0, <1>3, <3>2, <3>3, <3>4 DEF Park
  <2>2. Others(w)
    BY <1>0, <1>3 DEF Others, Park, GotoSignal
  <2>3. Own(w)
    BY <1>0, <1>3, WorkersFinite DEF Park, GotoSignal, Own, Local, InWorld,
       Idling, Raiser, Stopped, ParkedNow, Out
  <2>4. Counted(w)
    BY <1>0, <1>3 DEF Park, GotoSignal, Counted, IsParked, IsOut
  <2> QED BY <2>1, <2>2, <2>3, <2>4, WorkerStep
<1>4. CASE started /\ ~stw_active
  <2>1. Types'
    <3>1. "native" \in Labels /\ "idle" \in Labels
      BY DEF Labels
    <3>2. pc' \in [Workers -> Labels]
      BY <1>0, <1>1, <1>4, <3>1, SignalType DEF OutEnter
    <3> QED BY <1>0, <1>1, <1>4, <3>2 DEF OutEnter
  <2>2. Others(w)
    BY <1>0, <1>4 DEF Others, OutEnter, GotoSignal
  <2>3. Own(w)
    BY <1>0, <1>4, WorkersFinite DEF OutEnter, GotoSignal, Own, Local,
       InWorld, Idling, Raiser, IInv, EpochInv
  <2>4. Counted(w)
    BY <1>0, <1>4 DEF OutEnter, GotoSignal, Counted, IsParked, IsOut, Local,
       InWorld
  <2> QED BY <2>1, <2>2, <2>3, <2>4, WorkerStep
<1> QED BY <1>0, <1>2, <1>3, <1>4

\* sp_native_callback_leave keeps the invariant.
LEMMA Step_sp_native_callback_leave ==
  ASSUME IInv, NEW w \in Workers, sp_native_callback_leave(w)
  PROVE  IInv'
<1> USE DEF sp_native_callback_leave, NativeEnter, At, Types, pool, barrier,
   native
<1>0. Types /\ Local(w)
  BY TypesHold DEF IInv, LocalInv
<1>1. /\ Head(saved[w]) \in 1 .. MaxDepth
      /\ Head(saved[w]) \in 0 .. MaxDepth
      /\ Tail(saved[w]) \in Seq(1 .. MaxDepth)
  BY <1>0, WorkersFinite
<1>2. CASE ~started
  <2>1. Types'
    BY <1>0, <1>1, <1>2 DEF Goto, Labels
  <2>2. Others(w)
    BY <1>0, <1>2 DEF Others, Goto
  <2>3. Own(w)
    BY <1>0, <1>1, <1>2, WorkersFinite, NoPoolNoBarrier DEF Goto, Own, Local,
       InWorld, Idling, Raiser, Stopped, ParkedNow, Out, IInv, EpochInv
  <2>4. Counted(w)
    BY <1>0, <1>2 DEF Goto, Counted, IsParked, IsOut
  <2> QED BY <2>1, <2>2, <2>3, <2>4, WorkerStep
<1>3. CASE started /\ stw_active
  <2>1. Types'
    <3>1. Park(w, "enter")
      BY <1>3
    <3>2. /\ pc' \in [Workers -> Labels] /\ my_epoch' \in [Workers -> Nat]
          /\ cont' \in [Workers -> {"run", "loop", "enter", "fork"}]
          /\ parked_fiber' \in SUBSET Workers
      BY <1>0, <3>1, ParkType
    <3>3. depth' \in [Workers -> 0 .. MaxDepth]
      BY <1>0, <1>1
    <3>4. saved' \in [Workers -> Seq(1 .. MaxDepth)]
      BY <1>0, <1>1
    <3> QED BY <1>0, <1>3, <3>2, <3>3, <3>4 DEF Park
  <2>2. Others(w)
    BY <1>0, <1>3 DEF Others, Park, GotoSignal
  <2>3. Own(w)
    <3>1. /\ pc[w] = "run" /\ pc'[w] = "parked" /\ w \in parked_fiber'
          /\ my_epoch'[w] = stw_epoch /\ cont'[w] = "enter"
          /\ noop'[w] = noop[w] /\ native_out'[w] = native_out[w]
      BY <1>0, <1>3 DEF Park, GotoSignal
    <3>2. depth'[w] > 0 /\ stw_epoch \in Nat
      BY <1>0, <1>1
    <3>3. ~noop[w] /\ native_out[w] = "IN" /\ ~Stopped(w)
      BY <1>0, <3>1 DEF Local, InWorld, Stopped, ParkedNow, Out
    <3> HIDE DEF sp_native_callback_leave, NativeEnter, Types
    <3>4. Local(w)'
      BY <3>1, <3>2, <3>3 DEF Local, InWorld, Idling
    <3> QED BY <1>3, <3>1, <3>2, <3>3, <3>4 DEF Own, Raiser
  <2>4. Counted(w)
    BY <1>0, <1>3 DEF Park, GotoSignal, Counted, IsParked, IsOut
  <2> QED BY <2>1, <2>2, <2>3, <2>4, WorkerStep
<1>4. CASE started /\ ~stw_active
  <2>1. Types'
    <3>1. "native" \in Labels /\ "idle" \in Labels
      BY DEF Labels
    <3>2. pc' \in [Workers -> Labels]
      BY <1>0, <1>1, <1>4, <3>1, SignalType DEF OutEnter
    <3> QED BY <1>0, <1>1, <1>4, <3>2 DEF OutEnter
  <2>2. Others(w)
    BY <1>0, <1>4 DEF Others, OutEnter, GotoSignal
  <2>3. Own(w)
    <3>1. /\ pc[w] = "run" /\ pc'[w] = "native" /\ my_epoch'[w] = my_epoch[w]
          /\ cont'[w] = "run" /\ noop'[w] = noop[w] /\ started' = started
          /\ native_out'[w] = "NATIVE"
      BY <1>0, <1>4 DEF OutEnter, GotoSignal
    <3>2. depth'[w] > 0 /\ my_epoch[w] <= stw_epoch
      BY <1>0, <1>1 DEF IInv, EpochInv
    <3>3. ~noop[w]
      BY <1>0, <3>1 DEF Local, InWorld
    <3> HIDE DEF sp_native_callback_leave, NativeEnter, Types
    <3>4. Local(w)'
      BY <1>4, <3>1, <3>2, <3>3 DEF Local, InWorld, Idling
    <3> QED BY <1>4, <3>1, <3>2, <3>4 DEF Own, Raiser
  <2>4. Counted(w)
    BY <1>0, <1>4 DEF OutEnter, GotoSignal, Counted, IsParked, IsOut, Local,
       InWorld
  <2> QED BY <2>1, <2>2, <2>3, <2>4, WorkerStep
<1> QED BY <1>0, <1>2, <1>3, <1>4

\* LoopHead keeps the invariant.
LEMMA Step_LoopHead ==
  ASSUME IInv, NEW w \in Workers, LoopHead(w)
  PROVE  IInv'
<1> USE DEF LoopHead, At, Types, pool, barrier, native
<1>0. Types /\ Local(w)
  BY TypesHold DEF IInv, LocalInv
<1>1. CASE stw_active
  <2>1. Types'
    <3>1. Park(w, "loop") /\ UNCHANGED native
      BY <1>1
    <3>2. /\ pc' \in [Workers -> Labels] /\ my_epoch' \in [Workers -> Nat]
          /\ cont' \in [Workers -> {"run", "loop", "enter", "fork"}]
          /\ parked_fiber' \in SUBSET Workers
      BY <1>0, <3>1, ParkType
    <3> HIDE DEF LoopHead
    <3> QED BY <1>0, <3>1, <3>2 DEF Park
  <2>2. Others(w)
    BY <1>0, <1>1 DEF Others, Park, GotoSignal
  <2>3. Own(w)
    BY <1>0, <1>1, WorkersFinite, NoPoolNoBarrier DEF Park, GotoSignal, Own,
       Local, InWorld, Idling, Raiser, Stopped, ParkedNow, Out
  <2>4. Counted(w)
    BY <1>0, <1>1 DEF Park, GotoSignal, Counted, IsParked, IsOut
  <2> QED BY <2>1, <2>2, <2>3, <2>4, WorkerStep
<1>2. CASE ~stw_active
  <2>1. Types'
    BY <1>0, <1>2 DEF Goto, Labels
  <2>2. Others(w)
    BY <1>0, <1>2 DEF Others, Goto
  <2>3. Own(w)
    BY <1>0, <1>2, WorkersFinite DEF Goto, Own, Local, InWorld, Idling,
       Raiser, IInv, EpochInv, PoolInv
  <2>4. Counted(w)
    BY <1>0, <1>2 DEF Goto, Counted, IsParked, IsOut
  <2> QED BY <2>1, <2>2, <2>3, <2>4, WorkerStep
<1> QED BY <1>1, <1>2

\* LockedIdle keeps the invariant.
LEMMA Step_LockedIdle ==
  ASSUME IInv, NEW w \in Workers, LockedIdle(w)
  PROVE  IInv'
<1> USE DEF LockedIdle, At, Types, pool, barrier, native
<1>0. Types /\ Local(w)
  BY TypesHold DEF IInv, LocalInv
<1>1. CASE stw_active
  <2>1. Types'
    BY <1>0, <1>1 DEF Goto, Labels
  <2>2. Others(w)
    BY <1>0, <1>1 DEF Others, Goto
  <2>3. Own(w)
    BY <1>0, <1>1, WorkersFinite DEF Goto, Own, Local, InWorld, Idling,
       Raiser, IInv, EpochInv, PoolInv, Stopped, ParkedNow, Out
  <2>4. Counted(w)
    BY <1>0, <1>1 DEF Goto, Counted, IsParked, IsOut
  <2> QED BY <2>1, <2>2, <2>3, <2>4, WorkerStep
<1>2. CASE ~stw_active
  <2>1. Types'
    <3>1. "native" \in Labels /\ "idle" \in Labels
      BY DEF Labels
    <3>2. pc' \in [Workers -> Labels]
      BY <1>0, <1>2, <3>1, SignalType DEF OutEnter
    <3> QED BY <1>0, <1>2, <3>2 DEF OutEnter
  <2>2. Others(w)
    BY <1>0, <1>2 DEF Others, OutEnter, GotoSignal
  <2>3. Own(w)
    BY <1>0, <1>2, WorkersFinite DEF OutEnter, GotoSignal, Own, Local,
       InWorld, Idling, Raiser, IInv, EpochInv, PoolInv
  <2>4. Counted(w)
    BY <1>0, <1>2 DEF OutEnter, GotoSignal, Counted, IsParked, IsOut
  <2> QED BY <2>1, <2>2, <2>3, <2>4, WorkerStep
<1> QED BY <1>1, <1>2

\* sp_sched_drain keeps the invariant.
LEMMA Step_sp_sched_drain ==
  ASSUME IInv, sp_sched_drain
  PROVE  IInv'
<1> DEFINE w == Main
<1> USE DEF sp_sched_drain, Goto, At, Types, pool, barrier, native
<1>0. Types /\ Local(w) /\ w \in Workers
  BY TypesHold, WorkersFinite DEF IInv, LocalInv
<1>1. Types'
  BY <1>0 DEF Labels
<1>2. Others(w)
  BY <1>0 DEF Others
<1>3. Own(w)
  BY <1>0 DEF Own, Local, InWorld, Idling, Raiser, Stopped, ParkedNow, Out,
     IInv, EpochInv, PoolInv
<1>4. Counted(w)
  BY <1>0 DEF Counted, IsParked, IsOut
<1> HIDE DEF w
<1> QED BY <1>0, <1>1, <1>2, <1>3, <1>4, WorkerStep

\* Joined keeps the invariant.
LEMMA Step_Joined ==
  ASSUME IInv, Joined
  PROVE  IInv'
<1> DEFINE w == Main
<1> USE DEF Joined, Goto, At, Types, pool, barrier, native
<1>0. Types /\ Local(w) /\ w \in Workers
  BY TypesHold, WorkersFinite DEF IInv, LocalInv
<1>1. Types'
  BY <1>0 DEF Labels
<1>2. Others(w)
  BY <1>0 DEF Others
<1>3. Own(w)
  BY <1>0 DEF Own, Local, InWorld, Idling, Raiser, Stopped, ParkedNow, Out,
     IInv, EpochInv, PoolInv
<1>4. Counted(w)
  BY <1>0 DEF Counted, IsParked, IsOut
<1> HIDE DEF w
<1> QED BY <1>0, <1>1, <1>2, <1>3, <1>4, WorkerStep

\* A worker that finds the barrier up where it was about to raise one parks
\* through it (sp_stw_park_locked).
LEMMA ParkStep ==
  ASSUME IInv, NEW w \in Workers, NEW c \in {"run", "loop", "fork"},
         pc[w] \in {"run", "loop", "fork"}, stw_active, Park(w, c),
         UNCHANGED native
  PROVE  IInv'
<1> USE DEF Park, At, Types, pool, barrier, native
<1>0. Types /\ Local(w)
  BY TypesHold DEF IInv, LocalInv
<1>1. Types'
  <2>1. "parked" \in Labels
    BY DEF Labels
  <2>2. pc' \in [Workers -> Labels]
    BY <1>0, <2>1, SignalType
  <2> QED BY <1>0, <2>2
<1>2. Others(w)
  BY <1>0 DEF Others, GotoSignal
<1>3. Own(w)
  BY <1>0, NoPoolNoBarrier DEF GotoSignal, Own, Local, InWorld, Idling,
     Raiser, Stopped, ParkedNow, Out
<1>4. Counted(w)
  BY <1>0 DEF GotoSignal, Counted, IsParked, IsOut
<1> QED BY <1>1, <1>2, <1>3, <1>4, WorkerStep

\* Raising the barrier (g_stw_active, g_stw_epoch, g_nparked = 0) keeps the
\* invariant: no parker belongs to the new epoch.
LEMMA RaiseStep ==
  ASSUME IInv, NEW w \in Workers, pc[w] \in {"run", "fork"}, ~stw_active,
         Raise(w), forking' \in BOOLEAN, forking' => w = Main, UNCHANGED native
  PROVE  IInv'
<1> USE DEF Raise, Goto, At, Types, pool, native
<1>0. Types /\ LocalInv /\ PoolInv /\ EpochInv /\ RaiserInv /\ CountsExact
  BY TypesHold DEF IInv
<1>1. Types'
  BY <1>0 DEF Labels
<1>2. LocalInv'
  <2> SUFFICES ASSUME NEW v \in Workers PROVE Local(v)'
    BY DEF LocalInv
  <2> QED BY <1>0 DEF LocalInv, Local, InWorld, Idling
<1>3. PoolInv'
  BY <1>0, WorkersFinite DEF PoolInv, Raiser
<1>4. EpochInv'
  BY <1>0 DEF EpochInv
<1>5. \A c \in Workers : pc[c] \notin Raiser
  BY <1>0 DEF RaiserInv
<1>6. RaiserInv'
  BY <1>0, <1>5 DEF RaiserInv, OneBarrier, Raiser
<1>7. CountsExact' /\ nparked' \in Nat /\ nnative' \in Nat
  <2>1. ParkedNow' = {}
    BY <1>0 DEF ParkedNow, EpochInv
  <2>2. Out' = Out
    BY <1>0 DEF Out
  <2> QED BY <1>0, <2>1, <2>2, FS_EmptySet DEF CountsExact, IInv, TypeOK
<1>8. (WorldStopped /\ RootsMarked)'
  BY <1>0, <1>5 DEF WorldStopped, RootsMarked, Raiser
<1>9. ParkedRecorded'
  BY <1>0 DEF ParkedRecorded, ParkedNow, EpochInv
<1>10. TypeOK'
  BY <1>1, <1>7 DEF TypeOK
<1> QED BY <1>2, <1>3, <1>4, <1>6, <1>7, <1>8, <1>9, <1>10 DEF IInv

\* sp_stw_collect keeps the invariant.
LEMMA Step_sp_stw_collect ==
  ASSUME IInv, NEW w \in Workers, sp_stw_collect(w)
  PROVE  IInv'
<1>1. CASE stw_active
  BY <1>1, ParkStep DEF sp_stw_collect, At
<1>2. CASE ~stw_active
  BY <1>2, RaiseStep DEF sp_stw_collect, At
<1> QED BY <1>1, <1>2

\* sp_sched_fork keeps the invariant.
LEMMA Step_sp_sched_fork ==
  ASSUME IInv, sp_sched_fork
  PROVE  IInv'
<1>1. CASE stw_active
  BY <1>1, ParkStep, WorkersFinite DEF sp_sched_fork
<1>2. CASE ~stw_active
  BY <1>2, RaiseStep, WorkersFinite DEF sp_sched_fork
<1> QED BY <1>1, <1>2

\* StartWorkers keeps the invariant.
LEMMA Step_StartWorkers ==
  ASSUME IInv, StartWorkers
  PROVE  IInv'
<1> USE DEF StartWorkers, At, Types, barrier, native
<1>0. Types /\ LocalInv /\ PoolInv /\ EpochInv /\ RaiserInv /\ CountsExact
  BY TypesHold DEF IInv
<1>1. TypeOK'
  BY DEF IInv, TypeOK
<1>2. LocalInv'
  <2> SUFFICES ASSUME NEW v \in Workers PROVE Local(v)'
    BY DEF LocalInv
  <2>1. pc[v] \in {"run", "none"}
    BY <1>0, WorkersFinite DEF PoolInv
  <2> QED BY <1>0, <2>1 DEF LocalInv, Local, InWorld, Idling
<1>3. PoolInv'
  BY <1>0 DEF PoolInv
<1>4. (EpochInv /\ RaiserInv /\ CountsExact)'
  BY <1>0 DEF EpochInv, RaiserInv, OneBarrier, CountsExact, ParkedNow, Out
<1>5. (WorldStopped /\ ParkedRecorded /\ RootsMarked)'
  BY DEF IInv, WorldStopped, ParkedRecorded, RootsMarked, Stopped, ParkedNow,
     Out
<1> QED BY <1>1, <1>2, <1>3, <1>4, <1>5 DEF IInv

\* sp_sched_maybe_grow keeps the invariant.
LEMMA Step_sp_sched_maybe_grow ==
  ASSUME IInv, sp_sched_maybe_grow
  PROVE  IInv'
<1> USE DEF sp_sched_maybe_grow, Goto, At, Types, barrier, native
<1>0. Types /\ LocalInv /\ PoolInv /\ EpochInv /\ RaiserInv /\ CountsExact
  BY TypesHold DEF IInv
<1>b. active \in Workers
  <2>1. active \in Nat /\ active < MaxWorkers
    BY <1>0, WorkersFinite
  <2> HIDE DEF Types, sp_sched_maybe_grow
  <2> QED BY <2>1, WorkersFinite
<1>1. active \in Workers /\ pc[active] = "none"
  BY <1>0, <1>b DEF PoolInv
<1>2. Types'
  <2>1. pc' \in [Workers -> Labels]
    BY <1>0, <1>1 DEF Labels
  <2>2. active' \in 1 .. MaxWorkers
    BY <1>0, WorkersFinite
  <2> QED BY <1>0, <2>1, <2>2
<1>3. LocalInv'
  <2> SUFFICES ASSUME NEW v \in Workers PROVE Local(v)'
    BY DEF LocalInv
  <2> QED BY <1>0, <1>1 DEF LocalInv, Local, InWorld, Idling
<1>4. PoolInv'
  BY <1>0, <1>1, WorkersFinite DEF PoolInv
<1>5. \A c \in Workers : pc[c] \notin Raiser /\ pc'[c] \notin Raiser
  BY <1>0, <1>1 DEF RaiserInv, Raiser
<1>6. (EpochInv /\ RaiserInv)'
  BY <1>0, <1>5 DEF EpochInv, RaiserInv, OneBarrier, Raiser
<1>7. CountsExact' /\ nparked' \in Nat /\ nnative' \in Nat
  <2>1. ParkedNow' = ParkedNow /\ Out' = Out
    BY <1>0, <1>1 DEF ParkedNow, Out
  <2> QED BY <1>0, <2>1 DEF CountsExact, IInv, TypeOK
<1>8. (WorldStopped /\ ParkedRecorded /\ RootsMarked)'
  BY <1>0, <1>5 DEF WorldStopped, ParkedRecorded, RootsMarked, Raiser
<1>9. TypeOK'
  BY <1>2, <1>7 DEF TypeOK
<1> QED BY <1>3, <1>4, <1>6, <1>7, <1>8, <1>9 DEF IInv

\* BarrierEnd keeps the invariant.
LEMMA Step_BarrierEnd ==
  ASSUME IInv, NEW w \in Workers, BarrierEnd(w)
  PROVE  IInv'
<1> USE DEF BarrierEnd, Goto, At, Types, pool, native
<1>0. Types /\ LocalInv /\ PoolInv /\ EpochInv /\ RaiserInv /\ CountsExact
  BY TypesHold DEF IInv
<1>a. PICK l \in {"sweep", "run"} : pc' = [pc EXCEPT ![w] = l]
  OBVIOUS
<1>1. Types'
  BY <1>0, <1>a DEF Labels
<1>2. LocalInv'
  <2> SUFFICES ASSUME NEW v \in Workers PROVE Local(v)'
    BY DEF LocalInv
  <2> QED BY <1>0, <1>a DEF LocalInv, Local, InWorld, Idling
<1>3. PoolInv'
  BY <1>0, <1>a, WorkersFinite DEF PoolInv, Raiser
<1>4. EpochInv'
  BY <1>0 DEF EpochInv
<1>5. \A c \in Workers : pc'[c] \notin Raiser
  BY <1>0, <1>a DEF RaiserInv, OneBarrier, Raiser
<1>6. RaiserInv'
  BY <1>5 DEF RaiserInv, OneBarrier, Raiser
<1>7. CountsExact' /\ nparked' \in Nat /\ nnative' \in Nat
  <2>1. ParkedNow' = ParkedNow /\ Out' = Out
    BY <1>0, <1>a DEF ParkedNow, Out
  <2> QED BY <1>0, <2>1 DEF CountsExact, IInv, TypeOK
<1>8. (WorldStopped /\ ParkedRecorded /\ RootsMarked)'
  BY <1>5 DEF WorldStopped, ParkedRecorded, RootsMarked, Raiser
<1>9. TypeOK'
  BY <1>1, <1>7 DEF TypeOK
<1> QED BY <1>2, <1>3, <1>4, <1>6, <1>7, <1>8, <1>9 DEF IInv

\* sp_sched_fork_child keeps the invariant.
LEMMA Step_sp_sched_fork_child ==
  ASSUME IInv, sp_sched_fork_child
  PROVE  IInv'
<1> USE DEF sp_sched_fork_child, At, Types
<1>0. Types /\ LocalInv /\ EpochInv
  BY TypesHold DEF IInv
<1>1. Types'
  <2>1. /\ pc' \in [Workers -> Labels]
        /\ native_out' \in [Workers -> {"IN", "IDLE", "NATIVE"}]
    BY DEF Labels
  <2>2. depth' \in [Workers -> 0 .. MaxDepth]
    BY <1>0, WorkersFinite
  <2>3. noop' \in [Workers -> BOOLEAN]
    BY <1>0
  <2>4. saved' \in [Workers -> Seq(1 .. MaxDepth)]
    <3>1. \A v \in Workers : /\ saved[v] \in Seq(1 .. MaxDepth)
                             /\ <<>> \in Seq(1 .. MaxDepth)
      BY <1>0
    <3>2. saved' = [v \in Workers |-> IF v = Main THEN saved[v] ELSE <<>>]
      OBVIOUS
    <3> HIDE DEF Types, sp_sched_fork_child
    <3> QED BY <3>1, <3>2
  <2>6. active' \in 1 .. MaxWorkers
    BY ConstAssumption
  <2>5. stw_epoch' \in Nat /\ parked_fiber' \in SUBSET Workers
    BY <1>0
  <2>7. /\ started' \in BOOLEAN /\ shutdown' \in BOOLEAN
        /\ stw_active' \in BOOLEAN /\ forking' \in BOOLEAN
    BY <1>0
  <2>8. /\ my_epoch' \in [Workers -> Nat]
        /\ cont' \in [Workers -> {"run", "loop", "enter", "fork"}]
    BY <1>0
  <2> QED BY <2>1, <2>2, <2>3, <2>4, <2>5, <2>6, <2>7, <2>8
<1>2. LocalInv'
  <2> SUFFICES ASSUME NEW v \in Workers PROVE Local(v)'
    BY DEF LocalInv
  <2> QED BY <1>0, WorkersFinite DEF LocalInv, Local, InWorld, Idling
<1>3. PoolInv'
  BY WorkersFinite DEF PoolInv
<1>4. EpochInv'
  BY <1>0 DEF EpochInv
<1>5. \A c \in Workers : pc'[c] \notin Raiser \cup {"parked", "outparked"}
  BY DEF Raiser
<1>6. RaiserInv'
  BY <1>5 DEF RaiserInv, OneBarrier, Raiser
<1>7. CountsExact'
  <2>1. ParkedNow' = {} /\ Out' = {}
    BY <1>5 DEF ParkedNow, Out
  <2> QED BY <2>1, FS_EmptySet DEF CountsExact
<1>8. (WorldStopped /\ ParkedRecorded /\ RootsMarked)'
  BY <1>5 DEF WorldStopped, ParkedRecorded, RootsMarked, Raiser
<1>9. TypeOK'
  BY <1>1 DEF TypeOK
<1> QED BY <1>2, <1>3, <1>4, <1>6, <1>7, <1>8, <1>9 DEF IInv

\* If the workers parked and those out, two disjoint sets without the
\* collector, number at least active - 1, they are all the others: what the
\* barrier's condition g_nparked + g_nnative >= sp_active_workers - 1 stands
\* for.
LEMMA FullMeansAll ==
  ASSUME NEW n \in Nat \ {0}, NEW c \in 0 .. (n - 1),
         NEW P \in SUBSET ((0 .. (n - 1)) \ {c}),
         NEW O \in SUBSET ((0 .. (n - 1)) \ {c}),
         P \cap O = {}, Cardinality(P) + Cardinality(O) >= n - 1
  PROVE  P \cup O = (0 .. (n - 1)) \ {c}
<1> DEFINE R == (0 .. (n - 1)) \ {c}
<1>1. IsFiniteSet(0 .. (n - 1)) /\ Cardinality(0 .. (n - 1)) = n
  BY FS_Interval
<1>2. IsFiniteSet(R) /\ Cardinality(R) = n - 1
  BY <1>1, FS_RemoveElement
<1> HIDE DEF R
<1>3. P \in SUBSET R /\ O \in SUBSET R /\ P \cup O \in SUBSET R
  BY DEF R
<1>4. IsFiniteSet(P) /\ IsFiniteSet(O) /\ IsFiniteSet(P \cup O)
  BY <1>2, <1>3, FS_Subset
<1>5. Cardinality(P \cup O) = Cardinality(P) + Cardinality(O)
  <2>1. Cardinality(P \cap O) = 0
    BY FS_EmptySet
  <2>2. Cardinality(P) \in Nat /\ Cardinality(O) \in Nat
    BY <1>4, FS_CardinalityType
  <2> QED BY <1>4, <2>1, <2>2, FS_Union
<1>6. Cardinality(P \cup O) <= Cardinality(R)
  BY <1>2, <1>3, FS_Subset
<1>7. Cardinality(P \cup O) = Cardinality(R)
  <2>1. Cardinality(P) \in Nat /\ Cardinality(O) \in Nat
    BY <1>4, FS_CardinalityType
  <2> QED BY <1>2, <1>5, <1>6, <2>1
<1>8. P \cup O = R
  BY <1>2, <1>3, <1>7, FS_Subset
<1> QED BY <1>8 DEF R

\* The wait for the counts: where it ends, every other worker is stopped and
\* its fibers recorded.
LEMMA Step_BarrierWait ==
  ASSUME IInv, NEW w \in Workers, BarrierWait(w)
  PROVE  IInv'
<1> USE DEF BarrierWait, Goto, At, Types, pool, native
<1>0. Types /\ LocalInv /\ PoolInv /\ EpochInv /\ RaiserInv /\ CountsExact
  BY TypesHold DEF IInv
<1>a. PICK l \in {"wait", "collect"} : pc' = [pc EXCEPT ![w] = l]
  OBVIOUS
<1>b. pc[w] \in {"request", "woken"}
  OBVIOUS
<1>c. parked_fiber' \in SUBSET Workers /\ parked_fiber \subseteq parked_fiber'
  BY <1>0, WorkersFinite
<1>1. TypeOK'
  BY <1>0, <1>a, <1>c DEF Labels, TypeOK, IInv
<1>2. LocalInv'
  <2> SUFFICES ASSUME NEW v \in Workers PROVE Local(v)'
    BY DEF LocalInv
  <2> QED BY <1>0, <1>a, <1>b DEF LocalInv, Local, InWorld, Idling
<1>3. PoolInv'
  BY <1>0, <1>a, <1>b, WorkersFinite DEF PoolInv, Raiser
<1>4. EpochInv'
  BY <1>0 DEF EpochInv
<1>5. RaiserInv'
  BY <1>0, <1>a, <1>b DEF RaiserInv, OneBarrier, Raiser
<1>6. CountsExact'
  <2>1. ParkedNow' = ParkedNow /\ Out' = Out
    BY <1>0, <1>a, <1>b DEF ParkedNow, Out
  <2> QED BY <1>0, <2>1 DEF CountsExact
<1>7. ParkedRecorded'
  BY <1>0, <1>a, <1>c DEF IInv, ParkedRecorded, ParkedNow
<1>8. \A c \in Workers : pc'[c] = "collect" => c = w
  BY <1>0, <1>a, <1>b DEF RaiserInv, OneBarrier
<1>9. CASE ~Full(nparked, nnative)
  <2>1. \A c \in Workers : pc'[c] # "collect"
    BY <1>0, <1>8, <1>9
  <2>2. (WorldStopped /\ RootsMarked)'
    BY <2>1 DEF WorldStopped, RootsMarked
  <2> QED BY <1>1, <1>2, <1>3, <1>4, <1>5, <1>6, <1>7, <2>2 DEF IInv
<1>10. CASE Full(nparked, nnative)
  <2>1. w \in 0 .. (active - 1) /\ active \in Nat \ {0}
    BY <1>0, <1>b, WorkersFinite DEF PoolInv
  <2>2. /\ ParkedNow \in SUBSET ((0 .. (active - 1)) \ {w})
        /\ Out \in SUBSET ((0 .. (active - 1)) \ {w})
        /\ ParkedNow \cap Out = {}
    <3>1. \A v \in Workers : pc[v] # "none" => v \in 0 .. (active - 1)
      BY <1>0, WorkersFinite, SMTT(30) DEF PoolInv
    <3>2. \A v \in ParkedNow : v \in 0 .. (active - 1) /\ v # w
      BY <1>b, <3>1 DEF ParkedNow
    <3>3. \A v \in Out : v \in 0 .. (active - 1) /\ v # w
      BY <1>b, <3>1 DEF Out
    <3>4. ParkedNow \cap Out = {}
      BY DEF ParkedNow, Out
    <3> QED BY <3>2, <3>3, <3>4
  <2>3. Cardinality(ParkedNow) + Cardinality(Out) >= active - 1
    BY <1>0, <1>10 DEF Full, CountsExact
  <2>4. ParkedNow \cup Out = (0 .. (active - 1)) \ {w}
    BY <2>1, <2>2, <2>3, FullMeansAll
  <2>5. WorldStopped'
    <3>1. ParkedNow' = ParkedNow /\ Out' = Out
      BY <1>0, <1>a, <1>b DEF ParkedNow, Out
    <3>2. stw_active' /\ active' = active
      BY <1>0, <1>b DEF RaiserInv, Raiser
    <3> QED BY <1>8, <2>4, <3>1, <3>2 DEF WorldStopped, Stopped
  <2>6. RootsMarked'
    <3> SUFFICES ASSUME ~forking, NEW v \in (0 .. (active - 1)) \ {w}
                 PROVE  v \in parked_fiber'
      BY <1>8 DEF RootsMarked
    <3>1. parked_fiber' = parked_fiber \cup {u \in 0 .. (active - 1) :
                                               native_out[u] # "IN"}
      BY <1>10
    <3>2. v \in Workers
      <4>1. active \in 1 .. MaxWorkers
        BY <1>0
      <4> HIDE DEF Types, BarrierWait
      <4> QED BY <4>1, WorkersFinite
    <3>3. CASE v \in ParkedNow /\ pc[v] = "parked"
      <4>1. stw_active
        BY <1>0, <1>b DEF RaiserInv, Raiser
      <4> QED BY <3>1, <3>3, <4>1 DEF IInv, ParkedRecorded
    <3>4. CASE v \in Out \/ pc[v] = "outparked"
      <4>1. native_out[v] # "IN"
        BY <1>0, <3>2, <3>4 DEF LocalInv, Local, Out, Idling
      <4> QED BY <3>1, <4>1
    <3> QED BY <2>4, <3>3, <3>4 DEF ParkedNow
  <2> QED BY <1>1, <1>2, <1>3, <1>4, <1>5, <1>6, <1>7, <2>5, <2>6 DEF IInv
<1> QED BY <1>9, <1>10

\* Every step keeps the invariant.
LEMMA NextIInv == IInv /\ [Next]_vars => IInv'
<1> SUFFICES ASSUME IInv, [Next]_vars PROVE IInv'
  OBVIOUS
<1>1. ASSUME NEW w \in Workers, NativeStep(w) PROVE IInv'
  BY <1>1, Step_sp_native_enter, Step_NativeEntered, Step_NestedEnter,
     Step_sp_native_leave, Step_sp_native_callback_enter,
     Step_sp_native_callback_leave, Step_CallbackRaise DEF NativeStep
<1>2. ASSUME NEW w \in Workers, IdleStep(w) PROVE IInv'
  BY <1>2, Step_ToLoop, Step_LoopHead, Step_Pick, Step_LockedIdle,
     Step_EvWaitEnd, Step_IdleEnter, Step_IdleCheck, Step_IdleSignal,
     Step_IdleWake, Step_IdleReturn, Step_IdleReadd DEF IdleStep
<1>3. ASSUME NEW w \in Workers, BarrierStep(w) PROVE IInv'
  BY <1>3, Step_sp_safepoint, Step_Released, Step_sp_cs_owner_run,
     Step_sp_out_leave_locked, Step_sp_stw_collect, Step_BarrierWait,
     Step_BarrierEnd DEF BarrierStep
<1>4. ASSUME MainStep PROVE IInv'
  BY <1>4, Step_StartWorkers, Step_sp_sched_maybe_grow, Step_sp_sched_fork,
     Step_sp_sched_fork_child, Step_sp_sched_drain, Step_Joined DEF MainStep
<1>5. CASE UNCHANGED vars
  BY <1>5 DEF vars, pool, barrier, native, IInv, TypeOK, LocalInv, Local,
     PoolInv, EpochInv, RaiserInv, OneBarrier, CountsExact, WorldStopped,
     Stopped, ParkedRecorded, RootsMarked, ParkedNow, Out, At
<1> QED BY <1>1, <1>2, <1>3, <1>4, <1>5 DEF Next

\* The inductive invariant of the barrier holds throughout.
THEOREM Invariance == Spec => []IInv
BY InitIInv, NextIInv, PTL DEF Spec

\* The barrier's state is well typed in every reachable state.
THEOREM TypeCorrect == Spec => []TypeOK
BY Invariance, PTL DEF IInv

\* g_nparked and g_nnative are exactly the numbers of workers parked in the
\* current epoch and out of the world, with the unlocked idle transitions and
\* stragglers of earlier epochs included.
THEOREM CountsAreExact == Spec => []CountsExact
BY Invariance, PTL DEF IInv

\* While a worker collects (sp_stw_collect_impl past its wait) or forks,
\* every other participant is parked or out and stays so.
THEOREM CollectorExclusive == Spec => []WorldStopped
BY Invariance, PTL DEF IInv

\* The collector marks the fibers of every other participant
\* (g_parked_fiber), also of one that was out and comes back meanwhile.
THEOREM NoRootLost == Spec => []RootsMarked
BY Invariance, PTL DEF IInv

\* A barrier that is up was raised by exactly one worker
\* (sp_stw_collect_impl, sp_sched_fork).
THEOREM OneCollector == Spec => []OneBarrier
<1>1. IInv => OneBarrier
  BY DEF IInv, RaiserInv
<1> QED BY <1>1, Invariance, PTL

\* A worker in a blocking native call is counted out, unless no pool exists,
\* whatever callbacks, raises and thread starts came before (sp_native_enter,
\* sp_native_callback_enter).
THEOREM BlockingCallsAreOut == Spec => []BlockingCallIsOut
<1>1. IInv => BlockingCallIsOut
  BY DEF IInv, LocalInv, Local, BlockingCallIsOut, At, InWorld
<1> QED BY <1>1, Invariance, PTL
=============================================================================
