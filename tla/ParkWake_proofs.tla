-------------------------- MODULE ParkWake_proofs --------------------------
(***************************************************************************)
(* Proofs about ParkWake, for every number of threads, workers, lists,     *)
(* timers and raises.                                                      *)
(*                                                                         *)
(* The park word and the run queues are kept apart by where a thread is    *)
(* (PlaceInv, QueueInv, OffInv), whatever is raised.  Who owns a thread's  *)
(* wake (WakeInv) and a raise's way to a sleeper (RaiseNotSleptThrough)    *)
(* follow.  What the wait lists say of a thread holds until the first      *)
(* #raise: from ListInv come the deadlines and the results of timed waits  *)
(* (TimerInv).                                                             *)
(***************************************************************************)
EXTENDS ParkWake, ListFacts, FiniteSetTheorems, TLAPS

RunLabels  == {"new", "run", "locked", "relock", "resume", "cancel", "wake", "unpark",
               "raise"}
LockLabels == {"locked", "link", "arm", "publish", "unlock"}
WakeLabels == {"cancel", "wake", "unpark", "raise"}
Asleep     == {"PARKING", "PARKED"}

\* An actor has a target while it wakes one.
TgtInv == \A a \in Actors : tgt[a] \in Threads <=> pc[a] \in WakeLabels

\* A thread about to arm a timer has a generation left.
GenInv ==
  \A t \in Threads :
    At(t, "arm") \/ (pc[t] \in {"locked", "relock", "link"} /\ timed[t]) => tm_seq[t] < MaxGen

\* A thread inside a list's critical section holds that list's lock; only one that
\* defers goes on to wait with a #raise pending.
LockInv ==
  \A t \in Threads :
    /\ pc[t] \in LockLabels => obj[t] \in Lists /\ wl[obj[t]] = t
    /\ pc[t] \in {"relock", "link"} => obj[t] \in Lists /\ defer[t]

\* A thread on its stack is the one its worker runs, and its park word is RUN
\* unless it is on its way out; PARKED is said only of one its worker left.
PlaceInv ==
  /\ \A w \in Workers :
       cur[w] # NoThread => home_wid[cur[w]] = w /\ pc[cur[w]] # "new"
  /\ \A t \in Threads :
       /\ pc[t] \notin {"new", "off"} => cur[home_wid[t]] = t
       /\ pc[t] \in RunLabels => park[t] = "RUN"
       /\ park[t] = "PARKED" => pc[t] = "off" /\ cur[home_wid[t]] # t
       /\ park[t] \in Asleep => state[t] = "BLOCKED"

\* QueuedOffStack, in terms of what the queues hold.
QueueInv ==
  \A w \in Workers :
    /\ IsInjective(lrq[w])
    /\ \A t \in Range(lrq[w]) :
         pc[t] = "off" /\ home_wid[t] = w /\ cur[w] # t /\ park[t] = "RUN"

\* A thread off its stack is queued, or with its worker, or parked.
OffInv ==
  \A t \in Threads : pc[t] = "off" =>
    t \in Range(lrq[home_wid[t]]) \/ cur[home_wid[t]] = t \/ park[t] = "PARKED"

\* One that sleeps is on a list, or about to join it, or somebody is waking it.
WakeInv ==
  \A t \in Threads : park[t] \in Asleep /\ pc[t] # "link" =>
    wait_lock[t] # NoList \/ \E a \in Actors : tgt[a] = t

\* A listed thread is in the wait that listed it; one being woken is asleep, off
\* its list, and has one waker.
ListsRight ==
  /\ \A a \in Actors : pc[a] \notin {"unpark", "raise"}
  /\ \A a \in Actors : tgt[a] \in Threads =>
       wait_lock[tgt[a]] = NoList /\ park[tgt[a]] \in Asleep
  /\ \A a, b \in Actors : tgt[a] \in Threads /\ tgt[a] = tgt[b] => a = b
  /\ \A t \in Threads : pc[t] \in {"arm", "publish", "unlock"} => wait_lock[t] = obj[t]
  /\ \A t \in Threads : wait_lock[t] # NoList => park[t] \in Asleep
  /\ \A l \in Lists :
       /\ IsInjective(waiters[l])
       /\ \A t \in Range(waiters[l]) : wait_lock[t] = l /\ park[t] \in Asleep

\* Nothing is pending, and so nobody waits with a deferred #raise.
QuietRight == \A t \in Threads : pc[t] \notin {"relock", "link"} /\ ~ inject[t]

\* So it is until the first #raise.
ListInv == nraise = 0 => QuietRight /\ ListsRight

\* The timer of generation g of t is armed and with the monitor, or claimed.
Kept(t, g) == <<t, g>> \in due \/ (<<t, g>> \in heap /\ tm_armed[t] = g)

\* Only a wait that is published, and not left yet, is marked with a timer.
MarkInv ==
  \A t \in Threads : pc[t] \notin {"out", "off", "resume"} => wait_timer[t] = 0

\* A wait's timer is kept from before it is published until the wait ends.
KeptRight ==
  \A t \in Threads :
    /\ At(t, "publish") => Kept(t, tm_seq[t])
    /\ wait_timer[t] # 0 /\ wait_lock[t] # NoList => Kept(t, wait_timer[t])

\* A timed wait that is not over has not expired, nor has one that a waker ended.
ResultRight ==
  /\ \A t \in Threads : timed[t] /\ (pc[t] \in LockLabels \/ wait_lock[t] # NoList) =>
       ~ timer_expired[t]
  /\ \A a \in Actors : a # Monitor /\ tgt[a] \in Threads /\ timed[tgt[a]] =>
       ~ timer_expired[tgt[a]]

\* So it is until the first #raise.
TimerInv == nraise = 0 => KeptRight /\ ResultRight

IInv == /\ TypeOK /\ TgtInv /\ GenInv /\ LockInv /\ PlaceInv /\ QueueInv /\ OffInv
        /\ WakeInv /\ RaiseNotSleptThrough /\ ListInv /\ MarkInv /\ TimerInv

-----------------------------------------------------------------------------
(* The operators.                                                          *)

\* Of a thread that a bound lets arm a timer, a generation is left.
LEMMA GenerationLeft ==
  ASSUME TypeOK, NEW t \in Threads, Armed < MaxGen
  PROVE  tm_seq[t] < MaxGen
<1> DEFINE S == {e \in Entry : e[2] <= tm_seq[e[1]]}
           R == {t} \X (1 .. MaxGen)
<1>a. MaxGen \in Nat /\ IsFiniteSet(Threads) /\ tm_seq[t] \in 0 .. MaxGen
  BY ConstAssumption DEF TypeOK
<1>1. IsFiniteSet(1 .. MaxGen) /\ Cardinality(1 .. MaxGen) = MaxGen
  BY <1>a, FS_Interval
<1>2. IsFiniteSet(S)
  <2>1. IsFiniteSet(Entry)
    BY <1>a, <1>1, FS_Product DEF Entry
  <2> QED BY <2>1, FS_Subset
<1>3. IsFiniteSet(R) /\ Cardinality(R) = MaxGen
  <2>1. IsFiniteSet({t}) /\ Cardinality({t}) = 1
    BY FS_Singleton
  <2>2. Cardinality(R) = Cardinality({t}) * Cardinality(1 .. MaxGen)
    BY <1>1, <2>1, FS_Product
  <2>3. IsFiniteSet(R)
    BY <1>1, <2>1, FS_Product
  <2>4. Cardinality(R) = 1 * MaxGen
    BY <1>1, <2>1, <2>2
  <2> QED BY <1>a, <2>3, <2>4
<1>4. CASE tm_seq[t] = MaxGen
  <2>1. R \subseteq S
    BY <1>4, <1>a DEF Entry
  <2>2. Cardinality(R) <= Cardinality(S)
    BY <2>1, <1>2, FS_Subset
  <2>3. Cardinality(S) \in Nat /\ Cardinality(S) < MaxGen
    BY <1>2, FS_CardinalityType DEF Armed
  <2> QED BY <1>a, <1>3, <2>2, <2>3
<1> QED BY <1>4, <1>a

\* What coming off a list leaves behind.
LEMMA UnlinkList ==
  ASSUME TypeOK, NEW t \in Threads, NEW l \in Lists, Unlink(t, l)
  PROVE  /\ waiters' \in [Lists -> Seq(Threads)]
         /\ \A m \in Lists : m # l => waiters'[m] = waiters[m]
         /\ t \in Range(waiters[l])
         /\ Range(waiters[l]) = Range(waiters'[l]) \cup {t}
         /\ IsInjective(waiters[l]) => IsInjective(waiters'[l]) /\ t \notin Range(waiters'[l])
         /\ wait_lock' = [wait_lock EXCEPT ![t] = NoList]
<1>a. waiters \in [Lists -> Seq(Threads)]
  BY DEF TypeOK
<1>1. PICK i \in DOMAIN waiters[l] :
        waiters[l][i] = t /\ waiters' = [waiters EXCEPT ![l] = RemoveAt(@, i)]
  BY DEF Unlink
<1>2. waiters'[l] = RemoveAt(waiters[l], i) /\ waiters[l] \in Seq(Threads)
  BY <1>1, <1>a
<1>3. /\ waiters'[l] \in Seq(Threads)
      /\ Range(waiters[l]) = Range(waiters'[l]) \cup {t}
      /\ IsInjective(waiters[l]) => IsInjective(waiters'[l]) /\ t \notin Range(waiters'[l])
  BY <1>1, <1>2, RemoveAtList
<1>4. wait_lock' = [wait_lock EXCEPT ![t] = NoList]
  BY DEF Unlink
<1>5. /\ waiters' \in [Lists -> Seq(Threads)]
      /\ \A m \in Lists : m # l => waiters'[m] = waiters[m]
  BY <1>a, <1>1, <1>2, <1>3
<1> QED BY <1>3, <1>4, <1>5

\* What the first waiter's coming off leaves behind.
LEMMA TakeOneList ==
  ASSUME TypeOK, NEW a \in Actors, NEW l \in Lists, TakeOne(a, l)
  PROVE  LET t == Head(waiters[l]) IN
           /\ t \in Threads
           /\ waiters' \in [Lists -> Seq(Threads)]
           /\ \A m \in Lists : m # l => waiters'[m] = waiters[m]
           /\ t \in Range(waiters[l])
           /\ Range(waiters[l]) = Range(waiters'[l]) \cup {t}
           /\ IsInjective(waiters[l]) =>
                IsInjective(waiters'[l]) /\ t \notin Range(waiters'[l])
<1>a. waiters \in [Lists -> Seq(Threads)]
  BY DEF TypeOK
<1>1. waiters' = [waiters EXCEPT ![l] = Tail(@)] /\ waiters[l] # <<>>
  BY DEF TakeOne, InProgram
<1>2. waiters'[l] = Tail(waiters[l]) /\ waiters[l] \in Seq(Threads)
  BY <1>1, <1>a
<1>3. LET t == Head(waiters[l]) IN
        /\ t \in Threads /\ t \in Range(waiters[l]) /\ waiters'[l] \in Seq(Threads)
        /\ Range(waiters[l]) = Range(waiters'[l]) \cup {t}
        /\ IsInjective(waiters[l]) => IsInjective(waiters'[l]) /\ t \notin Range(waiters'[l])
  BY <1>1, <1>2, TailList
<1>4. /\ waiters' \in [Lists -> Seq(Threads)]
      /\ \A m \in Lists : m # l => waiters'[m] = waiters[m]
  BY <1>a, <1>1, <1>2, <1>3
<1> QED BY <1>3, <1>4

\* What coming onto the tail of a list leaves behind.
LEMMA LinkList ==
  ASSUME NEW X, NEW q \in [X -> Seq(Threads)], NEW x \in X, NEW t \in Threads, NEW r,
         r = [q EXCEPT ![x] = Append(@, t)]
  PROVE  /\ r \in [X -> Seq(Threads)]
         /\ \A y \in X : y # x => r[y] = q[y]
         /\ Range(r[x]) = Range(q[x]) \cup {t}
         /\ IsInjective(q[x]) /\ t \notin Range(q[x]) => IsInjective(r[x])
<1>1. r[x] = Append(q[x], t) /\ q[x] \in Seq(Threads)
  OBVIOUS
<1>2. /\ r[x] \in Seq(Threads)
      /\ Range(r[x]) = Range(q[x]) \cup {t}
      /\ IsInjective(q[x]) /\ t \notin Range(q[x]) => IsInjective(r[x])
  BY <1>1, AppendList
<1>3. r \in [X -> Seq(Threads)] /\ \A y \in X : y # x => r[y] = q[y]
  BY <1>1, <1>2
<1> QED BY <1>2, <1>3

\* A run queue after a thread was put on it.
LEMMA RequeueList ==
  ASSUME TypeOK, NEW t \in Threads, runq_requeue(t)
  PROVE  LET h == home_wid[t] IN
           /\ h \in Workers
           /\ \A y \in Workers : y # h => lrq'[y] = lrq[y]
           /\ Range(lrq'[h]) = Range(lrq[h]) \cup {t}
           /\ IsInjective(lrq[h]) /\ t \notin Range(lrq[h]) => IsInjective(lrq'[h])
<1>1. lrq \in [Workers -> Seq(Threads)] /\ home_wid[t] \in Workers
  BY ConstAssumption DEF TypeOK
<1>2. lrq' = [lrq EXCEPT ![home_wid[t]] = Append(@, t)]
  BY DEF runq_requeue
<1> DEFINE h == home_wid[t]
           r == lrq'
<1>3. h \in Workers /\ r = [lrq EXCEPT ![h] = Append(@, t)]
  BY <1>1, <1>2
<1> HIDE DEF h, r
<1>4. /\ \A y \in Workers : y # h => r[y] = lrq[y]
      /\ r[h] = Append(lrq[h], t) /\ lrq[h] \in Seq(Threads)
  BY <1>1, <1>3
<1>5. /\ Range(r[h]) = Range(lrq[h]) \cup {t}
      /\ IsInjective(lrq[h]) /\ t \notin Range(lrq[h]) => IsInjective(r[h])
  BY <1>4, AppendList
<1> QED BY <1>3, <1>4, <1>5 DEF h, r

\* A run queue after its worker took the head, t being that.
LEMMA NextList ==
  ASSUME TypeOK, NEW w \in Workers, RunThread(w)
  PROVE  LET t == Head(lrq[w]) IN
           /\ t \in Threads
           /\ lrq' \in [Workers -> Seq(Threads)]
           /\ \A m \in Workers : m # w => lrq'[m] = lrq[m]
           /\ t \in Range(lrq[w])
           /\ Range(lrq[w]) = Range(lrq'[w]) \cup {t}
           /\ IsInjective(lrq[w]) => IsInjective(lrq'[w]) /\ t \notin Range(lrq'[w])
<1>a. lrq \in [Workers -> Seq(Threads)]
  BY DEF TypeOK
<1>1. lrq' = [lrq EXCEPT ![w] = Tail(@)] /\ lrq[w] # <<>>
  BY DEF RunThread
<1>2. lrq'[w] = Tail(lrq[w]) /\ lrq[w] \in Seq(Threads)
  BY <1>1, <1>a
<1>3. LET t == Head(lrq[w]) IN
        /\ t \in Threads /\ t \in Range(lrq[w]) /\ lrq'[w] \in Seq(Threads)
        /\ Range(lrq[w]) = Range(lrq'[w]) \cup {t}
        /\ IsInjective(lrq[w]) => IsInjective(lrq'[w]) /\ t \notin Range(lrq'[w])
  BY <1>1, <1>2, TailList
<1>4. /\ lrq' \in [Workers -> Seq(Threads)]
      /\ \A m \in Workers : m # w => lrq'[m] = lrq[m]
  BY <1>a, <1>1, <1>2, <1>3
<1> QED BY <1>3, <1>4

\* Whoever has a target has a thread for it.
LEMMA TargetIsThread ==
  ASSUME TgtInv, NEW a \in Actors, pc[a] \in WakeLabels
  PROVE  tgt[a] \in Threads
BY DEF TgtInv

\* Threads are actors, and none of them is the mark of no thread.
LEMMA Names == Threads \subseteq Actors /\ NoThread \notin Threads
               /\ Main \in Actors /\ Monitor \in Actors
BY ConstAssumption DEF Actors

-----------------------------------------------------------------------------
(* Types.                                                                  *)

\* The generations of the timers are what a step could take out of its type.
LEMMA TypeStep ==
  ASSUME TypeOK, TgtInv, GenInv, LockInv, [Next]_vars
  PROVE  TypeOK'
<1>z. 0 \in 0 .. MaxGen /\ MaxGen \in Nat
  BY ConstAssumption
<1> USE ConstAssumption, Names
<1> USE DEF TypeOK, At, Goto, listVars, timerVars, callVars, Labels, State, ParkWord
<1>1. ASSUME NEW t \in Threads, Spawn(t) PROVE TypeOK'
  <2>1. lrq' \in [Workers -> Seq(Threads)]
    BY <1>1, LinkList DEF Spawn, runq_requeue
  <2> QED BY <1>1, <2>1 DEF Spawn
<1>2. ASSUME NEW t \in Threads, NEW l \in Lists, NEW dl \in BOOLEAN, BlockLock(t, l, dl) PROVE TypeOK'
  BY <1>2 DEF BlockLock, WaitsOn
<1>3. ASSUME NEW t \in Threads, BlockPublish(t) PROVE TypeOK'
  <2>1. obj[t] \in Lists
    BY <1>3 DEF LockInv, LockLabels, BlockPublish
  <2>2. waiters' \in [Lists -> Seq(Threads)]
    <3>1. CASE waiters' = [waiters EXCEPT ![obj[t]] = Append(@, t)]
      BY <3>1, <2>1, LinkList
    <3>2. CASE UNCHANGED waiters
      BY <3>2
    <3> QED BY <1>3, <3>1, <3>2 DEF BlockPublish
  <2>3. pc' \in [Actors -> Labels] /\ park' \in [Threads -> ParkWord]
        /\ state' \in [Threads -> State]
    <3>1. pc' \in [Actors -> Labels]
      <4>1. PICK x \in {"run", "relock", "arm", "unlock"} : pc' = [pc EXCEPT ![t] = x]
        BY <1>3 DEF BlockPublish
      <4> QED BY <4>1
    <3>2. park' \in [Threads -> ParkWord]
      BY <1>3 DEF BlockPublish, SetPark
    <3>3. state' \in [Threads -> State]
      BY <1>3 DEF BlockPublish, SetState
    <3> QED BY <3>1, <3>2, <3>3
  <2>4. /\ wl' \in [Lists -> Threads \cup {Free}] /\ inject' \in [Threads -> BOOLEAN]
        /\ wait_lock' \in [Threads -> Lists \cup {NoList}]
    <3>1. [inject EXCEPT ![t] = defer[t]] \in [Threads -> BOOLEAN]
      OBVIOUS
    <3>2. inject' \in [Threads -> BOOLEAN]
      BY <1>3, <3>1 DEF BlockPublish
    <3>3. UNCHANGED wl \/ wl' = [wl EXCEPT ![obj[t]] = Free]
      BY <1>3 DEF BlockPublish
    <3>4. wl' \in [Lists -> Threads \cup {Free}]
      BY <3>3
    <3>5. UNCHANGED wait_lock \/ wait_lock' = [wait_lock EXCEPT ![t] = obj[t]]
      BY <1>3 DEF BlockPublish
    <3>6. wait_lock' \in [Threads -> Lists \cup {NoList}]
      BY <2>1, <3>5
    <3> QED BY <3>2, <3>4, <3>6
  <2>5. obj' \in [Threads -> Lists \cup {NoList}]
    <3>1. UNCHANGED obj \/ obj' = [obj EXCEPT ![t] = NoList]
          \/ obj' = [obj EXCEPT ![t] = obj[t]]
      BY <1>3 DEF BlockPublish, WaitsOn
    <3> QED BY <3>1, <2>1
  <2> HIDE DEF Labels, State, ParkWord
  <2> QED BY <1>3, <2>2, <2>3, <2>4, <2>5 DEF BlockPublish
<1>4. ASSUME NEW t \in Threads, sp_timer_schedule(t) PROVE TypeOK'
  <2>1. tm_seq[t] + 1 \in 1 .. MaxGen
    BY <1>4 DEF GenInv, sp_timer_schedule
  <2>2. <<t, tm_seq[t] + 1>> \in Entry
    BY <2>1 DEF Entry
  <2>3. tm_seq' \in [Threads -> 0 .. MaxGen] /\ tm_armed' \in [Threads -> 0 .. MaxGen]
    BY <1>4, <2>1 DEF sp_timer_schedule
  <2>4. heap' \subseteq Entry
    BY <1>4, <2>2 DEF sp_timer_schedule
  <2>5. pc' \in [Actors -> Labels]
    BY <1>4 DEF sp_timer_schedule
  <2> HIDE DEF Labels, State, ParkWord
  <2> QED BY <1>4, <2>3, <2>4, <2>5 DEF sp_timer_schedule
<1>5. ASSUME NEW t \in Threads, TimerFailed(t) PROVE TypeOK'
  <2>1. tm_seq[t] + 1 \in 1 .. MaxGen
    BY <1>5 DEF GenInv, TimerFailed, WaitsOn
  <2>2. obj[t] \in Lists
    BY <1>5 DEF LockInv, LockLabels, TimerFailed, WaitsOn
  <2>3. waiters' \in [Lists -> Seq(Threads)] /\ wait_lock' = [wait_lock EXCEPT ![t] = NoList]
    BY <1>5, <2>2, UnlinkList DEF TimerFailed, WaitsOn
  <2>4. tm_seq' \in [Threads -> 0 .. MaxGen]
    BY <1>5, <2>1 DEF TimerFailed, WaitsOn
  <2>5. pc' \in [Actors -> Labels] /\ park' \in [Threads -> ParkWord]
        /\ state' \in [Threads -> State] /\ wl' \in [Lists -> Threads \cup {Free}]
    BY <1>5 DEF TimerFailed, WaitsOn, SetState, SetPark
  <2>6. wait_lock' \in [Threads -> Lists \cup {NoList}]
    BY <2>3
  <2> HIDE DEF Labels, State, ParkWord
  <2> QED BY <1>5, <2>3, <2>4, <2>5, <2>6 DEF TimerFailed, WaitsOn
<1>6. ASSUME NEW t \in Threads, BlockUnlock(t) PROVE TypeOK'
  BY <1>6 DEF BlockUnlock
<1>7. ASSUME NEW t \in Threads, SwitchOut(t) PROVE TypeOK'
  BY <1>7 DEF SwitchOut
<1>8. ASSUME NEW t \in Threads, Pass(t) PROVE TypeOK'
  BY <1>8 DEF Pass
<1>9. ASSUME NEW t \in Threads, Resume(t) PROVE TypeOK'
  <2>1. /\ [inject EXCEPT ![t] = @ /\ defer[t]] \in [Threads -> BOOLEAN]
        /\ [defer EXCEPT ![t] = TRUE] \in [Threads -> BOOLEAN]
    OBVIOUS
  <2>2. inject' \in [Threads -> BOOLEAN] /\ defer' \in [Threads -> BOOLEAN]
    BY <1>9, <2>1 DEF Resume
  <2>3. pc' \in [Actors -> Labels] /\ wait_timer' \in [Threads -> 0 .. MaxGen]
    BY <1>9, <1>z DEF Resume
  <2>4. obj' \in [Threads -> Lists \cup {NoList}]
    BY <1>9 DEF Resume, WaitsOn
  <2> HIDE DEF Labels, State, ParkWord
  <2> QED BY <1>9, <2>2, <2>3, <2>4 DEF Resume
<1>10. ASSUME NEW w \in Workers, RunThread(w) PROVE TypeOK'
  <2>1. Head(lrq[w]) \in Threads /\ lrq' \in [Workers -> Seq(Threads)]
    BY <1>10, NextList
  <2> QED BY <1>10, <2>1 DEF RunThread, SetState, SetPark
<1>11. ASSUME NEW w \in Workers, ThreadStopped(w) PROVE TypeOK'
  <2>1. cur[w] \in Threads
    BY <1>11 DEF ThreadStopped
  <2>2. lrq' \in [Workers -> Seq(Threads)]
    <3>1. CASE runq_requeue(cur[w])
      BY <2>1, <3>1, LinkList DEF runq_requeue
    <3>2. CASE UNCHANGED lrq
      BY <3>2
    <3> QED BY <1>11, <3>1, <3>2 DEF ThreadStopped
  <2>3. SetPark(cur[w], "PARKED") \/ SetPark(cur[w], "RUN")
    BY <1>11 DEF ThreadStopped
  <2>4. park' \in [Threads -> ParkWord]
    BY <2>3 DEF SetPark
  <2>5. UNCHANGED state \/ SetState(cur[w], "RUNNABLE")
    BY <1>11 DEF ThreadStopped
  <2>6. state' \in [Threads -> State]
    BY <2>5 DEF SetState
  <2>7. cur' \in [Workers -> Threads \cup {NoThread}]
    BY <1>11 DEF ThreadStopped
  <2> HIDE DEF Labels, State, ParkWord
  <2> QED BY <1>11, <2>2, <2>4, <2>6, <2>7 DEF ThreadStopped
<1>12. ASSUME NEW a \in Actors, NEW l \in Lists, TakeOne(a, l) PROVE TypeOK'
  <2>1. Head(waiters[l]) \in Threads /\ waiters' \in [Lists -> Seq(Threads)]
    BY <1>12, TakeOneList
  <2> QED BY <1>12, <2>1 DEF TakeOne, InProgram
<1>13. ASSUME NEW a \in Actors, sp_timer_cancel(a) PROVE TypeOK'
  <2>1. pc' \in [Actors -> Labels] /\ tm_armed' \in [Threads -> 0 .. MaxGen]
    BY <1>13, <1>z DEF sp_timer_cancel
  <2> HIDE DEF Labels, State, ParkWord
  <2> QED BY <1>13, <2>1 DEF sp_timer_cancel
<1>14. ASSUME NEW a \in Actors, sched_make_runnable(a) PROVE TypeOK'
  <2>1. tgt[a] \in Threads
    BY <1>14, TargetIsThread DEF sched_make_runnable, WakeLabels
  <2>2. lrq' \in [Workers -> Seq(Threads)]
    <3>1. CASE runq_requeue(tgt[a])
      BY <2>1, <3>1, LinkList DEF runq_requeue
    <3>2. CASE UNCHANGED lrq
      BY <3>2
    <3> QED BY <1>14, <3>1, <3>2 DEF sched_make_runnable
  <2>3. park' \in [Threads -> ParkWord] /\ state' \in [Threads -> State]
    <3>1. UNCHANGED park \/ (\E x \in {"RUN", "WOKEN"} : SetPark(tgt[a], x))
      BY <1>14 DEF sched_make_runnable
    <3>2. UNCHANGED state \/ SetState(tgt[a], "RUNNABLE")
      BY <1>14 DEF sched_make_runnable
    <3>3. park' \in [Threads -> ParkWord]
      BY <3>1 DEF SetPark
    <3>4. state' \in [Threads -> State]
      BY <3>2 DEF SetState
    <3> QED BY <3>3, <3>4
  <2>4. pc' \in [Actors -> Labels] /\ tgt' \in [Actors -> Threads \cup {NoThread}]
    BY <1>14 DEF sched_make_runnable
  <2> HIDE DEF Labels, State, ParkWord
  <2> QED BY <1>14, <2>2, <2>3, <2>4 DEF sched_make_runnable
<1>15. ASSUME NEW a \in Actors, NEW t \in Threads, DeliverInject(a, t) PROVE TypeOK'
  <2>1. nraise' \in 0 .. MaxRaise
    BY <1>15 DEF DeliverInject, InProgram
  <2>2. pc' \in [Actors -> Labels] /\ tgt' \in [Actors -> Threads \cup {NoThread}]
    <3>1. CASE tgt' = [tgt EXCEPT ![a] = t] /\ pc' = [pc EXCEPT ![a] = "unpark"]
      BY <3>1
    <3>2. CASE UNCHANGED <<tgt, pc>>
      BY <3>2
    <3> QED BY <1>15, <3>1, <3>2 DEF DeliverInject, InProgram
  <2>3. [inject EXCEPT ![t] = TRUE] \in [Threads -> BOOLEAN]
    OBVIOUS
  <2> HIDE DEF Labels, State, ParkWord
  <2> QED BY <1>15, <2>1, <2>2, <2>3 DEF DeliverInject, InProgram
<1>16. ASSUME NEW a \in Actors, DeliverUnpark(a) PROVE TypeOK'
  <2>1. tgt[a] \in Threads
    BY <1>16, TargetIsThread DEF DeliverUnpark, WakeLabels
  <2>2. CASE wait_lock[tgt[a]] # NoList /\ Unlink(tgt[a], wait_lock[tgt[a]])
    <3>1. waiters' \in [Lists -> Seq(Threads)] /\ wait_lock' = [wait_lock EXCEPT ![tgt[a]] = NoList]
      BY <2>1, <2>2, UnlinkList
    <3>2. tm_armed' \in [Threads -> 0 .. MaxGen]
      BY <1>16, <1>z DEF DeliverUnpark
    <3>3. pc' \in [Actors -> Labels] /\ wait_lock' \in [Threads -> Lists \cup {NoList}]
      BY <1>16, <3>1 DEF DeliverUnpark
    <3> HIDE DEF Labels, State, ParkWord
    <3> QED BY <1>16, <3>1, <3>2, <3>3 DEF DeliverUnpark
  <2>3. CASE UNCHANGED <<waiters, wait_lock, tm_armed>>
    BY <1>16, <2>3 DEF DeliverUnpark
  <2> QED BY <1>16, <2>2, <2>3 DEF DeliverUnpark
<1>17. ASSUME NEW e \in Entry, sp_timer_fire_due(e) PROVE TypeOK'
  <2>1. heap' \subseteq Entry /\ due' \subseteq Entry
    BY <1>17 DEF sp_timer_fire_due
  <2>2. tm_armed' \in [Threads -> 0 .. MaxGen]
    BY <1>17, <1>z DEF sp_timer_fire_due
  <2> HIDE DEF Labels, State, ParkWord
  <2> QED BY <1>17, <2>1, <2>2 DEF sp_timer_fire_due
<1>18. ASSUME NEW e \in Entry, sp_sched_timer_expire(e) PROVE TypeOK'
  <2>1. e[1] \in Threads
    BY DEF Entry
  <2>2. CASE wait_lock[e[1]] # NoList /\ Unlink(e[1], wait_lock[e[1]])
    <3>1. waiters' \in [Lists -> Seq(Threads)] /\ wait_lock' = [wait_lock EXCEPT ![e[1]] = NoList]
      BY <2>1, <2>2, UnlinkList
    <3>2. tm_armed' \in [Threads -> 0 .. MaxGen]
      BY <1>18, <1>z DEF sp_sched_timer_expire
    <3>5. [timer_expired EXCEPT ![e[1]] = TRUE] \in [Threads -> BOOLEAN]
      BY <2>1
    <3>6. timer_expired' \in [Threads -> BOOLEAN]
      BY <1>18, <3>5 DEF sp_sched_timer_expire
    <3>7. /\ UNCHANGED tgt \/ tgt' = [tgt EXCEPT ![Monitor] = e[1]]
          /\ UNCHANGED pc \/ pc' = [pc EXCEPT ![Monitor] = "wake"]
      BY <1>18 DEF sp_sched_timer_expire
    <3>8. pc' \in [Actors -> Labels]
      BY <3>7
    <3>3. pc' \in [Actors -> Labels] /\ tgt' \in [Actors -> Threads \cup {NoThread}]
      <4> HIDE DEF TypeOK, Labels, State, ParkWord
      <4>1. tgt \in [Actors -> Threads \cup {NoThread}]
        BY DEF TypeOK
      <4> QED BY <2>1, <3>7, <3>8, <4>1
    <3>4. wait_lock' \in [Threads -> Lists \cup {NoList}] /\ due' \subseteq Entry
      BY <1>18, <3>1 DEF sp_sched_timer_expire
    <3> HIDE DEF Labels, State, ParkWord
    <3> QED BY <1>18, <3>1, <3>2, <3>3, <3>4, <3>6 DEF sp_sched_timer_expire
  <2>3. CASE UNCHANGED <<waiters, wait_lock, tm_armed, timer_expired, tgt, pc>>
    BY <1>18, <2>1, <2>3 DEF sp_sched_timer_expire
  <2> QED BY <1>18, <2>2, <2>3 DEF sp_sched_timer_expire
<1>19. ASSUME NEW t \in Threads, BlockRelock(t) PROVE TypeOK'
  <2>0. /\ \E x \in {"run", "link"} : pc' = [pc EXCEPT ![t] = x]
        /\ UNCHANGED park \/ park' = [park EXCEPT ![t] = "PARKING"]
        /\ UNCHANGED state \/ state' = [state EXCEPT ![t] = "BLOCKED"]
        /\ UNCHANGED wl \/ wl' = [wl EXCEPT ![obj[t]] = t]
    BY <1>19 DEF BlockRelock, SetPark, SetState
  <2>a. pc' \in [Actors -> Labels]
    BY <2>0
  <2>b. park' \in [Threads -> ParkWord]
    BY <2>0
  <2>1. pc' \in [Actors -> Labels] /\ park' \in [Threads -> ParkWord]
    BY <2>a, <2>b
  <2>c. state' \in [Threads -> State]
    BY <2>0
  <2>d. wl' \in [Lists -> Threads \cup {Free}]
    <3>1. wl \in [Lists -> Threads \cup {Free}]
      OBVIOUS
    <3> HIDE DEF TypeOK, Labels, State, ParkWord
    <3> QED BY <2>0, <3>1
  <2>2. state' \in [Threads -> State] /\ wl' \in [Lists -> Threads \cup {Free}]
    BY <2>c, <2>d
  <2>3. obj' \in [Threads -> Lists \cup {NoList}]
    BY <1>19 DEF BlockRelock, WaitsOn
  <2> HIDE DEF Labels, State, ParkWord
  <2> QED BY <1>19, <2>1, <2>2, <2>3 DEF BlockRelock
<1>20. ASSUME NEW t \in Threads, BlockLink(t) PROVE TypeOK'
  <2>1. obj[t] \in Lists
    BY <1>20 DEF LockInv, LockLabels, BlockLink
  <2>2. waiters' \in [Lists -> Seq(Threads)]
    BY <1>20, <2>1, LinkList DEF BlockLink
  <2>3. pc' \in [Actors -> Labels] /\ wait_lock' \in [Threads -> Lists \cup {NoList}]
    BY <1>20, <2>1 DEF BlockLink
  <2> HIDE DEF Labels, State, ParkWord
  <2> QED BY <1>20, <2>2, <2>3 DEF BlockLink
<1>21. ASSUME NEW t \in Threads, DeferInject(t) PROVE TypeOK'
  <2>1. [defer EXCEPT ![t] = TRUE] \in [Threads -> BOOLEAN]
    OBVIOUS
  <2> HIDE DEF Labels, State, ParkWord
  <2> QED BY <1>21, <2>1 DEF DeferInject
<1>22. ASSUME NEW t \in Threads, UndeferInject(t) PROVE TypeOK'
  <2>1. /\ [defer EXCEPT ![t] = FALSE] \in [Threads -> BOOLEAN]
        /\ [inject EXCEPT ![t] = FALSE] \in [Threads -> BOOLEAN]
    OBVIOUS
  <2> HIDE DEF Labels, State, ParkWord
  <2> QED BY <1>22, <2>1 DEF UndeferInject
<1>u. CASE UNCHANGED vars
  BY <1>u DEF vars
<1> HIDE DEF TypeOK, At, Goto, listVars, timerVars, callVars, Labels, State, ParkWord
<1> QED BY <1>u, <1>1, <1>2, <1>3, <1>4, <1>5, <1>6, <1>7, <1>8, <1>9, <1>10, <1>11,
           <1>12, <1>13, <1>14, <1>15, <1>16, <1>17, <1>18, <1>19, <1>20, <1>21, <1>22
     DEF Next, ThreadStep, WorkerStep, WakerStep, MonitorStep

-----------------------------------------------------------------------------
(* Where an actor is in its call.                                          *)

LEMMA ControlStep ==
  ASSUME TypeOK, TgtInv, GenInv, LockInv, QueueInv, [Next]_vars
  PROVE  (TgtInv /\ GenInv /\ LockInv)'
<1>a. /\ pc \in [Actors -> Labels] /\ tgt \in [Actors -> Threads \cup {NoThread}]
      /\ wl \in [Lists -> Threads \cup {Free}] /\ obj \in [Threads -> Lists \cup {NoList}]
      /\ tm_seq \in [Threads -> 0 .. MaxGen] /\ timed \in [Threads -> BOOLEAN]
      /\ wait_lock \in [Threads -> Lists \cup {NoList}] /\ cur \in [Workers -> Threads \cup {NoThread}]
      /\ defer \in [Threads -> BOOLEAN]
  BY DEF TypeOK
<1> USE ConstAssumption, Names, <1>a
<1> USE DEF TgtInv, GenInv, LockInv, At, Goto, listVars, timerVars, callVars, Labels, WakeLabels, LockLabels
<1>1. ASSUME NEW t \in Threads, Spawn(t) PROVE (TgtInv /\ GenInv /\ LockInv)'
  BY <1>1 DEF Spawn, runq_requeue
<1>2. ASSUME NEW t \in Threads, NEW l \in Lists, NEW dl \in BOOLEAN, BlockLock(t, l, dl) PROVE (TgtInv /\ GenInv /\ LockInv)'
  <2>1. dl => tm_seq[t] < MaxGen
    BY <1>2, GenerationLeft DEF BlockLock, WaitsOn
  <2>2. (TgtInv /\ LockInv)'
    BY <1>2 DEF BlockLock, WaitsOn
  <2>3. GenInv'
    BY <1>2, <2>1 DEF BlockLock, WaitsOn
  <2> QED BY <2>2, <2>3
<1>3. ASSUME NEW t \in Threads, BlockPublish(t) PROVE (TgtInv /\ GenInv /\ LockInv)'
  <2>1. CASE pc' = [pc EXCEPT ![t] = "run"] /\ wl' = [wl EXCEPT ![obj[t]] = Free]
             /\ obj' = [obj EXCEPT ![t] = NoList]
    BY <1>3, <2>1 DEF BlockPublish
  <2>3. CASE /\ pc' = [pc EXCEPT ![t] = "relock"] /\ wl' = [wl EXCEPT ![obj[t]] = Free]
             /\ obj' = [obj EXCEPT ![t] = obj[t]] /\ defer[t]
    BY <1>3, <2>3 DEF BlockPublish
  <2>2. CASE pc' = [pc EXCEPT ![t] = IF timed[t] THEN "arm" ELSE "unlock"] /\ wl' = wl
             /\ obj' = obj
    BY <1>3, <2>2 DEF BlockPublish
  <2> QED BY <1>3, <2>1, <2>2, <2>3 DEF BlockPublish, WaitsOn
<1>4. ASSUME NEW t \in Threads, sp_timer_schedule(t) PROVE (TgtInv /\ GenInv /\ LockInv)'
  BY <1>4 DEF sp_timer_schedule
<1>5. ASSUME NEW t \in Threads, TimerFailed(t) PROVE (TgtInv /\ GenInv /\ LockInv)'
  BY <1>5 DEF TimerFailed, WaitsOn, SetState, SetPark
<1>6. ASSUME NEW t \in Threads, BlockUnlock(t) PROVE (TgtInv /\ GenInv /\ LockInv)'
  BY <1>6 DEF BlockUnlock
<1>7. ASSUME NEW t \in Threads, SwitchOut(t) PROVE (TgtInv /\ GenInv /\ LockInv)'
  BY <1>7 DEF SwitchOut
<1>8. ASSUME NEW t \in Threads, Pass(t) PROVE (TgtInv /\ GenInv /\ LockInv)'
  BY <1>8 DEF Pass
<1>9. ASSUME NEW t \in Threads, Resume(t) PROVE (TgtInv /\ GenInv /\ LockInv)'
  BY <1>9 DEF Resume, WaitsOn
<1>10. ASSUME NEW w \in Workers, RunThread(w) PROVE (TgtInv /\ GenInv /\ LockInv)'
  <2>1. Head(lrq[w]) \in Threads /\ Head(lrq[w]) \in Range(lrq[w])
    BY <1>10, NextList
  <2>2. pc[Head(lrq[w])] = "off"
    BY <2>1 DEF QueueInv
  <2>3. pc' = [pc EXCEPT ![Head(lrq[w])] = "resume"] /\ UNCHANGED <<tgt, wl, obj, timed, tm_seq, defer>>
    BY <1>10 DEF RunThread
  <2> QED BY <2>1, <2>2, <2>3
<1>11. ASSUME NEW w \in Workers, ThreadStopped(w) PROVE (TgtInv /\ GenInv /\ LockInv)'
  BY <1>11 DEF ThreadStopped, SetState, SetPark, runq_requeue
<1>12. ASSUME NEW a \in Actors, NEW l \in Lists, TakeOne(a, l) PROVE (TgtInv /\ GenInv /\ LockInv)'
  <2>1. Head(waiters[l]) \in Threads
    BY <1>12, TakeOneList
  <2>2. tgt' = [tgt EXCEPT ![a] = Head(waiters[l])] /\ pc' = [pc EXCEPT ![a] = "cancel"]
        /\ pc[a] = "run" /\ UNCHANGED <<wl, obj, timed, tm_seq, defer>>
    BY <1>12 DEF TakeOne, InProgram
  <2> QED BY <2>1, <2>2
<1>13. ASSUME NEW a \in Actors, sp_timer_cancel(a) PROVE (TgtInv /\ GenInv /\ LockInv)'
  BY <1>13 DEF sp_timer_cancel
<1>14. ASSUME NEW a \in Actors, sched_make_runnable(a) PROVE (TgtInv /\ GenInv /\ LockInv)'
  BY <1>14 DEF sched_make_runnable, SetState, SetPark, runq_requeue
<1>15. ASSUME NEW a \in Actors, NEW t \in Threads, DeliverInject(a, t) PROVE (TgtInv /\ GenInv /\ LockInv)'
  BY <1>15 DEF DeliverInject, InProgram
<1>16. ASSUME NEW a \in Actors, DeliverUnpark(a) PROVE (TgtInv /\ GenInv /\ LockInv)'
  BY <1>16 DEF DeliverUnpark
<1>17. ASSUME NEW e \in Entry, sp_timer_fire_due(e) PROVE (TgtInv /\ GenInv /\ LockInv)'
  BY <1>17 DEF sp_timer_fire_due
<1>18. ASSUME NEW e \in Entry, sp_sched_timer_expire(e) PROVE (TgtInv /\ GenInv /\ LockInv)'
  <2>1. e[1] \in Threads
    BY DEF Entry
  <2> QED BY <1>18, <2>1 DEF sp_sched_timer_expire
<1>19. ASSUME NEW t \in Threads, BlockRelock(t) PROVE (TgtInv /\ GenInv /\ LockInv)'
  BY <1>19 DEF BlockRelock, WaitsOn, SetState, SetPark
<1>20. ASSUME NEW t \in Threads, BlockLink(t) PROVE (TgtInv /\ GenInv /\ LockInv)'
  BY <1>20 DEF BlockLink
<1>21. ASSUME NEW t \in Threads, DeferInject(t) PROVE (TgtInv /\ GenInv /\ LockInv)'
  BY <1>21 DEF DeferInject
<1>22. ASSUME NEW t \in Threads, UndeferInject(t) PROVE (TgtInv /\ GenInv /\ LockInv)'
  BY <1>22 DEF UndeferInject
<1>u. CASE UNCHANGED vars
  BY <1>u DEF vars
<1> HIDE DEF TgtInv, GenInv, LockInv, At, Goto, listVars, timerVars, callVars, Labels, WakeLabels, LockLabels
<1> QED BY <1>u, <1>1, <1>2, <1>3, <1>4, <1>5, <1>6, <1>7, <1>8, <1>9, <1>10, <1>11,
           <1>12, <1>13, <1>14, <1>15, <1>16, <1>17, <1>18, <1>19, <1>20, <1>21, <1>22
     DEF Next, ThreadStep, WorkerStep, WakerStep, MonitorStep

-----------------------------------------------------------------------------
(* The handshake of the park word.                                         *)

\* A thread is queued by whoever finds it off its stack, and by nobody else.
LEMMA PlaceStep ==
  ASSUME TypeOK, TgtInv, PlaceInv, QueueInv, OffInv, [Next]_vars
  PROVE  (PlaceInv /\ QueueInv /\ OffInv)'
<1>a. /\ pc \in [Actors -> Labels] /\ park \in [Threads -> ParkWord]
      /\ state \in [Threads -> State] /\ cur \in [Workers -> Threads \cup {NoThread}]
      /\ lrq \in [Workers -> Seq(Threads)]
  BY DEF TypeOK
<1>b. \A w \in Workers : Range(lrq[w]) \subseteq Threads
  BY <1>a, EmptyList
<1> USE ConstAssumption, Names, <1>a, <1>b
<1> USE DEF PlaceInv, QueueInv, OffInv, At, Goto, listVars, timerVars, callVars, Labels, RunLabels, Asleep
<1>1. ASSUME NEW t \in Threads, Spawn(t) PROVE (PlaceInv /\ QueueInv /\ OffInv)'
  <2>t. t \in Threads /\ home_wid[t] \in Workers
    OBVIOUS
  <2>r. ASSUME runq_requeue(t)
        PROVE  LET h == home_wid[t] IN
                 /\ \A y \in Workers : y # h => lrq'[y] = lrq[y]
                 /\ Range(lrq'[h]) = Range(lrq[h]) \cup {t}
                 /\ IsInjective(lrq[h]) /\ t \notin Range(lrq[h]) => IsInjective(lrq'[h])
    <3>1. t \in Threads
      BY <2>t
    <3> HIDE DEF PlaceInv, QueueInv, OffInv, Labels, RunLabels
    <3> QED BY <2>r, <3>1, RequeueList
  <2>1. runq_requeue(t) /\ pc[t] = "new" /\ pc' = [pc EXCEPT ![t] = "off"]
        /\ UNCHANGED <<park, state, cur>>
    BY <1>1 DEF Spawn
  <2>2. t \notin Range(lrq[home_wid[t]]) /\ cur[home_wid[t]] # t
    BY <2>1
  <2>3. PlaceInv'
    BY <2>1
  <2>4. QueueInv'
    <3>1. pc'[t] = "off" /\ \A u \in Threads : u # t => pc'[u] = pc[u]
      BY <2>1
    <3>2. park[t] = "RUN"
      BY <2>1
    <3> QED BY <2>1, <2>2, <2>r, <2>t, <3>1, <3>2
  <2>5. OffInv'
    BY <2>1, <2>r
  <2> QED BY <2>3, <2>4, <2>5
<1>2. ASSUME NEW t \in Threads, NEW l \in Lists, NEW dl \in BOOLEAN, BlockLock(t, l, dl) PROVE (PlaceInv /\ QueueInv /\ OffInv)'
  BY <1>2 DEF BlockLock, WaitsOn
<1>3. ASSUME NEW t \in Threads, BlockPublish(t) PROVE (PlaceInv /\ QueueInv /\ OffInv)'
  <2>1. CASE /\ UNCHANGED <<park, state>>
             /\ pc' = [pc EXCEPT ![t] = "run"] \/ pc' = [pc EXCEPT ![t] = "relock"]
    BY <1>3, <2>1 DEF BlockPublish
  <2>2. CASE /\ pc' = [pc EXCEPT ![t] = IF timed[t] THEN "arm" ELSE "unlock"]
             /\ SetPark(t, "PARKING") /\ SetState(t, "BLOCKED")
    BY <1>3, <2>2 DEF BlockPublish, SetPark, SetState
  <2> QED BY <1>3, <2>1, <2>2 DEF BlockPublish
<1>4. ASSUME NEW t \in Threads, sp_timer_schedule(t) PROVE (PlaceInv /\ QueueInv /\ OffInv)'
  BY <1>4 DEF sp_timer_schedule
<1>5. ASSUME NEW t \in Threads, TimerFailed(t) PROVE (PlaceInv /\ QueueInv /\ OffInv)'
  BY <1>5 DEF TimerFailed, WaitsOn, SetState, SetPark
<1>6. ASSUME NEW t \in Threads, BlockUnlock(t) PROVE (PlaceInv /\ QueueInv /\ OffInv)'
  BY <1>6 DEF BlockUnlock
<1>7. ASSUME NEW t \in Threads, SwitchOut(t) PROVE (PlaceInv /\ QueueInv /\ OffInv)'
  BY <1>7 DEF SwitchOut
<1>8. ASSUME NEW t \in Threads, Pass(t) PROVE (PlaceInv /\ QueueInv /\ OffInv)'
  BY <1>8 DEF Pass
<1>9. ASSUME NEW t \in Threads, Resume(t) PROVE (PlaceInv /\ QueueInv /\ OffInv)'
  BY <1>9 DEF Resume, WaitsOn
<1>10. ASSUME NEW w \in Workers, RunThread(w) PROVE (PlaceInv /\ QueueInv /\ OffInv)'
  <2> DEFINE t == Head(lrq[w])
  <2>1. /\ t \in Threads /\ \A m \in Workers : m # w => lrq'[m] = lrq[m]
        /\ t \in Range(lrq[w]) /\ Range(lrq[w]) = Range(lrq'[w]) \cup {t}
        /\ IsInjective(lrq'[w]) /\ t \notin Range(lrq'[w])
    BY <1>10, NextList
  <2>2. /\ cur[w] = NoThread /\ cur' = [cur EXCEPT ![w] = t] /\ pc' = [pc EXCEPT ![t] = "resume"]
        /\ park' = [park EXCEPT ![t] = "RUN"] /\ state' = [state EXCEPT ![t] = "RUNNING"]
    BY <1>10 DEF RunThread, SetPark, SetState
  <2> HIDE DEF t
  <2>3. PlaceInv'
    BY <2>1, <2>2
  <2>4. QueueInv'
    BY <2>1, <2>2
  <2>5. OffInv'
    BY <2>1, <2>2
  <2> QED BY <2>3, <2>4, <2>5
<1>11. ASSUME NEW w \in Workers, ThreadStopped(w) PROVE (PlaceInv /\ QueueInv /\ OffInv)'
  <2> DEFINE t == cur[w]
  <2>t. t \in Threads /\ cur[w] = t /\ home_wid[t] = w /\ pc[t] = "off" /\ UNCHANGED pc
        /\ cur' = [cur EXCEPT ![w] = NoThread]
    BY <1>11 DEF ThreadStopped
  <2> HIDE DEF t
  <2>r. ASSUME runq_requeue(t)
        PROVE  LET h == home_wid[t] IN
                 /\ \A y \in Workers : y # h => lrq'[y] = lrq[y]
                 /\ Range(lrq'[h]) = Range(lrq[h]) \cup {t}
                 /\ IsInjective(lrq[h]) /\ t \notin Range(lrq[h]) => IsInjective(lrq'[h])
    <3>1. t \in Threads
      BY <2>t
    <3> HIDE DEF PlaceInv, QueueInv, OffInv, Labels, RunLabels
    <3> QED BY <2>r, <3>1, RequeueList
  <2>1. CASE /\ park[t] = "PARKING" /\ state[t] = "BLOCKED" /\ UNCHANGED <<state, lrq>>
             /\ park' = [park EXCEPT ![t] = "PARKED"]
    <3>p. /\ park'[t] = "PARKED" /\ \A u \in Threads : u # t => park'[u] = park[u]
          /\ lrq' = lrq /\ state' = state
      BY <2>t, <2>1
    <3>q. cur'[w] = NoThread /\ \A v \in Workers : v # w => cur'[v] = cur[v]
      BY <2>t
    <3>0. t \notin Range(lrq[w])
      BY <2>t DEF t
    <3>1. PlaceInv'
      BY <2>t, <2>1, <3>p, <3>q
    <3>2. QueueInv'
      BY <2>t, <3>p, <3>q, <3>0
    <3>3. OffInv'
      BY <2>t, <3>p, <3>q
    <3> QED BY <3>1, <3>2, <3>3
  <2>2. CASE /\ runq_requeue(t) /\ park' = [park EXCEPT ![t] = "RUN"]
             /\ state' = [state EXCEPT ![t] = "RUNNABLE"]
    <3>p. /\ park'[t] = "RUN" /\ \A u \in Threads : u # t => park'[u] = park[u]
          /\ \A u \in Threads : u # t => state'[u] = state[u]
      BY <2>t, <2>2
    <3>q. cur'[w] = NoThread /\ \A v \in Workers : v # w => cur'[v] = cur[v]
      BY <2>t
    <3>0. t \notin Range(lrq[w])
      BY <2>t DEF t
    <3>1. PlaceInv'
      BY <2>t, <3>p, <3>q
    <3>2. QueueInv'
      BY <2>t, <2>2, <2>r, <3>0
    <3>3. OffInv'
      BY <2>t, <2>2, <2>r, <3>p, <3>q
    <3> QED BY <3>1, <3>2, <3>3
  <2> QED BY <1>11, <2>1, <2>2 DEF ThreadStopped, SetPark, SetState, t
<1>12. ASSUME NEW a \in Actors, NEW l \in Lists, TakeOne(a, l) PROVE (PlaceInv /\ QueueInv /\ OffInv)'
  BY <1>12 DEF TakeOne, InProgram
<1>13. ASSUME NEW a \in Actors, sp_timer_cancel(a) PROVE (PlaceInv /\ QueueInv /\ OffInv)'
  BY <1>13 DEF sp_timer_cancel
<1>14. ASSUME NEW a \in Actors, sched_make_runnable(a) PROVE (PlaceInv /\ QueueInv /\ OffInv)'
  <2> DEFINE t == tgt[a]
  <2>t. t \in Threads /\ home_wid[t] \in Workers
    BY <1>14, TargetIsThread DEF sched_make_runnable, WakeLabels
  <2>a. pc[a] \in {"wake", "raise"} /\ pc' = [pc EXCEPT ![a] = "run"] /\ UNCHANGED cur
    BY <1>14 DEF sched_make_runnable
  <2> HIDE DEF t
  <2>r. ASSUME runq_requeue(t)
        PROVE  LET h == home_wid[t] IN
                 /\ \A y \in Workers : y # h => lrq'[y] = lrq[y]
                 /\ Range(lrq'[h]) = Range(lrq[h]) \cup {t}
                 /\ IsInjective(lrq[h]) /\ t \notin Range(lrq[h]) => IsInjective(lrq'[h])
    <3>1. t \in Threads
      BY <2>t
    <3> HIDE DEF PlaceInv, QueueInv, OffInv, Labels, RunLabels
    <3> QED BY <2>r, <3>1, RequeueList
  <2>1. CASE /\ park[t] = "PARKED" /\ runq_requeue(t) /\ park' = [park EXCEPT ![t] = "RUN"]
             /\ state' = [state EXCEPT ![t] = "RUNNABLE"]
    <3>p. /\ park'[t] = "RUN" /\ \A u \in Threads : u # t => park'[u] = park[u]
          /\ \A u \in Threads : u # t => state'[u] = state[u]
      BY <2>t, <2>1
    <3>q. pc'[a] = "run" /\ \A b \in Actors : b # a => pc'[b] = pc[b]
      BY <2>a
    <3>1. t \notin Range(lrq[home_wid[t]]) /\ pc[t] = "off" /\ t # a /\ cur[home_wid[t]] # t
      BY <2>t, <2>a, <2>1
    <3>2. PlaceInv'
      BY <2>t, <2>a, <2>1, <2>r, <3>1
    <3>3. QueueInv'
      BY <2>t, <2>a, <2>1, <2>r, <3>1, <3>p, <3>q
    <3>4. OffInv'
      <4>1. SUFFICES ASSUME NEW u \in Threads, pc'[u] = "off"
                     PROVE  \/ u \in Range(lrq'[home_wid[u]]) \/ cur'[home_wid[u]] = u
                            \/ park'[u] = "PARKED"
        OBVIOUS
      <4>2. CASE u = t
        BY <4>2, <2>1, <2>r
      <4>3. CASE u # t
        <5>1. pc[u] = "off" /\ park'[u] = park[u] /\ cur' = cur
          BY <4>1, <4>3, <2>a, <3>p, <3>q
        <5>2. \/ u \in Range(lrq[home_wid[u]]) \/ cur[home_wid[u]] = u
              \/ park[u] = "PARKED"
          BY <5>1
        <5>3. home_wid[u] \in Workers
          OBVIOUS
        <5>4. Range(lrq[home_wid[u]]) \subseteq Range(lrq'[home_wid[u]])
          <6> HIDE DEF PlaceInv, QueueInv, OffInv, Labels, RunLabels
          <6> QED BY <2>t, <2>1, <2>r, <5>3
        <5> QED BY <5>1, <5>2, <5>4
      <4> QED BY <4>2, <4>3
    <3> QED BY <3>2, <3>3, <3>4
  <2>2. CASE /\ park[t] = "PARKING" /\ UNCHANGED <<state, lrq>>
             /\ park' = [park EXCEPT ![t] = "WOKEN"]
    BY <2>t, <2>a, <2>2
  <2>3. CASE UNCHANGED <<park, state, lrq>>
    BY <2>t, <2>a, <2>3
  <2> QED BY <1>14, <2>1, <2>2, <2>3 DEF sched_make_runnable, SetPark, SetState, t
<1>15. ASSUME NEW a \in Actors, NEW t \in Threads, DeliverInject(a, t) PROVE (PlaceInv /\ QueueInv /\ OffInv)'
  BY <1>15 DEF DeliverInject, InProgram
<1>16. ASSUME NEW a \in Actors, DeliverUnpark(a) PROVE (PlaceInv /\ QueueInv /\ OffInv)'
  BY <1>16 DEF DeliverUnpark
<1>17. ASSUME NEW e \in Entry, sp_timer_fire_due(e) PROVE (PlaceInv /\ QueueInv /\ OffInv)'
  BY <1>17 DEF sp_timer_fire_due
<1>18. ASSUME NEW e \in Entry, sp_sched_timer_expire(e) PROVE (PlaceInv /\ QueueInv /\ OffInv)'
  BY <1>18 DEF sp_sched_timer_expire
<1>19. ASSUME NEW t \in Threads, BlockRelock(t) PROVE (PlaceInv /\ QueueInv /\ OffInv)'
  BY <1>19 DEF BlockRelock, WaitsOn, SetState, SetPark
<1>20. ASSUME NEW t \in Threads, BlockLink(t) PROVE (PlaceInv /\ QueueInv /\ OffInv)'
  BY <1>20 DEF BlockLink
<1>21. ASSUME NEW t \in Threads, DeferInject(t) PROVE (PlaceInv /\ QueueInv /\ OffInv)'
  BY <1>21 DEF DeferInject
<1>22. ASSUME NEW t \in Threads, UndeferInject(t) PROVE (PlaceInv /\ QueueInv /\ OffInv)'
  BY <1>22 DEF UndeferInject
<1>u. CASE UNCHANGED vars
  BY <1>u DEF vars
<1> HIDE DEF PlaceInv, QueueInv, OffInv, At, Goto, listVars, timerVars, callVars, Labels, RunLabels, Asleep
<1> QED BY <1>u, <1>1, <1>2, <1>3, <1>4, <1>5, <1>6, <1>7, <1>8, <1>9, <1>10, <1>11,
           <1>12, <1>13, <1>14, <1>15, <1>16, <1>17, <1>18, <1>19, <1>20, <1>21, <1>22
     DEF Next, ThreadStep, WorkerStep, WakerStep, MonitorStep

-----------------------------------------------------------------------------
(* Who owns a wake.                                                        *)

\* Nobody who sleeps is forgotten, and nobody sleeps through a #raise.
LEMMA WakeStep ==
  ASSUME TypeOK, TgtInv, LockInv, PlaceInv, QueueInv, WakeInv, RaiseNotSleptThrough,
         [Next]_vars
  PROVE  (WakeInv /\ RaiseNotSleptThrough)'
<1>a. /\ pc \in [Actors -> Labels] /\ park \in [Threads -> ParkWord]
      /\ tgt \in [Actors -> Threads \cup {NoThread}] /\ inject \in [Threads -> BOOLEAN]
      /\ defer \in [Threads -> BOOLEAN]
      /\ wait_lock \in [Threads -> Lists \cup {NoList}]
  BY DEF TypeOK
<1>b. \A b \in Actors : tgt[b] \in Threads => pc[b] \in WakeLabels
  BY DEF TgtInv
<1>c. \A v \in Threads : park[v] \in Asleep => state[v] = "BLOCKED"
  BY DEF PlaceInv
<1>d. \A v \in Threads : pc[v] \in LockLabels => obj[v] \in Lists
  BY DEF LockInv
<1> USE ConstAssumption, Names, <1>a, <1>b
<1> USE DEF WakeInv, RaiseNotSleptThrough, At, Goto, listVars, timerVars, callVars, Labels, WakeLabels, Asleep
<1>1. ASSUME NEW t \in Threads, Spawn(t) PROVE (WakeInv /\ RaiseNotSleptThrough)'
  BY <1>1 DEF Spawn, runq_requeue
<1>2. ASSUME NEW t \in Threads, NEW l \in Lists, NEW dl \in BOOLEAN, BlockLock(t, l, dl) PROVE (WakeInv /\ RaiseNotSleptThrough)'
  BY <1>2 DEF BlockLock, WaitsOn
<1>3. ASSUME NEW t \in Threads, BlockPublish(t) PROVE (WakeInv /\ RaiseNotSleptThrough)'
  <2>1. CASE /\ UNCHANGED <<park, wait_lock, tgt>>
             /\ pc' = [pc EXCEPT ![t] = "run"] \/ pc' = [pc EXCEPT ![t] = "relock"]
    <3>1. park[t] = "RUN" /\ \A u \in Threads : u # t => inject'[u] = inject[u]
      BY <1>3 DEF BlockPublish, PlaceInv, RunLabels
    <3>2. \A b \in Actors : b # t => pc'[b] = pc[b]
      BY <2>1
    <3>3. pc[t] = "locked" /\ UNCHANGED defer
      BY <1>3 DEF BlockPublish
    <3> QED BY <2>1, <3>1, <3>2, <3>3
  <2>2. CASE /\ ~ inject[t] /\ UNCHANGED <<inject, defer, tgt>> /\ SetPark(t, "PARKING")
             /\ pc' = [pc EXCEPT ![t] = IF timed[t] THEN "arm" ELSE "unlock"]
             /\ wait_lock' = [wait_lock EXCEPT ![t] = obj[t]]
    <3>1. pc[t] = "locked" /\ obj[t] # NoList
      BY <1>3, <1>d DEF BlockPublish, LockLabels
    <3>2. pc'[t] \in {"arm", "unlock"} /\ \A b \in Actors : b # t => pc'[b] = pc[b]
      BY <2>2
    <3>3. /\ park'[t] = "PARKING" /\ wait_lock'[t] = obj[t]
          /\ \A u \in Threads : u # t => park'[u] = park[u] /\ wait_lock'[u] = wait_lock[u]
      BY <2>2 DEF SetPark
    <3>4. WakeInv'
      BY <2>2, <3>1, <3>3
    <3>5. RaiseNotSleptThrough'
      BY <2>2, <3>1, <3>2, <3>3
    <3> QED BY <3>4, <3>5
  <2> QED BY <1>3, <2>1, <2>2 DEF BlockPublish, SetPark
<1>4. ASSUME NEW t \in Threads, sp_timer_schedule(t) PROVE (WakeInv /\ RaiseNotSleptThrough)'
  BY <1>4 DEF sp_timer_schedule
<1>5. ASSUME NEW t \in Threads, TimerFailed(t) PROVE (WakeInv /\ RaiseNotSleptThrough)'
  BY <1>5 DEF TimerFailed, WaitsOn, SetState, SetPark, Unlink
<1>6. ASSUME NEW t \in Threads, BlockUnlock(t) PROVE (WakeInv /\ RaiseNotSleptThrough)'
  BY <1>6 DEF BlockUnlock
<1>7. ASSUME NEW t \in Threads, SwitchOut(t) PROVE (WakeInv /\ RaiseNotSleptThrough)'
  BY <1>7 DEF SwitchOut
<1>8. ASSUME NEW t \in Threads, Pass(t) PROVE (WakeInv /\ RaiseNotSleptThrough)'
  BY <1>8 DEF Pass
<1>9. ASSUME NEW t \in Threads, Resume(t) PROVE (WakeInv /\ RaiseNotSleptThrough)'
  BY <1>9 DEF Resume, WaitsOn
<1>10. ASSUME NEW w \in Workers, RunThread(w) PROVE (WakeInv /\ RaiseNotSleptThrough)'
  <2> DEFINE t == Head(lrq[w])
  <2>1. t \in Threads /\ t \in Range(lrq[w])
    BY <1>10, NextList
  <2>2. pc[t] = "off"
    BY <2>1 DEF QueueInv
  <2>3. /\ pc' = [pc EXCEPT ![t] = "resume"] /\ park' = [park EXCEPT ![t] = "RUN"]
        /\ UNCHANGED <<tgt, inject, defer, wait_lock>>
    BY <1>10 DEF RunThread, SetState, SetPark
  <2> HIDE DEF t
  <2> QED BY <2>1, <2>2, <2>3
<1>11. ASSUME NEW w \in Workers, ThreadStopped(w) PROVE (WakeInv /\ RaiseNotSleptThrough)'
  BY <1>11 DEF ThreadStopped, SetState, SetPark, runq_requeue
<1>12. ASSUME NEW a \in Actors, NEW l \in Lists, TakeOne(a, l) PROVE (WakeInv /\ RaiseNotSleptThrough)'
  BY <1>12 DEF TakeOne, InProgram
<1>13. ASSUME NEW a \in Actors, sp_timer_cancel(a) PROVE (WakeInv /\ RaiseNotSleptThrough)'
  BY <1>13 DEF sp_timer_cancel
<1>14. ASSUME NEW a \in Actors, sched_make_runnable(a) PROVE (WakeInv /\ RaiseNotSleptThrough)'
  BY <1>14 DEF sched_make_runnable, SetState, SetPark, runq_requeue
<1>15. ASSUME NEW a \in Actors, NEW t \in Threads, DeliverInject(a, t) PROVE (WakeInv /\ RaiseNotSleptThrough)'
  <2>1. CASE /\ state[t] = "BLOCKED" /\ tgt' = [tgt EXCEPT ![a] = t]
             /\ pc' = [pc EXCEPT ![a] = "unpark"]
    <3>1. /\ tgt'[a] = t /\ pc'[a] = "unpark" /\ pc[a] = "run"
          /\ \A b \in Actors : b # a => tgt'[b] = tgt[b] /\ pc'[b] = pc[b]
          /\ \A u \in Threads : u # t => inject'[u] = inject[u]
          /\ UNCHANGED <<park, wait_lock, defer>>
      BY <1>15, <2>1 DEF DeliverInject, InProgram
    <3> QED BY <3>1
  <2>2. CASE state[t] # "BLOCKED" /\ UNCHANGED <<tgt, pc>>
    <3>1. /\ \A u \in Threads : u # t => inject'[u] = inject[u]
          /\ UNCHANGED <<park, wait_lock, defer>>
      BY <1>15, <2>2 DEF DeliverInject, InProgram
    <3> QED BY <2>2, <3>1, <1>c
  <2> QED BY <1>15, <2>1, <2>2 DEF DeliverInject, InProgram
<1>16. ASSUME NEW a \in Actors, DeliverUnpark(a) PROVE (WakeInv /\ RaiseNotSleptThrough)'
  <2>1. tgt[a] \in Threads
    BY <1>16, TargetIsThread DEF DeliverUnpark
  <2>2. /\ wait_lock' = [wait_lock EXCEPT ![tgt[a]] = NoList]
        /\ pc[a] = "unpark" /\ pc' = [pc EXCEPT ![a] = "raise"]
        /\ UNCHANGED <<park, inject, defer, tgt>>
    BY <1>16, <2>1 DEF DeliverUnpark, Unlink
  <2> QED BY <2>1, <2>2
<1>17. ASSUME NEW e \in Entry, sp_timer_fire_due(e) PROVE (WakeInv /\ RaiseNotSleptThrough)'
  BY <1>17 DEF sp_timer_fire_due
<1>18. ASSUME NEW e \in Entry, sp_sched_timer_expire(e) PROVE (WakeInv /\ RaiseNotSleptThrough)'
  <2>1. e[1] \in Threads
    BY DEF Entry
  <2>2. CASE UNCHANGED <<wait_lock, tgt, pc>>
    BY <1>18, <2>2 DEF sp_sched_timer_expire
  <2>3. CASE /\ wait_lock' = [wait_lock EXCEPT ![e[1]] = NoList]
             /\ tgt' = [tgt EXCEPT ![Monitor] = e[1]] /\ pc' = [pc EXCEPT ![Monitor] = "wake"]
    <3>1. pc[Monitor] = "run" /\ UNCHANGED <<park, inject, defer>>
      BY <1>18 DEF sp_sched_timer_expire
    <3>2. tgt[Monitor] \notin Threads
      BY <3>1
    <3> QED BY <2>1, <2>3, <3>1, <3>2
  <2> QED BY <1>18, <2>2, <2>3 DEF sp_sched_timer_expire, Unlink
<1>19. ASSUME NEW t \in Threads, BlockRelock(t) PROVE (WakeInv /\ RaiseNotSleptThrough)'
  <2>1. CASE /\ UNCHANGED <<park, wait_lock, tgt, inject, defer>>
             /\ pc[t] = "relock" /\ pc' = [pc EXCEPT ![t] = "run"]
    <3>1. park[t] = "RUN" /\ \A b \in Actors : b # t => pc'[b] = pc[b]
      BY <2>1 DEF PlaceInv, RunLabels
    <3> QED BY <2>1, <3>1
  <2>2. CASE /\ UNCHANGED <<wait_lock, tgt, inject, defer>> /\ park' = [park EXCEPT ![t] = "PARKING"]
             /\ pc[t] = "relock" /\ pc' = [pc EXCEPT ![t] = "link"]
    <3>1. /\ pc'[t] = "link" /\ \A b \in Actors : b # t => pc'[b] = pc[b]
          /\ \A u \in Threads : u # t => park'[u] = park[u]
      BY <2>2
    <3>2. defer[t]
      BY <2>2 DEF LockInv
    <3> QED BY <2>2, <3>1, <3>2
  <2> QED BY <1>19, <2>1, <2>2 DEF BlockRelock, SetPark
<1>20. ASSUME NEW t \in Threads, BlockLink(t) PROVE (WakeInv /\ RaiseNotSleptThrough)'
  <2>1. /\ pc[t] = "link" /\ obj[t] # NoList /\ defer[t]
        /\ wait_lock' = [wait_lock EXCEPT ![t] = obj[t]]
        /\ UNCHANGED <<park, tgt, inject, defer>>
    BY <1>20, <1>d DEF BlockLink, LockInv, LockLabels
  <2>2. /\ \A b \in Actors : b # t => pc'[b] = pc[b]
        /\ pc'[t] \in {"arm", "unlock"} /\ wait_lock'[t] = obj[t]
        /\ \A u \in Threads : u # t => wait_lock'[u] = wait_lock[u]
    BY <1>20 DEF BlockLink
  <2> QED BY <2>1, <2>2
<1>21. ASSUME NEW t \in Threads, DeferInject(t) PROVE (WakeInv /\ RaiseNotSleptThrough)'
  <2>1. UNCHANGED <<park, wait_lock, tgt, pc, inject>> /\ park[t] = "RUN"
    BY <1>21 DEF DeferInject, PlaceInv, RunLabels
  <2>2. \A u \in Threads : u # t => defer'[u] = defer[u]
    BY <1>21 DEF DeferInject
  <2> QED BY <2>1, <2>2
<1>22. ASSUME NEW t \in Threads, UndeferInject(t) PROVE (WakeInv /\ RaiseNotSleptThrough)'
  <2>1. UNCHANGED <<park, wait_lock, tgt, pc>> /\ park[t] = "RUN"
    BY <1>22 DEF UndeferInject, PlaceInv, RunLabels
  <2>2. \A u \in Threads : u # t => inject'[u] = inject[u] /\ defer'[u] = defer[u]
    BY <1>22 DEF UndeferInject
  <2> QED BY <2>1, <2>2
<1>u. CASE UNCHANGED vars
  BY <1>u DEF vars
<1> HIDE DEF WakeInv, RaiseNotSleptThrough, At, Goto, listVars, timerVars, callVars, Labels, WakeLabels, Asleep
<1> QED BY <1>u, <1>1, <1>2, <1>3, <1>4, <1>5, <1>6, <1>7, <1>8, <1>9, <1>10, <1>11,
           <1>12, <1>13, <1>14, <1>15, <1>16, <1>17, <1>18, <1>19, <1>20, <1>21, <1>22
     DEF Next, ThreadStep, WorkerStep, WakerStep, MonitorStep

-----------------------------------------------------------------------------
(* The wait lists.                                                         *)

\* Until the first #raise none is pending.
LEMMA QuietStep ==
  ASSUME TypeOK, TgtInv, QuietRight, [Next]_vars, nraise' = 0
  PROVE  QuietRight'
<1>a. /\ pc \in [Actors -> Labels] /\ inject \in [Threads -> BOOLEAN]
      /\ tgt \in [Actors -> Threads \cup {NoThread}]
  BY DEF TypeOK
<1> USE ConstAssumption, Names, <1>a
<1> USE DEF QuietRight, At, Goto, listVars, timerVars, callVars, Labels
<1>1. ASSUME NEW t \in Threads, Spawn(t) PROVE QuietRight'
  BY <1>1 DEF Spawn
<1>2. ASSUME NEW t \in Threads, NEW l \in Lists, NEW dl \in BOOLEAN, BlockLock(t, l, dl) PROVE QuietRight'
  BY <1>2 DEF BlockLock
<1>3. ASSUME NEW t \in Threads, BlockPublish(t) PROVE QuietRight'
  BY <1>3 DEF BlockPublish
<1>4. ASSUME NEW t \in Threads, sp_timer_schedule(t) PROVE QuietRight'
  BY <1>4 DEF sp_timer_schedule
<1>5. ASSUME NEW t \in Threads, TimerFailed(t) PROVE QuietRight'
  BY <1>5 DEF TimerFailed
<1>6. ASSUME NEW t \in Threads, BlockUnlock(t) PROVE QuietRight'
  BY <1>6 DEF BlockUnlock
<1>7. ASSUME NEW t \in Threads, SwitchOut(t) PROVE QuietRight'
  BY <1>7 DEF SwitchOut
<1>8. ASSUME NEW t \in Threads, Pass(t) PROVE QuietRight'
  BY <1>8 DEF Pass
<1>9. ASSUME NEW t \in Threads, Resume(t) PROVE QuietRight'
  BY <1>9 DEF Resume
<1>10. ASSUME NEW w \in Workers, RunThread(w) PROVE QuietRight'
  BY <1>10 DEF RunThread
<1>11. ASSUME NEW w \in Workers, ThreadStopped(w) PROVE QuietRight'
  BY <1>11 DEF ThreadStopped
<1>12. ASSUME NEW a \in Actors, NEW l \in Lists, TakeOne(a, l) PROVE QuietRight'
  BY <1>12 DEF TakeOne
<1>13. ASSUME NEW a \in Actors, sp_timer_cancel(a) PROVE QuietRight'
  BY <1>13 DEF sp_timer_cancel
<1>14. ASSUME NEW a \in Actors, sched_make_runnable(a) PROVE QuietRight'
  BY <1>14 DEF sched_make_runnable
<1>15. ASSUME NEW a \in Actors, NEW t \in Threads, DeliverInject(a, t) PROVE QuietRight'
  <2>1. nraise' = nraise + 1 /\ nraise \in Nat
    BY <1>15 DEF DeliverInject, TypeOK
  <2> QED BY <2>1
<1>16. ASSUME NEW a \in Actors, DeliverUnpark(a) PROVE QuietRight'
  BY <1>16 DEF DeliverUnpark
<1>17. ASSUME NEW e \in Entry, sp_timer_fire_due(e) PROVE QuietRight'
  BY <1>17 DEF sp_timer_fire_due
<1>18. ASSUME NEW e \in Entry, sp_sched_timer_expire(e) PROVE QuietRight'
  BY <1>18 DEF sp_sched_timer_expire
<1>19. ASSUME NEW t \in Threads, BlockRelock(t) PROVE QuietRight'
  BY <1>19 DEF BlockRelock
<1>20. ASSUME NEW t \in Threads, BlockLink(t) PROVE QuietRight'
  BY <1>20 DEF BlockLink
<1>21. ASSUME NEW t \in Threads, DeferInject(t) PROVE QuietRight'
  BY <1>21 DEF DeferInject
<1>22. ASSUME NEW t \in Threads, UndeferInject(t) PROVE QuietRight'
  BY <1>22 DEF UndeferInject
<1>u. CASE UNCHANGED vars
  BY <1>u DEF vars
<1> HIDE DEF QuietRight, At, Goto, listVars, timerVars, callVars, Labels
<1> QED BY <1>u, <1>1, <1>2, <1>3, <1>4, <1>5, <1>6, <1>7, <1>8, <1>9, <1>10, <1>11,
           <1>12, <1>13, <1>14, <1>15, <1>16, <1>17, <1>18, <1>19, <1>20, <1>21, <1>22
     DEF Next, ThreadStep, WorkerStep, WakerStep, MonitorStep

\* Until the first #raise a thread leaves its wait by the hand that took it off.
LEMMA ListStep ==
  ASSUME TypeOK, TgtInv, LockInv, PlaceInv, QueueInv, QuietRight, ListsRight,
         [Next]_vars, nraise' = 0
  PROVE  ListsRight'
<1>a. /\ pc \in [Actors -> Labels] /\ park \in [Threads -> ParkWord]
      /\ tgt \in [Actors -> Threads \cup {NoThread}]
      /\ wait_lock \in [Threads -> Lists \cup {NoList}]
      /\ waiters \in [Lists -> Seq(Threads)] /\ obj \in [Threads -> Lists \cup {NoList}]
  BY DEF TypeOK
<1>b. \A b \in Actors : tgt[b] \in Threads <=> pc[b] \in WakeLabels
  BY DEF TgtInv
<1>c. \A v \in Threads : pc[v] \in RunLabels => park[v] = "RUN"
  BY DEF PlaceInv
<1>d. \A v \in Threads : pc[v] \in LockLabels => obj[v] \in Lists /\ wl[obj[v]] = v
  BY DEF LockInv
<1>e. \A l \in Lists : Range(waiters[l]) \subseteq Threads
  BY <1>a, EmptyList
<1> USE ConstAssumption, Names, <1>a, <1>b, <1>e
<1> USE DEF ListsRight, At, Goto, listVars, timerVars, callVars, Labels, WakeLabels, Asleep
<1>1. ASSUME NEW t \in Threads, Spawn(t) PROVE ListsRight'
  BY <1>1 DEF Spawn, runq_requeue
<1>2. ASSUME NEW t \in Threads, NEW l \in Lists, NEW dl \in BOOLEAN, BlockLock(t, l, dl) PROVE ListsRight'
  BY <1>2 DEF BlockLock, WaitsOn
<1>3. ASSUME NEW t \in Threads, BlockPublish(t) PROVE ListsRight'
  <2>0. ~ inject[t]
    BY DEF QuietRight
  <2>1. CASE /\ UNCHANGED <<park, waiters, wait_lock>> /\ pc' = [pc EXCEPT ![t] = "run"]
             /\ obj' = [obj EXCEPT ![t] = NoList]
    BY <1>3, <2>0, <2>1 DEF BlockPublish
  <2>2. CASE /\ waiters' = [waiters EXCEPT ![obj[t]] = Append(@, t)]
             /\ SetPark(t, "PARKING")
             /\ pc' = [pc EXCEPT ![t] = IF timed[t] THEN "arm" ELSE "unlock"]
             /\ wait_lock' = [wait_lock EXCEPT ![t] = obj[t]] /\ UNCHANGED obj
    <3>1. pc[t] = "locked" /\ obj[t] \in Lists /\ park[t] = "RUN" /\ UNCHANGED <<tgt, obj>>
      BY <1>3, <2>2, <1>c, <1>d DEF BlockPublish, LockLabels, RunLabels
    <3>2. pc'[t] \in {"arm", "unlock"} /\ \A b \in Actors : b # t => pc'[b] = pc[b]
      BY <2>2
    <3>3. /\ park'[t] = "PARKING" /\ wait_lock'[t] = obj[t]
          /\ \A u \in Threads : u # t => park'[u] = park[u] /\ wait_lock'[u] = wait_lock[u]
      BY <2>2 DEF SetPark
    <3>4. /\ \A l \in Lists : t \notin Range(waiters[l])
          /\ \A b \in Actors : tgt[b] # t
      BY <3>1
    <3>5. /\ \A l \in Lists : l # obj[t] => waiters'[l] = waiters[l]
          /\ waiters'[obj[t]] = Append(waiters[obj[t]], t) /\ waiters[obj[t]] \in Seq(Threads)
      BY <2>2, <3>1
    <3>6. /\ Range(waiters'[obj[t]]) = Range(waiters[obj[t]]) \cup {t}
          /\ IsInjective(waiters'[obj[t]])
      BY <3>1, <3>4, <3>5, AppendList
    <3>7. \A l \in Lists :
            /\ IsInjective(waiters'[l])
            /\ \A u \in Range(waiters'[l]) : wait_lock'[u] = l /\ park'[u] \in Asleep
      <4>1. ASSUME NEW l \in Lists, l # obj[t]
            PROVE  /\ IsInjective(waiters'[l])
                   /\ \A u \in Range(waiters'[l]) : wait_lock'[u] = l /\ park'[u] \in Asleep
        BY <4>1, <3>3, <3>4, <3>5
      <4>2. \A u \in Range(waiters'[obj[t]]) : wait_lock'[u] = obj[t] /\ park'[u] \in Asleep
        BY <3>1, <3>3, <3>6
      <4> QED BY <3>6, <4>1, <4>2
    <3>8. /\ \A b \in Actors : pc'[b] \notin {"unpark", "raise"}
          /\ \A u \in Threads : pc'[u] \in {"arm", "publish", "unlock"} => wait_lock'[u] = obj'[u]
      <4>1. /\ \A b \in Actors : pc[b] \notin {"unpark", "raise"}
            /\ \A u \in Threads : pc[u] \in {"arm", "publish", "unlock"} => wait_lock[u] = obj[u]
        BY DEF ListsRight
      <4> HIDE DEF ListsRight
      <4>2. \A b \in Actors : pc'[b] \notin {"unpark", "raise"}
        BY <3>2, <4>1
      <4>3. wait_lock'[t] = obj'[t]
        BY <3>1, <3>3
      <4>4. \A u \in Threads : u # t =>
              (pc'[u] \in {"arm", "publish", "unlock"} => wait_lock'[u] = obj'[u])
        BY <3>1, <3>2, <3>3, <4>1
      <4> QED BY <4>2, <4>3, <4>4
    <3>10. \A u \in Threads : wait_lock'[u] # NoList => park'[u] \in Asleep
      BY <3>3
    <3>9. \A b \in Actors : tgt'[b] \in Threads =>
            wait_lock'[tgt'[b]] = NoList /\ park'[tgt'[b]] \in Asleep
      BY <3>1, <3>3, <3>4
    <3> QED BY <3>1, <3>7, <3>8, <3>9, <3>10
  <2> QED BY <1>3, <2>0, <2>1, <2>2 DEF BlockPublish, WaitsOn
<1>4. ASSUME NEW t \in Threads, sp_timer_schedule(t) PROVE ListsRight'
  BY <1>4 DEF sp_timer_schedule
<1>5. ASSUME NEW t \in Threads, TimerFailed(t) PROVE ListsRight'
  <2> DEFINE l == obj[t]
  <2>0. l \in Lists /\ pc[t] = "arm" /\ wait_lock[t] = l /\ l # NoList
    BY <1>5, <1>d DEF TimerFailed, WaitsOn, LockLabels
  <2>1. /\ \A m \in Lists : m # l => waiters'[m] = waiters[m]
        /\ Range(waiters[l]) = Range(waiters'[l]) \cup {t}
        /\ IsInjective(waiters'[l]) /\ t \notin Range(waiters'[l])
        /\ wait_lock' = [wait_lock EXCEPT ![t] = NoList]
    BY <1>5, <2>0, UnlinkList DEF TimerFailed, WaitsOn
  <2>2. /\ pc' = [pc EXCEPT ![t] = "run"] /\ UNCHANGED tgt
        /\ \A u \in Threads : u # t => obj'[u] = obj[u]
        /\ \A u \in Threads : u # t => park'[u] = park[u] /\ wait_lock'[u] = wait_lock[u]
        /\ \A b \in Actors : tgt[b] # t
    BY <1>5, <2>0, <2>1 DEF TimerFailed, WaitsOn, SetPark
  <2> HIDE DEF l
  <2>3. ASSUME NEW m \in Lists
        PROVE  /\ IsInjective(waiters'[m])
               /\ \A u \in Range(waiters'[m]) : u # t /\ wait_lock'[u] = m /\ park'[u] \in Asleep
    <3>1. CASE m = l
      BY <3>1, <2>0, <2>1, <2>2
    <3>2. CASE m # l
      BY <3>2, <2>0, <2>1, <2>2
    <3> QED BY <3>1, <3>2
  <2>4. wait_lock'[t] = NoList
    BY <2>0, <2>1
  <2>5. \A u \in Threads : wait_lock'[u] # NoList => park'[u] \in Asleep
    BY <2>2, <2>4
  <2>6. /\ \A b \in Actors : pc'[b] \notin {"unpark", "raise"}
        /\ \A u \in Threads : pc'[u] \in {"arm", "publish", "unlock"} => wait_lock'[u] = obj'[u]
    BY <2>2
  <2>7. \A b \in Actors : tgt'[b] \in Threads =>
          wait_lock'[tgt'[b]] = NoList /\ park'[tgt'[b]] \in Asleep
    BY <2>2
  <2> QED BY <2>2, <2>3, <2>5, <2>6, <2>7
<1>6. ASSUME NEW t \in Threads, BlockUnlock(t) PROVE ListsRight'
  BY <1>6 DEF BlockUnlock
<1>7. ASSUME NEW t \in Threads, SwitchOut(t) PROVE ListsRight'
  BY <1>7 DEF SwitchOut
<1>8. ASSUME NEW t \in Threads, Pass(t) PROVE ListsRight'
  BY <1>8 DEF Pass
<1>9. ASSUME NEW t \in Threads, Resume(t) PROVE ListsRight'
  BY <1>9 DEF Resume, WaitsOn
<1>10. ASSUME NEW w \in Workers, RunThread(w) PROVE ListsRight'
  <2> DEFINE t == Head(lrq[w])
  <2>1. t \in Threads /\ t \in Range(lrq[w])
    BY <1>10, NextList
  <2>2. pc[t] = "off" /\ park[t] = "RUN"
    BY <2>1 DEF QueueInv
  <2>3. /\ pc' = [pc EXCEPT ![t] = "resume"] /\ park' = [park EXCEPT ![t] = "RUN"]
        /\ UNCHANGED <<tgt, waiters, wait_lock, obj>>
    BY <1>10 DEF RunThread, SetState, SetPark
  <2>4. park' = park
    BY <2>1, <2>2, <2>3
  <2> HIDE DEF t
  <2> QED BY <2>1, <2>2, <2>3, <2>4
<1>11. ASSUME NEW w \in Workers, ThreadStopped(w) PROVE ListsRight'
  <2> DEFINE t == cur[w]
  <2>0. t \in Threads /\ home_wid[t] = w /\ UNCHANGED <<pc, tgt, waiters, wait_lock, obj>>
    BY <1>11 DEF ThreadStopped, TypeOK, PlaceInv
  <2>1. CASE park[t] \in Asleep
    <3>1. park[t] = "PARKING" /\ state[t] = "BLOCKED"
      BY <2>0, <2>1 DEF PlaceInv
    <3>2. park' = [park EXCEPT ![t] = "PARKED"]
      BY <1>11, <3>1 DEF ThreadStopped, SetPark
    <3>3. \A u \in Threads : park[u] \in Asleep => park'[u] \in Asleep
      BY <2>0, <3>2
    <3> HIDE DEF t
    <3> QED BY <2>0, <3>3
  <2>2. CASE park[t] \notin Asleep
    <3>1. \A u \in Threads : park[u] \in Asleep => park'[u] \in Asleep
      BY <1>11, <2>0, <2>2 DEF ThreadStopped, SetPark
    <3> HIDE DEF t
    <3> QED BY <2>0, <3>1
  <2> QED BY <2>1, <2>2
<1>12. ASSUME NEW a \in Actors, NEW l \in Lists, TakeOne(a, l) PROVE ListsRight'
  <2> DEFINE t == Head(waiters[l])
  <2>0. /\ t \in Threads /\ t \in Range(waiters[l])
        /\ \A m \in Lists : m # l => waiters'[m] = waiters[m]
        /\ Range(waiters[l]) = Range(waiters'[l]) \cup {t}
        /\ IsInjective(waiters'[l]) /\ t \notin Range(waiters'[l])
    BY <1>12, TakeOneList
  <2>1. /\ pc[a] = "run" /\ wl[l] = Free /\ tgt' = [tgt EXCEPT ![a] = t]
        /\ wait_lock' = [wait_lock EXCEPT ![t] = NoList] /\ pc' = [pc EXCEPT ![a] = "cancel"]
        /\ UNCHANGED <<park, obj>>
    BY <1>12 DEF TakeOne, InProgram
  <2> HIDE DEF t
  <2>2. /\ wait_lock[t] = l /\ l # NoList /\ \A b \in Actors : tgt[b] # t
        /\ tgt[a] \notin Threads /\ pc[t] \notin {"arm", "publish", "unlock"}
    BY <2>0, <2>1, <1>d DEF LockLabels
  <2>3. ASSUME NEW m \in Lists
        PROVE  /\ IsInjective(waiters'[m])
               /\ \A u \in Range(waiters'[m]) : u # t /\ wait_lock'[u] = m /\ park'[u] \in Asleep
    <3>1. CASE m = l
      BY <3>1, <2>0, <2>1, <2>2
    <3>2. CASE m # l
      BY <3>2, <2>0, <2>1, <2>2
    <3> QED BY <3>1, <3>2
  <2>4. /\ \A b \in Actors : b # a => tgt'[b] = tgt[b] /\ tgt'[b] # t /\ pc'[b] = pc[b]
        /\ tgt'[a] = t /\ pc'[a] = "cancel"
        /\ wait_lock'[t] = NoList /\ \A u \in Threads : u # t => wait_lock'[u] = wait_lock[u]
    BY <2>0, <2>1, <2>2
  <2>5. park'[t] \in Asleep
    BY <2>0, <2>1
  <2> QED BY <2>0, <2>1, <2>2, <2>3, <2>4, <2>5
<1>13. ASSUME NEW a \in Actors, sp_timer_cancel(a) PROVE ListsRight'
  BY <1>13 DEF sp_timer_cancel
<1>14. ASSUME NEW a \in Actors, sched_make_runnable(a) PROVE ListsRight'
  <2> DEFINE t == tgt[a]
  <2>0. t \in Threads /\ tgt' = [tgt EXCEPT ![a] = NoThread] /\ pc' = [pc EXCEPT ![a] = "run"]
        /\ UNCHANGED <<waiters, wait_lock, obj>>
    BY <1>14 DEF sched_make_runnable
  <2>1. \A u \in Threads : u # t => park'[u] = park[u]
    BY <1>14 DEF sched_make_runnable, SetPark
  <2>2. /\ wait_lock[t] = NoList /\ \A l \in Lists : t \notin Range(waiters[l])
        /\ \A b \in Actors : b # a => tgt[b] # t
    BY <2>0
  <2> HIDE DEF t
  <2>3. /\ \A b \in Actors : b # a => tgt'[b] = tgt[b] /\ tgt'[b] # t /\ pc'[b] = pc[b]
        /\ tgt'[a] = NoThread /\ pc'[a] = "run"
    BY <2>0, <2>2
  <2>4. \A u \in Threads : wait_lock'[u] # NoList => park'[u] \in Asleep
    BY <2>0, <2>1, <2>2
  <2>5. \A l \in Lists : \A u \in Range(waiters'[l]) : wait_lock'[u] = l /\ park'[u] \in Asleep
    BY <2>0, <2>1, <2>2
  <2>6. /\ \A b \in Actors : pc'[b] \notin {"unpark", "raise"}
        /\ \A u \in Threads : pc'[u] \in {"arm", "publish", "unlock"} => wait_lock'[u] = obj'[u]
    BY <2>0, <2>3
  <2>7. \A b \in Actors : tgt'[b] \in Threads =>
          wait_lock'[tgt'[b]] = NoList /\ park'[tgt'[b]] \in Asleep
    BY <2>0, <2>1, <2>3
  <2>8. \A b, c \in Actors : tgt'[b] \in Threads /\ tgt'[b] = tgt'[c] => b = c
    BY <2>3
  <2> QED BY <2>0, <2>4, <2>5, <2>6, <2>7, <2>8
<1>15. ASSUME NEW a \in Actors, NEW t \in Threads, DeliverInject(a, t) PROVE ListsRight'
  <2>1. nraise' = nraise + 1 /\ nraise \in Nat
    BY <1>15 DEF DeliverInject, InProgram, TypeOK
  <2> QED BY <2>1
<1>16. ASSUME NEW a \in Actors, DeliverUnpark(a) PROVE ListsRight'
  BY <1>16 DEF DeliverUnpark
<1>17. ASSUME NEW e \in Entry, sp_timer_fire_due(e) PROVE ListsRight'
  BY <1>17 DEF sp_timer_fire_due
<1>18. ASSUME NEW e \in Entry, sp_sched_timer_expire(e) PROVE ListsRight'
  <2> DEFINE t == e[1]
             l == wait_lock[t]
  <2>0. t \in Threads /\ pc[Monitor] = "run" /\ UNCHANGED <<park, obj>>
    BY <1>18 DEF Entry, sp_sched_timer_expire
  <2>1. CASE UNCHANGED <<waiters, wait_lock, tgt, pc>>
    BY <2>0, <2>1
  <2>2. CASE /\ l # NoList /\ wl[l] = Free /\ Unlink(t, l)
             /\ tgt' = [tgt EXCEPT ![Monitor] = t] /\ pc' = [pc EXCEPT ![Monitor] = "wake"]
    <3>0. l \in Lists
      BY <2>0, <2>2
    <3>1. /\ \A m \in Lists : m # l => waiters'[m] = waiters[m]
          /\ Range(waiters[l]) = Range(waiters'[l]) \cup {t}
          /\ IsInjective(waiters'[l]) /\ t \notin Range(waiters'[l])
          /\ wait_lock' = [wait_lock EXCEPT ![t] = NoList]
      BY <2>0, <2>2, <3>0, UnlinkList
    <3>2. /\ \A b \in Actors : tgt[b] # t
          /\ tgt[Monitor] \notin Threads /\ pc[t] \notin {"arm", "publish", "unlock"}
      <4> HIDE DEF t
      <4>1. \A b \in Actors : tgt[b] # t
        BY <2>0, <2>2
      <4>2. tgt[Monitor] \notin Threads
        BY <2>0
      <4>3. pc[t] \notin {"arm", "publish", "unlock"}
        BY <2>0, <2>2, <1>d DEF LockLabels
      <4> QED BY <4>1, <4>2, <4>3
    <3>3. ASSUME NEW m \in Lists
          PROVE  /\ IsInjective(waiters'[m])
                 /\ \A u \in Range(waiters'[m]) : u # t /\ wait_lock'[u] = m /\ park'[u] \in Asleep
      <4>1. CASE m = l
        BY <4>1, <3>0, <3>1, <2>0
      <4>2. CASE m # l
        BY <4>2, <3>0, <3>1, <2>0
      <4> QED BY <4>1, <4>2
    <3>4. /\ \A b \in Actors : b # Monitor => tgt'[b] = tgt[b] /\ tgt'[b] # t /\ pc'[b] = pc[b]
          /\ tgt'[Monitor] = t /\ pc'[Monitor] = "wake"
          /\ wait_lock'[t] = NoList /\ \A u \in Threads : u # t => wait_lock'[u] = wait_lock[u]
      BY <2>0, <2>2, <3>1, <3>2
    <3>5. park'[t] \in Asleep
      BY <2>0, <3>0, <3>1
    <3> HIDE DEF t, l
    <3>6. \A b \in Actors : tgt'[b] \in Threads =>
            wait_lock'[tgt'[b]] = NoList /\ park'[tgt'[b]] \in Asleep
      <4>1. \A b \in Actors : tgt[b] \in Threads =>
              wait_lock[tgt[b]] = NoList /\ park[tgt[b]] \in Asleep
        BY DEF ListsRight
      <4> HIDE DEF ListsRight, Asleep
      <4>2. ASSUME NEW b \in Actors, b # Monitor, tgt'[b] \in Threads
            PROVE  wait_lock'[tgt'[b]] = NoList /\ park'[tgt'[b]] \in Asleep
        BY <2>0, <3>4, <4>1, <4>2
      <4> QED BY <3>4, <3>5, <4>2
    <3>7. \A b, c \in Actors : tgt'[b] \in Threads /\ tgt'[b] = tgt'[c] => b = c
      BY <2>0, <3>4
    <3>8. /\ \A b \in Actors : pc'[b] \notin {"unpark", "raise"}
          /\ \A u \in Threads : pc'[u] \in {"arm", "publish", "unlock"} => wait_lock'[u] = obj'[u]
      BY <2>0, <3>2, <3>4
    <3>9. \A u \in Threads : wait_lock'[u] # NoList => park'[u] \in Asleep
      BY <2>0, <3>4
    <3> QED BY <3>3, <3>6, <3>7, <3>8, <3>9
  <2> QED BY <1>18, <2>1, <2>2 DEF sp_sched_timer_expire
<1>19. ASSUME NEW t \in Threads, BlockRelock(t) PROVE ListsRight'
  BY <1>19 DEF BlockRelock, QuietRight
<1>20. ASSUME NEW t \in Threads, BlockLink(t) PROVE ListsRight'
  BY <1>20 DEF BlockLink, QuietRight
<1>21. ASSUME NEW t \in Threads, DeferInject(t) PROVE ListsRight'
  BY <1>21 DEF DeferInject
<1>22. ASSUME NEW t \in Threads, UndeferInject(t) PROVE ListsRight'
  BY <1>22 DEF UndeferInject
<1>u. CASE UNCHANGED vars
  BY <1>u DEF vars
<1> HIDE DEF ListsRight, At, Goto, listVars, timerVars, callVars, Labels, WakeLabels, Asleep
<1> QED BY <1>u, <1>1, <1>2, <1>3, <1>4, <1>5, <1>6, <1>7, <1>8, <1>9, <1>10, <1>11,
           <1>12, <1>13, <1>14, <1>15, <1>16, <1>17, <1>18, <1>19, <1>20, <1>21, <1>22
     DEF Next, ThreadStep, WorkerStep, WakerStep, MonitorStep

-----------------------------------------------------------------------------
(* Timed waits.                                                            *)

LEMMA MarkStep ==
  ASSUME TypeOK, TgtInv, QueueInv, MarkInv, [Next]_vars
  PROVE  MarkInv'
<1>a. pc \in [Actors -> Labels] /\ wait_timer \in [Threads -> 0 .. MaxGen]
  BY DEF TypeOK
<1> USE ConstAssumption, Names, <1>a
<1> USE DEF MarkInv, At, Goto, listVars, timerVars, callVars, Labels
<1>1. ASSUME NEW t \in Threads, Spawn(t) PROVE MarkInv'
  BY <1>1 DEF Spawn, runq_requeue
<1>2. ASSUME NEW t \in Threads, NEW l \in Lists, NEW dl \in BOOLEAN, BlockLock(t, l, dl) PROVE MarkInv'
  BY <1>2 DEF BlockLock, WaitsOn
<1>3. ASSUME NEW t \in Threads, BlockPublish(t) PROVE MarkInv'
  BY <1>3 DEF BlockPublish, SetState, SetPark
<1>4. ASSUME NEW t \in Threads, sp_timer_schedule(t) PROVE MarkInv'
  BY <1>4 DEF sp_timer_schedule
<1>5. ASSUME NEW t \in Threads, TimerFailed(t) PROVE MarkInv'
  BY <1>5 DEF TimerFailed, WaitsOn, SetState, SetPark
<1>6. ASSUME NEW t \in Threads, BlockUnlock(t) PROVE MarkInv'
  BY <1>6 DEF BlockUnlock
<1>7. ASSUME NEW t \in Threads, SwitchOut(t) PROVE MarkInv'
  BY <1>7 DEF SwitchOut
<1>8. ASSUME NEW t \in Threads, Pass(t) PROVE MarkInv'
  BY <1>8 DEF Pass
<1>9. ASSUME NEW t \in Threads, Resume(t) PROVE MarkInv'
  BY <1>9 DEF Resume, WaitsOn
<1>10. ASSUME NEW w \in Workers, RunThread(w) PROVE MarkInv'
  <2>1. Head(lrq[w]) \in Threads
    BY <1>10, NextList
  <2> QED BY <1>10, <2>1 DEF RunThread
<1>11. ASSUME NEW w \in Workers, ThreadStopped(w) PROVE MarkInv'
  BY <1>11 DEF ThreadStopped, SetState, SetPark, runq_requeue
<1>12. ASSUME NEW a \in Actors, NEW l \in Lists, TakeOne(a, l) PROVE MarkInv'
  BY <1>12 DEF TakeOne, InProgram
<1>13. ASSUME NEW a \in Actors, sp_timer_cancel(a) PROVE MarkInv'
  BY <1>13 DEF sp_timer_cancel
<1>14. ASSUME NEW a \in Actors, sched_make_runnable(a) PROVE MarkInv'
  BY <1>14 DEF sched_make_runnable, SetState, SetPark, runq_requeue
<1>15. ASSUME NEW a \in Actors, NEW t \in Threads, DeliverInject(a, t) PROVE MarkInv'
  BY <1>15 DEF DeliverInject, InProgram
<1>16. ASSUME NEW a \in Actors, DeliverUnpark(a) PROVE MarkInv'
  BY <1>16 DEF DeliverUnpark
<1>17. ASSUME NEW e \in Entry, sp_timer_fire_due(e) PROVE MarkInv'
  BY <1>17 DEF sp_timer_fire_due
<1>18. ASSUME NEW e \in Entry, sp_sched_timer_expire(e) PROVE MarkInv'
  BY <1>18 DEF sp_sched_timer_expire
<1>19. ASSUME NEW t \in Threads, BlockRelock(t) PROVE MarkInv'
  BY <1>19 DEF BlockRelock, WaitsOn, SetState, SetPark
<1>20. ASSUME NEW t \in Threads, BlockLink(t) PROVE MarkInv'
  BY <1>20 DEF BlockLink
<1>21. ASSUME NEW t \in Threads, DeferInject(t) PROVE MarkInv'
  BY <1>21 DEF DeferInject
<1>22. ASSUME NEW t \in Threads, UndeferInject(t) PROVE MarkInv'
  BY <1>22 DEF UndeferInject
<1>u. CASE UNCHANGED vars
  BY <1>u DEF vars
<1> HIDE DEF MarkInv, At, Goto, listVars, timerVars, callVars, Labels
<1> QED BY <1>u, <1>1, <1>2, <1>3, <1>4, <1>5, <1>6, <1>7, <1>8, <1>9, <1>10, <1>11,
           <1>12, <1>13, <1>14, <1>15, <1>16, <1>17, <1>18, <1>19, <1>20, <1>21, <1>22
     DEF Next, ThreadStep, WorkerStep, WakerStep, MonitorStep

\* The timer of a wait on its list is not lost, whatever becomes of older ones.
LEMMA KeptStep ==
  ASSUME TypeOK, TgtInv, GenInv, LockInv, QueueInv, MarkInv, QuietRight, ListsRight,
         KeptRight, [Next]_vars, nraise' = 0
  PROVE  KeptRight'
<1>a. /\ pc \in [Actors -> Labels] /\ tgt \in [Actors -> Threads \cup {NoThread}]
      /\ wait_lock \in [Threads -> Lists \cup {NoList}]
      /\ tm_armed \in [Threads -> 0 .. MaxGen] /\ tm_seq \in [Threads -> 0 .. MaxGen]
      /\ wait_timer \in [Threads -> 0 .. MaxGen]
  BY DEF TypeOK
<1>b. \A v \in Threads : pc[v] \notin {"out", "off", "resume"} => wait_timer[v] = 0
  BY DEF MarkInv
<1>c. \A v \in Threads : pc[v] = "publish" =>
        wait_lock[v] = obj[v] /\ obj[v] \in Lists /\ wl[obj[v]] = v
  BY DEF LockInv, LockLabels, ListsRight
<1>d. \A b \in Actors : pc[b] \in WakeLabels =>
        tgt[b] \in Threads /\ wait_lock[tgt[b]] = NoList
  BY DEF TgtInv, ListsRight
<1>e. \A v \in Threads : pc[v] = "publish" => wait_lock[v] # NoList /\ wl[wait_lock[v]] # Free
  BY <1>c, ConstAssumption
<1> USE ConstAssumption, Names, <1>a
<1> USE DEF KeptRight, Kept, At, Goto, listVars, timerVars, callVars, Labels, WakeLabels
<1>1. ASSUME NEW t \in Threads, Spawn(t) PROVE KeptRight'
  BY <1>1 DEF Spawn, runq_requeue
<1>2. ASSUME NEW t \in Threads, NEW l \in Lists, NEW dl \in BOOLEAN, BlockLock(t, l, dl) PROVE KeptRight'
  BY <1>2 DEF BlockLock, WaitsOn
<1>3. ASSUME NEW t \in Threads, BlockPublish(t) PROVE KeptRight'
  BY <1>3, <1>b DEF BlockPublish, SetState, SetPark
<1>4. ASSUME NEW t \in Threads, sp_timer_schedule(t) PROVE KeptRight'
  BY <1>4, <1>b DEF sp_timer_schedule
<1>5. ASSUME NEW t \in Threads, TimerFailed(t) PROVE KeptRight'
  BY <1>5, <1>b DEF TimerFailed, WaitsOn, SetState, SetPark, Unlink
<1>6. ASSUME NEW t \in Threads, BlockUnlock(t) PROVE KeptRight'
  BY <1>6 DEF BlockUnlock
<1>7. ASSUME NEW t \in Threads, SwitchOut(t) PROVE KeptRight'
  BY <1>7 DEF SwitchOut
<1>8. ASSUME NEW t \in Threads, Pass(t) PROVE KeptRight'
  BY <1>8 DEF Pass
<1>9. ASSUME NEW t \in Threads, Resume(t) PROVE KeptRight'
  BY <1>9 DEF Resume, WaitsOn
<1>10. ASSUME NEW w \in Workers, RunThread(w) PROVE KeptRight'
  <2>1. Head(lrq[w]) \in Threads
    BY <1>10, NextList
  <2> QED BY <1>10, <2>1 DEF RunThread
<1>11. ASSUME NEW w \in Workers, ThreadStopped(w) PROVE KeptRight'
  BY <1>11 DEF ThreadStopped, SetState, SetPark, runq_requeue
<1>12. ASSUME NEW a \in Actors, NEW l \in Lists, TakeOne(a, l) PROVE KeptRight'
  BY <1>12, TakeOneList DEF TakeOne, InProgram, Entry
<1>13. ASSUME NEW a \in Actors, sp_timer_cancel(a) PROVE KeptRight'
  BY <1>13, <1>d, <1>e DEF sp_timer_cancel
<1>14. ASSUME NEW a \in Actors, sched_make_runnable(a) PROVE KeptRight'
  BY <1>14 DEF sched_make_runnable, SetState, SetPark, runq_requeue
<1>15. ASSUME NEW a \in Actors, NEW t \in Threads, DeliverInject(a, t) PROVE KeptRight'
  <2>1. nraise' = nraise + 1 /\ nraise \in Nat
    BY <1>15 DEF DeliverInject, InProgram, TypeOK
  <2> QED BY <2>1
<1>16. ASSUME NEW a \in Actors, DeliverUnpark(a) PROVE KeptRight'
  BY <1>16 DEF DeliverUnpark, ListsRight
<1>17. ASSUME NEW e \in Entry, sp_timer_fire_due(e) PROVE KeptRight'
  BY <1>17 DEF sp_timer_fire_due, Entry
<1>18. ASSUME NEW e \in Entry, sp_sched_timer_expire(e) PROVE KeptRight'
  BY <1>18, <1>e DEF sp_sched_timer_expire, Unlink, Entry
<1>19. ASSUME NEW t \in Threads, BlockRelock(t) PROVE KeptRight'
  BY <1>19 DEF BlockRelock, QuietRight
<1>20. ASSUME NEW t \in Threads, BlockLink(t) PROVE KeptRight'
  BY <1>20 DEF BlockLink, QuietRight
<1>21. ASSUME NEW t \in Threads, DeferInject(t) PROVE KeptRight'
  BY <1>21 DEF DeferInject
<1>22. ASSUME NEW t \in Threads, UndeferInject(t) PROVE KeptRight'
  BY <1>22 DEF UndeferInject
<1>u. CASE UNCHANGED vars
  BY <1>u DEF vars
<1> HIDE DEF KeptRight, Kept, At, Goto, listVars, timerVars, callVars, Labels, WakeLabels
<1> QED BY <1>u, <1>1, <1>2, <1>3, <1>4, <1>5, <1>6, <1>7, <1>8, <1>9, <1>10, <1>11,
           <1>12, <1>13, <1>14, <1>15, <1>16, <1>17, <1>18, <1>19, <1>20, <1>21, <1>22
     DEF Next, ThreadStep, WorkerStep, WakerStep, MonitorStep

\* A wait that a waker ended has not expired.
LEMMA ResultStep ==
  ASSUME TypeOK, TgtInv, LockInv, PlaceInv, QueueInv, QuietRight, ListsRight,
         ResultRight, [Next]_vars, nraise' = 0
  PROVE  ResultRight'
<1>a. /\ pc \in [Actors -> Labels] /\ tgt \in [Actors -> Threads \cup {NoThread}]
      /\ wait_lock \in [Threads -> Lists \cup {NoList}] /\ timed \in [Threads -> BOOLEAN]
      /\ timer_expired \in [Threads -> BOOLEAN]
  BY DEF TypeOK
<1>b. \A b \in Actors : tgt[b] \in Threads <=> pc[b] \in WakeLabels
  BY DEF TgtInv
<1>d. \A b \in Actors : tgt[b] \in Threads => wait_lock[tgt[b]] = NoList
  BY DEF ListsRight
<1>e. \A v \in Threads : pc[v] \in LockLabels =>
        wait_lock[v] = NoList \/ wl[wait_lock[v]] # Free
  <2>1. SUFFICES ASSUME NEW v \in Threads, pc[v] \in LockLabels, wait_lock[v] # NoList
                 PROVE  wl[wait_lock[v]] # Free
    OBVIOUS
  <2>2. wl[obj[v]] = v /\ v # Free
    BY <2>1, ConstAssumption DEF LockInv
  <2>3. CASE pc[v] \in {"arm", "publish", "unlock"}
    BY <2>2, <2>3 DEF ListsRight
  <2>5. pc[v] # "link"
    BY DEF QuietRight
  <2>4. CASE pc[v] = "locked"
    <3>1. park[v] \in Asleep /\ park[v] = "RUN"
      BY <2>1, <2>4 DEF ListsRight, PlaceInv, RunLabels
    <3> QED BY <3>1 DEF Asleep
  <2> QED BY <2>1, <2>3, <2>4, <2>5 DEF LockLabels
<1> USE ConstAssumption, Names, <1>a
<1> USE DEF ResultRight, At, Goto, listVars, timerVars, callVars, Labels, WakeLabels, LockLabels
<1>1. ASSUME NEW t \in Threads, Spawn(t) PROVE ResultRight'
  BY <1>1 DEF Spawn, runq_requeue
<1>2. ASSUME NEW t \in Threads, NEW l \in Lists, NEW dl \in BOOLEAN, BlockLock(t, l, dl) PROVE ResultRight'
  BY <1>2 DEF BlockLock, WaitsOn
<1>3. ASSUME NEW t \in Threads, BlockPublish(t) PROVE ResultRight'
  BY <1>3 DEF BlockPublish, SetState, SetPark
<1>4. ASSUME NEW t \in Threads, sp_timer_schedule(t) PROVE ResultRight'
  BY <1>4 DEF sp_timer_schedule
<1>5. ASSUME NEW t \in Threads, TimerFailed(t) PROVE ResultRight'
  BY <1>5 DEF TimerFailed, WaitsOn, SetState, SetPark, Unlink
<1>6. ASSUME NEW t \in Threads, BlockUnlock(t) PROVE ResultRight'
  BY <1>6 DEF BlockUnlock
<1>7. ASSUME NEW t \in Threads, SwitchOut(t) PROVE ResultRight'
  BY <1>7 DEF SwitchOut
<1>8. ASSUME NEW t \in Threads, Pass(t) PROVE ResultRight'
  BY <1>8 DEF Pass
<1>9. ASSUME NEW t \in Threads, Resume(t) PROVE ResultRight'
  BY <1>9 DEF Resume, WaitsOn
<1>10. ASSUME NEW w \in Workers, RunThread(w) PROVE ResultRight'
  <2>1. Head(lrq[w]) \in Threads
    BY <1>10, NextList
  <2> QED BY <1>10, <2>1 DEF RunThread
<1>11. ASSUME NEW w \in Workers, ThreadStopped(w) PROVE ResultRight'
  BY <1>11 DEF ThreadStopped, SetState, SetPark, runq_requeue
<1>12. ASSUME NEW a \in Actors, NEW l \in Lists, TakeOne(a, l) PROVE ResultRight'
  <2>1. Head(waiters[l]) \in Threads /\ Head(waiters[l]) \in Range(waiters[l])
    BY <1>12, TakeOneList
  <2>2. wait_lock[Head(waiters[l])] = l /\ l # NoList
    BY <2>1 DEF ListsRight
  <2> QED BY <1>12, <2>1, <2>2 DEF TakeOne, InProgram
<1>13. ASSUME NEW a \in Actors, sp_timer_cancel(a) PROVE ResultRight'
  BY <1>13 DEF sp_timer_cancel
<1>14. ASSUME NEW a \in Actors, sched_make_runnable(a) PROVE ResultRight'
  BY <1>14 DEF sched_make_runnable, SetState, SetPark, runq_requeue
<1>15. ASSUME NEW a \in Actors, NEW t \in Threads, DeliverInject(a, t) PROVE ResultRight'
  <2>1. nraise' = nraise + 1 /\ nraise \in Nat
    BY <1>15 DEF DeliverInject, InProgram, TypeOK
  <2> QED BY <2>1
<1>16. ASSUME NEW a \in Actors, DeliverUnpark(a) PROVE ResultRight'
  BY <1>16 DEF DeliverUnpark, ListsRight
<1>17. ASSUME NEW e \in Entry, sp_timer_fire_due(e) PROVE ResultRight'
  BY <1>17 DEF sp_timer_fire_due
<1>18. ASSUME NEW e \in Entry, sp_sched_timer_expire(e) PROVE ResultRight'
  <2> DEFINE t == e[1]
  <2>0. t \in Threads /\ pc[Monitor] = "run" /\ UNCHANGED timed
    BY <1>18 DEF Entry, sp_sched_timer_expire
  <2>1. CASE UNCHANGED <<wait_lock, timer_expired, tgt, pc>>
    BY <2>0, <2>1
  <2>2. CASE /\ wait_lock[t] # NoList /\ wait_lock' = [wait_lock EXCEPT ![t] = NoList]
             /\ timer_expired' = [timer_expired EXCEPT ![t] = TRUE]
             /\ tgt' = [tgt EXCEPT ![Monitor] = t] /\ pc' = [pc EXCEPT ![Monitor] = "wake"]
             /\ wl[wait_lock[t]] = Free
    <3> HIDE DEF t
    <3>1. \A b \in Actors : tgt[b] # t
      BY <2>0, <2>2, <1>d
    <3>2. pc[t] \notin LockLabels
      BY <2>0, <2>2, <1>e
    <3>3. /\ \A u \in Threads : u # t => /\ timer_expired'[u] = timer_expired[u]
                                        /\ wait_lock'[u] = wait_lock[u]
          /\ wait_lock'[t] = NoList
      BY <2>0, <2>2
    <3>4. /\ \A b \in Actors : b # Monitor => tgt'[b] = tgt[b] /\ pc'[b] = pc[b]
          /\ \A u \in Threads : pc'[u] = pc[u]
      BY <2>2
    <3> QED BY <2>0, <3>1, <3>2, <3>3, <3>4
  <2> QED BY <1>18, <2>1, <2>2 DEF sp_sched_timer_expire, Unlink
<1>19. ASSUME NEW t \in Threads, BlockRelock(t) PROVE ResultRight'
  BY <1>19 DEF BlockRelock, QuietRight
<1>20. ASSUME NEW t \in Threads, BlockLink(t) PROVE ResultRight'
  BY <1>20 DEF BlockLink, QuietRight
<1>21. ASSUME NEW t \in Threads, DeferInject(t) PROVE ResultRight'
  BY <1>21 DEF DeferInject
<1>22. ASSUME NEW t \in Threads, UndeferInject(t) PROVE ResultRight'
  BY <1>22 DEF UndeferInject
<1>u. CASE UNCHANGED vars
  BY <1>u DEF vars
<1> HIDE DEF ResultRight, At, Goto, listVars, timerVars, callVars, Labels, WakeLabels, LockLabels
<1> QED BY <1>u, <1>1, <1>2, <1>3, <1>4, <1>5, <1>6, <1>7, <1>8, <1>9, <1>10, <1>11,
           <1>12, <1>13, <1>14, <1>15, <1>16, <1>17, <1>18, <1>19, <1>20, <1>21, <1>22
     DEF Next, ThreadStep, WorkerStep, WakerStep, MonitorStep

-----------------------------------------------------------------------------
(* The theorems.                                                           *)

LEMMA InitInv == Init => IInv
<1> SUFFICES ASSUME Init PROVE IInv
  OBVIOUS
<1> USE ConstAssumption, Names
<1>1. TypeOK
  <2>1. 0 \in 0 .. MaxGen /\ 0 \in 0 .. MaxRaise
    OBVIOUS
  <2>2. /\ waiters \in [Lists -> Seq(Threads)] /\ lrq \in [Workers -> Seq(Threads)]
    BY DEF Init
  <2>3. pc \in [Actors -> Labels]
    BY DEF Init, Labels
  <2> QED BY <2>1, <2>2, <2>3 DEF Init, TypeOK, State, ParkWord
<1>2. (\A w \in Workers : lrq[w] = <<>>) /\ (\A l \in Lists : waiters[l] = <<>>)
  BY DEF Init
<1>3. ASSUME NEW q \in Seq(Threads), q = <<>> PROVE IsInjective(q) /\ Range(q) = {}
  BY <1>3, EmptyList
<1>4. <<>> \in Seq(Threads)
  OBVIOUS
<1>5. /\ \A w \in Workers : IsInjective(lrq[w]) /\ Range(lrq[w]) = {}
      /\ \A l \in Lists : IsInjective(waiters[l]) /\ Range(waiters[l]) = {}
  BY <1>2, <1>3, <1>4
<1>6. TgtInv /\ GenInv /\ LockInv
  BY DEF Init, TgtInv, GenInv, LockInv, At, WakeLabels, LockLabels
<1>7. PlaceInv /\ QueueInv /\ OffInv
  BY <1>5 DEF Init, PlaceInv, QueueInv, OffInv, RunLabels, Asleep
<1>8. WakeInv /\ RaiseNotSleptThrough
  BY DEF Init, WakeInv, RaiseNotSleptThrough, Asleep
<1>9. ListInv
  BY <1>5 DEF Init, ListInv, QuietRight, ListsRight, Asleep
<1>10. MarkInv /\ TimerInv
  BY DEF Init, MarkInv, TimerInv, KeptRight, ResultRight, At
<1> QED BY <1>1, <1>6, <1>7, <1>8, <1>9, <1>10 DEF IInv

LEMMA NextInv == IInv /\ [Next]_vars => IInv'
<1> SUFFICES ASSUME IInv, [Next]_vars PROVE IInv'
  OBVIOUS
<1>1. TypeOK' /\ (TgtInv /\ GenInv /\ LockInv)'
  BY TypeStep, ControlStep DEF IInv
<1>2. (PlaceInv /\ QueueInv /\ OffInv)'
  BY PlaceStep DEF IInv
<1>3. (WakeInv /\ RaiseNotSleptThrough)'
  BY WakeStep DEF IInv
<1>4. MarkInv'
  BY MarkStep DEF IInv
<1>5. nraise' = 0 => nraise = 0
  <2>1. nraise \in Nat
    BY ConstAssumption DEF IInv, TypeOK
  <2>2. nraise' = nraise \/ nraise' = nraise + 1
    BY DEF Next, ThreadStep, WorkerStep, WakerStep, MonitorStep, vars, Spawn, BlockLock, WaitsOn,
           BlockPublish, BlockRelock, BlockLink, sp_timer_schedule, TimerFailed,
           BlockUnlock, SwitchOut, Pass, Resume, DeferInject, UndeferInject, RunThread, ThreadStopped, TakeOne, sp_timer_cancel,
           sched_make_runnable, DeliverInject, DeliverUnpark, sp_timer_fire_due,
           sp_sched_timer_expire
  <2> QED BY <2>1, <2>2
<1>6. ListInv'
  BY <1>5, QuietStep, ListStep DEF IInv, ListInv
<1>7. TimerInv'
  <2> SUFFICES ASSUME nraise' = 0 PROVE (KeptRight /\ ResultRight)'
    BY DEF TimerInv
  <2>1. QuietRight /\ ListsRight /\ KeptRight /\ ResultRight
    BY <1>5 DEF IInv, ListInv, TimerInv
  <2> QED BY <2>1, KeptStep, ResultStep DEF IInv
<1> QED BY <1>1, <1>2, <1>3, <1>4, <1>6, <1>7 DEF IInv

\* The inductive invariant of parking and waking holds throughout.
THEOREM Invariance == Spec => []IInv
BY InitInv, NextInv, PTL DEF Spec

\* The run queues, the park word and the stack tell alike where a thread is, for
\* any number of raises; so do the wait lists as long as there was none.
THEOREM PlacesDoAgree == Spec => []PlacesAgree
<1>1. IInv => PlacesAgree
  <2> SUFFICES ASSUME IInv PROVE PlacesAgree
    OBVIOUS
  <2>1. QueuedOffStack
    <3>1. SUFFICES ASSUME NEW w \in Workers, NEW i \in DOMAIN lrq[w]
                   PROVE  LET t == lrq[w][i] IN
                            /\ At(t, "off") /\ home_wid[t] = w /\ cur[w] # t
                            /\ park[t] = "RUN"
                            /\ \A j \in DOMAIN lrq[w] : lrq[w][j] = t => j = i
      BY DEF QueuedOffStack
    <3>2. lrq[w][i] \in Range(lrq[w])
      BY DEF Range
    <3>3. IsInjective(lrq[w])
      BY DEF IInv, QueueInv
    <3> QED BY <3>2, <3>3 DEF IInv, QueueInv, At, IsInjective
  <2>2. ASSUME nraise = 0 PROVE ListedIsParked
    <3>1. SUFFICES ASSUME NEW l \in Lists, NEW i \in DOMAIN waiters[l]
                   PROVE  LET t == waiters[l][i] IN
                            /\ state[t] = "BLOCKED" /\ park[t] \in {"PARKING", "PARKED"}
                            /\ wait_lock[t] = l
                            /\ \A j \in DOMAIN waiters[l] : waiters[l][j] = t => j = i
      BY DEF ListedIsParked
    <3>2. waiters[l][i] \in Range(waiters[l])
      BY DEF Range
    <3>3. waiters[l][i] \in Threads
      <4>1. waiters[l] \in Seq(Threads)
        BY DEF IInv, TypeOK
      <4> QED BY <4>1, <3>2, EmptyList
    <3>4. ListsRight
      BY <2>2 DEF IInv, ListInv
    <3>5. IsInjective(waiters[l]) /\ wait_lock[waiters[l][i]] = l /\ park[waiters[l][i]] \in Asleep
      BY <3>2, <3>4 DEF ListsRight
    <3>6. state[waiters[l][i]] = "BLOCKED"
      BY <3>3, <3>5 DEF IInv, PlaceInv
    <3> QED BY <3>5, <3>6 DEF Asleep, IsInjective
  <2> QED BY <2>1, <2>2 DEF IInv, PlacesAgree, ListedIsParkedUnraised
<1> QED BY <1>1, Invariance, PTL

\* No wake is lost between the waker and the worker, whatever is raised.
THEOREM NoWakeIsLost == Spec => []NoLostWake
<1>1. IInv => NoLostWake
  <2> SUFFICES ASSUME IInv, NEW t \in Threads, pc[t] = "off"
               PROVE  \/ Queued(t, home_wid[t])
                      \/ cur[home_wid[t]] = t
                      \/ /\ park[t] = "PARKED"
                         /\ wait_lock[t] # NoList \/ \E a \in Actors : tgt[a] = t
    BY DEF NoLostWake, At
  <2>1. CASE t \in Range(lrq[home_wid[t]])
    BY <2>1 DEF Range, Queued
  <2>2. CASE park[t] = "PARKED"
    BY <2>2 DEF IInv, WakeInv, Asleep
  <2> QED BY <2>1, <2>2 DEF IInv, OffInv
<1> QED BY <1>1, Invariance, PTL

\* Without a #raise a timed wait keeps its own deadline, and one that a waker ended
\* does not answer that it timed out.
THEOREM TimedWaitsAreRight == Spec => []TimedWaitRight
<1>1. IInv => TimedWaitRight
  <2> SUFFICES ASSUME IInv PROVE TimedWaitRight
    OBVIOUS
  <2>1. DeadlineKept
    BY DEF DeadlineKept, IInv, TimerInv, KeptRight, Kept
  <2>2. WokenIsNotTimeout
    BY DEF WokenIsNotTimeout, IInv, TimerInv, ResultRight, TgtInv, WakeLabels
  <2> QED BY <2>1, <2>2 DEF TimedWaitRight
<1> QED BY <1>1, Invariance, PTL

\* No #raise, of any number, is slept through by a thread that had not put raises
\* off before it parked.
THEOREM NoRaiseIsSleptThrough == Spec => []RaiseNotSleptThrough
BY Invariance, PTL DEF IInv
=============================================================================
