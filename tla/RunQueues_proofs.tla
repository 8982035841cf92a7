--------------------------- MODULE RunQueues_proofs ---------------------------
(***************************************************************************)
(* Where runnable threads are, the counts the scheduler decides by, and    *)
(* that no helper sleeps over work, for any number of threads and helpers. *)
(***************************************************************************)
EXTENDS RunQueues, ListFacts, FiniteSetTheorems, TLAPS

OffPcs  == {"parked", "ended", "passed"}
BusyPcs == {"run", "native"}
WakePcs == {"scan", "scan2", "kick"}
\* Between the store to parked and its reset.
IdlePcs == {"reset", "look", "look2", "look3", "sleep", "cv", "lcv", "lback", "up"}
\* What only a helper does, without a thread.
LoopPcs == {"start", "loop", "pick", "steal", "lidle", "ul", "ulr", "relock", "park"}
                \cup IdlePcs
RunPcs  == {"begin"} \cup BusyPcs \cup OffPcs \cup WakePcs

Pcs == {"none", "code"} \cup LoopPcs \cup RunPcs

\* The types, with no bound on the counts: it follows from what they count.
ThreadType ==
  /\ state \in [Threads -> {"NEW", "RUNNABLE", "RUNNING", "BLOCKED", "DEAD"}]
  /\ home_wid \in [Threads -> Workers \cup {-1}]
  /\ preempt_request \in [Threads -> BOOLEAN]
CountType ==
  /\ lrq_unstarted \in Int /\ pinned \in [Workers -> Int] /\ npreempt \in Int
  /\ spawned \in 0 .. g_worker_cap /\ nfail \in Nat /\ nasked \in Nat
QueueType == grq \in Seq(Threads) /\ lrq \in [Workers -> Seq(Threads)]
FlagType ==
  /\ active \in [Workers -> BOOLEAN] /\ locked_turn \in [Workers -> BOOLEAN]
  /\ parked \in [Workers -> BOOLEAN] /\ wake_sent \in [Workers -> BOOLEAN]
  /\ idle \in [Workers -> BOOLEAN] /\ signalled \in [Workers -> BOOLEAN]
LockType ==
  /\ sched \in Workers \cup {Free, Monitor}
  /\ asking \in {<<>>} \cup (Workers \X Threads)
RunType ==
  /\ from \in [Workers -> {"locked", "local", "stolen"}]
  /\ cur \in [Workers -> Threads \cup {NoThread}]
  /\ tgt \in [Workers -> Threads \cup {NoThread}]
  /\ vi \in [Workers -> 0 .. (g_worker_cap + 1)]
PcType == pc \in [Workers -> Pcs]
TypeInv == /\ ThreadType /\ CountType /\ QueueType /\ FlagType /\ LockType /\ RunType
           /\ PcType

\* A worker that exists is at work in its own loop, and only there do queues
\* and homes lead.
PoolPc ==
  /\ \A w \in Workers : pc[w] = "none" <=> w > spawned
  /\ \A w \in Workers : pc[w] = "code" => w = 0
  /\ pc[0] \notin LoopPcs /\ from[0] = "locked"
PoolHome ==
  /\ \A w \in Workers : Range(lrq[w]) # {} => w <= spawned
  /\ \A t \in Threads : home_wid[t] <= spawned
PoolInv == PoolPc /\ PoolHome

\* Who holds the scheduler lock.
LockInv ==
  /\ \A w \in Workers :
       /\ pc[w] \in {"loop", "pick", "lidle"} \cup WakePcs => sched = w
       /\ pc[w] \in OffPcs /\ cur[w] = NoThread /\ from[w] = "locked" => sched = w
  /\ sched = Monitor <=> asking # <<>>

\* The worker a scan looks at is one there is.
ScanInv ==
  \A w \in Workers :
    /\ pc[w] \in {"scan", "scan2"} => vi[w] \in 1 .. (spawned + 1)
    /\ pc[w] = "kick"  => vi[w] \in 1 .. spawned
    /\ pc[w] = "steal" => vi[w] \in 0 .. (spawned + 1)
    /\ pc[w] \notin {"steal"} \cup WakePcs => vi[w] = 0

Queued(t) == t \in Range(grq) \/ \E w \in Workers : t \in Range(lrq[w])

\* A queue has a thread once, no other queue has it, and what is queued is
\* runnable; the shared queue has unstarted threads, a worker's those and its own.
QueueInv ==
  /\ IsInjective(grq)
  /\ \A w \in Workers :
       /\ IsInjective(lrq[w])
       /\ Range(grq) \cap Range(lrq[w]) = {}
       /\ \A v \in Workers : v # w => Range(lrq[v]) \cap Range(lrq[w]) = {}
  /\ \A t \in Threads :
       /\ Queued(t) => state[t] = "RUNNABLE"
       /\ t \in Range(grq) => Unstarted(t)
       /\ \A w \in Workers : t \in Range(lrq[w]) => home_wid[t] \in {-1, w}

\* What a worker has in its hands at each place.
HandAt(w) ==
  /\ pc[w] = "begin" =>
       /\ cur[w] = NoThread /\ tgt[w] # NoThread
       /\ state[tgt[w]] = "RUNNABLE" /\ ~ Queued(tgt[w])
       /\ home_wid[tgt[w]] \in {-1, w}
  /\ pc[w] \in BusyPcs => cur[w] # NoThread /\ tgt[w] = NoThread
  /\ pc[w] \in OffPcs => (cur[w] = NoThread <=> tgt[w] # NoThread)
  /\ pc[w] \in OffPcs /\ tgt[w] # NoThread =>
       state[tgt[w]] = "RUNNING" /\ home_wid[tgt[w]] = w
  /\ pc[w] \notin {"begin"} \cup OffPcs => tgt[w] = NoThread
  /\ pc[w] \notin BusyPcs \cup OffPcs \cup WakePcs => cur[w] = NoThread
  /\ cur[w] # NoThread => state[cur[w]] = "RUNNING" /\ home_wid[cur[w]] = w
HandInv ==
  \A w \in Workers :
    /\ HandAt(w)
    /\ \A v \in Workers : tgt[v] = tgt[w] /\ tgt[w] # NoThread => v = w

\* A runnable thread is somewhere, a running one with its home worker.
StateAt(t) ==
  /\ state[t] = "NEW" => Unstarted(t)
  /\ state[t] \in {"RUNNING", "BLOCKED", "DEAD"} => ~ Unstarted(t)
  /\ state[t] = "RUNNING" =>
       \E w \in Workers : cur[w] = t \/ (tgt[w] = t /\ pc[w] \in OffPcs)
  /\ state[t] = "RUNNABLE" =>
       Queued(t) \/ \E w \in Workers : tgt[w] = t /\ pc[w] = "begin"
StateInv == \A t \in Threads : StateAt(t)

\* The counts, by the sets they count: unstarted threads on workers' queues,
\* each worker's pinned threads, and requests to yield but the one being made.
OnLocal == {t \in Threads : /\ Unstarted(t) /\ \E w \in Workers : t \in Range(lrq[w])}
PinnedTo(w) == {t \in Threads : home_wid[t] = w /\ state[t] # "DEAD"}
Asked == {t \in Threads : preempt_request[t]}
LocalMatch == lrq_unstarted = Cardinality(OnLocal)
PinsMatch == \A w \in Workers : pinned[w] = Cardinality(PinnedTo(w))
AskCount ==
  npreempt = Cardinality(Asked)
               - IF asking # <<>> /\ preempt_request[asking[2]] THEN 1 ELSE 0
AskHeld ==
  \A t \in Threads : preempt_request[t] =>
    \/ \E w \in Workers : cur[w] = t \/ (Off(w) /\ tgt[w] = t)
    \/ asking # <<>> /\ asking[2] = t

\* parked and idle follow the helper's place, and one that looks elsewhere, or
\* is about to sleep, has no unstarted thread on its own queue.
QuietPcs == IdlePcs \cup {"park", "steal", "lidle"}
SleepPc ==
  \A w \in Workers : /\ parked[w] <=> pc[w] \in IdlePcs
                     /\ idle[w] <=> pc[w] \in {"cv", "lcv"}
OwnInv ==
  \A w \in Workers : pc[w] \in QuietPcs => \A t \in Range(lrq[w]) : ~ Unstarted(t)

\* A helper sleeps with a wake sent to it, or with a thread on its queue, only
\* while the kick is on its way.
Kicked(w) == \E x \in Workers : At(x, "kick") /\ vi[x] = w
KickInv ==
  \A w \in Workers : Asleep(w) /\ (wake_sent[w] \/ Range(lrq[w]) # {}) => Kicked(w)

\* With the scheduler lock, a helper that looked has nothing left to find.
LookInv ==
  \A w \in Workers :
    /\ At(w, "lidle") => \A t \in Threads : Queued(t) => ~ Unstarted(t)
    /\ At(w, "steal") /\ sched = w =>
         /\ Range(grq) = {}
         /\ \A v \in Workers : v < vi[w] => \A t \in Range(lrq[v]) : ~ Unstarted(t)

\* A helper that will still find t, or is woken, before it sleeps.
Alert(w, t) ==
  /\ pc[w] \in {"cv", "lcv"} => signalled[w]
  /\ pc[w] = "sleep" => wake_sent[w]
  /\ pc[w] = "look3" => wake_sent[w] \/ t \notin Range(grq)

\* For a thread that waits to start one of the helpers that could take it is
\* alert, or is being kicked, or the scan that looks for one has not passed any.
CoverInv ==
  \A t \in Threads :
    Unstarted(t) /\ Queued(t) /\ Others(t) # {} =>
      \/ \E w \in Others(t) : Alert(w, t)
      \/ \E x \in Workers : At(x, "kick") /\ idle[vi[x]] /\ vi[x] \in Others(t)
      \/ \E x \in Workers : At(x, "scan") /\ \A w \in Others(t) : vi[x] <= w

IInv == /\ TypeInv /\ PoolInv /\ LockInv /\ ScanInv /\ QueueInv /\ HandInv /\ StateInv
        /\ LocalMatch /\ PinsMatch /\ AskCount /\ AskHeld
        /\ SleepPc /\ OwnInv /\ LookInv /\ KickInv /\ CoverInv

-----------------------------------------------------------------------------
(* The operators.                                                          *)

\* The smaller and the greater of two numbers.
LEMMA MinMaxTwo ==
  ASSUME NEW a \in Int, NEW b \in Int
  PROVE  /\ Min({a, b}) \in {a, b} /\ Min({a, b}) <= a
         /\ Max({a, b}) \in {a, b} /\ a <= Max({a, b})
<1>1. \E x \in {a, b} : \A y \in {a, b} : x <= y
  <2>1. CASE a <= b
    BY <2>1
  <2>2. CASE ~(a <= b)
    BY <2>2
  <2> QED BY <2>1, <2>2
<1>2. \E x \in {a, b} : \A y \in {a, b} : x >= y
  <2>1. CASE a <= b
    BY <2>1
  <2>2. CASE ~(a <= b)
    BY <2>2
  <2> QED BY <2>1, <2>2
<1>3. Min({a, b}) \in {a, b} /\ \A y \in {a, b} : Min({a, b}) <= y
  BY <1>1 DEF Min
<1>4. Max({a, b}) \in {a, b} /\ \A y \in {a, b} : Max({a, b}) >= y
  BY <1>2 DEF Max
<1> QED BY <1>3, <1>4

\* A set of threads gains or loses one.
LEMMA CountOne ==
  ASSUME NEW S \in SUBSET Threads, NEW t \in Threads
  PROVE  /\ IsFiniteSet(S) /\ Cardinality(S) \in 0 .. Cardinality(Threads)
         /\ t \notin S => Cardinality(S \cup {t}) = Cardinality(S) + 1
         /\ t \in S => Cardinality(S \ {t}) = Cardinality(S) - 1
<1>1. IsFiniteSet(Threads)
  BY ConstAssumption
<1>2. /\ IsFiniteSet(S) /\ Cardinality(S) \in Nat /\ Cardinality(Threads) \in Nat
      /\ Cardinality(S) <= Cardinality(Threads)
  BY <1>1, FS_Subset, FS_CardinalityType
<1>3. t \notin S => Cardinality(S \cup {t}) = Cardinality(S) + 1
  BY <1>2, FS_AddElement
<1>4. t \in S => Cardinality(S \ {t}) = Cardinality(S) - 1
  BY <1>2, FS_RemoveElement
<1> QED BY <1>2, <1>3, <1>4

\* The pool grows to no more than its cap, and w goes to l.
Grown(w, l) ==
  /\ spawned' \in spawned .. g_worker_cap /\ nfail' \in Nat
  /\ GotoGrown(w, l, spawned')

\* Where the workers are then.
GrownPc(w, l) ==
  /\ spawned' \in Int /\ spawned <= spawned' /\ spawned' <= g_worker_cap /\ pc'[w] = l
  /\ \A x \in Workers :
       /\ x # w /\ spawned < x /\ x <= spawned' => pc'[x] = "start"
       /\ x # w /\ (x <= spawned \/ spawned' < x) => pc'[x] = pc[x]
\* Workers that were not are at the start of their loop, the others where they
\* were.
LEMMA GrownMoves ==
  ASSUME CountType, NEW w \in Workers, NEW l, Grown(w, l)
  PROVE  GrownPc(w, l)
<1>1. /\ spawned \in Int /\ spawned' \in Int /\ spawned <= spawned'
      /\ spawned' <= g_worker_cap
  BY ConstAssumption DEF Grown, CountType
<1>2. \A x \in Workers : x \in Int
  BY ConstAssumption DEF Workers
<1>3. \A x \in Workers : pc'[x] = IF x = w THEN l
                                  ELSE IF x \in (spawned + 1) .. spawned' THEN "start"
                                  ELSE pc[x]
  BY DEF Grown, GotoGrown
<1> QED BY <1>1, <1>2, <1>3 DEF GrownPc

\* Whichever helper a thread is placed on, it is there by then.
LEMMA ChosenGrows ==
  ASSUME TypeInv, NEW w \in Workers, NEW b \in Helpers, NEW l, Chosen(w, b, l)
  PROVE  Grown(w, l) /\ b \in 1 .. spawned'
<1>a. /\ spawned \in 0 .. g_worker_cap /\ nfail \in Nat /\ g_worker_cap \in Nat
      /\ DOMAIN pc = Workers /\ pc = [x \in Workers |-> pc[x]]
  BY ConstAssumption DEF TypeInv, CountType, PcType
<1>1. nfail' \in Nat /\ spawned' \in Int
  BY <1>a DEF Chosen, Grow, Helpers
<1>2. CASE b = spawned + 1 /\ Grow(b, FALSE) /\ GotoGrown(w, l, b)
  <2>1. spawned' = b /\ b \in spawned .. g_worker_cap
    BY <1>a, <1>2 DEF Grow, Helpers
  <2> QED BY <1>1, <1>a, <1>2, <2>1 DEF Grown
<1>3. CASE Fewest(b) /\ Goto(w, l) /\ spawned' = spawned
  <2>1. b \in 1 .. spawned
    BY <1>3 DEF Fewest
  <2>2. ~ \E x \in Workers : x \in (spawned + 1) .. spawned
    BY <1>a DEF Workers
  <2>3. pc' = [x \in Workers |-> IF x = w THEN l ELSE pc[x]]
    BY <1>a, <1>3 DEF Goto
  <2>4. GotoGrown(w, l, spawned')
    BY <1>3, <2>2, <2>3 DEF GotoGrown
  <2> QED BY <1>1, <1>a, <1>3, <2>1, <2>4 DEF Grown
<1> QED BY <1>2, <1>3 DEF Chosen, Grow

\* What a spawn makes of the pool: no more helpers than its cap.
LEMMA MaybeGrowGrows ==
  ASSUME TypeInv, NEW w \in Workers, NEW t \in Threads, NEW l,
         sp_sched_maybe_grow(w, l, t)
  PROVE  Grown(w, l)
<1>a. spawned \in 0 .. g_worker_cap /\ nfail \in Nat /\ g_worker_cap \in Nat
  BY ConstAssumption DEF TypeInv, CountType
<1> DEFINE c == Cardinality({u \in Threads : state[u] \in {"RUNNABLE", "RUNNING"}}
                              \cup {t})
<1>1. c \in Nat
  BY CountOne, FS_CardinalityType
<1>2. Want(t) \in Int /\ Want(t) <= g_worker_cap
  BY <1>1, <1>a, MinMaxTwo DEF Want
<1>3. Max({spawned, Want(t)}) \in spawned .. g_worker_cap
  <2> DEFINE m == Max({spawned, Want(t)})
  <2>1. spawned \in Int /\ Want(t) \in Int
    BY <1>2, <1>a
  <2>2. m \in {spawned, Want(t)} /\ spawned <= m
    BY <2>1, MinMaxTwo
  <2> HIDE DEF m
  <2>3. m \in spawned .. g_worker_cap
    BY <2>1, <2>2, <1>2, <1>a
  <2> QED BY <2>3 DEF m
<1>4. nfail' \in Nat
  BY <1>a DEF sp_sched_maybe_grow, Grow
<1>5. CASE Grow(Max({spawned, Want(t)}), FALSE)
        /\ GotoGrown(w, l, Max({spawned, Want(t)}))
  BY <1>5, <1>3, <1>4 DEF Grow, Grown
<1>6. CASE \E n \in spawned .. (Want(t) - 1) : Grow(n, TRUE) /\ GotoGrown(w, l, n)
  <2>1. PICK n \in spawned .. (Want(t) - 1) : Grow(n, TRUE) /\ GotoGrown(w, l, n)
    BY <1>6
  <2>2. n \in spawned .. g_worker_cap
    BY <2>1, <1>2, <1>a
  <2> QED BY <2>1, <2>2, <1>4 DEF Grow, Grown
<1> QED BY <1>5, <1>6 DEF sp_sched_maybe_grow

-----------------------------------------------------------------------------
(* The queues.                                                             *)

\* t is put on w's queue, or taken off it.
Put(w, t) ==
  /\ lrq' \in [Workers -> Seq(Threads)]
  /\ \A v \in Workers : v # w => lrq'[v] = lrq[v]
  /\ Range(lrq'[w]) = Range(lrq[w]) \cup {t} /\ IsInjective(lrq'[w])
Took(w, t) ==
  /\ lrq' \in [Workers -> Seq(Threads)]
  /\ \A v \in Workers : v # w => lrq'[v] = lrq[v]
  /\ t \in Range(lrq[w])
  /\ Range(lrq'[w]) = Range(lrq[w]) \ {t} /\ IsInjective(lrq'[w])

\* A queue is empty when no thread is on it.
LEMMA QueueFacts ==
  ASSUME TypeInv
  PROVE  /\ \A t : Queued(t) => t \in Threads
         /\ grq = <<>> <=> Range(grq) = {}
         /\ grq # <<>> => Head(grq) \in Range(grq) /\ Head(grq) \in Threads
         /\ \A w \in Workers :
              /\ Range(lrq[w]) \subseteq Threads
              /\ lrq[w] = <<>> <=> Range(lrq[w]) = {}
              /\ lrq[w] # <<>> => Head(lrq[w]) \in Range(lrq[w])
<1>1. grq \in Seq(Threads) /\ \A w \in Workers : lrq[w] \in Seq(Threads)
  BY DEF TypeInv, QueueType
<1>2. /\ Range(grq) \subseteq Threads
      /\ grq = <<>> <=> Range(grq) = {}
      /\ grq # <<>> => Head(grq) \in Range(grq)
  BY <1>1, EmptyList
<1>3. ASSUME NEW w \in Workers
      PROVE  /\ Range(lrq[w]) \subseteq Threads
             /\ lrq[w] = <<>> <=> Range(lrq[w]) = {}
             /\ lrq[w] # <<>> => Head(lrq[w]) \in Range(lrq[w])
  BY <1>1, EmptyList
<1> QED BY <1>2, <1>3 DEF Queued

\* Appending to w's queue puts t on it.
LEMMA PutQueue ==
  ASSUME TypeInv, QueueInv, NEW w \in Workers, NEW t \in Threads,
         t \notin Range(lrq[w]), lrq' = [lrq EXCEPT ![w] = Append(@, t)]
  PROVE  Put(w, t)
<1>1. lrq \in [Workers -> Seq(Threads)] /\ lrq[w] \in Seq(Threads)
  BY DEF TypeInv, QueueType
<1>2. IsInjective(lrq[w])
  BY DEF QueueInv
<1>3. lrq'[w] = Append(lrq[w], t) /\ \A v \in Workers : v # w => lrq'[v] = lrq[v]
  BY <1>1
<1>4. /\ Append(lrq[w], t) \in Seq(Threads) /\ IsInjective(Append(lrq[w], t))
      /\ Range(Append(lrq[w], t)) = Range(lrq[w]) \cup {t}
  BY <1>1, <1>2, AppendList
<1>5. lrq' \in [Workers -> Seq(Threads)]
  BY <1>1, <1>4
<1> QED BY <1>3, <1>4, <1>5 DEF Put

\* runq_take of a queued thread takes it off, and only it.
LEMMA TakeQueue ==
  ASSUME TypeInv, QueueInv, NEW w \in Workers, NEW t \in Range(lrq[w]), runq_take(w, t)
  PROVE  Took(w, t)
<1>1. lrq \in [Workers -> Seq(Threads)] /\ lrq[w] \in Seq(Threads) /\ IsInjective(lrq[w])
  BY DEF TypeInv, QueueType, QueueInv
<1>2. lrq'[w] = RemoveFirst(lrq[w], t) /\ \A v \in Workers : v # w => lrq'[v] = lrq[v]
  BY <1>1 DEF runq_take
<1>3. /\ RemoveFirst(lrq[w], t) \in Seq(Threads) /\ IsInjective(RemoveFirst(lrq[w], t))
      /\ Range(RemoveFirst(lrq[w], t)) = Range(lrq[w]) \ {t}
  BY <1>1, RemoveFirstList
<1>4. lrq' \in [Workers -> Seq(Threads)]
  BY <1>1, <1>3 DEF runq_take
<1> QED BY <1>2, <1>3, <1>4 DEF Took

\* So it does for the thread at the head.
LEMMA TakeHead ==
  ASSUME TypeInv, QueueInv, NEW w \in Workers, lrq[w] # <<>>, runq_take(w, Head(lrq[w]))
  PROVE  Took(w, Head(lrq[w])) /\ Head(lrq[w]) \in Threads
<1>1. Head(lrq[w]) \in Range(lrq[w]) /\ Range(lrq[w]) \subseteq Threads
  BY QueueFacts
<1> QED BY <1>1, TakeQueue

\* The shared queue.
LEMMA PutShared ==
  ASSUME TypeInv, QueueInv, NEW t \in Threads, ~ Queued(t), grq' = Append(grq, t)
  PROVE  /\ grq' \in Seq(Threads) /\ IsInjective(grq')
         /\ Range(grq') = Range(grq) \cup {t}
<1>1. grq \in Seq(Threads) /\ IsInjective(grq) /\ t \notin Range(grq)
  BY DEF TypeInv, QueueType, QueueInv, Queued
<1> QED BY <1>1, AppendList

\* The head of the shared queue goes off it.
LEMMA TakeShared ==
  ASSUME TypeInv, QueueInv, grq # <<>>, grq' = Tail(grq)
  PROVE  /\ Head(grq) \in Threads /\ Head(grq) \in Range(grq)
         /\ grq' \in Seq(Threads) /\ IsInjective(grq')
         /\ Range(grq') = Range(grq) \ {Head(grq)}
<1>1. grq \in Seq(Threads) /\ IsInjective(grq)
  BY DEF TypeInv, QueueType, QueueInv
<1>2. /\ Head(grq) \in Threads /\ Head(grq) \in Range(grq) /\ Tail(grq) \in Seq(Threads)
      /\ Range(grq) = Range(Tail(grq)) \cup {Head(grq)}
      /\ IsInjective(Tail(grq)) /\ Head(grq) \notin Range(Tail(grq))
  BY <1>1, TailList
<1> QED BY <1>2

\* A thread that is placed is on the queue of a helper that exists.
Placed(w, b, t) ==
  /\ b \in Workers /\ b \in 1 .. spawned' /\ Grown(w, "kick") /\ Put(b, t)
  /\ home_wid' = [home_wid EXCEPT ![t] = b] /\ pinned' = [pinned EXCEPT ![b] = @ + 1]
  /\ vi' = Set(vi, w, b) /\ UNCHANGED <<lrq_unstarted, active>>
\* sched_place_unstarted places t.
LEMMA PlacePlaces ==
  ASSUME TypeInv, QueueInv, NEW w \in Workers, NEW b \in Helpers, NEW t \in Threads,
         \A v \in Workers : t \notin Range(lrq[v]), Place(w, b, t)
  PROVE  Placed(w, b, t)
<1>1. b \in Workers
  BY DEF Helpers, Workers
<1>2. Grown(w, "kick") /\ b \in 1 .. spawned'
  BY ChosenGrows DEF Place
<1>3. Put(b, t)
  BY <1>1, PutQueue DEF Place
<1> QED BY <1>1, <1>2, <1>3 DEF Place, Placed

\* The thread at the head of the shared queue is placed, or run here.
ShareOff(t) ==
  /\ grq # <<>> /\ t = Head(grq) /\ t \in Threads /\ t \in Range(grq)
  /\ grq' \in Seq(Threads) /\ IsInjective(grq') /\ Range(grq') = Range(grq) \ {t}
\* A helper that finds a thread on the shared queue places it or runs it.
LEMMA PickPlaceCases ==
  ASSUME TypeInv, QueueInv, NEW w \in Helpers, PickPlace(w)
  PROVE  /\ w \in Workers /\ At(w, "pick") /\ ShareOff(Head(grq))
         /\ UNCHANGED <<state, idleVars, sched, locked_turn, askVars, cur,
                        lrq_unstarted, active>>
         /\ \/ (\E b \in Helpers : Placed(w, b, Head(grq))) /\ UNCHANGED runVars
            \/ /\ Grown(w, "begin") /\ ToRun(w, Head(grq), "locked")
               /\ UNCHANGED <<home_wid, lrq, pinned, vi>>
<1>1. w \in Workers
  BY DEF Helpers, Workers
<1>2. ShareOff(Head(grq))
  BY TakeShared DEF PickPlace, ShareOff
<1>3. \A v \in Workers : Head(grq) \notin Range(lrq[v])
  BY <1>2 DEF ShareOff, QueueInv
<1>4. ASSUME NEW b \in Helpers, Place(w, b, Head(grq)) PROVE Placed(w, b, Head(grq))
  BY <1>1, <1>2, <1>3, <1>4, PlacePlaces DEF ShareOff
<1>5. ASSUME NEW b \in Helpers, Chosen(w, b, "begin") PROVE Grown(w, "begin")
  BY <1>1, <1>5, ChosenGrows
<1>6. CASE (\E b \in Helpers : Place(w, b, Head(grq))) /\ UNCHANGED runVars
  BY <1>1, <1>2, <1>4, <1>6 DEF PickPlace, Place, runVars
<1>7. CASE /\ \E b \in Helpers : Chosen(w, b, "begin") /\ Stays(w, b)
           /\ ToRun(w, Head(grq), "locked")
           /\ UNCHANGED <<home_wid, lrq, lrq_unstarted, pinned, active, vi>>
  BY <1>1, <1>2, <1>5, <1>7 DEF PickPlace, ToRun
<1> QED BY <1>6, <1>7 DEF PickPlace

\* Main's new thread is placed, or put on the shared queue.
LEMMA MainSpawnCases ==
  ASSUME TypeInv, QueueInv, MainSpawn
  PROVE  /\ At(0, "code") /\ sched = Free /\ sched' = 0
         /\ UNCHANGED <<idleVars, runVars, locked_turn, askVars, lrq_unstarted, active>>
         /\ \E u \in Threads :
              /\ state[u] = "NEW" /\ ~ Queued(u) /\ state' = Set(state, u, "RUNNABLE")
              /\ \/ (\E b \in Helpers : Placed(0, b, u)) /\ UNCHANGED grq
                 \/ /\ grq' \in Seq(Threads) /\ IsInjective(grq')
                    /\ Range(grq') = Range(grq) \cup {u}
                    /\ Grown(0, "scan") /\ vi' = Set(vi, 0, 1)
                    /\ UNCHANGED <<home_wid, lrq, pinned>>
<1>a. 0 \in Workers
  BY ConstAssumption DEF Workers
<1>1. PICK u \in Threads :
        /\ state[u] = "NEW"
        /\ state' = Set(state, u, "RUNNABLE")
        /\ \/ /\ \E b \in Helpers : Place(0, b, u)
              /\ UNCHANGED grq
           \/ /\ \A b \in 1 .. spawned : ~ active[b]
              /\ grq' = Append(grq, u)
              /\ sp_sched_maybe_grow(0, "scan", u)
              /\ vi' = Set(vi, 0, 1)
              /\ UNCHANGED <<home_wid, lrq, lrq_unstarted, pinned, active>>
  BY DEF MainSpawn
<1>2. ~ Queued(u)
  BY <1>1 DEF QueueInv
<1>3. CASE (\E b \in Helpers : Place(0, b, u)) /\ UNCHANGED grq
  <2>1. PICK b \in Helpers : Place(0, b, u)
    BY <1>3
  <2>2. Placed(0, b, u)
    BY <1>a, <1>2, <2>1, PlacePlaces DEF Queued
  <2>3. UNCHANGED <<lrq_unstarted, active>>
    BY <2>2 DEF Placed
  <2> QED BY <1>1, <1>2, <1>3, <2>2, <2>3 DEF MainSpawn
<1>4. CASE /\ grq' = Append(grq, u)
           /\ sp_sched_maybe_grow(0, "scan", u)
           /\ vi' = Set(vi, 0, 1)
           /\ UNCHANGED <<home_wid, lrq, lrq_unstarted, pinned, active>>
  <2>1. Grown(0, "scan")
    BY <1>4, <1>a, MaybeGrowGrows
  <2>2. /\ grq' \in Seq(Threads) /\ IsInjective(grq')
        /\ Range(grq') = Range(grq) \cup {u}
    BY <1>4, <1>2, PutShared
  <2> QED BY <1>1, <1>2, <1>4, <2>1, <2>2 DEF MainSpawn
<1> QED BY <1>1, <1>3, <1>4

\* Main's pump takes a thread off the shared queue, or its own worker's.
LEMMA PumpRunCases ==
  ASSUME TypeInv, QueueInv, PumpRun
  PROVE  /\ 0 \in Workers /\ At(0, "code") /\ sched = Free /\ sched' = 0
           /\ Goto(0, "begin")
         /\ UNCHANGED <<threadVars, poolVars, idleVars, locked_turn, vi, askVars>>
         /\ \E t \in Threads :
              /\ ToRun(0, t, "locked")
              /\ \/ ShareOff(t) /\ UNCHANGED <<lrq, lrq_unstarted>>
                 \/ Took(0, t) /\ runq_take(0, t)
<1>a. 0 \in Workers
  BY ConstAssumption DEF Workers
<1>1. CASE /\ grq # <<>> /\ grq' = Tail(grq) /\ ToRun(0, Head(grq), "locked")
           /\ UNCHANGED <<lrq, lrq_unstarted>>
  <2>1. ShareOff(Head(grq)) /\ Head(grq) \in Threads
    BY <1>1, TakeShared DEF ShareOff
  <2> QED BY <1>a, <1>1, <2>1 DEF PumpRun
<1>2. CASE /\ lrq[0] # <<>> /\ runq_take(0, Head(lrq[0]))
           /\ ToRun(0, Head(lrq[0]), "locked")
  <2>1. Took(0, Head(lrq[0])) /\ Head(lrq[0]) \in Threads
    BY <1>a, <1>2, TakeHead
  <2> QED BY <1>a, <1>2, <2>1 DEF PumpRun
<1> QED BY <1>1, <1>2 DEF PumpRun

\* A steal takes an unstarted thread off another worker's queue.
LEMMA StealCases ==
  ASSUME TypeInv, QueueInv, NEW w \in Helpers, sched_steal(w)
  PROVE  /\ w \in Workers /\ At(w, "steal") /\ vi[w] <= spawned /\ vi[w] # w
         /\ vi[w] \in Workers
         /\ \E t \in Threads : /\ Unstarted(t) /\ Took(vi[w], t) /\ runq_take(vi[w], t)
                               /\ Stolen(w, t)
<1>a. w \in Workers /\ vi[w] \in Workers
  <2>1. w \in Workers
    BY DEF Helpers, Workers
  <2>2. vi[w] \in 0 .. (g_worker_cap + 1) /\ spawned \in 0 .. g_worker_cap
          /\ vi[w] <= spawned
    BY <2>1 DEF TypeInv, RunType, CountType, sched_steal
  <2> QED BY <2>1, <2>2, ConstAssumption DEF Workers
<1>1. PICK i \in DOMAIN lrq[vi[w]] :
        /\ FirstUnstarted(vi[w], i)
        /\ runq_take(vi[w], lrq[vi[w]][i])
        /\ Stolen(w, lrq[vi[w]][i])
  BY DEF sched_steal
<1>2. lrq[vi[w]][i] \in Range(lrq[vi[w]])
  BY <1>1 DEF Range
<1>3. lrq[vi[w]][i] \in Threads
  BY <1>a, <1>2, QueueFacts
<1>4. Took(vi[w], lrq[vi[w]][i])
  BY <1>a, <1>1, <1>2, TakeQueue
<1> QED BY <1>a, <1>1, <1>3, <1>4 DEF sched_steal, FirstUnstarted

\* A thread off its stack is its home worker's, and on no queue.
LEMMA OffFacts ==
  ASSUME TypeInv, QueueInv, HandInv, NEW w \in Workers, Off(w)
  PROVE  /\ pc[w] \in OffPcs /\ cur[w] = NoThread
         /\ tgt[w] \in Threads /\ tgt[w] # NoThread
         /\ state[tgt[w]] = "RUNNING" /\ home_wid[tgt[w]] = w /\ ~ Queued(tgt[w])
<1>1. pc[w] \in OffPcs /\ cur[w] = NoThread
  BY DEF Off, OffPcs
<1>2. /\ tgt[w] # NoThread /\ state[tgt[w]] = "RUNNING" /\ home_wid[tgt[w]] = w
  BY <1>1 DEF HandInv, HandAt
<1>3. tgt[w] \in Threads
  BY <1>2 DEF TypeInv, RunType
<1> QED BY <1>1, <1>2, <1>3 DEF QueueInv

\* A thread that yielded goes back on its own worker's queue.
LEMMA PassedPuts ==
  ASSUME TypeInv, QueueInv, HandInv, NEW w \in Workers, RunPassed(w)
  PROVE  /\ Put(w, tgt[w]) /\ grq' = grq /\ lrq_unstarted' = lrq_unstarted
         /\ Off(w) /\ pc[w] = "passed"
<1>1. tgt[w] \in Threads /\ home_wid[tgt[w]] = w /\ ~ Queued(tgt[w]) /\ Off(w)
  BY OffFacts DEF RunPassed, RunEnds
<1>2. w \in Int /\ w >= 0
  BY ConstAssumption DEF Workers
<1>3. /\ lrq' = [lrq EXCEPT ![w] = Append(@, tgt[w])] /\ grq' = grq
      /\ lrq_unstarted' = lrq_unstarted + 0
  BY <1>1, <1>2 DEF RunPassed, runq_push, Unstarted
<1>4. Put(w, tgt[w])
  BY <1>1, <1>3, PutQueue DEF Queued
<1> QED BY <1>1, <1>3, <1>4 DEF RunPassed, At, TypeInv, CountType

\* A parked thread that is woken goes on its home's queue.
LEMMA WakePuts ==
  ASSUME TypeInv, QueueInv, StateInv, NEW t \in Threads, sched_push_wake(t)
  PROVE  /\ home_wid[t] \in Workers /\ Put(home_wid[t], t) /\ grq' = grq
         /\ ~ Queued(t) /\ lrq_unstarted' = lrq_unstarted
<1>1. ~ Queued(t) /\ ~ Unstarted(t)
  BY DEF sched_push_wake, QueueInv, StateInv, StateAt
<1>2. home_wid[t] \in Workers
  BY <1>1 DEF TypeInv, ThreadType, CountType, Unstarted
<1>3. /\ lrq' = [lrq EXCEPT ![home_wid[t]] = Append(@, t)] /\ grq' = grq
      /\ lrq_unstarted' = lrq_unstarted + 0
  BY <1>1 DEF sched_push_wake, runq_push
<1>4. Put(home_wid[t], t)
  BY <1>1, <1>2, <1>3, PutQueue DEF Queued
<1> QED BY <1>1, <1>2, <1>3, <1>4 DEF TypeInv, ThreadType, CountType

\* A thread spawned by a thread goes, unstarted and counted, on the spawner's
\* queue.
LEMMA SpawnLocalCases ==
  ASSUME TypeInv, QueueInv, StateInv, NEW w \in Workers, SpawnLocal(w)
  PROVE  /\ grq' = grq /\ lrq_unstarted' = lrq_unstarted + 1
         /\ \E u \in Threads : /\ state[u] = "NEW" /\ ~ Queued(u) /\ Unstarted(u)
                               /\ state' = Set(state, u, "RUNNABLE") /\ Put(w, u)
<1>1. PICK u \in Threads : /\ state[u] = "NEW" /\ state' = Set(state, u, "RUNNABLE")
                           /\ runq_push(w, u)
  BY DEF SpawnLocal
<1>2. ~ Queued(u) /\ Unstarted(u)
  BY <1>1 DEF QueueInv, StateInv, StateAt
<1>3. Put(w, u)
  BY <1>1, <1>2, PutQueue DEF Queued, runq_push
<1> QED BY <1>1, <1>2, <1>3 DEF runq_push

\* runq_take discounts unstarted threads only.
LEMMA TakeCounts ==
  ASSUME CountType, NEW w \in Workers, NEW t, runq_take(w, t)
  PROVE  /\ grq' = grq /\ lrq_unstarted' \in Int
         /\ Unstarted(t) => lrq_unstarted' = lrq_unstarted - 1
         /\ ~ Unstarted(t) => lrq_unstarted' = lrq_unstarted
<1>1. lrq_unstarted \in Int
  BY DEF CountType
<1>2. grq' = grq /\ lrq_unstarted' = lrq_unstarted - (IF Unstarted(t) THEN 1 ELSE 0)
  BY DEF runq_take
<1>3. CASE Unstarted(t)
  BY <1>1, <1>2, <1>3
<1>4. CASE ~ Unstarted(t)
  BY <1>1, <1>2, <1>4
<1> QED BY <1>2, <1>3, <1>4

\* A pool that grows has its new helpers at their start.
LEMMA GrownPool ==
  ASSUME TypeInv, PoolPc, NEW w \in Workers, NEW l, pc[w] # "none",
         l \notin {"none", "code"},
         w = 0 => l \notin LoopPcs, GrownPc(w, l), from'[0] = from[0]
  PROVE  PoolPc'
<1>1. /\ spawned \in 0 .. g_worker_cap /\ 0 \in Workers
      /\ \A x \in Workers : x \in Int /\ 0 <= x
  BY ConstAssumption DEF TypeInv, CountType, Workers
<1>2. w <= spawned
  BY <1>1 DEF PoolPc
<1>3. /\ spawned' \in Int /\ spawned <= spawned' /\ pc'[w] = l
      /\ \A x \in Workers :
           /\ x # w /\ spawned < x /\ x <= spawned' => pc'[x] = "start"
           /\ x # w /\ (x <= spawned \/ spawned' < x) => pc'[x] = pc[x]
  BY DEF GrownPc
<1>4. ASSUME NEW x \in Workers
      PROVE (pc'[x] = "none" <=> x > spawned') /\ (pc'[x] = "code" => x = 0)
  <2>1. CASE x = w
    BY <2>1, <1>1, <1>2, <1>3
  <2>2. CASE x # w /\ spawned < x /\ x <= spawned'
    BY <2>2, <1>1, <1>3
  <2>3. CASE x # w /\ (x <= spawned \/ spawned' < x)
    BY <2>3, <1>1, <1>3 DEF PoolPc
  <2> QED BY <2>1, <2>2, <2>3, <1>1, <1>3
<1>5. pc'[0] \notin LoopPcs
  <2>1. CASE w = 0
    BY <2>1, <1>3
  <2>2. CASE w # 0
    BY <2>2, <1>1, <1>3 DEF PoolPc
  <2> QED BY <2>1, <2>2
<1> QED BY <1>4, <1>5 DEF PoolPc

-----------------------------------------------------------------------------
(* What keeps a thread in one worker's hands.                              *)

NoHand == {"none", "code"} \cup LoopPcs
\* A worker goes on, and no thread changes hands.
SameHand(w) ==
  \/ pc'[w] = pc[w]
  \/ pc[w] \in NoHand /\ pc'[w] \in NoHand
  \/ pc[w] \in BusyPcs /\ pc'[w] \in BusyPcs \cup OffPcs
  \/ pc[w] \in WakePcs /\ pc'[w] \in WakePcs
  \/ pc[w] \in WakePcs /\ pc'[w] \in NoHand /\ cur[w] = NoThread
  \/ pc[w] \in WakePcs /\ pc'[w] \in BusyPcs /\ cur[w] # NoThread

\* What another worker does leaves a worker's hands alone.
LEMMA HandFrame ==
  ASSUME NEW x, HandAt(x), pc'[x] = pc[x], cur'[x] = cur[x], tgt'[x] = tgt[x],
         tgt[x] # NoThread =>
           /\ state'[tgt[x]] = state[tgt[x]] /\ home_wid'[tgt[x]] = home_wid[tgt[x]]
           /\ Queued(tgt[x])' => Queued(tgt[x]),
         cur[x] # NoThread =>
           state'[cur[x]] = state[cur[x]] /\ home_wid'[cur[x]] = home_wid[cur[x]]
  PROVE  HandAt(x)'
BY DEF HandAt

\* A step that moves no thread keeps what workers hold.
LEMMA SameHandKeeps ==
  ASSUME HandInv, StateInv, UNCHANGED <<state, home_wid, cur, tgt, grq, lrq>>,
         \A x \in Workers : SameHand(x)
  PROVE  HandInv' /\ StateInv'
<1>1. \A t : Queued(t)' <=> Queued(t)
  BY DEF Queued
<1>2. ASSUME NEW x \in Workers PROVE HandAt(x)'
  <2>1. HandAt(x) /\ SameHand(x)
    BY DEF HandInv
  <2>2. /\ "begin" \notin NoHand \cup BusyPcs \cup OffPcs \cup WakePcs
        /\ NoHand \cap BusyPcs = {} /\ NoHand \cap OffPcs = {} /\ NoHand \cap WakePcs = {}
        /\ BusyPcs \cap OffPcs = {} /\ BusyPcs \cap WakePcs = {}
             /\ OffPcs \cap WakePcs = {}
    BY DEF NoHand, LoopPcs, IdlePcs, BusyPcs, OffPcs, WakePcs
  <2>3. CASE pc'[x] = pc[x]
    BY <1>1, <2>1, <2>3, HandFrame
  <2>4. CASE pc[x] \in NoHand /\ pc'[x] \in NoHand
    BY <1>1, <2>1, <2>2, <2>4 DEF HandAt
  <2>5. CASE pc[x] \in BusyPcs /\ pc'[x] \in BusyPcs \cup OffPcs
    BY <1>1, <2>1, <2>2, <2>5 DEF HandAt
  <2>6. CASE pc[x] \in WakePcs /\ pc'[x] \in WakePcs
    BY <1>1, <2>1, <2>2, <2>6 DEF HandAt
  <2>7. CASE pc[x] \in WakePcs /\ pc'[x] \in NoHand /\ cur[x] = NoThread
    BY <1>1, <2>1, <2>2, <2>7 DEF HandAt
  <2>8. CASE pc[x] \in WakePcs /\ pc'[x] \in BusyPcs /\ cur[x] # NoThread
    BY <1>1, <2>1, <2>2, <2>8 DEF HandAt
  <2> QED BY <2>1, <2>3, <2>4, <2>5, <2>6, <2>7, <2>8 DEF SameHand
<1>3. ASSUME NEW t \in Threads PROVE StateAt(t)'
  <2>1. ASSUME NEW w \in Workers, pc[w] \in OffPcs \cup {"begin"} PROVE pc'[w] = pc[w]
    <3>1. SameHand(w)
      OBVIOUS
    <3> QED BY <2>1, <3>1 DEF SameHand, NoHand, LoopPcs, IdlePcs, BusyPcs, OffPcs, WakePcs
  <2>2. StateAt(t) /\ (Unstarted(t)' <=> Unstarted(t))
    BY DEF StateInv, Unstarted
  <2> QED BY <1>1, <2>1, <2>2 DEF StateAt
<1> QED BY <1>2, <1>3 DEF HandInv, StateInv

\* One worker, w, and one thread, t, change; the others keep their hands and
\* their places.
OthersKeep(w) ==
  \A x \in Workers : x # w =>
    /\ cur'[x] = cur[x] /\ tgt'[x] = tgt[x]
    /\ pc'[x] = pc[x] \/ (pc[x] = "none" /\ pc'[x] = "start")
ThreadsKeep(t) ==
  \A u \in Threads : u # t =>
    /\ state'[u] = state[u] /\ home_wid'[u] = home_wid[u]
    /\ Queued(u)' <=> Queued(u)
Alone(w, t) == \A x \in Workers : x # w => cur[x] # t /\ tgt[x] # t
LetsGo(w, t) ==
  /\ tgt'[w] \in {NoThread, t, tgt[w]}
  /\ \A u \in Threads : u # t =>
       /\ cur[w] = u => cur'[w] = u
       /\ tgt[w] = u => tgt'[w] = u /\ pc'[w] = pc[w]
\* A step by which w takes, runs or lets go of t leaves what others hold alone.
LEMMA MoveKeeps ==
  ASSUME TypeInv, HandInv, StateInv, NEW w \in Workers, NEW t \in Threads,
         OthersKeep(w), ThreadsKeep(t), Alone(w, t), LetsGo(w, t), HandAt(w)', StateAt(t)'
  PROVE  HandInv' /\ StateInv'
<1>a. /\ \A x \in Workers : cur[x] \in Threads \cup {NoThread}
      /\ \A x \in Workers : tgt[x] \in Threads \cup {NoThread}
      /\ NoThread \notin Threads
  BY ConstAssumption DEF TypeInv, RunType
<1>1. ASSUME NEW x \in Workers, x # w PROVE HandAt(x)'
  <2>1. HandAt(x) /\ cur'[x] = cur[x] /\ tgt'[x] = tgt[x] /\ cur[x] # t /\ tgt[x] # t
    BY <1>1 DEF HandInv, OthersKeep, Alone
  <2>2. /\ tgt[x] # NoThread =>
             /\ state'[tgt[x]] = state[tgt[x]] /\ home_wid'[tgt[x]] = home_wid[tgt[x]]
             /\ Queued(tgt[x])' <=> Queued(tgt[x])
        /\ cur[x] # NoThread =>
             state'[cur[x]] = state[cur[x]] /\ home_wid'[cur[x]] = home_wid[cur[x]]
    BY <1>a, <1>1, <2>1 DEF ThreadsKeep
  <2>3. CASE pc'[x] = pc[x]
    BY <2>1, <2>2, <2>3, HandFrame
  <2>4. CASE pc[x] = "none" /\ pc'[x] = "start"
    BY <2>1, <2>4 DEF HandAt, BusyPcs, OffPcs, WakePcs
  <2> QED BY <1>1, <2>3, <2>4 DEF OthersKeep
<1>2. ASSUME NEW x \in Workers, NEW y \in Workers, tgt'[y] = tgt'[x], tgt'[x] # NoThread
      PROVE  y = x
  <2>1. \A z \in Workers : z # w => tgt'[z] = tgt[z] /\ tgt[z] # t
    BY DEF OthersKeep, Alone
  <2>2. tgt'[w] \in {NoThread, t, tgt[w]}
    BY DEF LetsGo
  <2>3. tgt[y] = tgt[x] /\ tgt[x] # NoThread => y = x
    BY DEF HandInv
  <2> QED BY <1>2, <2>1, <2>2, <2>3
<1>3. ASSUME NEW u \in Threads, u # t PROVE StateAt(u)'
  <2>1. /\ StateAt(u) /\ (Unstarted(u)' <=> Unstarted(u)) /\ state'[u] = state[u]
        /\ (Queued(u)' <=> Queued(u))
    BY <1>3 DEF StateInv, ThreadsKeep, Unstarted
  <2>2. ASSUME NEW x \in Workers
        PROVE  /\ cur[x] = u => cur'[x] = u
               /\ tgt[x] = u /\ pc[x] \in OffPcs \cup {"begin"} => tgt'[x] = u
                    /\ pc'[x] = pc[x]
    <3>1. CASE x = w
      BY <1>3, <3>1 DEF LetsGo
    <3>2. CASE x # w
      BY <1>3, <3>2 DEF OthersKeep, OffPcs
    <3> QED BY <3>1, <3>2
  <2> QED BY <2>1, <2>2 DEF StateAt
<1> QED BY <1>1, <1>2, <1>3 DEF HandInv, StateInv

\* A thread that is queued, or in no state to run, is in nobody's hands; one
\* that is in a worker's is in no other's.
LEMMA NotHeld ==
  ASSUME TypeInv, QueueInv, HandInv, NEW t \in Threads,
         Queued(t) \/ state[t] \in {"NEW", "BLOCKED", "DEAD"}
  PROVE  \A x \in Workers : cur[x] # t /\ tgt[x] # t
<1>1. ASSUME NEW x \in Workers PROVE cur[x] # t /\ tgt[x] # t
  <2>1. HandAt(x) /\ NoThread # t /\ (Queued(t) => state[t] = "RUNNABLE")
    BY ConstAssumption DEF HandInv, QueueInv
  <2> QED BY <2>1 DEF HandAt
<1> QED BY <1>1

\* A thread in a worker's hands is in nobody else's.
LEMMA HeldOnce ==
  ASSUME TypeInv, HandInv, NEW t \in Threads, NEW w \in Workers, cur[w] = t \/ tgt[w] = t
  PROVE  Alone(w, t)
<1>1. ASSUME NEW x \in Workers, x # w PROVE cur[x] # t /\ tgt[x] # t
  <2>1. HandAt(x) /\ HandAt(w) /\ NoThread # t
    BY ConstAssumption DEF HandInv
  <2>2. tgt[w] = t => tgt[x] # t
    BY <1>1, <2>1 DEF HandInv
  <2>3. ASSUME NEW y \in Workers, cur[y] = t PROVE state[t] = "RUNNING" /\ home_wid[t] = y
    BY <2>1, <2>3 DEF HandInv, HandAt
  <2>4. ASSUME NEW y \in Workers, tgt[y] = t, state[t] = "RUNNING" PROVE home_wid[t] = y
    BY <2>1, <2>4 DEF HandInv, HandAt
  <2> QED BY <1>1, <2>2, <2>3, <2>4
<1> QED BY <1>1 DEF Alone

\* The hands a worker ends up with.
LEMMA HandBegin ==
  ASSUME NEW w \in Workers, NEW t, t # NoThread, pc'[w] = "begin", cur'[w] = NoThread,
         tgt'[w] = t, state'[t] = "RUNNABLE", ~ Queued(t)', home_wid'[t] \in {-1, w}
  PROVE  HandAt(w)'
BY DEF HandAt, BusyPcs, OffPcs, WakePcs

\* None, at the places without a thread.
LEMMA HandNone ==
  ASSUME NEW w \in Workers, pc'[w] \notin {"begin"} \cup BusyPcs \cup OffPcs,
         cur'[w] = NoThread, tgt'[w] = NoThread
  PROVE  HandAt(w)'
BY DEF HandAt

\* A running thread is current.
LEMMA HandRuns ==
  ASSUME NEW w \in Workers, NEW t, t # NoThread, pc'[w] \in BusyPcs \cup WakePcs,
         cur'[w] = t, tgt'[w] = NoThread, state'[t] = "RUNNING", home_wid'[t] = w
  PROVE  HandAt(w)'
BY DEF HandAt, BusyPcs, OffPcs, WakePcs

\* A thread switched out is the one its worker has yet to settle.
LEMMA HandOff ==
  ASSUME NEW w \in Workers, NEW t, t # NoThread, pc'[w] \in OffPcs,
         cur'[w] = NoThread, tgt'[w] = t, state'[t] = "RUNNING", home_wid'[t] = w
  PROVE  HandAt(w)'
BY DEF HandAt, BusyPcs, OffPcs, WakePcs

-----------------------------------------------------------------------------
(* What keeps a thread on one queue.                                       *)

\* It is put on a worker's queue, and is on no other.
LEMMA PutKeeps ==
  ASSUME TypeInv, QueueInv, NEW w \in Workers, NEW t \in Threads, Put(w, t),
         \A v \in Workers : t \notin Range(lrq[v]),
         t \notin Range(grq'), IsInjective(grq'), Range(grq') \subseteq Range(grq),
         state'[t] = "RUNNABLE", home_wid'[t] \in {-1, w},
         \A u \in Threads : u # t => state'[u] = state[u] /\ home_wid'[u] = home_wid[u]
  PROVE  QueueInv'
<1>a. Range(grq) \subseteq Threads /\ \A v \in Workers : Range(lrq[v]) \subseteq Threads
  BY QueueFacts DEF Queued
<1>1. /\ \A v \in Workers : v # w => lrq'[v] = lrq[v]
      /\ Range(lrq'[w]) = Range(lrq[w]) \cup {t} /\ IsInjective(lrq'[w])
  BY DEF Put
<1>2. ASSUME NEW v \in Workers
      PROVE  IsInjective(lrq'[v]) /\ Range(grq') \cap Range(lrq'[v]) = {}
  <2>1. CASE v = w
    BY <2>1, <1>1 DEF QueueInv
  <2>2. CASE v # w
    BY <2>2, <1>1 DEF QueueInv
  <2> QED BY <2>1, <2>2
<1>3. ASSUME NEW v \in Workers, NEW x \in Workers, v # x
      PROVE  Range(lrq'[v]) \cap Range(lrq'[x]) = {}
  <2>1. Range(lrq[v]) \cap Range(lrq[x]) = {}
    BY <1>3 DEF QueueInv
  <2>2. CASE v = w
    BY <2>1, <2>2, <1>1, <1>3
  <2>3. CASE x = w
    BY <2>1, <2>3, <1>1, <1>3
  <2>4. CASE v # w /\ x # w
    BY <2>1, <2>4, <1>1
  <2> QED BY <2>2, <2>3, <2>4
<1>4. ASSUME NEW u \in Threads, u # t
      PROVE  /\ Queued(u)' => Queued(u)
             /\ u \in Range(grq') => u \in Range(grq)
             /\ \A v \in Workers : u \in Range(lrq'[v]) => u \in Range(lrq[v])
  BY <1>1, <1>4 DEF Queued
<1>5. ASSUME NEW u \in Threads
      PROVE  /\ Queued(u)' => state'[u] = "RUNNABLE"
             /\ u \in Range(grq') => Unstarted(u)'
             /\ \A v \in Workers : u \in Range(lrq'[v]) => home_wid'[u] \in {-1, v}
  <2>1. CASE u = t
    BY <2>1, <1>1
  <2>2. CASE u # t
    BY <2>2, <1>4 DEF QueueInv, Unstarted
  <2> QED BY <2>1, <2>2
<1> QED BY <1>2, <1>3, <1>5 DEF QueueInv

\* It is put on the shared queue.
LEMMA ShareKeeps ==
  ASSUME TypeInv, QueueInv, NEW t \in Threads, ~ Queued(t), IsInjective(grq'),
         Range(grq') = Range(grq) \cup {t}, state'[t] = "RUNNABLE", Unstarted(t),
         \A u \in Threads : u # t => state'[u] = state[u], UNCHANGED <<home_wid, lrq>>
  PROVE  QueueInv'
<1>1. ASSUME NEW v \in Workers PROVE Range(grq') \cap Range(lrq'[v]) = {}
  BY <1>1 DEF QueueInv, Queued
<1>2. ASSUME NEW u \in Threads
      PROVE  /\ Queued(u)' => state'[u] = "RUNNABLE"
             /\ u \in Range(grq') => Unstarted(u)'
  <2>1. CASE u = t
    BY <2>1 DEF Unstarted
  <2>2. CASE u # t
    BY <2>2 DEF QueueInv, Queued, Unstarted
  <2> QED BY <2>1, <2>2
<1> QED BY <1>1, <1>2 DEF QueueInv

\* It is taken off one, and nothing becomes runnable or runs.
LEMMA OffKeeps ==
  ASSUME TypeInv, QueueInv, UNCHANGED <<state, home_wid>>, IsInjective(grq'),
         Range(grq') \subseteq Range(grq),
         \A v \in Workers : IsInjective(lrq'[v]) /\ Range(lrq'[v]) \subseteq Range(lrq[v])
  PROVE  QueueInv'
<1>1. ASSUME NEW v \in Workers
      PROVE  /\ Range(grq') \cap Range(lrq'[v]) = {}
             /\ \A x \in Workers : x # v => Range(lrq'[x]) \cap Range(lrq'[v]) = {}
  BY DEF QueueInv
<1>2. ASSUME NEW u \in Threads
      PROVE  /\ Queued(u)' => state'[u] = "RUNNABLE"
             /\ u \in Range(grq') => Unstarted(u)'
             /\ \A v \in Workers : u \in Range(lrq'[v]) => home_wid'[u] \in {-1, v}
  BY DEF QueueInv, Queued, Unstarted
<1> QED BY <1>1, <1>2 DEF QueueInv

\* Taking a thread off a queue keeps the queues right.
LEMMA TookKeeps ==
  ASSUME TypeInv, QueueInv, NEW w \in Workers, NEW t \in Threads, Took(w, t),
         UNCHANGED <<state, home_wid, grq>>
  PROVE  QueueInv'
<1>1. ASSUME NEW v \in Workers
      PROVE  IsInjective(lrq'[v]) /\ Range(lrq'[v]) \subseteq Range(lrq[v])
  BY DEF Took, QueueInv
<1>2. IsInjective(grq')
  BY DEF QueueInv
<1> QED BY <1>1, <1>2, OffKeeps

\* What is on a queue after a step.
LEMMA TookQueued ==
  ASSUME TypeInv, QueueInv, NEW w \in Workers, NEW t \in Threads, Took(w, t), grq' = grq
  PROVE  Queued(t) /\ ~ Queued(t)' /\ \A u : u # t => (Queued(u)' <=> Queued(u))
<1>1. /\ \A v \in Workers : v # w => lrq'[v] = lrq[v]
      /\ t \in Range(lrq[w]) /\ Range(lrq'[w]) = Range(lrq[w]) \ {t}
  BY DEF Took
<1>2. t \notin Range(grq) /\ \A v \in Workers : v # w => t \notin Range(lrq[v])
  BY <1>1 DEF QueueInv
<1> QED BY <1>1, <1>2 DEF Queued

\* Put on a queue, t is queued; so it is on the shared one.
LEMMA PutQueued ==
  ASSUME NEW w \in Workers, NEW t \in Threads, Put(w, t), grq' = grq
  PROVE  \A u : Queued(u)' <=> Queued(u) \/ u = t
BY DEF Put, Queued

\* Off the shared queue it is queued no more, unless it is placed.
LEMMA ShareOffQueued ==
  ASSUME TypeInv, QueueInv, NEW t \in Threads, ShareOff(t), lrq' = lrq
  PROVE  Queued(t) /\ ~ Queued(t)' /\ \A u : u # t => (Queued(u)' <=> Queued(u))
<1>1. \A v \in Workers : t \notin Range(lrq[v])
  BY DEF QueueInv, ShareOff
<1> QED BY <1>1 DEF ShareOff, Queued

\* A thread that is placed stays queued.
LEMMA PlacedQueued ==
  ASSUME NEW b \in Workers, NEW t \in Threads, ShareOff(t), Put(b, t)
  PROVE  Queued(t) /\ \A u : Queued(u)' <=> Queued(u)
BY DEF ShareOff, Put, Queued

\* A thread appended to the shared queue is queued.
LEMMA SharedQueued ==
  ASSUME NEW t \in Threads, Range(grq') = Range(grq) \cup {t}, lrq' = lrq
  PROVE  \A u : Queued(u)' <=> Queued(u) \/ u = t
BY DEF Queued

\* A queued thread is runnable, and at home unless it has none.
LEMMA QueuedHome ==
  ASSUME TypeInv, QueueInv, NEW t \in Threads, Queued(t)
  PROVE  /\ state[t] = "RUNNABLE" /\ (Unstarted(t) <=> home_wid[t] = -1)
         /\ t \in Range(grq) => home_wid[t] = -1
         /\ \A w \in Workers : t \in Range(lrq[w]) => home_wid[t] \in {-1, w}
<1>1. home_wid[t] \in Workers \cup {-1} /\ \A w \in Workers : w \in Int /\ w >= 0
  BY ConstAssumption DEF TypeInv, ThreadType, Workers
<1> QED BY <1>1 DEF QueueInv, Unstarted

-----------------------------------------------------------------------------
(* Every step keeps the types.                                             *)

\* Every step keeps the threads' types.
LEMMA ThreadTypeStep ==
  ASSUME TypeInv, QueueInv, HandInv, StateInv, ScanInv, Next \/ UNCHANGED vars
  PROVE  ThreadType'
<1>w. /\ g_worker_cap \in Nat \ {0} /\ NoThread \notin Threads /\ 0 \in Workers
      /\ \A w \in Helpers : w \in Workers /\ w > 0
      /\ \A w \in Workers : w \in Int /\ w >= 0 /\ w <= g_worker_cap
  BY ConstAssumption DEF Helpers, Workers
<1>t. ThreadType
  BY DEF TypeInv
<1> USE DEF ThreadType, At, Goto, Set, ToRun, threadVars, queueVars, poolVars, idleVars,
            runVars, askVars
<1>1. ASSUME NEW w \in Helpers,
              \/ HelperStarts(w) \/ LoopHead(w) \/ PickSteal(w) \/ StealNext(w)
              \/ StealNone(w) \/ IdleLocked(w)
      PROVE  ThreadType'
  BY <1>1, <1>w, <1>t DEF HelperStarts, LoopHead, PickSteal, StealNext, StealNone,
     IdleLocked
<1>2. ASSUME NEW w \in Helpers,
              \/ LockedBack(w) \/ RoundEnds(w) \/ Relock(w) \/ IdleParks(w)
              \/ IdleResets(w) \/ IdleLooks(w)
      PROVE  ThreadType'
  BY <1>2, <1>w, <1>t DEF LockedBack, RoundEnds, Relock, IdleParks, IdleResets, IdleLooks
<1>3. ASSUME NEW w \in Helpers,
              \/ IdleSleeps(w) \/ IdleUp(w) \/ WokenLocked(w) \/ IdleWakes(w)
              \/ LocalTurn(w)
      PROVE  ThreadType'
  BY <1>3, <1>w, <1>t DEF IdleSleeps, IdleUp, WokenLocked, IdleWakes, LocalTurn
<1>4. ASSUME NEW w \in Workers,
              \/ SwitchOut(w) \/ EnterNative(w) \/ LeaveNative(w) \/ ScanParked(w)
              \/ ScanIdle(w) \/ sched_kick_worker(w)
      PROVE  ThreadType'
  BY <1>4, <1>w, <1>t DEF SwitchOut, EnterNative, LeaveNative, ScanParked, ScanIdle,
     WakeDone, sched_kick_worker
<1>5. ASSUME NEW w \in Workers,
              \/ ClearCur(w) \/ MonitorReads(w)
      PROVE  ThreadType'
  BY <1>5, <1>w, <1>t DEF ClearCur, MonitorReads
<1>6. ASSUME NEW w \in Helpers, PickPlace(w) PROVE ThreadType'
  <2>1. PICK t \in Threads :
        /\ w \in Workers /\ At(w, "pick") /\ ShareOff(t)
        /\ UNCHANGED <<state, idleVars, sched, locked_turn, askVars, cur,
                       lrq_unstarted, active>>
        /\ \/ (\E b \in Helpers : Placed(w, b, t)) /\ UNCHANGED runVars
           \/ /\ Grown(w, "begin") /\ ToRun(w, t, "locked")
              /\ UNCHANGED <<home_wid, lrq, pinned, vi>>
    BY <1>6, PickPlaceCases DEF ShareOff
  <2>2. ASSUME NEW b \in Helpers, Placed(w, b, t), UNCHANGED runVars PROVE ThreadType'
    BY <1>w, <2>1, <2>2, <1>t DEF ShareOff, Placed, Put, Grown, GotoGrown
  <2>3. CASE /\ Grown(w, "begin") /\ ToRun(w, t, "locked")
             /\ UNCHANGED <<home_wid, lrq, pinned, vi>>
    BY <1>w, <2>1, <2>3, <1>t DEF ShareOff, Grown, GotoGrown
  <2> QED BY <2>1, <2>2, <2>3
<1>7. ASSUME NEW w \in Helpers, PickOwn(w) PROVE ThreadType'
  <2>1. PICK t \in Threads : t = Head(lrq[w]) /\ Took(w, t) /\ runq_take(w, t)
    BY <1>7, <1>w, TakeHead DEF PickOwn
  <2>2. CountType /\ w \in Workers
    BY <1>w DEF TypeInv
  <2>3. /\ grq' = grq /\ lrq_unstarted' \in Int
        /\ Unstarted(t) => lrq_unstarted' = lrq_unstarted - 1
        /\ ~ Unstarted(t) => lrq_unstarted' = lrq_unstarted
    BY <2>1, <2>2, TakeCounts
  <2> QED BY <1>7, <1>w, <2>1, <2>3, <1>t DEF PickOwn, Took
<1>8. ASSUME NEW w \in Helpers, sched_steal(w) PROVE ThreadType'
  <2>1. PICK t \in Threads : /\ Unstarted(t) /\ Took(vi[w], t) /\ runq_take(vi[w], t)
                             /\ Stolen(w, t)
    BY <1>8, StealCases
  <2>2. w \in Workers /\ At(w, "steal") /\ vi[w] <= spawned /\ vi[w] # w
          /\ vi[w] \in Workers
    BY <1>8, StealCases
  <2>3. CountType
    BY DEF TypeInv
  <2>4. /\ grq' = grq /\ lrq_unstarted' \in Int /\ lrq_unstarted' = lrq_unstarted - 1
    BY <2>1, <2>2, <2>3, TakeCounts
  <2> QED BY <1>w, <2>1, <2>2, <2>4, <1>t DEF Took, Stolen
<1>9. ASSUME NEW w \in Helpers, RunLocal(w) PROVE ThreadType'
  <2>1. PICK t \in Threads : t = Head(lrq[w]) /\ Took(w, t) /\ runq_take(w, t)
    BY <1>9, <1>w, TakeHead DEF RunLocal
  <2>2. CountType /\ w \in Workers
    BY <1>w DEF TypeInv
  <2>3. /\ grq' = grq /\ lrq_unstarted' \in Int
        /\ Unstarted(t) => lrq_unstarted' = lrq_unstarted - 1
        /\ ~ Unstarted(t) => lrq_unstarted' = lrq_unstarted
    BY <2>1, <2>2, TakeCounts
  <2> QED BY <1>9, <1>w, <2>1, <2>3, <1>t DEF RunLocal, Took
<1>10. ASSUME NEW w \in Workers, sp_safepoint_preempt(w) PROVE ThreadType'
  <2>1. cur[w] \in Threads /\ cur[w] # NoThread
    BY <1>10 DEF sp_safepoint_preempt, At, HandInv, HandAt, TypeInv, RunType, BusyPcs
  <2> QED BY <1>10, <1>w, <2>1, <1>t DEF sp_safepoint_preempt, Consume
<1>11. ASSUME NEW w \in Workers, SpawnLocal(w) PROVE ThreadType'
  <2>1. PICK u \in Threads : /\ state[u] = "NEW" /\ ~ Queued(u) /\ Unstarted(u)
                             /\ state' = Set(state, u, "RUNNABLE") /\ Put(w, u)
    BY <1>11, SpawnLocalCases
  <2>2. /\ At(w, "run") /\ sched = Free /\ sched' = w
        /\ Goto(w, "scan") /\ vi' = Set(vi, w, 1)
        /\ UNCHANGED <<home_wid, poolVars, idleVars, runVars, locked_turn, askVars>>
    BY <1>11 DEF SpawnLocal
  <2>3. grq' = grq /\ lrq_unstarted' = lrq_unstarted + 1
    BY <1>11, SpawnLocalCases
  <2> QED BY <1>w, <2>1, <2>2, <2>3, <1>t DEF Put
<1>12. ASSUME NEW w \in Workers, Begin(w) PROVE ThreadType'
  <2>1. /\ tgt[w] \in Threads /\ tgt[w] # NoThread /\ cur[w] = NoThread
        /\ state[tgt[w]] = "RUNNABLE" /\ ~ Queued(tgt[w])
        /\ home_wid[tgt[w]] \in {-1, w}
    BY <1>12 DEF Begin, At, HandInv, HandAt, TypeInv, RunType
  <2> QED BY <1>12, <1>w, <2>1, <1>t DEF Begin
<1>13. ASSUME NEW w \in Workers, Retire(w) PROVE ThreadType'
  <2>1. tgt[w] \in Threads /\ tgt[w] # NoThread /\ cur[w] = NoThread
    BY <1>13, OffFacts DEF Retire
  <2> QED BY <1>13, <1>w, <2>1, <1>t DEF Retire, Consume, Off
<1>14. ASSUME NEW w \in Workers, RunParked(w) PROVE ThreadType'
  <2>1. Off(w)
    BY <1>14 DEF RunParked, RunEnds
  <2>2. /\ tgt[w] \in Threads /\ tgt[w] # NoThread /\ cur[w] = NoThread
        /\ state[tgt[w]] = "RUNNING" /\ home_wid[tgt[w]] = w /\ ~ Queued(tgt[w])
    BY <2>1, OffFacts
  <2> QED BY <1>14, <1>w, <2>2, <1>t DEF RunParked, RunEnds, Off
<1>15. ASSUME NEW w \in Workers, RunDied(w) PROVE ThreadType'
  <2>1. Off(w)
    BY <1>15 DEF RunDied, RunEnds
  <2>2. /\ tgt[w] \in Threads /\ tgt[w] # NoThread /\ cur[w] = NoThread
        /\ state[tgt[w]] = "RUNNING" /\ home_wid[tgt[w]] = w /\ ~ Queued(tgt[w])
    BY <2>1, OffFacts
  <2> QED BY <1>15, <1>w, <2>2, <1>t DEF RunDied, RunEnds, Off
<1>16. ASSUME NEW w \in Workers, RunPassed(w) PROVE ThreadType'
  <2>1. /\ Put(w, tgt[w]) /\ grq' = grq /\ lrq_unstarted' = lrq_unstarted
        /\ Off(w) /\ pc[w] = "passed"
    BY <1>16, PassedPuts
  <2>2. /\ tgt[w] \in Threads /\ tgt[w] # NoThread /\ cur[w] = NoThread
        /\ state[tgt[w]] = "RUNNING" /\ home_wid[tgt[w]] = w /\ ~ Queued(tgt[w])
    BY <2>1, OffFacts
  <2>3. /\ RunEnds(w) /\ state' = Set(state, tgt[w], "RUNNABLE") /\ UNCHANGED pinned
    BY <1>16 DEF RunPassed
  <2> QED BY <1>w, <2>1, <2>2, <2>3, <1>t DEF Put, RunEnds, Off
<1>17. ASSUME NEW t \in Threads, sched_push_wake(t) PROVE ThreadType'
  <2>1. /\ home_wid[t] \in Workers /\ Put(home_wid[t], t) /\ grq' = grq
        /\ ~ Queued(t) /\ lrq_unstarted' = lrq_unstarted
    BY <1>17, WakePuts
  <2>2. /\ state[t] = "BLOCKED" /\ state' = Set(state, t, "RUNNABLE")
        /\ home_wid[t] = 0 => sched = Free
        /\ signalled' = [signalled EXCEPT ![home_wid[t]] = @ \/ idle[home_wid[t]]]
        /\ UNCHANGED <<home_wid, poolVars, parked, wake_sent, idle, runVars, sched,
                       locked_turn, pc, vi, askVars>>
    BY <1>17 DEF sched_push_wake
  <2> QED BY <1>w, <2>1, <2>2, <1>t DEF Put
<1>18. ASSUME MainSpawn PROVE ThreadType'
  <2>1. PICK u \in Threads :
              /\ state[u] = "NEW" /\ ~ Queued(u) /\ state' = Set(state, u, "RUNNABLE")
              /\ \/ (\E b \in Helpers : Placed(0, b, u)) /\ UNCHANGED grq
                 \/ /\ grq' \in Seq(Threads) /\ IsInjective(grq')
                    /\ Range(grq') = Range(grq) \cup {u}
                    /\ Grown(0, "scan") /\ vi' = Set(vi, 0, 1)
                    /\ UNCHANGED <<home_wid, lrq, pinned>>
    BY <1>18, MainSpawnCases
  <2>2. /\ At(0, "code") /\ sched = Free /\ sched' = 0
        /\ UNCHANGED <<idleVars, runVars, locked_turn, askVars, lrq_unstarted, active>>
    BY <1>18, MainSpawnCases
  <2>3. ASSUME NEW b \in Helpers, Placed(0, b, u), UNCHANGED grq PROVE ThreadType'
    BY <1>w, <2>1, <2>2, <2>3, <1>t DEF Placed, Put, Grown, GotoGrown
  <2>4. CASE /\ grq' \in Seq(Threads) /\ IsInjective(grq')
             /\ Range(grq') = Range(grq) \cup {u}
             /\ Grown(0, "scan") /\ vi' = Set(vi, 0, 1)
             /\ UNCHANGED <<home_wid, lrq, pinned>>
    BY <1>w, <2>1, <2>2, <2>4, <1>t DEF Grown, GotoGrown
  <2> QED BY <2>1, <2>3, <2>4
<1>19. ASSUME PumpRun PROVE ThreadType'
  <2>1. /\ At(0, "code") /\ sched = Free /\ sched' = 0 /\ Goto(0, "begin")
        /\ UNCHANGED <<threadVars, poolVars, idleVars, locked_turn, vi, askVars>>
    BY <1>19, PumpRunCases
  <2>2. PICK t \in Threads :
              /\ ToRun(0, t, "locked")
              /\ \/ ShareOff(t) /\ UNCHANGED <<lrq, lrq_unstarted>>
                 \/ Took(0, t) /\ runq_take(0, t)
    BY <1>19, PumpRunCases
  <2>3. CASE ShareOff(t) /\ UNCHANGED <<lrq, lrq_unstarted>>
    BY <1>w, <2>1, <2>2, <2>3, <1>t DEF ShareOff
  <2>4. CASE Took(0, t) /\ runq_take(0, t)
    <3>1. CountType
      BY DEF TypeInv
    <3>2. /\ grq' = grq /\ lrq_unstarted' \in Int
          /\ Unstarted(t) => lrq_unstarted' = lrq_unstarted - 1
          /\ ~ Unstarted(t) => lrq_unstarted' = lrq_unstarted
      BY <1>w, <2>4, <3>1, TakeCounts
    <3> QED BY <1>w, <2>1, <2>2, <2>4, <3>2, <1>t DEF Took
  <2> QED BY <2>2, <2>3, <2>4
<1>20. ASSUME PreemptAsks PROVE ThreadType'
  <2>1. asking \in Workers \X Threads /\ asking[1] \in Workers /\ asking[2] \in Threads
    BY <1>20 DEF PreemptAsks, TypeInv, LockType
  <2> QED BY <1>20, <1>w, <2>1, <1>t DEF PreemptAsks
<1>21. ASSUME PreemptLooks PROVE ThreadType'
  <2>1. asking \in Workers \X Threads /\ asking[1] \in Workers /\ asking[2] \in Threads
    BY <1>21 DEF PreemptLooks, TypeInv, LockType
  <2> QED BY <1>21, <1>w, <2>1, <1>t DEF PreemptLooks
<1>u. CASE UNCHANGED vars
  BY <1>u, <1>t DEF vars
<1> HIDE DEF ThreadType, At, Goto, Set, ToRun, threadVars, queueVars, poolVars,
             idleVars, runVars, askVars
<1> QED BY <1>u, <1>1, <1>2, <1>3, <1>4, <1>5, <1>6, <1>7, <1>8, <1>9, <1>10, <1>11,
           <1>12, <1>13, <1>14, <1>15, <1>16, <1>17, <1>18, <1>19, <1>20, <1>21
     DEF Next, LockedStep, UnlockedStep, CvWakes, ThreadStep, WakeStep, RunStep

\* Every step keeps the counts' types.
LEMMA CountTypeStep ==
  ASSUME TypeInv, QueueInv, HandInv, StateInv, ScanInv, Next \/ UNCHANGED vars
  PROVE  CountType'
<1>w. /\ g_worker_cap \in Nat \ {0} /\ NoThread \notin Threads /\ 0 \in Workers
      /\ \A w \in Helpers : w \in Workers /\ w > 0
      /\ \A w \in Workers : w \in Int /\ w >= 0 /\ w <= g_worker_cap
  BY ConstAssumption DEF Helpers, Workers
<1>t. CountType
  BY DEF TypeInv
<1> USE DEF CountType, At, Goto, Set, ToRun, threadVars, queueVars, poolVars, idleVars,
            runVars, askVars
<1>1. ASSUME NEW w \in Helpers,
              \/ HelperStarts(w) \/ LoopHead(w) \/ PickSteal(w) \/ StealNext(w)
              \/ StealNone(w) \/ IdleLocked(w)
      PROVE  CountType'
  BY <1>1, <1>w, <1>t DEF HelperStarts, LoopHead, PickSteal, StealNext, StealNone,
     IdleLocked
<1>2. ASSUME NEW w \in Helpers,
              \/ LockedBack(w) \/ RoundEnds(w) \/ Relock(w) \/ IdleParks(w)
              \/ IdleResets(w) \/ IdleLooks(w)
      PROVE  CountType'
  BY <1>2, <1>w, <1>t DEF LockedBack, RoundEnds, Relock, IdleParks, IdleResets, IdleLooks
<1>3. ASSUME NEW w \in Helpers,
              \/ IdleSleeps(w) \/ IdleUp(w) \/ WokenLocked(w) \/ IdleWakes(w)
              \/ LocalTurn(w)
      PROVE  CountType'
  BY <1>3, <1>w, <1>t DEF IdleSleeps, IdleUp, WokenLocked, IdleWakes, LocalTurn
<1>4. ASSUME NEW w \in Workers,
              \/ SwitchOut(w) \/ sp_safepoint_preempt(w) \/ EnterNative(w)
                \/ LeaveNative(w)
              \/ ScanParked(w) \/ ScanIdle(w)
      PROVE  CountType'
  BY <1>4, <1>w, <1>t DEF SwitchOut, sp_safepoint_preempt, Consume, EnterNative,
     LeaveNative, ScanParked, ScanIdle, WakeDone
<1>5. ASSUME NEW w \in Workers,
              \/ sched_kick_worker(w) \/ ClearCur(w) \/ Retire(w) \/ MonitorReads(w)
      PROVE  CountType'
  BY <1>5, <1>w, <1>t DEF sched_kick_worker, WakeDone, ClearCur, Retire, Consume, Off,
     MonitorReads
<1>6. ASSUME 
              \/ PreemptAsks \/ PreemptLooks
      PROVE  CountType'
  BY <1>6, <1>w, <1>t DEF PreemptAsks, PreemptLooks
<1>7. ASSUME NEW w \in Helpers, PickPlace(w) PROVE CountType'
  <2>1. PICK t \in Threads :
        /\ w \in Workers /\ At(w, "pick") /\ ShareOff(t)
        /\ UNCHANGED <<state, idleVars, sched, locked_turn, askVars, cur,
                       lrq_unstarted, active>>
        /\ \/ (\E b \in Helpers : Placed(w, b, t)) /\ UNCHANGED runVars
           \/ /\ Grown(w, "begin") /\ ToRun(w, t, "locked")
              /\ UNCHANGED <<home_wid, lrq, pinned, vi>>
    BY <1>7, PickPlaceCases DEF ShareOff
  <2>2. ASSUME NEW b \in Helpers, Placed(w, b, t), UNCHANGED runVars PROVE CountType'
    BY <1>w, <2>1, <2>2, <1>t DEF ShareOff, Placed, Put, Grown, GotoGrown
  <2>3. CASE /\ Grown(w, "begin") /\ ToRun(w, t, "locked")
             /\ UNCHANGED <<home_wid, lrq, pinned, vi>>
    BY <1>w, <2>1, <2>3, <1>t DEF ShareOff, Grown, GotoGrown
  <2> QED BY <2>1, <2>2, <2>3
<1>8. ASSUME NEW w \in Helpers, PickOwn(w) PROVE CountType'
  <2>1. PICK t \in Threads : t = Head(lrq[w]) /\ Took(w, t) /\ runq_take(w, t)
    BY <1>8, <1>w, TakeHead DEF PickOwn
  <2>2. CountType /\ w \in Workers
    BY <1>w DEF TypeInv
  <2>3. /\ grq' = grq /\ lrq_unstarted' \in Int
        /\ Unstarted(t) => lrq_unstarted' = lrq_unstarted - 1
        /\ ~ Unstarted(t) => lrq_unstarted' = lrq_unstarted
    BY <2>1, <2>2, TakeCounts
  <2> QED BY <1>8, <1>w, <2>1, <2>3, <1>t DEF PickOwn, Took
<1>9. ASSUME NEW w \in Helpers, sched_steal(w) PROVE CountType'
  <2>1. PICK t \in Threads : /\ Unstarted(t) /\ Took(vi[w], t) /\ runq_take(vi[w], t)
                             /\ Stolen(w, t)
    BY <1>9, StealCases
  <2>2. w \in Workers /\ At(w, "steal") /\ vi[w] <= spawned /\ vi[w] # w
          /\ vi[w] \in Workers
    BY <1>9, StealCases
  <2>3. CountType
    BY DEF TypeInv
  <2>4. /\ grq' = grq /\ lrq_unstarted' \in Int /\ lrq_unstarted' = lrq_unstarted - 1
    BY <2>1, <2>2, <2>3, TakeCounts
  <2> QED BY <1>w, <2>1, <2>2, <2>4, <1>t DEF Took, Stolen
<1>10. ASSUME NEW w \in Helpers, RunLocal(w) PROVE CountType'
  <2>1. PICK t \in Threads : t = Head(lrq[w]) /\ Took(w, t) /\ runq_take(w, t)
    BY <1>10, <1>w, TakeHead DEF RunLocal
  <2>2. CountType /\ w \in Workers
    BY <1>w DEF TypeInv
  <2>3. /\ grq' = grq /\ lrq_unstarted' \in Int
        /\ Unstarted(t) => lrq_unstarted' = lrq_unstarted - 1
        /\ ~ Unstarted(t) => lrq_unstarted' = lrq_unstarted
    BY <2>1, <2>2, TakeCounts
  <2> QED BY <1>10, <1>w, <2>1, <2>3, <1>t DEF RunLocal, Took
<1>11. ASSUME NEW w \in Workers, SpawnLocal(w) PROVE CountType'
  <2>1. PICK u \in Threads : /\ state[u] = "NEW" /\ ~ Queued(u) /\ Unstarted(u)
                             /\ state' = Set(state, u, "RUNNABLE") /\ Put(w, u)
    BY <1>11, SpawnLocalCases
  <2>2. /\ At(w, "run") /\ sched = Free /\ sched' = w
        /\ Goto(w, "scan") /\ vi' = Set(vi, w, 1)
        /\ UNCHANGED <<home_wid, poolVars, idleVars, runVars, locked_turn, askVars>>
    BY <1>11 DEF SpawnLocal
  <2>3. grq' = grq /\ lrq_unstarted' = lrq_unstarted + 1
    BY <1>11, SpawnLocalCases
  <2> QED BY <1>w, <2>1, <2>2, <2>3, <1>t DEF Put
<1>12. ASSUME NEW w \in Workers, Begin(w) PROVE CountType'
  <2>1. /\ tgt[w] \in Threads /\ tgt[w] # NoThread /\ cur[w] = NoThread
        /\ state[tgt[w]] = "RUNNABLE" /\ ~ Queued(tgt[w])
        /\ home_wid[tgt[w]] \in {-1, w}
    BY <1>12 DEF Begin, At, HandInv, HandAt, TypeInv, RunType
  <2> QED BY <1>12, <1>w, <2>1, <1>t DEF Begin
<1>13. ASSUME NEW w \in Workers, RunParked(w) PROVE CountType'
  <2>1. Off(w)
    BY <1>13 DEF RunParked, RunEnds
  <2>2. /\ tgt[w] \in Threads /\ tgt[w] # NoThread /\ cur[w] = NoThread
        /\ state[tgt[w]] = "RUNNING" /\ home_wid[tgt[w]] = w /\ ~ Queued(tgt[w])
    BY <2>1, OffFacts
  <2> QED BY <1>13, <1>w, <2>2, <1>t DEF RunParked, RunEnds, Off
<1>14. ASSUME NEW w \in Workers, RunDied(w) PROVE CountType'
  <2>1. Off(w)
    BY <1>14 DEF RunDied, RunEnds
  <2>2. /\ tgt[w] \in Threads /\ tgt[w] # NoThread /\ cur[w] = NoThread
        /\ state[tgt[w]] = "RUNNING" /\ home_wid[tgt[w]] = w /\ ~ Queued(tgt[w])
    BY <2>1, OffFacts
  <2> QED BY <1>14, <1>w, <2>2, <1>t DEF RunDied, RunEnds, Off
<1>15. ASSUME NEW w \in Workers, RunPassed(w) PROVE CountType'
  <2>1. /\ Put(w, tgt[w]) /\ grq' = grq /\ lrq_unstarted' = lrq_unstarted
        /\ Off(w) /\ pc[w] = "passed"
    BY <1>15, PassedPuts
  <2>2. /\ tgt[w] \in Threads /\ tgt[w] # NoThread /\ cur[w] = NoThread
        /\ state[tgt[w]] = "RUNNING" /\ home_wid[tgt[w]] = w /\ ~ Queued(tgt[w])
    BY <2>1, OffFacts
  <2>3. /\ RunEnds(w) /\ state' = Set(state, tgt[w], "RUNNABLE") /\ UNCHANGED pinned
    BY <1>15 DEF RunPassed
  <2> QED BY <1>w, <2>1, <2>2, <2>3, <1>t DEF Put, RunEnds, Off
<1>16. ASSUME NEW t \in Threads, sched_push_wake(t) PROVE CountType'
  <2>1. /\ home_wid[t] \in Workers /\ Put(home_wid[t], t) /\ grq' = grq
        /\ ~ Queued(t) /\ lrq_unstarted' = lrq_unstarted
    BY <1>16, WakePuts
  <2>2. /\ state[t] = "BLOCKED" /\ state' = Set(state, t, "RUNNABLE")
        /\ home_wid[t] = 0 => sched = Free
        /\ signalled' = [signalled EXCEPT ![home_wid[t]] = @ \/ idle[home_wid[t]]]
        /\ UNCHANGED <<home_wid, poolVars, parked, wake_sent, idle, runVars, sched,
                       locked_turn, pc, vi, askVars>>
    BY <1>16 DEF sched_push_wake
  <2> QED BY <1>w, <2>1, <2>2, <1>t DEF Put
<1>17. ASSUME MainSpawn PROVE CountType'
  <2>1. PICK u \in Threads :
              /\ state[u] = "NEW" /\ ~ Queued(u) /\ state' = Set(state, u, "RUNNABLE")
              /\ \/ (\E b \in Helpers : Placed(0, b, u)) /\ UNCHANGED grq
                 \/ /\ grq' \in Seq(Threads) /\ IsInjective(grq')
                    /\ Range(grq') = Range(grq) \cup {u}
                    /\ Grown(0, "scan") /\ vi' = Set(vi, 0, 1)
                    /\ UNCHANGED <<home_wid, lrq, pinned>>
    BY <1>17, MainSpawnCases
  <2>2. /\ At(0, "code") /\ sched = Free /\ sched' = 0
        /\ UNCHANGED <<idleVars, runVars, locked_turn, askVars, lrq_unstarted, active>>
    BY <1>17, MainSpawnCases
  <2>3. ASSUME NEW b \in Helpers, Placed(0, b, u), UNCHANGED grq PROVE CountType'
    BY <1>w, <2>1, <2>2, <2>3, <1>t DEF Placed, Put, Grown, GotoGrown
  <2>4. CASE /\ grq' \in Seq(Threads) /\ IsInjective(grq')
             /\ Range(grq') = Range(grq) \cup {u}
             /\ Grown(0, "scan") /\ vi' = Set(vi, 0, 1)
             /\ UNCHANGED <<home_wid, lrq, pinned>>
    BY <1>w, <2>1, <2>2, <2>4, <1>t DEF Grown, GotoGrown
  <2> QED BY <2>1, <2>3, <2>4
<1>18. ASSUME PumpRun PROVE CountType'
  <2>1. /\ At(0, "code") /\ sched = Free /\ sched' = 0 /\ Goto(0, "begin")
        /\ UNCHANGED <<threadVars, poolVars, idleVars, locked_turn, vi, askVars>>
    BY <1>18, PumpRunCases
  <2>2. PICK t \in Threads :
              /\ ToRun(0, t, "locked")
              /\ \/ ShareOff(t) /\ UNCHANGED <<lrq, lrq_unstarted>>
                 \/ Took(0, t) /\ runq_take(0, t)
    BY <1>18, PumpRunCases
  <2>3. CASE ShareOff(t) /\ UNCHANGED <<lrq, lrq_unstarted>>
    BY <1>w, <2>1, <2>2, <2>3, <1>t DEF ShareOff
  <2>4. CASE Took(0, t) /\ runq_take(0, t)
    <3>1. CountType
      BY DEF TypeInv
    <3>2. /\ grq' = grq /\ lrq_unstarted' \in Int
          /\ Unstarted(t) => lrq_unstarted' = lrq_unstarted - 1
          /\ ~ Unstarted(t) => lrq_unstarted' = lrq_unstarted
      BY <1>w, <2>4, <3>1, TakeCounts
    <3> QED BY <1>w, <2>1, <2>2, <2>4, <3>2, <1>t DEF Took
  <2> QED BY <2>2, <2>3, <2>4
<1>u. CASE UNCHANGED vars
  BY <1>u, <1>t DEF vars
<1> HIDE DEF CountType, At, Goto, Set, ToRun, threadVars, queueVars, poolVars, idleVars,
             runVars, askVars
<1> QED BY <1>u, <1>1, <1>2, <1>3, <1>4, <1>5, <1>6, <1>7, <1>8, <1>9, <1>10, <1>11,
           <1>12, <1>13, <1>14, <1>15, <1>16, <1>17, <1>18
     DEF Next, LockedStep, UnlockedStep, CvWakes, ThreadStep, WakeStep, RunStep

\* Every step keeps the queues' types.
LEMMA QueueTypeStep ==
  ASSUME TypeInv, QueueInv, HandInv, StateInv, ScanInv, Next \/ UNCHANGED vars
  PROVE  QueueType'
<1>w. /\ g_worker_cap \in Nat \ {0} /\ NoThread \notin Threads /\ 0 \in Workers
      /\ \A w \in Helpers : w \in Workers /\ w > 0
      /\ \A w \in Workers : w \in Int /\ w >= 0 /\ w <= g_worker_cap
  BY ConstAssumption DEF Helpers, Workers
<1>t. QueueType
  BY DEF TypeInv
<1> USE DEF QueueType, At, Goto, Set, ToRun, threadVars, queueVars, poolVars, idleVars,
            runVars, askVars
<1>1. ASSUME NEW w \in Helpers,
              \/ HelperStarts(w) \/ LoopHead(w) \/ PickSteal(w) \/ StealNext(w)
              \/ StealNone(w) \/ IdleLocked(w)
      PROVE  QueueType'
  BY <1>1, <1>w, <1>t DEF HelperStarts, LoopHead, PickSteal, StealNext, StealNone,
     IdleLocked
<1>2. ASSUME NEW w \in Helpers,
              \/ LockedBack(w) \/ RoundEnds(w) \/ Relock(w) \/ IdleParks(w)
              \/ IdleResets(w) \/ IdleLooks(w)
      PROVE  QueueType'
  BY <1>2, <1>w, <1>t DEF LockedBack, RoundEnds, Relock, IdleParks, IdleResets, IdleLooks
<1>3. ASSUME NEW w \in Helpers,
              \/ IdleSleeps(w) \/ IdleUp(w) \/ WokenLocked(w) \/ IdleWakes(w)
              \/ LocalTurn(w)
      PROVE  QueueType'
  BY <1>3, <1>w, <1>t DEF IdleSleeps, IdleUp, WokenLocked, IdleWakes, LocalTurn
<1>4. ASSUME NEW w \in Workers,
              \/ SwitchOut(w) \/ sp_safepoint_preempt(w) \/ EnterNative(w)
                \/ LeaveNative(w)
              \/ ScanParked(w) \/ ScanIdle(w)
      PROVE  QueueType'
  BY <1>4, <1>w, <1>t DEF SwitchOut, sp_safepoint_preempt, Consume, EnterNative,
     LeaveNative, ScanParked, ScanIdle, WakeDone
<1>5. ASSUME NEW w \in Workers,
              \/ sched_kick_worker(w) \/ ClearCur(w) \/ Retire(w) \/ MonitorReads(w)
      PROVE  QueueType'
  BY <1>5, <1>w, <1>t DEF sched_kick_worker, WakeDone, ClearCur, Retire, Consume, Off,
     MonitorReads
<1>6. ASSUME 
              \/ PreemptAsks \/ PreemptLooks
      PROVE  QueueType'
  BY <1>6, <1>w, <1>t DEF PreemptAsks, PreemptLooks
<1>7. ASSUME NEW w \in Helpers, PickPlace(w) PROVE QueueType'
  <2>1. PICK t \in Threads :
        /\ w \in Workers /\ At(w, "pick") /\ ShareOff(t)
        /\ UNCHANGED <<state, idleVars, sched, locked_turn, askVars, cur,
                       lrq_unstarted, active>>
        /\ \/ (\E b \in Helpers : Placed(w, b, t)) /\ UNCHANGED runVars
           \/ /\ Grown(w, "begin") /\ ToRun(w, t, "locked")
              /\ UNCHANGED <<home_wid, lrq, pinned, vi>>
    BY <1>7, PickPlaceCases DEF ShareOff
  <2>2. ASSUME NEW b \in Helpers, Placed(w, b, t), UNCHANGED runVars PROVE QueueType'
    BY <1>w, <2>1, <2>2, <1>t DEF ShareOff, Placed, Put, Grown, GotoGrown
  <2>3. CASE /\ Grown(w, "begin") /\ ToRun(w, t, "locked")
             /\ UNCHANGED <<home_wid, lrq, pinned, vi>>
    BY <1>w, <2>1, <2>3, <1>t DEF ShareOff, Grown, GotoGrown
  <2> QED BY <2>1, <2>2, <2>3
<1>8. ASSUME NEW w \in Helpers, PickOwn(w) PROVE QueueType'
  <2>1. PICK t \in Threads : t = Head(lrq[w]) /\ Took(w, t) /\ runq_take(w, t)
    BY <1>8, <1>w, TakeHead DEF PickOwn
  <2>2. CountType /\ w \in Workers
    BY <1>w DEF TypeInv
  <2>3. /\ grq' = grq /\ lrq_unstarted' \in Int
        /\ Unstarted(t) => lrq_unstarted' = lrq_unstarted - 1
        /\ ~ Unstarted(t) => lrq_unstarted' = lrq_unstarted
    BY <2>1, <2>2, TakeCounts
  <2> QED BY <1>8, <1>w, <2>1, <2>3, <1>t DEF PickOwn, Took
<1>9. ASSUME NEW w \in Helpers, sched_steal(w) PROVE QueueType'
  <2>1. PICK t \in Threads : /\ Unstarted(t) /\ Took(vi[w], t) /\ runq_take(vi[w], t)
                             /\ Stolen(w, t)
    BY <1>9, StealCases
  <2>2. w \in Workers /\ At(w, "steal") /\ vi[w] <= spawned /\ vi[w] # w
          /\ vi[w] \in Workers
    BY <1>9, StealCases
  <2>3. CountType
    BY DEF TypeInv
  <2>4. /\ grq' = grq /\ lrq_unstarted' \in Int /\ lrq_unstarted' = lrq_unstarted - 1
    BY <2>1, <2>2, <2>3, TakeCounts
  <2> QED BY <1>w, <2>1, <2>2, <2>4, <1>t DEF Took, Stolen
<1>10. ASSUME NEW w \in Helpers, RunLocal(w) PROVE QueueType'
  <2>1. PICK t \in Threads : t = Head(lrq[w]) /\ Took(w, t) /\ runq_take(w, t)
    BY <1>10, <1>w, TakeHead DEF RunLocal
  <2>2. CountType /\ w \in Workers
    BY <1>w DEF TypeInv
  <2>3. /\ grq' = grq /\ lrq_unstarted' \in Int
        /\ Unstarted(t) => lrq_unstarted' = lrq_unstarted - 1
        /\ ~ Unstarted(t) => lrq_unstarted' = lrq_unstarted
    BY <2>1, <2>2, TakeCounts
  <2> QED BY <1>10, <1>w, <2>1, <2>3, <1>t DEF RunLocal, Took
<1>11. ASSUME NEW w \in Workers, SpawnLocal(w) PROVE QueueType'
  <2>1. PICK u \in Threads : /\ state[u] = "NEW" /\ ~ Queued(u) /\ Unstarted(u)
                             /\ state' = Set(state, u, "RUNNABLE") /\ Put(w, u)
    BY <1>11, SpawnLocalCases
  <2>2. /\ At(w, "run") /\ sched = Free /\ sched' = w
        /\ Goto(w, "scan") /\ vi' = Set(vi, w, 1)
        /\ UNCHANGED <<home_wid, poolVars, idleVars, runVars, locked_turn, askVars>>
    BY <1>11 DEF SpawnLocal
  <2>3. grq' = grq /\ lrq_unstarted' = lrq_unstarted + 1
    BY <1>11, SpawnLocalCases
  <2> QED BY <1>w, <2>1, <2>2, <2>3, <1>t DEF Put
<1>12. ASSUME NEW w \in Workers, Begin(w) PROVE QueueType'
  <2>1. /\ tgt[w] \in Threads /\ tgt[w] # NoThread /\ cur[w] = NoThread
        /\ state[tgt[w]] = "RUNNABLE" /\ ~ Queued(tgt[w])
        /\ home_wid[tgt[w]] \in {-1, w}
    BY <1>12 DEF Begin, At, HandInv, HandAt, TypeInv, RunType
  <2> QED BY <1>12, <1>w, <2>1, <1>t DEF Begin
<1>13. ASSUME NEW w \in Workers, RunParked(w) PROVE QueueType'
  <2>1. Off(w)
    BY <1>13 DEF RunParked, RunEnds
  <2>2. /\ tgt[w] \in Threads /\ tgt[w] # NoThread /\ cur[w] = NoThread
        /\ state[tgt[w]] = "RUNNING" /\ home_wid[tgt[w]] = w /\ ~ Queued(tgt[w])
    BY <2>1, OffFacts
  <2> QED BY <1>13, <1>w, <2>2, <1>t DEF RunParked, RunEnds, Off
<1>14. ASSUME NEW w \in Workers, RunDied(w) PROVE QueueType'
  <2>1. Off(w)
    BY <1>14 DEF RunDied, RunEnds
  <2>2. /\ tgt[w] \in Threads /\ tgt[w] # NoThread /\ cur[w] = NoThread
        /\ state[tgt[w]] = "RUNNING" /\ home_wid[tgt[w]] = w /\ ~ Queued(tgt[w])
    BY <2>1, OffFacts
  <2> QED BY <1>14, <1>w, <2>2, <1>t DEF RunDied, RunEnds, Off
<1>15. ASSUME NEW w \in Workers, RunPassed(w) PROVE QueueType'
  <2>1. /\ Put(w, tgt[w]) /\ grq' = grq /\ lrq_unstarted' = lrq_unstarted
        /\ Off(w) /\ pc[w] = "passed"
    BY <1>15, PassedPuts
  <2>2. /\ tgt[w] \in Threads /\ tgt[w] # NoThread /\ cur[w] = NoThread
        /\ state[tgt[w]] = "RUNNING" /\ home_wid[tgt[w]] = w /\ ~ Queued(tgt[w])
    BY <2>1, OffFacts
  <2>3. /\ RunEnds(w) /\ state' = Set(state, tgt[w], "RUNNABLE") /\ UNCHANGED pinned
    BY <1>15 DEF RunPassed
  <2> QED BY <1>w, <2>1, <2>2, <2>3, <1>t DEF Put, RunEnds, Off
<1>16. ASSUME NEW t \in Threads, sched_push_wake(t) PROVE QueueType'
  <2>1. /\ home_wid[t] \in Workers /\ Put(home_wid[t], t) /\ grq' = grq
        /\ ~ Queued(t) /\ lrq_unstarted' = lrq_unstarted
    BY <1>16, WakePuts
  <2>2. /\ state[t] = "BLOCKED" /\ state' = Set(state, t, "RUNNABLE")
        /\ home_wid[t] = 0 => sched = Free
        /\ signalled' = [signalled EXCEPT ![home_wid[t]] = @ \/ idle[home_wid[t]]]
        /\ UNCHANGED <<home_wid, poolVars, parked, wake_sent, idle, runVars, sched,
                       locked_turn, pc, vi, askVars>>
    BY <1>16 DEF sched_push_wake
  <2> QED BY <1>w, <2>1, <2>2, <1>t DEF Put
<1>17. ASSUME MainSpawn PROVE QueueType'
  <2>1. PICK u \in Threads :
              /\ state[u] = "NEW" /\ ~ Queued(u) /\ state' = Set(state, u, "RUNNABLE")
              /\ \/ (\E b \in Helpers : Placed(0, b, u)) /\ UNCHANGED grq
                 \/ /\ grq' \in Seq(Threads) /\ IsInjective(grq')
                    /\ Range(grq') = Range(grq) \cup {u}
                    /\ Grown(0, "scan") /\ vi' = Set(vi, 0, 1)
                    /\ UNCHANGED <<home_wid, lrq, pinned>>
    BY <1>17, MainSpawnCases
  <2>2. /\ At(0, "code") /\ sched = Free /\ sched' = 0
        /\ UNCHANGED <<idleVars, runVars, locked_turn, askVars, lrq_unstarted, active>>
    BY <1>17, MainSpawnCases
  <2>3. ASSUME NEW b \in Helpers, Placed(0, b, u), UNCHANGED grq PROVE QueueType'
    BY <1>w, <2>1, <2>2, <2>3, <1>t DEF Placed, Put, Grown, GotoGrown
  <2>4. CASE /\ grq' \in Seq(Threads) /\ IsInjective(grq')
             /\ Range(grq') = Range(grq) \cup {u}
             /\ Grown(0, "scan") /\ vi' = Set(vi, 0, 1)
             /\ UNCHANGED <<home_wid, lrq, pinned>>
    BY <1>w, <2>1, <2>2, <2>4, <1>t DEF Grown, GotoGrown
  <2> QED BY <2>1, <2>3, <2>4
<1>18. ASSUME PumpRun PROVE QueueType'
  <2>1. /\ At(0, "code") /\ sched = Free /\ sched' = 0 /\ Goto(0, "begin")
        /\ UNCHANGED <<threadVars, poolVars, idleVars, locked_turn, vi, askVars>>
    BY <1>18, PumpRunCases
  <2>2. PICK t \in Threads :
              /\ ToRun(0, t, "locked")
              /\ \/ ShareOff(t) /\ UNCHANGED <<lrq, lrq_unstarted>>
                 \/ Took(0, t) /\ runq_take(0, t)
    BY <1>18, PumpRunCases
  <2>3. CASE ShareOff(t) /\ UNCHANGED <<lrq, lrq_unstarted>>
    BY <1>w, <2>1, <2>2, <2>3, <1>t DEF ShareOff
  <2>4. CASE Took(0, t) /\ runq_take(0, t)
    <3>1. CountType
      BY DEF TypeInv
    <3>2. /\ grq' = grq /\ lrq_unstarted' \in Int
          /\ Unstarted(t) => lrq_unstarted' = lrq_unstarted - 1
          /\ ~ Unstarted(t) => lrq_unstarted' = lrq_unstarted
      BY <1>w, <2>4, <3>1, TakeCounts
    <3> QED BY <1>w, <2>1, <2>2, <2>4, <3>2, <1>t DEF Took
  <2> QED BY <2>2, <2>3, <2>4
<1>u. CASE UNCHANGED vars
  BY <1>u, <1>t DEF vars
<1> HIDE DEF QueueType, At, Goto, Set, ToRun, threadVars, queueVars, poolVars, idleVars,
             runVars, askVars
<1> QED BY <1>u, <1>1, <1>2, <1>3, <1>4, <1>5, <1>6, <1>7, <1>8, <1>9, <1>10, <1>11,
           <1>12, <1>13, <1>14, <1>15, <1>16, <1>17, <1>18
     DEF Next, LockedStep, UnlockedStep, CvWakes, ThreadStep, WakeStep, RunStep

\* Every step keeps the flags' types.
LEMMA FlagTypeStep ==
  ASSUME TypeInv, QueueInv, HandInv, StateInv, ScanInv, Next \/ UNCHANGED vars
  PROVE  FlagType'
<1>w. /\ g_worker_cap \in Nat \ {0} /\ NoThread \notin Threads /\ 0 \in Workers
      /\ \A w \in Helpers : w \in Workers /\ w > 0
      /\ \A w \in Workers : w \in Int /\ w >= 0 /\ w <= g_worker_cap
  BY ConstAssumption DEF Helpers, Workers
<1>t. FlagType
  BY DEF TypeInv
<1> USE DEF FlagType, At, Goto, Set, ToRun, threadVars, queueVars, poolVars, idleVars,
            runVars, askVars
<1>1. ASSUME NEW w \in Helpers,
              \/ HelperStarts(w) \/ LoopHead(w) \/ PickOwn(w) \/ PickSteal(w)
              \/ StealNext(w) \/ StealNone(w)
      PROVE  FlagType'
  BY <1>1, <1>w, <1>t DEF HelperStarts, LoopHead, PickOwn, PickSteal, StealNext, StealNone
<1>2. ASSUME NEW w \in Helpers,
              \/ IdleLocked(w) \/ LockedBack(w) \/ RunLocal(w) \/ RoundEnds(w)
              \/ Relock(w) \/ IdleParks(w)
      PROVE  FlagType'
  BY <1>2, <1>w, <1>t DEF IdleLocked, LockedBack, RunLocal, RoundEnds, Relock, IdleParks
<1>3. ASSUME NEW w \in Helpers,
              \/ IdleResets(w) \/ IdleLooks(w) \/ IdleSleeps(w) \/ IdleUp(w)
              \/ WokenLocked(w) \/ IdleWakes(w)
      PROVE  FlagType'
  BY <1>3, <1>w, <1>t DEF IdleResets, IdleLooks, IdleSleeps, IdleUp, WokenLocked,
     IdleWakes
<1>4. ASSUME NEW w \in Helpers, LocalTurn(w) PROVE FlagType'
  BY <1>4, <1>w, <1>t DEF LocalTurn
<1>5. ASSUME NEW w \in Workers,
              \/ SwitchOut(w) \/ sp_safepoint_preempt(w) \/ EnterNative(w)
                \/ LeaveNative(w)
              \/ ScanIdle(w) \/ Begin(w)
      PROVE  FlagType'
  BY <1>5, <1>w, <1>t DEF SwitchOut, sp_safepoint_preempt, Consume, EnterNative,
     LeaveNative, ScanIdle, WakeDone, Begin
<1>6. ASSUME NEW w \in Workers,
              \/ ClearCur(w) \/ Retire(w) \/ RunParked(w) \/ RunDied(w)
              \/ MonitorReads(w)
      PROVE  FlagType'
  BY <1>6, <1>w, <1>t DEF ClearCur, Retire, Consume, Off, RunParked, RunEnds, RunDied,
     MonitorReads
<1>7. ASSUME 
              \/ PreemptAsks \/ PreemptLooks
      PROVE  FlagType'
  BY <1>7, <1>w, <1>t DEF PreemptAsks, PreemptLooks
<1>8. ASSUME NEW w \in Helpers, PickPlace(w) PROVE FlagType'
  <2>1. PICK t \in Threads :
        /\ w \in Workers /\ At(w, "pick") /\ ShareOff(t)
        /\ UNCHANGED <<state, idleVars, sched, locked_turn, askVars, cur,
                       lrq_unstarted, active>>
        /\ \/ (\E b \in Helpers : Placed(w, b, t)) /\ UNCHANGED runVars
           \/ /\ Grown(w, "begin") /\ ToRun(w, t, "locked")
              /\ UNCHANGED <<home_wid, lrq, pinned, vi>>
    BY <1>8, PickPlaceCases DEF ShareOff
  <2>2. ASSUME NEW b \in Helpers, Placed(w, b, t), UNCHANGED runVars PROVE FlagType'
    BY <1>w, <2>1, <2>2, <1>t DEF ShareOff, Placed, Put, Grown, GotoGrown
  <2>3. CASE /\ Grown(w, "begin") /\ ToRun(w, t, "locked")
             /\ UNCHANGED <<home_wid, lrq, pinned, vi>>
    BY <1>w, <2>1, <2>3, <1>t DEF ShareOff, Grown, GotoGrown
  <2> QED BY <2>1, <2>2, <2>3
<1>9. ASSUME NEW w \in Helpers, sched_steal(w) PROVE FlagType'
  <2>1. PICK t \in Threads : /\ Unstarted(t) /\ Took(vi[w], t) /\ runq_take(vi[w], t)
                             /\ Stolen(w, t)
    BY <1>9, StealCases
  <2>2. w \in Workers /\ At(w, "steal") /\ vi[w] <= spawned /\ vi[w] # w
          /\ vi[w] \in Workers
    BY <1>9, StealCases
  <2>3. CountType
    BY DEF TypeInv
  <2>4. /\ grq' = grq /\ lrq_unstarted' \in Int /\ lrq_unstarted' = lrq_unstarted - 1
    BY <2>1, <2>2, <2>3, TakeCounts
  <2> QED BY <1>w, <2>1, <2>2, <2>4, <1>t DEF Took, Stolen
<1>10. ASSUME NEW w \in Workers, SpawnLocal(w) PROVE FlagType'
  <2>1. PICK u \in Threads : /\ state[u] = "NEW" /\ ~ Queued(u) /\ Unstarted(u)
                             /\ state' = Set(state, u, "RUNNABLE") /\ Put(w, u)
    BY <1>10, SpawnLocalCases
  <2>2. /\ At(w, "run") /\ sched = Free /\ sched' = w
        /\ Goto(w, "scan") /\ vi' = Set(vi, w, 1)
        /\ UNCHANGED <<home_wid, poolVars, idleVars, runVars, locked_turn, askVars>>
    BY <1>10 DEF SpawnLocal
  <2>3. grq' = grq /\ lrq_unstarted' = lrq_unstarted + 1
    BY <1>10, SpawnLocalCases
  <2> QED BY <1>w, <2>1, <2>2, <2>3, <1>t DEF Put
<1>11. ASSUME NEW w \in Workers, ScanParked(w) PROVE FlagType'
  <2>0. w \in Workers /\ spawned \in 0 .. g_worker_cap /\ vi[w] <= spawned
          /\ pc[w] \in {"scan", "steal"}
    BY <1>11, <1>w DEF ScanParked, At, TypeInv, CountType
  <2>1. /\ vi[w] \in 0 .. spawned /\ vi[w] + 1 \in 0 .. (g_worker_cap + 1)
        /\ vi[w] \in Workers
    <3>1. vi[w] \in Int /\ 0 <= vi[w]
      BY <2>0, <1>w DEF ScanInv
    <3> QED BY <2>0, <3>1, <1>w DEF Workers
  <2> QED BY <1>11, <1>w, <2>1, <1>t DEF ScanParked
<1>12. ASSUME NEW w \in Workers, sched_kick_worker(w) PROVE FlagType'
  <2>0. spawned \in 0 .. g_worker_cap /\ vi[w] \in 1 .. spawned
    BY <1>12 DEF sched_kick_worker, At, ScanInv, TypeInv, CountType
  <2>1. vi[w] \in Workers
    BY <1>w, <2>0 DEF Workers
  <2> QED BY <1>12, <1>w, <2>1, <1>t DEF sched_kick_worker, WakeDone
<1>13. ASSUME NEW w \in Workers, RunPassed(w) PROVE FlagType'
  <2>1. /\ Put(w, tgt[w]) /\ grq' = grq /\ lrq_unstarted' = lrq_unstarted
        /\ Off(w) /\ pc[w] = "passed"
    BY <1>13, PassedPuts
  <2>2. /\ tgt[w] \in Threads /\ tgt[w] # NoThread /\ cur[w] = NoThread
        /\ state[tgt[w]] = "RUNNING" /\ home_wid[tgt[w]] = w /\ ~ Queued(tgt[w])
    BY <2>1, OffFacts
  <2>3. /\ RunEnds(w) /\ state' = Set(state, tgt[w], "RUNNABLE") /\ UNCHANGED pinned
    BY <1>13 DEF RunPassed
  <2> QED BY <1>w, <2>1, <2>2, <2>3, <1>t DEF Put, RunEnds, Off
<1>14. ASSUME NEW t \in Threads, sched_push_wake(t) PROVE FlagType'
  <2>1. /\ home_wid[t] \in Workers /\ Put(home_wid[t], t) /\ grq' = grq
        /\ ~ Queued(t) /\ lrq_unstarted' = lrq_unstarted
    BY <1>14, WakePuts
  <2>2. /\ state[t] = "BLOCKED" /\ state' = Set(state, t, "RUNNABLE")
        /\ home_wid[t] = 0 => sched = Free
        /\ signalled' = [signalled EXCEPT ![home_wid[t]] = @ \/ idle[home_wid[t]]]
        /\ UNCHANGED <<home_wid, poolVars, parked, wake_sent, idle, runVars, sched,
                       locked_turn, pc, vi, askVars>>
    BY <1>14 DEF sched_push_wake
  <2> QED BY <1>w, <2>1, <2>2, <1>t DEF Put
<1>15. ASSUME MainSpawn PROVE FlagType'
  <2>1. PICK u \in Threads :
              /\ state[u] = "NEW" /\ ~ Queued(u) /\ state' = Set(state, u, "RUNNABLE")
              /\ \/ (\E b \in Helpers : Placed(0, b, u)) /\ UNCHANGED grq
                 \/ /\ grq' \in Seq(Threads) /\ IsInjective(grq')
                    /\ Range(grq') = Range(grq) \cup {u}
                    /\ Grown(0, "scan") /\ vi' = Set(vi, 0, 1)
                    /\ UNCHANGED <<home_wid, lrq, pinned>>
    BY <1>15, MainSpawnCases
  <2>2. /\ At(0, "code") /\ sched = Free /\ sched' = 0
        /\ UNCHANGED <<idleVars, runVars, locked_turn, askVars, lrq_unstarted, active>>
    BY <1>15, MainSpawnCases
  <2>3. ASSUME NEW b \in Helpers, Placed(0, b, u), UNCHANGED grq PROVE FlagType'
    BY <1>w, <2>1, <2>2, <2>3, <1>t DEF Placed, Put, Grown, GotoGrown
  <2>4. CASE /\ grq' \in Seq(Threads) /\ IsInjective(grq')
             /\ Range(grq') = Range(grq) \cup {u}
             /\ Grown(0, "scan") /\ vi' = Set(vi, 0, 1)
             /\ UNCHANGED <<home_wid, lrq, pinned>>
    BY <1>w, <2>1, <2>2, <2>4, <1>t DEF Grown, GotoGrown
  <2> QED BY <2>1, <2>3, <2>4
<1>16. ASSUME PumpRun PROVE FlagType'
  <2>1. /\ At(0, "code") /\ sched = Free /\ sched' = 0 /\ Goto(0, "begin")
        /\ UNCHANGED <<threadVars, poolVars, idleVars, locked_turn, vi, askVars>>
    BY <1>16, PumpRunCases
  <2>2. PICK t \in Threads :
              /\ ToRun(0, t, "locked")
              /\ \/ ShareOff(t) /\ UNCHANGED <<lrq, lrq_unstarted>>
                 \/ Took(0, t) /\ runq_take(0, t)
    BY <1>16, PumpRunCases
  <2>3. CASE ShareOff(t) /\ UNCHANGED <<lrq, lrq_unstarted>>
    BY <1>w, <2>1, <2>2, <2>3, <1>t DEF ShareOff
  <2>4. CASE Took(0, t) /\ runq_take(0, t)
    <3>1. CountType
      BY DEF TypeInv
    <3>2. /\ grq' = grq /\ lrq_unstarted' \in Int
          /\ Unstarted(t) => lrq_unstarted' = lrq_unstarted - 1
          /\ ~ Unstarted(t) => lrq_unstarted' = lrq_unstarted
      BY <1>w, <2>4, <3>1, TakeCounts
    <3> QED BY <1>w, <2>1, <2>2, <2>4, <3>2, <1>t DEF Took
  <2> QED BY <2>2, <2>3, <2>4
<1>u. CASE UNCHANGED vars
  BY <1>u, <1>t DEF vars
<1> HIDE DEF FlagType, At, Goto, Set, ToRun, threadVars, queueVars, poolVars, idleVars,
             runVars, askVars
<1> QED BY <1>u, <1>1, <1>2, <1>3, <1>4, <1>5, <1>6, <1>7, <1>8, <1>9, <1>10, <1>11,
           <1>12, <1>13, <1>14, <1>15, <1>16
     DEF Next, LockedStep, UnlockedStep, CvWakes, ThreadStep, WakeStep, RunStep

\* Every step keeps the types of the lock and of the request under way.
LEMMA LockTypeStep ==
  ASSUME TypeInv, QueueInv, HandInv, StateInv, ScanInv, Next \/ UNCHANGED vars
  PROVE  LockType'
<1>w. /\ g_worker_cap \in Nat \ {0} /\ NoThread \notin Threads /\ 0 \in Workers
      /\ \A w \in Helpers : w \in Workers /\ w > 0
      /\ \A w \in Workers : w \in Int /\ w >= 0 /\ w <= g_worker_cap
  BY ConstAssumption DEF Helpers, Workers
<1>t. LockType
  BY DEF TypeInv
<1> USE DEF LockType, At, Goto, Set, ToRun, threadVars, queueVars, poolVars, idleVars,
            runVars, askVars
<1>1. ASSUME NEW w \in Helpers,
              \/ HelperStarts(w) \/ LoopHead(w) \/ PickOwn(w) \/ PickSteal(w)
              \/ StealNext(w) \/ StealNone(w)
      PROVE  LockType'
  BY <1>1, <1>w, <1>t DEF HelperStarts, LoopHead, PickOwn, PickSteal, StealNext, StealNone
<1>2. ASSUME NEW w \in Helpers,
              \/ IdleLocked(w) \/ LockedBack(w) \/ RunLocal(w) \/ RoundEnds(w)
              \/ Relock(w) \/ IdleParks(w)
      PROVE  LockType'
  BY <1>2, <1>w, <1>t DEF IdleLocked, LockedBack, RunLocal, RoundEnds, Relock, IdleParks
<1>3. ASSUME NEW w \in Helpers,
              \/ IdleResets(w) \/ IdleLooks(w) \/ IdleSleeps(w) \/ IdleUp(w)
              \/ WokenLocked(w) \/ IdleWakes(w)
      PROVE  LockType'
  BY <1>3, <1>w, <1>t DEF IdleResets, IdleLooks, IdleSleeps, IdleUp, WokenLocked,
     IdleWakes
<1>4. ASSUME NEW w \in Helpers, LocalTurn(w) PROVE LockType'
  BY <1>4, <1>w, <1>t DEF LocalTurn
<1>5. ASSUME NEW w \in Workers,
              \/ SwitchOut(w) \/ sp_safepoint_preempt(w) \/ EnterNative(w)
                \/ LeaveNative(w)
              \/ ScanParked(w) \/ ScanIdle(w)
      PROVE  LockType'
  BY <1>5, <1>w, <1>t DEF SwitchOut, sp_safepoint_preempt, Consume, EnterNative,
     LeaveNative, ScanParked, ScanIdle, WakeDone
<1>6. ASSUME NEW w \in Workers,
              \/ sched_kick_worker(w) \/ Begin(w) \/ ClearCur(w) \/ Retire(w)
              \/ RunParked(w) \/ RunDied(w)
      PROVE  LockType'
  BY <1>6, <1>w, <1>t DEF sched_kick_worker, WakeDone, Begin, ClearCur, Retire, Consume,
     Off, RunParked, RunEnds, RunDied
<1>7. ASSUME 
              \/ PreemptAsks \/ PreemptLooks
      PROVE  LockType'
  BY <1>7, <1>w, <1>t DEF PreemptAsks, PreemptLooks
<1>8. ASSUME NEW w \in Helpers, PickPlace(w) PROVE LockType'
  <2>1. PICK t \in Threads :
        /\ w \in Workers /\ At(w, "pick") /\ ShareOff(t)
        /\ UNCHANGED <<state, idleVars, sched, locked_turn, askVars, cur,
                       lrq_unstarted, active>>
        /\ \/ (\E b \in Helpers : Placed(w, b, t)) /\ UNCHANGED runVars
           \/ /\ Grown(w, "begin") /\ ToRun(w, t, "locked")
              /\ UNCHANGED <<home_wid, lrq, pinned, vi>>
    BY <1>8, PickPlaceCases DEF ShareOff
  <2>2. ASSUME NEW b \in Helpers, Placed(w, b, t), UNCHANGED runVars PROVE LockType'
    BY <1>w, <2>1, <2>2, <1>t DEF ShareOff, Placed, Put, Grown, GotoGrown
  <2>3. CASE /\ Grown(w, "begin") /\ ToRun(w, t, "locked")
             /\ UNCHANGED <<home_wid, lrq, pinned, vi>>
    BY <1>w, <2>1, <2>3, <1>t DEF ShareOff, Grown, GotoGrown
  <2> QED BY <2>1, <2>2, <2>3
<1>9. ASSUME NEW w \in Helpers, sched_steal(w) PROVE LockType'
  <2>1. PICK t \in Threads : /\ Unstarted(t) /\ Took(vi[w], t) /\ runq_take(vi[w], t)
                             /\ Stolen(w, t)
    BY <1>9, StealCases
  <2>2. w \in Workers /\ At(w, "steal") /\ vi[w] <= spawned /\ vi[w] # w
          /\ vi[w] \in Workers
    BY <1>9, StealCases
  <2>3. CountType
    BY DEF TypeInv
  <2>4. /\ grq' = grq /\ lrq_unstarted' \in Int /\ lrq_unstarted' = lrq_unstarted - 1
    BY <2>1, <2>2, <2>3, TakeCounts
  <2> QED BY <1>w, <2>1, <2>2, <2>4, <1>t DEF Took, Stolen
<1>10. ASSUME NEW w \in Workers, SpawnLocal(w) PROVE LockType'
  <2>1. PICK u \in Threads : /\ state[u] = "NEW" /\ ~ Queued(u) /\ Unstarted(u)
                             /\ state' = Set(state, u, "RUNNABLE") /\ Put(w, u)
    BY <1>10, SpawnLocalCases
  <2>2. /\ At(w, "run") /\ sched = Free /\ sched' = w
        /\ Goto(w, "scan") /\ vi' = Set(vi, w, 1)
        /\ UNCHANGED <<home_wid, poolVars, idleVars, runVars, locked_turn, askVars>>
    BY <1>10 DEF SpawnLocal
  <2>3. grq' = grq /\ lrq_unstarted' = lrq_unstarted + 1
    BY <1>10, SpawnLocalCases
  <2> QED BY <1>w, <2>1, <2>2, <2>3, <1>t DEF Put
<1>11. ASSUME NEW w \in Workers, RunPassed(w) PROVE LockType'
  <2>1. /\ Put(w, tgt[w]) /\ grq' = grq /\ lrq_unstarted' = lrq_unstarted
        /\ Off(w) /\ pc[w] = "passed"
    BY <1>11, PassedPuts
  <2>2. /\ tgt[w] \in Threads /\ tgt[w] # NoThread /\ cur[w] = NoThread
        /\ state[tgt[w]] = "RUNNING" /\ home_wid[tgt[w]] = w /\ ~ Queued(tgt[w])
    BY <2>1, OffFacts
  <2>3. /\ RunEnds(w) /\ state' = Set(state, tgt[w], "RUNNABLE") /\ UNCHANGED pinned
    BY <1>11 DEF RunPassed
  <2> QED BY <1>w, <2>1, <2>2, <2>3, <1>t DEF Put, RunEnds, Off
<1>12. ASSUME NEW w \in Workers, MonitorReads(w) PROVE LockType'
  <2>1. cur[w] \in Threads
    BY <1>12 DEF MonitorReads, TypeInv, RunType
  <2> QED BY <1>12, <1>w, <1>t, <2>1 DEF MonitorReads
<1>13. ASSUME NEW t \in Threads, sched_push_wake(t) PROVE LockType'
  <2>1. /\ home_wid[t] \in Workers /\ Put(home_wid[t], t) /\ grq' = grq
        /\ ~ Queued(t) /\ lrq_unstarted' = lrq_unstarted
    BY <1>13, WakePuts
  <2>2. /\ state[t] = "BLOCKED" /\ state' = Set(state, t, "RUNNABLE")
        /\ home_wid[t] = 0 => sched = Free
        /\ signalled' = [signalled EXCEPT ![home_wid[t]] = @ \/ idle[home_wid[t]]]
        /\ UNCHANGED <<home_wid, poolVars, parked, wake_sent, idle, runVars, sched,
                       locked_turn, pc, vi, askVars>>
    BY <1>13 DEF sched_push_wake
  <2> QED BY <1>w, <2>1, <2>2, <1>t DEF Put
<1>14. ASSUME MainSpawn PROVE LockType'
  <2>1. PICK u \in Threads :
              /\ state[u] = "NEW" /\ ~ Queued(u) /\ state' = Set(state, u, "RUNNABLE")
              /\ \/ (\E b \in Helpers : Placed(0, b, u)) /\ UNCHANGED grq
                 \/ /\ grq' \in Seq(Threads) /\ IsInjective(grq')
                    /\ Range(grq') = Range(grq) \cup {u}
                    /\ Grown(0, "scan") /\ vi' = Set(vi, 0, 1)
                    /\ UNCHANGED <<home_wid, lrq, pinned>>
    BY <1>14, MainSpawnCases
  <2>2. /\ At(0, "code") /\ sched = Free /\ sched' = 0
        /\ UNCHANGED <<idleVars, runVars, locked_turn, askVars, lrq_unstarted, active>>
    BY <1>14, MainSpawnCases
  <2>3. ASSUME NEW b \in Helpers, Placed(0, b, u), UNCHANGED grq PROVE LockType'
    BY <1>w, <2>1, <2>2, <2>3, <1>t DEF Placed, Put, Grown, GotoGrown
  <2>4. CASE /\ grq' \in Seq(Threads) /\ IsInjective(grq')
             /\ Range(grq') = Range(grq) \cup {u}
             /\ Grown(0, "scan") /\ vi' = Set(vi, 0, 1)
             /\ UNCHANGED <<home_wid, lrq, pinned>>
    BY <1>w, <2>1, <2>2, <2>4, <1>t DEF Grown, GotoGrown
  <2> QED BY <2>1, <2>3, <2>4
<1>15. ASSUME PumpRun PROVE LockType'
  <2>1. /\ At(0, "code") /\ sched = Free /\ sched' = 0 /\ Goto(0, "begin")
        /\ UNCHANGED <<threadVars, poolVars, idleVars, locked_turn, vi, askVars>>
    BY <1>15, PumpRunCases
  <2>2. PICK t \in Threads :
              /\ ToRun(0, t, "locked")
              /\ \/ ShareOff(t) /\ UNCHANGED <<lrq, lrq_unstarted>>
                 \/ Took(0, t) /\ runq_take(0, t)
    BY <1>15, PumpRunCases
  <2>3. CASE ShareOff(t) /\ UNCHANGED <<lrq, lrq_unstarted>>
    BY <1>w, <2>1, <2>2, <2>3, <1>t DEF ShareOff
  <2>4. CASE Took(0, t) /\ runq_take(0, t)
    <3>1. CountType
      BY DEF TypeInv
    <3>2. /\ grq' = grq /\ lrq_unstarted' \in Int
          /\ Unstarted(t) => lrq_unstarted' = lrq_unstarted - 1
          /\ ~ Unstarted(t) => lrq_unstarted' = lrq_unstarted
      BY <1>w, <2>4, <3>1, TakeCounts
    <3> QED BY <1>w, <2>1, <2>2, <2>4, <3>2, <1>t DEF Took
  <2> QED BY <2>2, <2>3, <2>4
<1>u. CASE UNCHANGED vars
  BY <1>u, <1>t DEF vars
<1> HIDE DEF LockType, At, Goto, Set, ToRun, threadVars, queueVars, poolVars, idleVars,
             runVars, askVars
<1> QED BY <1>u, <1>1, <1>2, <1>3, <1>4, <1>5, <1>6, <1>7, <1>8, <1>9, <1>10, <1>11,
           <1>12, <1>13, <1>14, <1>15
     DEF Next, LockedStep, UnlockedStep, CvWakes, ThreadStep, WakeStep, RunStep

\* Every step keeps the types of what workers hold and look at.
LEMMA RunTypeStep ==
  ASSUME TypeInv, QueueInv, HandInv, StateInv, ScanInv, Next \/ UNCHANGED vars
  PROVE  RunType'
<1>w. /\ g_worker_cap \in Nat \ {0} /\ NoThread \notin Threads /\ 0 \in Workers
      /\ \A w \in Helpers : w \in Workers /\ w > 0
      /\ \A w \in Workers : w \in Int /\ w >= 0 /\ w <= g_worker_cap
  BY ConstAssumption DEF Helpers, Workers
<1>t. RunType
  BY DEF TypeInv
<1> USE DEF RunType, At, Goto, Set, ToRun, threadVars, queueVars, poolVars, idleVars,
            runVars, askVars
<1>1. ASSUME NEW w \in Helpers,
              \/ HelperStarts(w) \/ LoopHead(w) \/ PickSteal(w) \/ StealNone(w)
              \/ IdleLocked(w) \/ LockedBack(w)
      PROVE  RunType'
  BY <1>1, <1>w, <1>t DEF HelperStarts, LoopHead, PickSteal, StealNone, IdleLocked,
     LockedBack
<1>2. ASSUME NEW w \in Helpers,
              \/ RoundEnds(w) \/ Relock(w) \/ IdleParks(w) \/ IdleResets(w)
              \/ IdleLooks(w) \/ IdleSleeps(w)
      PROVE  RunType'
  BY <1>2, <1>w, <1>t DEF RoundEnds, Relock, IdleParks, IdleResets, IdleLooks, IdleSleeps
<1>3. ASSUME NEW w \in Helpers,
              \/ IdleUp(w) \/ WokenLocked(w) \/ IdleWakes(w) \/ LocalTurn(w)
      PROVE  RunType'
  BY <1>3, <1>w, <1>t DEF IdleUp, WokenLocked, IdleWakes, LocalTurn
<1>4. ASSUME NEW w \in Workers,
              \/ SwitchOut(w) \/ sp_safepoint_preempt(w) \/ EnterNative(w)
                \/ LeaveNative(w)
              \/ sched_kick_worker(w) \/ Retire(w)
      PROVE  RunType'
  BY <1>4, <1>w, <1>t DEF SwitchOut, sp_safepoint_preempt, Consume, EnterNative,
     LeaveNative, sched_kick_worker, WakeDone, Retire, Off
<1>5. ASSUME NEW w \in Workers, MonitorReads(w) PROVE RunType'
  BY <1>5, <1>w, <1>t DEF MonitorReads
<1>6. ASSUME 
              \/ PreemptAsks \/ PreemptLooks
      PROVE  RunType'
  BY <1>6, <1>w, <1>t DEF PreemptAsks, PreemptLooks
<1>7. ASSUME NEW w \in Helpers, PickPlace(w) PROVE RunType'
  <2>1. PICK t \in Threads :
        /\ w \in Workers /\ At(w, "pick") /\ ShareOff(t)
        /\ UNCHANGED <<state, idleVars, sched, locked_turn, askVars, cur,
                       lrq_unstarted, active>>
        /\ \/ (\E b \in Helpers : Placed(w, b, t)) /\ UNCHANGED runVars
           \/ /\ Grown(w, "begin") /\ ToRun(w, t, "locked")
              /\ UNCHANGED <<home_wid, lrq, pinned, vi>>
    BY <1>7, PickPlaceCases DEF ShareOff
  <2>2. ASSUME NEW b \in Helpers, Placed(w, b, t), UNCHANGED runVars PROVE RunType'
    BY <1>w, <2>1, <2>2, <1>t DEF ShareOff, Placed, Put, Grown, GotoGrown
  <2>3. CASE /\ Grown(w, "begin") /\ ToRun(w, t, "locked")
             /\ UNCHANGED <<home_wid, lrq, pinned, vi>>
    BY <1>w, <2>1, <2>3, <1>t DEF ShareOff, Grown, GotoGrown
  <2> QED BY <2>1, <2>2, <2>3
<1>8. ASSUME NEW w \in Helpers, PickOwn(w) PROVE RunType'
  <2>1. PICK t \in Threads : t = Head(lrq[w]) /\ Took(w, t) /\ runq_take(w, t)
    BY <1>8, <1>w, TakeHead DEF PickOwn
  <2>2. CountType /\ w \in Workers
    BY <1>w DEF TypeInv
  <2>3. /\ grq' = grq /\ lrq_unstarted' \in Int
        /\ Unstarted(t) => lrq_unstarted' = lrq_unstarted - 1
        /\ ~ Unstarted(t) => lrq_unstarted' = lrq_unstarted
    BY <2>1, <2>2, TakeCounts
  <2> QED BY <1>8, <1>w, <2>1, <2>3, <1>t DEF PickOwn, Took
<1>9. ASSUME NEW w \in Helpers, sched_steal(w) PROVE RunType'
  <2>1. PICK t \in Threads : /\ Unstarted(t) /\ Took(vi[w], t) /\ runq_take(vi[w], t)
                             /\ Stolen(w, t)
    BY <1>9, StealCases
  <2>2. w \in Workers /\ At(w, "steal") /\ vi[w] <= spawned /\ vi[w] # w
          /\ vi[w] \in Workers
    BY <1>9, StealCases
  <2>3. CountType
    BY DEF TypeInv
  <2>4. /\ grq' = grq /\ lrq_unstarted' \in Int /\ lrq_unstarted' = lrq_unstarted - 1
    BY <2>1, <2>2, <2>3, TakeCounts
  <2> QED BY <1>w, <2>1, <2>2, <2>4, <1>t DEF Took, Stolen
<1>10. ASSUME NEW w \in Helpers, StealNext(w) PROVE RunType'
  <2>0. w \in Workers /\ spawned \in 0 .. g_worker_cap /\ vi[w] <= spawned
          /\ pc[w] \in {"scan", "steal"}
    BY <1>10, <1>w DEF StealNext, At, TypeInv, CountType
  <2>1. /\ vi[w] \in 0 .. spawned /\ vi[w] + 1 \in 0 .. (g_worker_cap + 1)
        /\ vi[w] \in Workers
    <3>1. vi[w] \in Int /\ 0 <= vi[w]
      BY <2>0, <1>w DEF ScanInv
    <3> QED BY <2>0, <3>1, <1>w DEF Workers
  <2> QED BY <1>10, <1>w, <2>1, <1>t DEF StealNext
<1>11. ASSUME NEW w \in Helpers, RunLocal(w) PROVE RunType'
  <2>1. PICK t \in Threads : t = Head(lrq[w]) /\ Took(w, t) /\ runq_take(w, t)
    BY <1>11, <1>w, TakeHead DEF RunLocal
  <2>2. CountType /\ w \in Workers
    BY <1>w DEF TypeInv
  <2>3. /\ grq' = grq /\ lrq_unstarted' \in Int
        /\ Unstarted(t) => lrq_unstarted' = lrq_unstarted - 1
        /\ ~ Unstarted(t) => lrq_unstarted' = lrq_unstarted
    BY <2>1, <2>2, TakeCounts
  <2> QED BY <1>11, <1>w, <2>1, <2>3, <1>t DEF RunLocal, Took
<1>12. ASSUME NEW w \in Workers, SpawnLocal(w) PROVE RunType'
  <2>1. PICK u \in Threads : /\ state[u] = "NEW" /\ ~ Queued(u) /\ Unstarted(u)
                             /\ state' = Set(state, u, "RUNNABLE") /\ Put(w, u)
    BY <1>12, SpawnLocalCases
  <2>2. /\ At(w, "run") /\ sched = Free /\ sched' = w
        /\ Goto(w, "scan") /\ vi' = Set(vi, w, 1)
        /\ UNCHANGED <<home_wid, poolVars, idleVars, runVars, locked_turn, askVars>>
    BY <1>12 DEF SpawnLocal
  <2>3. grq' = grq /\ lrq_unstarted' = lrq_unstarted + 1
    BY <1>12, SpawnLocalCases
  <2> QED BY <1>w, <2>1, <2>2, <2>3, <1>t DEF Put
<1>13. ASSUME NEW w \in Workers, ScanParked(w) PROVE RunType'
  <2>0. w \in Workers /\ spawned \in 0 .. g_worker_cap /\ vi[w] <= spawned
          /\ pc[w] \in {"scan", "steal"}
    BY <1>13, <1>w DEF ScanParked, At, TypeInv, CountType
  <2>1. /\ vi[w] \in 0 .. spawned /\ vi[w] + 1 \in 0 .. (g_worker_cap + 1)
        /\ vi[w] \in Workers
    <3>1. vi[w] \in Int /\ 0 <= vi[w]
      BY <2>0, <1>w DEF ScanInv
    <3> QED BY <2>0, <3>1, <1>w DEF Workers
  <2> QED BY <1>13, <1>w, <2>1, <1>t DEF ScanParked
<1>14. ASSUME NEW w \in Workers, ScanIdle(w) PROVE RunType'
  <2>1. ASSUME At(w, "scan2"), vi[w] <= spawned
        PROVE  vi[w] \in Workers /\ vi[w] + 1 \in 0 .. (g_worker_cap + 1)
    <3>1. spawned \in 0 .. g_worker_cap /\ vi[w] \in 1 .. (spawned + 1)
      BY <2>1 DEF At, ScanInv, TypeInv, CountType
    <3> QED BY <1>w, <2>1, <3>1 DEF Workers
  <2>2. 1 \in 0 .. (g_worker_cap + 1)
    BY <1>w
  <2> QED BY <1>14, <1>w, <2>1, <2>2, <1>t DEF ScanIdle, WakeDone
<1>15. ASSUME NEW w \in Workers, Begin(w) PROVE RunType'
  <2>1. /\ tgt[w] \in Threads /\ tgt[w] # NoThread /\ cur[w] = NoThread
        /\ state[tgt[w]] = "RUNNABLE" /\ ~ Queued(tgt[w])
        /\ home_wid[tgt[w]] \in {-1, w}
    BY <1>15 DEF Begin, At, HandInv, HandAt, TypeInv, RunType
  <2> QED BY <1>15, <1>w, <2>1, <1>t DEF Begin
<1>16. ASSUME NEW w \in Workers, ClearCur(w) PROVE RunType'
  <2>1. cur[w] \in Threads /\ cur[w] # NoThread
    BY <1>16 DEF ClearCur, At, HandInv, HandAt, TypeInv, RunType, BusyPcs
  <2> QED BY <1>16, <1>w, <2>1, <1>t DEF ClearCur
<1>17. ASSUME NEW w \in Workers, RunParked(w) PROVE RunType'
  <2>1. Off(w)
    BY <1>17 DEF RunParked, RunEnds
  <2>2. /\ tgt[w] \in Threads /\ tgt[w] # NoThread /\ cur[w] = NoThread
        /\ state[tgt[w]] = "RUNNING" /\ home_wid[tgt[w]] = w /\ ~ Queued(tgt[w])
    BY <2>1, OffFacts
  <2> QED BY <1>17, <1>w, <2>2, <1>t DEF RunParked, RunEnds, Off
<1>18. ASSUME NEW w \in Workers, RunDied(w) PROVE RunType'
  <2>1. Off(w)
    BY <1>18 DEF RunDied, RunEnds
  <2>2. /\ tgt[w] \in Threads /\ tgt[w] # NoThread /\ cur[w] = NoThread
        /\ state[tgt[w]] = "RUNNING" /\ home_wid[tgt[w]] = w /\ ~ Queued(tgt[w])
    BY <2>1, OffFacts
  <2> QED BY <1>18, <1>w, <2>2, <1>t DEF RunDied, RunEnds, Off
<1>19. ASSUME NEW w \in Workers, RunPassed(w) PROVE RunType'
  <2>1. /\ Put(w, tgt[w]) /\ grq' = grq /\ lrq_unstarted' = lrq_unstarted
        /\ Off(w) /\ pc[w] = "passed"
    BY <1>19, PassedPuts
  <2>2. /\ tgt[w] \in Threads /\ tgt[w] # NoThread /\ cur[w] = NoThread
        /\ state[tgt[w]] = "RUNNING" /\ home_wid[tgt[w]] = w /\ ~ Queued(tgt[w])
    BY <2>1, OffFacts
  <2>3. /\ RunEnds(w) /\ state' = Set(state, tgt[w], "RUNNABLE") /\ UNCHANGED pinned
    BY <1>19 DEF RunPassed
  <2> QED BY <1>w, <2>1, <2>2, <2>3, <1>t DEF Put, RunEnds, Off
<1>20. ASSUME NEW t \in Threads, sched_push_wake(t) PROVE RunType'
  <2>1. /\ home_wid[t] \in Workers /\ Put(home_wid[t], t) /\ grq' = grq
        /\ ~ Queued(t) /\ lrq_unstarted' = lrq_unstarted
    BY <1>20, WakePuts
  <2>2. /\ state[t] = "BLOCKED" /\ state' = Set(state, t, "RUNNABLE")
        /\ home_wid[t] = 0 => sched = Free
        /\ signalled' = [signalled EXCEPT ![home_wid[t]] = @ \/ idle[home_wid[t]]]
        /\ UNCHANGED <<home_wid, poolVars, parked, wake_sent, idle, runVars, sched,
                       locked_turn, pc, vi, askVars>>
    BY <1>20 DEF sched_push_wake
  <2> QED BY <1>w, <2>1, <2>2, <1>t DEF Put
<1>21. ASSUME MainSpawn PROVE RunType'
  <2>1. PICK u \in Threads :
              /\ state[u] = "NEW" /\ ~ Queued(u) /\ state' = Set(state, u, "RUNNABLE")
              /\ \/ (\E b \in Helpers : Placed(0, b, u)) /\ UNCHANGED grq
                 \/ /\ grq' \in Seq(Threads) /\ IsInjective(grq')
                    /\ Range(grq') = Range(grq) \cup {u}
                    /\ Grown(0, "scan") /\ vi' = Set(vi, 0, 1)
                    /\ UNCHANGED <<home_wid, lrq, pinned>>
    BY <1>21, MainSpawnCases
  <2>2. /\ At(0, "code") /\ sched = Free /\ sched' = 0
        /\ UNCHANGED <<idleVars, runVars, locked_turn, askVars, lrq_unstarted, active>>
    BY <1>21, MainSpawnCases
  <2>3. ASSUME NEW b \in Helpers, Placed(0, b, u), UNCHANGED grq PROVE RunType'
    BY <1>w, <2>1, <2>2, <2>3, <1>t DEF Placed, Put, Grown, GotoGrown
  <2>4. CASE /\ grq' \in Seq(Threads) /\ IsInjective(grq')
             /\ Range(grq') = Range(grq) \cup {u}
             /\ Grown(0, "scan") /\ vi' = Set(vi, 0, 1)
             /\ UNCHANGED <<home_wid, lrq, pinned>>
    BY <1>w, <2>1, <2>2, <2>4, <1>t DEF Grown, GotoGrown
  <2> QED BY <2>1, <2>3, <2>4
<1>22. ASSUME PumpRun PROVE RunType'
  <2>1. /\ At(0, "code") /\ sched = Free /\ sched' = 0 /\ Goto(0, "begin")
        /\ UNCHANGED <<threadVars, poolVars, idleVars, locked_turn, vi, askVars>>
    BY <1>22, PumpRunCases
  <2>2. PICK t \in Threads :
              /\ ToRun(0, t, "locked")
              /\ \/ ShareOff(t) /\ UNCHANGED <<lrq, lrq_unstarted>>
                 \/ Took(0, t) /\ runq_take(0, t)
    BY <1>22, PumpRunCases
  <2>3. CASE ShareOff(t) /\ UNCHANGED <<lrq, lrq_unstarted>>
    BY <1>w, <2>1, <2>2, <2>3, <1>t DEF ShareOff
  <2>4. CASE Took(0, t) /\ runq_take(0, t)
    <3>1. CountType
      BY DEF TypeInv
    <3>2. /\ grq' = grq /\ lrq_unstarted' \in Int
          /\ Unstarted(t) => lrq_unstarted' = lrq_unstarted - 1
          /\ ~ Unstarted(t) => lrq_unstarted' = lrq_unstarted
      BY <1>w, <2>4, <3>1, TakeCounts
    <3> QED BY <1>w, <2>1, <2>2, <2>4, <3>2, <1>t DEF Took
  <2> QED BY <2>2, <2>3, <2>4
<1>u. CASE UNCHANGED vars
  BY <1>u, <1>t DEF vars
<1> HIDE DEF RunType, At, Goto, Set, ToRun, threadVars, queueVars, poolVars, idleVars,
             runVars, askVars
<1> QED BY <1>u, <1>1, <1>2, <1>3, <1>4, <1>5, <1>6, <1>7, <1>8, <1>9, <1>10, <1>11,
           <1>12, <1>13, <1>14, <1>15, <1>16, <1>17, <1>18, <1>19, <1>20, <1>21, <1>22
     DEF Next, LockedStep, UnlockedStep, CvWakes, ThreadStep, WakeStep, RunStep

\* Every step keeps the places' type.
LEMMA PcTypeStep ==
  ASSUME TypeInv, QueueInv, HandInv, StateInv, ScanInv, Next \/ UNCHANGED vars
  PROVE  PcType'
<1>w. /\ g_worker_cap \in Nat \ {0} /\ NoThread \notin Threads /\ 0 \in Workers
      /\ \A w \in Helpers : w \in Workers /\ w > 0
      /\ \A w \in Workers : w \in Int /\ w >= 0 /\ w <= g_worker_cap
  BY ConstAssumption DEF Helpers, Workers
<1>t. PcType
  BY DEF TypeInv
<1> USE DEF PcType, At, Goto, Set, ToRun, threadVars, queueVars, poolVars, idleVars,
            runVars, askVars
<1>p. \A l \in {"none", "code", "start", "loop", "pick", "steal", "lidle", "ul", "ulr",
            "relock", "park", "reset", "look", "look2", "look3", "sleep", "cv", "lcv",
            "lback", "up", "begin", "run", "native", "parked", "ended", "passed",
            "scan", "scan2", "kick"} : l \in Pcs
  BY DEF Pcs, OffPcs, BusyPcs, WakePcs, IdlePcs, LoopPcs, RunPcs
<1>1. ASSUME NEW w \in Helpers,
              \/ HelperStarts(w) \/ LoopHead(w) \/ PickOwn(w)
      PROVE  PcType'
  BY <1>1, <1>w, <1>t, <1>p DEF HelperStarts, LoopHead, PickOwn
<1>2. ASSUME NEW w \in Helpers,
              \/ PickSteal(w) \/ StealNext(w) \/ StealNone(w)
      PROVE  PcType'
  BY <1>2, <1>w, <1>t, <1>p DEF PickSteal, StealNext, StealNone
<1>3. ASSUME NEW w \in Helpers,
              \/ IdleLocked(w) \/ LockedBack(w) \/ RunLocal(w)
      PROVE  PcType'
  BY <1>3, <1>w, <1>t, <1>p DEF IdleLocked, LockedBack, RunLocal
<1>4. ASSUME NEW w \in Helpers,
              \/ RoundEnds(w) \/ Relock(w) \/ IdleParks(w)
      PROVE  PcType'
  BY <1>4, <1>w, <1>t, <1>p DEF RoundEnds, Relock, IdleParks
<1>5. ASSUME NEW w \in Helpers,
              \/ IdleResets(w) \/ IdleLooks(w) \/ IdleSleeps(w)
      PROVE  PcType'
  BY <1>5, <1>w, <1>t, <1>p DEF IdleResets, IdleLooks, IdleSleeps
<1>6. ASSUME NEW w \in Helpers,
              \/ IdleUp(w) \/ WokenLocked(w) \/ IdleWakes(w)
      PROVE  PcType'
  BY <1>6, <1>w, <1>t, <1>p DEF IdleUp, WokenLocked, IdleWakes
<1>7. ASSUME NEW w \in Helpers, LocalTurn(w) PROVE PcType'
  BY <1>7, <1>w, <1>t, <1>p DEF LocalTurn
<1>8. ASSUME NEW w \in Workers,
              \/ SwitchOut(w) \/ sp_safepoint_preempt(w) \/ EnterNative(w)
      PROVE  PcType'
  BY <1>8, <1>w, <1>t, <1>p DEF SwitchOut, sp_safepoint_preempt, Consume, EnterNative
<1>9. ASSUME NEW w \in Workers,
              \/ LeaveNative(w) \/ ScanParked(w) \/ ScanIdle(w)
      PROVE  PcType'
  BY <1>9, <1>w, <1>t, <1>p DEF LeaveNative, ScanParked, ScanIdle, WakeDone
<1>10. ASSUME NEW w \in Workers,
              \/ sched_kick_worker(w) \/ Begin(w) \/ ClearCur(w)
      PROVE  PcType'
  BY <1>10, <1>w, <1>t, <1>p DEF sched_kick_worker, WakeDone, Begin, ClearCur
<1>11. ASSUME NEW w \in Workers,
              \/ Retire(w) \/ RunParked(w) \/ RunDied(w)
      PROVE  PcType'
  BY <1>11, <1>w, <1>t, <1>p DEF Retire, Consume, Off, RunParked, RunEnds, RunDied
<1>12. ASSUME NEW w \in Workers, MonitorReads(w) PROVE PcType'
  BY <1>12, <1>w, <1>t, <1>p DEF MonitorReads
<1>13. ASSUME 
              \/ PreemptAsks \/ PreemptLooks
      PROVE  PcType'
  BY <1>13, <1>w, <1>t, <1>p DEF PreemptAsks, PreemptLooks
<1>14. ASSUME NEW w \in Helpers, PickPlace(w) PROVE PcType'
  <2>1. PICK t \in Threads :
        /\ w \in Workers /\ At(w, "pick") /\ ShareOff(t)
        /\ UNCHANGED <<state, idleVars, sched, locked_turn, askVars, cur,
                       lrq_unstarted, active>>
        /\ \/ (\E b \in Helpers : Placed(w, b, t)) /\ UNCHANGED runVars
           \/ /\ Grown(w, "begin") /\ ToRun(w, t, "locked")
              /\ UNCHANGED <<home_wid, lrq, pinned, vi>>
    BY <1>14, PickPlaceCases DEF ShareOff
  <2>2. ASSUME NEW b \in Helpers, Placed(w, b, t), UNCHANGED runVars PROVE PcType'
    BY <1>w, <2>1, <2>2, <1>t, <1>p DEF ShareOff, Placed, Put, Grown, GotoGrown
  <2>3. CASE /\ Grown(w, "begin") /\ ToRun(w, t, "locked")
             /\ UNCHANGED <<home_wid, lrq, pinned, vi>>
    BY <1>w, <2>1, <2>3, <1>t, <1>p DEF ShareOff, Grown, GotoGrown
  <2> QED BY <2>1, <2>2, <2>3
<1>15. ASSUME NEW w \in Helpers, sched_steal(w) PROVE PcType'
  <2>1. PICK t \in Threads : /\ Unstarted(t) /\ Took(vi[w], t) /\ runq_take(vi[w], t)
                             /\ Stolen(w, t)
    BY <1>15, StealCases
  <2>2. w \in Workers /\ At(w, "steal") /\ vi[w] <= spawned /\ vi[w] # w
          /\ vi[w] \in Workers
    BY <1>15, StealCases
  <2>3. CountType
    BY DEF TypeInv
  <2>4. /\ grq' = grq /\ lrq_unstarted' \in Int /\ lrq_unstarted' = lrq_unstarted - 1
    BY <2>1, <2>2, <2>3, TakeCounts
  <2> QED BY <1>w, <2>1, <2>2, <2>4, <1>t, <1>p DEF Took, Stolen
<1>16. ASSUME NEW w \in Workers, SpawnLocal(w) PROVE PcType'
  <2>1. PICK u \in Threads : /\ state[u] = "NEW" /\ ~ Queued(u) /\ Unstarted(u)
                             /\ state' = Set(state, u, "RUNNABLE") /\ Put(w, u)
    BY <1>16, SpawnLocalCases
  <2>2. /\ At(w, "run") /\ sched = Free /\ sched' = w
        /\ Goto(w, "scan") /\ vi' = Set(vi, w, 1)
        /\ UNCHANGED <<home_wid, poolVars, idleVars, runVars, locked_turn, askVars>>
    BY <1>16 DEF SpawnLocal
  <2>3. grq' = grq /\ lrq_unstarted' = lrq_unstarted + 1
    BY <1>16, SpawnLocalCases
  <2> QED BY <1>w, <2>1, <2>2, <2>3, <1>t, <1>p DEF Put
<1>17. ASSUME NEW w \in Workers, RunPassed(w) PROVE PcType'
  <2>1. /\ Put(w, tgt[w]) /\ grq' = grq /\ lrq_unstarted' = lrq_unstarted
        /\ Off(w) /\ pc[w] = "passed"
    BY <1>17, PassedPuts
  <2>2. /\ tgt[w] \in Threads /\ tgt[w] # NoThread /\ cur[w] = NoThread
        /\ state[tgt[w]] = "RUNNING" /\ home_wid[tgt[w]] = w /\ ~ Queued(tgt[w])
    BY <2>1, OffFacts
  <2>3. /\ RunEnds(w) /\ state' = Set(state, tgt[w], "RUNNABLE") /\ UNCHANGED pinned
    BY <1>17 DEF RunPassed
  <2> QED BY <1>w, <2>1, <2>2, <2>3, <1>t, <1>p DEF Put, RunEnds, Off
<1>18. ASSUME NEW t \in Threads, sched_push_wake(t) PROVE PcType'
  <2>1. /\ home_wid[t] \in Workers /\ Put(home_wid[t], t) /\ grq' = grq
        /\ ~ Queued(t) /\ lrq_unstarted' = lrq_unstarted
    BY <1>18, WakePuts
  <2>2. /\ state[t] = "BLOCKED" /\ state' = Set(state, t, "RUNNABLE")
        /\ home_wid[t] = 0 => sched = Free
        /\ signalled' = [signalled EXCEPT ![home_wid[t]] = @ \/ idle[home_wid[t]]]
        /\ UNCHANGED <<home_wid, poolVars, parked, wake_sent, idle, runVars, sched,
                       locked_turn, pc, vi, askVars>>
    BY <1>18 DEF sched_push_wake
  <2> QED BY <1>w, <2>1, <2>2, <1>t, <1>p DEF Put
<1>19. ASSUME MainSpawn PROVE PcType'
  <2>1. PICK u \in Threads :
              /\ state[u] = "NEW" /\ ~ Queued(u) /\ state' = Set(state, u, "RUNNABLE")
              /\ \/ (\E b \in Helpers : Placed(0, b, u)) /\ UNCHANGED grq
                 \/ /\ grq' \in Seq(Threads) /\ IsInjective(grq')
                    /\ Range(grq') = Range(grq) \cup {u}
                    /\ Grown(0, "scan") /\ vi' = Set(vi, 0, 1)
                    /\ UNCHANGED <<home_wid, lrq, pinned>>
    BY <1>19, MainSpawnCases
  <2>2. /\ At(0, "code") /\ sched = Free /\ sched' = 0
        /\ UNCHANGED <<idleVars, runVars, locked_turn, askVars, lrq_unstarted, active>>
    BY <1>19, MainSpawnCases
  <2>3. ASSUME NEW b \in Helpers, Placed(0, b, u), UNCHANGED grq PROVE PcType'
    BY <1>w, <2>1, <2>2, <2>3, <1>t, <1>p DEF Placed, Put, Grown, GotoGrown
  <2>4. CASE /\ grq' \in Seq(Threads) /\ IsInjective(grq')
             /\ Range(grq') = Range(grq) \cup {u}
             /\ Grown(0, "scan") /\ vi' = Set(vi, 0, 1)
             /\ UNCHANGED <<home_wid, lrq, pinned>>
    BY <1>w, <2>1, <2>2, <2>4, <1>t, <1>p DEF Grown, GotoGrown
  <2> QED BY <2>1, <2>3, <2>4
<1>20. ASSUME PumpRun PROVE PcType'
  <2>1. /\ At(0, "code") /\ sched = Free /\ sched' = 0 /\ Goto(0, "begin")
        /\ UNCHANGED <<threadVars, poolVars, idleVars, locked_turn, vi, askVars>>
    BY <1>20, PumpRunCases
  <2>2. PICK t \in Threads :
              /\ ToRun(0, t, "locked")
              /\ \/ ShareOff(t) /\ UNCHANGED <<lrq, lrq_unstarted>>
                 \/ Took(0, t) /\ runq_take(0, t)
    BY <1>20, PumpRunCases
  <2>3. CASE ShareOff(t) /\ UNCHANGED <<lrq, lrq_unstarted>>
    BY <1>w, <2>1, <2>2, <2>3, <1>t, <1>p DEF ShareOff
  <2>4. CASE Took(0, t) /\ runq_take(0, t)
    <3>1. CountType
      BY DEF TypeInv
    <3>2. /\ grq' = grq /\ lrq_unstarted' \in Int
          /\ Unstarted(t) => lrq_unstarted' = lrq_unstarted - 1
          /\ ~ Unstarted(t) => lrq_unstarted' = lrq_unstarted
      BY <1>w, <2>4, <3>1, TakeCounts
    <3> QED BY <1>w, <2>1, <2>2, <2>4, <3>2, <1>t, <1>p DEF Took
  <2> QED BY <2>2, <2>3, <2>4
<1>u. CASE UNCHANGED vars
  BY <1>u, <1>t DEF vars
<1> HIDE DEF PcType, At, Goto, Set, ToRun, threadVars, queueVars, poolVars, idleVars,
             runVars, askVars
<1> QED BY <1>u, <1>1, <1>2, <1>3, <1>4, <1>5, <1>6, <1>7, <1>8, <1>9, <1>10, <1>11,
           <1>12, <1>13, <1>14, <1>15, <1>16, <1>17, <1>18, <1>19, <1>20
     DEF Next, LockedStep, UnlockedStep, CvWakes, ThreadStep, WakeStep, RunStep

\* Every step keeps all the types.
LEMMA TypeStep ==
  ASSUME TypeInv, QueueInv, HandInv, StateInv, ScanInv, Next \/ UNCHANGED vars
  PROVE  TypeInv'
BY ThreadTypeStep, CountTypeStep, QueueTypeStep, FlagTypeStep, LockTypeStep, RunTypeStep,
   PcTypeStep DEF TypeInv

-----------------------------------------------------------------------------
(* The pool, the scheduler lock and the scans.                             *)

\* Workers stay where they exist.
LEMMA PoolPcStep ==
  ASSUME TypeInv, QueueInv, HandInv, StateInv, ScanInv, PoolPc, Next \/ UNCHANGED vars
  PROVE  PoolPc'
<1>w. /\ g_worker_cap \in Nat \ {0} /\ NoThread \notin Threads /\ 0 \in Workers
      /\ \A w \in Helpers : w \in Workers /\ w > 0
      /\ \A w \in Workers : w \in Int /\ w >= 0 /\ w <= g_worker_cap
  BY ConstAssumption DEF Helpers, Workers
<1>a. /\ pc \in [Workers -> Pcs] /\ spawned \in 0 .. g_worker_cap
      /\ from \in [Workers -> {"locked", "local", "stolen"}]
  BY DEF TypeInv, PcType, CountType, RunType
<1>p. /\ \A l \in {"start", "loop", "pick", "steal", "lidle", "ul", "ulr", "relock",
               "park", "reset", "look", "look2", "look3", "sleep", "cv", "lcv", "lback",
               "up"} : l \in LoopPcs
      /\ \A l \in {"none", "code"} \cup {"begin", "run", "native", "parked", "ended",
               "passed", "scan", "scan2", "kick"} : l \notin LoopPcs
  BY DEF LoopPcs, IdlePcs
<1> USE DEF At, Goto, Set, ToRun, threadVars, queueVars, poolVars, idleVars, runVars,
            askVars
<1>1. ASSUME NEW w \in Helpers,
              \/ HelperStarts(w) \/ PickSteal(w)
      PROVE  PoolPc'
  BY <1>1, <1>w, <1>a, <1>p DEF HelperStarts, PickSteal, PoolPc
<1>2. ASSUME NEW w \in Helpers,
              \/ StealNone(w) \/ IdleLocked(w)
      PROVE  PoolPc'
  BY <1>2, <1>w, <1>a, <1>p DEF StealNone, IdleLocked, PoolPc
<1>3. ASSUME NEW w \in Helpers,
              \/ LockedBack(w) \/ RoundEnds(w)
      PROVE  PoolPc'
  BY <1>3, <1>w, <1>a, <1>p DEF LockedBack, RoundEnds, PoolPc
<1>4. ASSUME NEW w \in Helpers,
              \/ Relock(w) \/ IdleParks(w)
      PROVE  PoolPc'
  BY <1>4, <1>w, <1>a, <1>p DEF Relock, IdleParks, PoolPc
<1>5. ASSUME NEW w \in Helpers,
              \/ IdleResets(w) \/ IdleLooks(w)
      PROVE  PoolPc'
  BY <1>5, <1>w, <1>a, <1>p DEF IdleResets, IdleLooks, PoolPc
<1>6. ASSUME NEW w \in Helpers,
              \/ IdleSleeps(w) \/ IdleUp(w)
      PROVE  PoolPc'
  BY <1>6, <1>w, <1>a, <1>p DEF IdleSleeps, IdleUp, PoolPc
<1>7. ASSUME NEW w \in Helpers,
              \/ WokenLocked(w) \/ IdleWakes(w)
      PROVE  PoolPc'
  BY <1>7, <1>w, <1>a, <1>p DEF WokenLocked, IdleWakes, PoolPc
<1>8. ASSUME NEW w \in Helpers, LocalTurn(w) PROVE PoolPc'
  BY <1>8, <1>w, <1>a, <1>p DEF LocalTurn, PoolPc
<1>9. ASSUME NEW w \in Workers,
              \/ SwitchOut(w) \/ EnterNative(w)
      PROVE  PoolPc'
  BY <1>9, <1>w, <1>a, <1>p DEF SwitchOut, EnterNative, PoolPc
<1>10. ASSUME NEW w \in Workers,
              \/ LeaveNative(w) \/ MonitorReads(w)
      PROVE  PoolPc'
  BY <1>10, <1>w, <1>a, <1>p DEF LeaveNative, MonitorReads, PoolPc
<1>11. ASSUME NEW w \in Helpers, LoopHead(w) PROVE PoolPc'
  BY <1>11, <1>w, <1>a, <1>p DEF LoopHead, PoolPc
<1>12. ASSUME NEW w \in Helpers, PickPlace(w) PROVE PoolPc'
  <2>1. PICK t \in Threads :
        /\ w \in Workers /\ At(w, "pick") /\ ShareOff(t)
        /\ UNCHANGED <<state, idleVars, sched, locked_turn, askVars, cur,
                       lrq_unstarted, active>>
        /\ \/ (\E b \in Helpers : Placed(w, b, t)) /\ UNCHANGED runVars
           \/ /\ Grown(w, "begin") /\ ToRun(w, t, "locked")
              /\ UNCHANGED <<home_wid, lrq, pinned, vi>>
    BY <1>12, PickPlaceCases DEF ShareOff
  <2>2. ASSUME NEW b \in Helpers, Placed(w, b, t), UNCHANGED runVars PROVE PoolPc'
    <3>1. GrownPc(w, "kick")
      BY <1>w, <2>1, <2>2, GrownMoves DEF Placed, TypeInv
    <3>2. from'[0] = from[0] /\ pc[w] # "none" /\ w # 0
      BY <1>w, <1>a, <2>1, <2>2
    <3> QED BY <1>w, <2>1, <3>1, <3>2, GrownPool
  <2>3. CASE /\ Grown(w, "begin") /\ ToRun(w, t, "locked")
             /\ UNCHANGED <<home_wid, lrq, pinned, vi>>
    <3>1. GrownPc(w, "begin")
      BY <1>w, <2>1, <2>3, GrownMoves DEF Placed, TypeInv
    <3>2. from'[0] = from[0] /\ pc[w] # "none" /\ w # 0
      BY <1>w, <1>a, <2>1, <2>3
    <3> QED BY <1>w, <2>1, <3>1, <3>2, GrownPool
  <2> QED BY <2>1, <2>2, <2>3
<1>13. ASSUME NEW w \in Helpers, PickOwn(w) PROVE PoolPc'
  <2>1. PICK t \in Threads : t = Head(lrq[w]) /\ Took(w, t) /\ runq_take(w, t)
    BY <1>13, <1>w, TakeHead DEF PickOwn
  <2>2. CountType /\ w \in Workers
    BY <1>w DEF TypeInv
  <2>3. /\ grq' = grq /\ lrq_unstarted' \in Int
        /\ Unstarted(t) => lrq_unstarted' = lrq_unstarted - 1
        /\ ~ Unstarted(t) => lrq_unstarted' = lrq_unstarted
    BY <2>1, <2>2, TakeCounts
  <2> QED BY <1>13, <1>w, <2>1, <2>3, <1>a, <1>p DEF PickOwn, Took, PoolPc
<1>14. ASSUME NEW w \in Helpers, sched_steal(w) PROVE PoolPc'
  <2>1. PICK t \in Threads : /\ Unstarted(t) /\ Took(vi[w], t) /\ runq_take(vi[w], t)
                             /\ Stolen(w, t)
    BY <1>14, StealCases
  <2>2. w \in Workers /\ At(w, "steal") /\ vi[w] <= spawned /\ vi[w] # w
          /\ vi[w] \in Workers
    BY <1>14, StealCases
  <2>3. CountType
    BY DEF TypeInv
  <2>4. /\ grq' = grq /\ lrq_unstarted' \in Int /\ lrq_unstarted' = lrq_unstarted - 1
    BY <2>1, <2>2, <2>3, TakeCounts
  <2> QED BY <1>w, <2>1, <2>2, <2>4, <1>a, <1>p DEF Took, Stolen, PoolPc
<1>15. ASSUME NEW w \in Helpers, StealNext(w) PROVE PoolPc'
  <2>0. w \in Workers /\ spawned \in 0 .. g_worker_cap /\ vi[w] <= spawned
          /\ pc[w] \in {"scan", "steal"}
    BY <1>15, <1>w DEF StealNext, At, TypeInv, CountType
  <2>1. /\ vi[w] \in 0 .. spawned /\ vi[w] + 1 \in 0 .. (g_worker_cap + 1)
        /\ vi[w] \in Workers
    <3>1. vi[w] \in Int /\ 0 <= vi[w]
      BY <2>0, <1>w DEF ScanInv
    <3> QED BY <2>0, <3>1, <1>w DEF Workers
  <2> QED BY <1>15, <1>w, <2>1, <1>a, <1>p DEF StealNext, PoolPc
<1>16. ASSUME NEW w \in Helpers, RunLocal(w) PROVE PoolPc'
  <2>1. PICK t \in Threads : t = Head(lrq[w]) /\ Took(w, t) /\ runq_take(w, t)
    BY <1>16, <1>w, TakeHead DEF RunLocal
  <2>2. CountType /\ w \in Workers
    BY <1>w DEF TypeInv
  <2>3. /\ grq' = grq /\ lrq_unstarted' \in Int
        /\ Unstarted(t) => lrq_unstarted' = lrq_unstarted - 1
        /\ ~ Unstarted(t) => lrq_unstarted' = lrq_unstarted
    BY <2>1, <2>2, TakeCounts
  <2> QED BY <1>16, <1>w, <2>1, <2>3, <1>a, <1>p DEF RunLocal, Took, PoolPc
<1>17. ASSUME NEW w \in Workers, sp_safepoint_preempt(w) PROVE PoolPc'
  <2>1. cur[w] \in Threads /\ cur[w] # NoThread
    BY <1>17 DEF sp_safepoint_preempt, At, HandInv, HandAt, TypeInv, RunType, BusyPcs
  <2> QED BY <1>17, <1>w, <2>1, <1>a, <1>p DEF sp_safepoint_preempt, Consume, PoolPc
<1>18. ASSUME NEW w \in Workers, SpawnLocal(w) PROVE PoolPc'
  <2>1. PICK u \in Threads : /\ state[u] = "NEW" /\ ~ Queued(u) /\ Unstarted(u)
                             /\ state' = Set(state, u, "RUNNABLE") /\ Put(w, u)
    BY <1>18, SpawnLocalCases
  <2>2. /\ At(w, "run") /\ sched = Free /\ sched' = w
        /\ Goto(w, "scan") /\ vi' = Set(vi, w, 1)
        /\ UNCHANGED <<home_wid, poolVars, idleVars, runVars, locked_turn, askVars>>
    BY <1>18 DEF SpawnLocal
  <2>3. grq' = grq /\ lrq_unstarted' = lrq_unstarted + 1
    BY <1>18, SpawnLocalCases
  <2> QED BY <1>w, <2>1, <2>2, <2>3, <1>a, <1>p DEF Put, PoolPc
<1>19. ASSUME NEW w \in Workers, ScanParked(w) PROVE PoolPc'
  <2>0. w \in Workers /\ spawned \in 0 .. g_worker_cap /\ vi[w] <= spawned
          /\ pc[w] \in {"scan", "steal"}
    BY <1>19, <1>w DEF ScanParked, At, TypeInv, CountType
  <2>1. /\ vi[w] \in 0 .. spawned /\ vi[w] + 1 \in 0 .. (g_worker_cap + 1)
        /\ vi[w] \in Workers
    <3>1. vi[w] \in Int /\ 0 <= vi[w]
      BY <2>0, <1>w DEF ScanInv
    <3> QED BY <2>0, <3>1, <1>w DEF Workers
  <2> QED BY <1>19, <1>w, <2>1, <1>a, <1>p DEF ScanParked, PoolPc
<1>20. ASSUME NEW w \in Workers, ScanIdle(w) PROVE PoolPc'
  <2>1. ASSUME At(w, "scan2"), vi[w] <= spawned
        PROVE  vi[w] \in Workers /\ vi[w] + 1 \in 0 .. (g_worker_cap + 1)
    <3>1. spawned \in 0 .. g_worker_cap /\ vi[w] \in 1 .. (spawned + 1)
      BY <2>1 DEF At, ScanInv, TypeInv, CountType
    <3> QED BY <1>w, <2>1, <3>1 DEF Workers
  <2>2. 1 \in 0 .. (g_worker_cap + 1)
    BY <1>w
  <2> QED BY <1>20, <1>w, <2>1, <2>2, <1>a, <1>p DEF ScanIdle, WakeDone, PoolPc
<1>21. ASSUME NEW w \in Workers, sched_kick_worker(w) PROVE PoolPc'
  <2>0. spawned \in 0 .. g_worker_cap /\ vi[w] \in 1 .. spawned
    BY <1>21 DEF sched_kick_worker, At, ScanInv, TypeInv, CountType
  <2>1. vi[w] \in Workers
    BY <1>w, <2>0 DEF Workers
  <2> QED BY <1>21, <1>w, <2>1, <1>a, <1>p DEF sched_kick_worker, WakeDone, PoolPc
<1>22. ASSUME NEW w \in Workers, Begin(w) PROVE PoolPc'
  <2>1. /\ tgt[w] \in Threads /\ tgt[w] # NoThread /\ cur[w] = NoThread
        /\ state[tgt[w]] = "RUNNABLE" /\ ~ Queued(tgt[w])
        /\ home_wid[tgt[w]] \in {-1, w}
    BY <1>22 DEF Begin, At, HandInv, HandAt, TypeInv, RunType
  <2> QED BY <1>22, <1>w, <2>1, <1>a, <1>p DEF Begin, PoolPc
<1>23. ASSUME NEW w \in Workers, ClearCur(w) PROVE PoolPc'
  <2>1. cur[w] \in Threads /\ cur[w] # NoThread
    BY <1>23 DEF ClearCur, At, HandInv, HandAt, TypeInv, RunType, BusyPcs
  <2> QED BY <1>23, <1>w, <2>1, <1>a, <1>p DEF ClearCur, PoolPc
<1>24. ASSUME NEW w \in Workers, Retire(w) PROVE PoolPc'
  <2>1. tgt[w] \in Threads /\ tgt[w] # NoThread /\ cur[w] = NoThread
    BY <1>24, OffFacts DEF Retire
  <2> QED BY <1>24, <1>w, <2>1, <1>a, <1>p DEF Retire, Consume, Off, PoolPc
<1>25. ASSUME NEW w \in Workers, RunParked(w) PROVE PoolPc'
  <2>1. Off(w)
    BY <1>25 DEF RunParked, RunEnds
  <2>2. /\ tgt[w] \in Threads /\ tgt[w] # NoThread /\ cur[w] = NoThread
        /\ state[tgt[w]] = "RUNNING" /\ home_wid[tgt[w]] = w /\ ~ Queued(tgt[w])
    BY <2>1, OffFacts
  <2> QED BY <1>25, <1>w, <2>2, <1>a, <1>p DEF RunParked, RunEnds, Off, PoolPc
<1>26. ASSUME NEW w \in Workers, RunDied(w) PROVE PoolPc'
  <2>1. Off(w)
    BY <1>26 DEF RunDied, RunEnds
  <2>2. /\ tgt[w] \in Threads /\ tgt[w] # NoThread /\ cur[w] = NoThread
        /\ state[tgt[w]] = "RUNNING" /\ home_wid[tgt[w]] = w /\ ~ Queued(tgt[w])
    BY <2>1, OffFacts
  <2> QED BY <1>26, <1>w, <2>2, <1>a, <1>p DEF RunDied, RunEnds, Off, PoolPc
<1>27. ASSUME NEW w \in Workers, RunPassed(w) PROVE PoolPc'
  <2>1. /\ Put(w, tgt[w]) /\ grq' = grq /\ lrq_unstarted' = lrq_unstarted
        /\ Off(w) /\ pc[w] = "passed"
    BY <1>27, PassedPuts
  <2>2. /\ tgt[w] \in Threads /\ tgt[w] # NoThread /\ cur[w] = NoThread
        /\ state[tgt[w]] = "RUNNING" /\ home_wid[tgt[w]] = w /\ ~ Queued(tgt[w])
    BY <2>1, OffFacts
  <2>3. /\ RunEnds(w) /\ state' = Set(state, tgt[w], "RUNNABLE") /\ UNCHANGED pinned
    BY <1>27 DEF RunPassed
  <2> QED BY <1>w, <2>1, <2>2, <2>3, <1>a, <1>p DEF Put, RunEnds, Off, PoolPc
<1>28. ASSUME NEW t \in Threads, sched_push_wake(t) PROVE PoolPc'
  <2>1. /\ home_wid[t] \in Workers /\ Put(home_wid[t], t) /\ grq' = grq
        /\ ~ Queued(t) /\ lrq_unstarted' = lrq_unstarted
    BY <1>28, WakePuts
  <2>2. /\ state[t] = "BLOCKED" /\ state' = Set(state, t, "RUNNABLE")
        /\ home_wid[t] = 0 => sched = Free
        /\ signalled' = [signalled EXCEPT ![home_wid[t]] = @ \/ idle[home_wid[t]]]
        /\ UNCHANGED <<home_wid, poolVars, parked, wake_sent, idle, runVars, sched,
                       locked_turn, pc, vi, askVars>>
    BY <1>28 DEF sched_push_wake
  <2> QED BY <1>w, <2>1, <2>2, <1>a, <1>p DEF Put, PoolPc
<1>29. ASSUME MainSpawn PROVE PoolPc'
  <2>1. PICK u \in Threads :
              /\ state[u] = "NEW" /\ ~ Queued(u) /\ state' = Set(state, u, "RUNNABLE")
              /\ \/ (\E b \in Helpers : Placed(0, b, u)) /\ UNCHANGED grq
                 \/ /\ grq' \in Seq(Threads) /\ IsInjective(grq')
                    /\ Range(grq') = Range(grq) \cup {u}
                    /\ Grown(0, "scan") /\ vi' = Set(vi, 0, 1)
                    /\ UNCHANGED <<home_wid, lrq, pinned>>
    BY <1>29, MainSpawnCases
  <2>2. /\ At(0, "code") /\ sched = Free /\ sched' = 0
        /\ UNCHANGED <<idleVars, runVars, locked_turn, askVars, lrq_unstarted, active>>
    BY <1>29, MainSpawnCases
  <2>3. ASSUME NEW b \in Helpers, Placed(0, b, u), UNCHANGED grq PROVE PoolPc'
    <3>1. GrownPc(0, "kick")
      BY <1>w, <2>1, <2>3, GrownMoves DEF Placed, TypeInv
    <3>2. from'[0] = from[0] /\ pc[0] # "none"
      BY <1>w, <2>2
    <3> QED BY <1>w, <1>p, <3>1, <3>2, GrownPool
  <2>4. CASE /\ grq' \in Seq(Threads) /\ IsInjective(grq')
             /\ Range(grq') = Range(grq) \cup {u}
             /\ Grown(0, "scan") /\ vi' = Set(vi, 0, 1)
             /\ UNCHANGED <<home_wid, lrq, pinned>>
    <3>1. GrownPc(0, "scan")
      BY <1>w, <2>1, <2>4, GrownMoves DEF Placed, TypeInv
    <3>2. from'[0] = from[0] /\ pc[0] # "none"
      BY <1>w, <2>2
    <3> QED BY <1>w, <1>p, <3>1, <3>2, GrownPool
  <2> QED BY <2>1, <2>3, <2>4
<1>30. ASSUME PumpRun PROVE PoolPc'
  <2>1. /\ At(0, "code") /\ sched = Free /\ sched' = 0 /\ Goto(0, "begin")
        /\ UNCHANGED <<threadVars, poolVars, idleVars, locked_turn, vi, askVars>>
    BY <1>30, PumpRunCases
  <2>2. PICK t \in Threads :
              /\ ToRun(0, t, "locked")
              /\ \/ ShareOff(t) /\ UNCHANGED <<lrq, lrq_unstarted>>
                 \/ Took(0, t) /\ runq_take(0, t)
    BY <1>30, PumpRunCases
  <2>3. CASE ShareOff(t) /\ UNCHANGED <<lrq, lrq_unstarted>>
    BY <1>w, <2>1, <2>2, <2>3, <1>a, <1>p DEF ShareOff, PoolPc
  <2>4. CASE Took(0, t) /\ runq_take(0, t)
    <3>1. CountType
      BY DEF TypeInv
    <3>2. /\ grq' = grq /\ lrq_unstarted' \in Int
          /\ Unstarted(t) => lrq_unstarted' = lrq_unstarted - 1
          /\ ~ Unstarted(t) => lrq_unstarted' = lrq_unstarted
      BY <1>w, <2>4, <3>1, TakeCounts
    <3> QED BY <1>w, <2>1, <2>2, <2>4, <3>2, <1>a, <1>p DEF Took, PoolPc
  <2> QED BY <2>2, <2>3, <2>4
<1>31. ASSUME PreemptAsks PROVE PoolPc'
  <2>1. asking \in Workers \X Threads /\ asking[1] \in Workers /\ asking[2] \in Threads
    BY <1>31 DEF PreemptAsks, TypeInv, LockType
  <2> QED BY <1>31, <1>w, <2>1, <1>a, <1>p DEF PreemptAsks, PoolPc
<1>32. ASSUME PreemptLooks PROVE PoolPc'
  <2>1. asking \in Workers \X Threads /\ asking[1] \in Workers /\ asking[2] \in Threads
    BY <1>32 DEF PreemptLooks, TypeInv, LockType
  <2> QED BY <1>32, <1>w, <2>1, <1>a, <1>p DEF PreemptLooks, PoolPc
<1>u. CASE UNCHANGED vars
  BY <1>u, <1>a, <1>p DEF vars, PoolPc
<1> HIDE DEF At, Goto, Set, ToRun, threadVars, queueVars, poolVars, idleVars, runVars,
             askVars
<1> QED BY <1>u, <1>1, <1>2, <1>3, <1>4, <1>5, <1>6, <1>7, <1>8, <1>9, <1>10, <1>11,
           <1>12, <1>13, <1>14, <1>15, <1>16, <1>17, <1>18, <1>19, <1>20, <1>21, <1>22,
           <1>23, <1>24, <1>25, <1>26, <1>27, <1>28, <1>29, <1>30, <1>31, <1>32
     DEF Next, LockedStep, UnlockedStep, CvWakes, ThreadStep, WakeStep, RunStep

\* Queues and homes stay those of workers that exist.
LEMMA PoolHomeStep ==
  ASSUME TypeInv, QueueInv, HandInv, StateInv, ScanInv, PoolPc, PoolHome,
         Next \/ UNCHANGED vars
  PROVE  PoolHome'
<1>w. /\ g_worker_cap \in Nat \ {0} /\ NoThread \notin Threads /\ 0 \in Workers
      /\ \A w \in Helpers : w \in Workers /\ w > 0
      /\ \A w \in Workers : w \in Int /\ w >= 0 /\ w <= g_worker_cap
  BY ConstAssumption DEF Helpers, Workers
<1>a. /\ spawned \in 0 .. g_worker_cap /\ home_wid \in [Threads -> Workers \cup {-1}]
      /\ \A w \in Workers : w \in Int
      /\ \A w \in Workers : pc[w] # "none" => w <= spawned
  BY <1>w DEF TypeInv, CountType, ThreadType, PoolPc
<1> USE DEF At, Goto, Set, ToRun, threadVars, queueVars, poolVars, idleVars, runVars,
            askVars
<1>1. ASSUME NEW w \in Helpers,
              \/ HelperStarts(w) \/ LoopHead(w) \/ PickSteal(w) \/ StealNext(w)
              \/ StealNone(w)
      PROVE  PoolHome'
  BY <1>1, <1>w, <1>a DEF HelperStarts, LoopHead, PickSteal, StealNext, StealNone,
     PoolHome
<1>2. ASSUME NEW w \in Helpers,
              \/ IdleLocked(w) \/ LockedBack(w) \/ RoundEnds(w) \/ Relock(w)
              \/ IdleParks(w)
      PROVE  PoolHome'
  BY <1>2, <1>w, <1>a DEF IdleLocked, LockedBack, RoundEnds, Relock, IdleParks, PoolHome
<1>3. ASSUME NEW w \in Helpers,
              \/ IdleResets(w) \/ IdleLooks(w) \/ IdleSleeps(w) \/ IdleUp(w)
              \/ WokenLocked(w)
      PROVE  PoolHome'
  BY <1>3, <1>w, <1>a DEF IdleResets, IdleLooks, IdleSleeps, IdleUp, WokenLocked, PoolHome
<1>4. ASSUME NEW w \in Helpers,
              \/ IdleWakes(w) \/ LocalTurn(w)
      PROVE  PoolHome'
  BY <1>4, <1>w, <1>a DEF IdleWakes, LocalTurn, PoolHome
<1>5. ASSUME NEW w \in Workers,
              \/ SwitchOut(w) \/ sp_safepoint_preempt(w) \/ EnterNative(w)
                \/ LeaveNative(w)
              \/ ScanParked(w)
      PROVE  PoolHome'
  BY <1>5, <1>w, <1>a DEF SwitchOut, sp_safepoint_preempt, Consume, EnterNative,
     LeaveNative, ScanParked, PoolHome
<1>6. ASSUME NEW w \in Workers,
              \/ ScanIdle(w) \/ sched_kick_worker(w) \/ ClearCur(w) \/ Retire(w)
              \/ MonitorReads(w)
      PROVE  PoolHome'
  BY <1>6, <1>w, <1>a DEF ScanIdle, WakeDone, sched_kick_worker, ClearCur, Retire,
     Consume, Off, MonitorReads, PoolHome
<1>7. ASSUME 
              \/ PreemptAsks \/ PreemptLooks
      PROVE  PoolHome'
  BY <1>7, <1>w, <1>a DEF PreemptAsks, PreemptLooks, PoolHome
<1>8. ASSUME NEW w \in Helpers, PickPlace(w) PROVE PoolHome'
  <2>1. PICK t \in Threads :
        /\ w \in Workers /\ At(w, "pick") /\ ShareOff(t)
        /\ UNCHANGED <<state, idleVars, sched, locked_turn, askVars, cur,
                       lrq_unstarted, active>>
        /\ \/ (\E b \in Helpers : Placed(w, b, t)) /\ UNCHANGED runVars
           \/ /\ Grown(w, "begin") /\ ToRun(w, t, "locked")
              /\ UNCHANGED <<home_wid, lrq, pinned, vi>>
    BY <1>8, PickPlaceCases DEF ShareOff
  <2>2. ASSUME NEW b \in Helpers, Placed(w, b, t), UNCHANGED runVars PROVE PoolHome'
    <3>1. GrownPc(w, "kick")
      BY <1>w, <2>1, <2>2, GrownMoves DEF Placed, TypeInv
    <3>2. /\ b \in Workers /\ b <= spawned' /\ spawned <= spawned' /\ spawned' \in Int
          /\ \A v \in Workers : v # b => lrq'[v] = lrq[v]
          /\ \A x \in Threads : home_wid'[x] = home_wid[x] \/ home_wid'[x] = b
      BY <1>w, <1>a, <3>1, <2>2, <2>1 DEF Placed, Put, GrownPc, ShareOff
    <3> QED BY <1>a, <3>2 DEF PoolHome
  <2>3. CASE /\ Grown(w, "begin") /\ ToRun(w, t, "locked")
             /\ UNCHANGED <<home_wid, lrq, pinned, vi>>
    <3>1. GrownPc(w, "begin")
      BY <1>w, <2>1, <2>3, GrownMoves DEF Placed, TypeInv
    <3>2. spawned <= spawned' /\ spawned' \in Int /\ UNCHANGED <<home_wid, lrq>>
      BY <3>1, <2>3 DEF GrownPc
    <3> QED BY <1>a, <3>2 DEF PoolHome
  <2> QED BY <2>1, <2>2, <2>3
<1>9. ASSUME NEW w \in Helpers, PickOwn(w) PROVE PoolHome'
  <2>1. PICK t \in Threads : t = Head(lrq[w]) /\ Took(w, t) /\ runq_take(w, t)
    BY <1>9, <1>w, TakeHead DEF PickOwn
  <2>2. CountType /\ w \in Workers
    BY <1>w DEF TypeInv
  <2>3. /\ grq' = grq /\ lrq_unstarted' \in Int
        /\ Unstarted(t) => lrq_unstarted' = lrq_unstarted - 1
        /\ ~ Unstarted(t) => lrq_unstarted' = lrq_unstarted
    BY <2>1, <2>2, TakeCounts
  <2> QED BY <1>9, <1>w, <2>1, <2>3, <1>a DEF PickOwn, Took, PoolHome
<1>10. ASSUME NEW w \in Helpers, sched_steal(w) PROVE PoolHome'
  <2>1. PICK t \in Threads : /\ Unstarted(t) /\ Took(vi[w], t) /\ runq_take(vi[w], t)
                             /\ Stolen(w, t)
    BY <1>10, StealCases
  <2>2. w \in Workers /\ At(w, "steal") /\ vi[w] <= spawned /\ vi[w] # w
          /\ vi[w] \in Workers
    BY <1>10, StealCases
  <2>3. CountType
    BY DEF TypeInv
  <2>4. /\ grq' = grq /\ lrq_unstarted' \in Int /\ lrq_unstarted' = lrq_unstarted - 1
    BY <2>1, <2>2, <2>3, TakeCounts
  <2> QED BY <1>w, <2>1, <2>2, <2>4, <1>a DEF Took, Stolen, PoolHome
<1>11. ASSUME NEW w \in Helpers, RunLocal(w) PROVE PoolHome'
  <2>1. PICK t \in Threads : t = Head(lrq[w]) /\ Took(w, t) /\ runq_take(w, t)
    BY <1>11, <1>w, TakeHead DEF RunLocal
  <2>2. CountType /\ w \in Workers
    BY <1>w DEF TypeInv
  <2>3. /\ grq' = grq /\ lrq_unstarted' \in Int
        /\ Unstarted(t) => lrq_unstarted' = lrq_unstarted - 1
        /\ ~ Unstarted(t) => lrq_unstarted' = lrq_unstarted
    BY <2>1, <2>2, TakeCounts
  <2> QED BY <1>11, <1>w, <2>1, <2>3, <1>a DEF RunLocal, Took, PoolHome
<1>12. ASSUME NEW w \in Workers, SpawnLocal(w) PROVE PoolHome'
  <2>1. PICK u \in Threads : /\ state[u] = "NEW" /\ ~ Queued(u) /\ Unstarted(u)
                             /\ state' = Set(state, u, "RUNNABLE") /\ Put(w, u)
    BY <1>12, SpawnLocalCases
  <2>2. /\ At(w, "run") /\ sched = Free /\ sched' = w
        /\ Goto(w, "scan") /\ vi' = Set(vi, w, 1)
        /\ UNCHANGED <<home_wid, poolVars, idleVars, runVars, locked_turn, askVars>>
    BY <1>12 DEF SpawnLocal
  <2>3. grq' = grq /\ lrq_unstarted' = lrq_unstarted + 1
    BY <1>12, SpawnLocalCases
  <2> QED BY <1>w, <2>1, <2>2, <2>3, <1>a DEF Put, PoolHome
<1>13. ASSUME NEW w \in Workers, Begin(w) PROVE PoolHome'
  <2>1. /\ tgt[w] \in Threads /\ tgt[w] # NoThread /\ cur[w] = NoThread
        /\ state[tgt[w]] = "RUNNABLE" /\ ~ Queued(tgt[w])
        /\ home_wid[tgt[w]] \in {-1, w}
    BY <1>13 DEF Begin, At, HandInv, HandAt, TypeInv, RunType
  <2> QED BY <1>13, <1>w, <2>1, <1>a DEF Begin, PoolHome
<1>14. ASSUME NEW w \in Workers, RunParked(w) PROVE PoolHome'
  <2>1. Off(w)
    BY <1>14 DEF RunParked, RunEnds
  <2>2. /\ tgt[w] \in Threads /\ tgt[w] # NoThread /\ cur[w] = NoThread
        /\ state[tgt[w]] = "RUNNING" /\ home_wid[tgt[w]] = w /\ ~ Queued(tgt[w])
    BY <2>1, OffFacts
  <2> QED BY <1>14, <1>w, <2>2, <1>a DEF RunParked, RunEnds, Off, PoolHome
<1>15. ASSUME NEW w \in Workers, RunDied(w) PROVE PoolHome'
  <2>1. Off(w)
    BY <1>15 DEF RunDied, RunEnds
  <2>2. /\ tgt[w] \in Threads /\ tgt[w] # NoThread /\ cur[w] = NoThread
        /\ state[tgt[w]] = "RUNNING" /\ home_wid[tgt[w]] = w /\ ~ Queued(tgt[w])
    BY <2>1, OffFacts
  <2> QED BY <1>15, <1>w, <2>2, <1>a DEF RunDied, RunEnds, Off, PoolHome
<1>16. ASSUME NEW w \in Workers, RunPassed(w) PROVE PoolHome'
  <2>1. /\ Put(w, tgt[w]) /\ grq' = grq /\ lrq_unstarted' = lrq_unstarted
        /\ Off(w) /\ pc[w] = "passed"
    BY <1>16, PassedPuts
  <2>2. /\ tgt[w] \in Threads /\ tgt[w] # NoThread /\ cur[w] = NoThread
        /\ state[tgt[w]] = "RUNNING" /\ home_wid[tgt[w]] = w /\ ~ Queued(tgt[w])
    BY <2>1, OffFacts
  <2>3. /\ RunEnds(w) /\ state' = Set(state, tgt[w], "RUNNABLE") /\ UNCHANGED pinned
    BY <1>16 DEF RunPassed
  <2> QED BY <1>w, <2>1, <2>2, <2>3, <1>a DEF Put, RunEnds, Off, PoolHome
<1>17. ASSUME NEW t \in Threads, sched_push_wake(t) PROVE PoolHome'
  <2>1. /\ home_wid[t] \in Workers /\ Put(home_wid[t], t) /\ grq' = grq
        /\ ~ Queued(t) /\ lrq_unstarted' = lrq_unstarted
    BY <1>17, WakePuts
  <2>2. /\ state[t] = "BLOCKED" /\ state' = Set(state, t, "RUNNABLE")
        /\ home_wid[t] = 0 => sched = Free
        /\ signalled' = [signalled EXCEPT ![home_wid[t]] = @ \/ idle[home_wid[t]]]
        /\ UNCHANGED <<home_wid, poolVars, parked, wake_sent, idle, runVars, sched,
                       locked_turn, pc, vi, askVars>>
    BY <1>17 DEF sched_push_wake
  <2> QED BY <1>w, <2>1, <2>2, <1>a DEF Put, PoolHome
<1>18. ASSUME MainSpawn PROVE PoolHome'
  <2>1. PICK u \in Threads :
              /\ state[u] = "NEW" /\ ~ Queued(u) /\ state' = Set(state, u, "RUNNABLE")
              /\ \/ (\E b \in Helpers : Placed(0, b, u)) /\ UNCHANGED grq
                 \/ /\ grq' \in Seq(Threads) /\ IsInjective(grq')
                    /\ Range(grq') = Range(grq) \cup {u}
                    /\ Grown(0, "scan") /\ vi' = Set(vi, 0, 1)
                    /\ UNCHANGED <<home_wid, lrq, pinned>>
    BY <1>18, MainSpawnCases
  <2>2. /\ At(0, "code") /\ sched = Free /\ sched' = 0
        /\ UNCHANGED <<idleVars, runVars, locked_turn, askVars, lrq_unstarted, active>>
    BY <1>18, MainSpawnCases
  <2>3. ASSUME NEW b \in Helpers, Placed(0, b, u), UNCHANGED grq PROVE PoolHome'
    <3>1. GrownPc(0, "kick")
      BY <1>w, <2>1, <2>3, GrownMoves DEF Placed, TypeInv
    <3>2. /\ b \in Workers /\ b <= spawned' /\ spawned <= spawned' /\ spawned' \in Int
          /\ \A v \in Workers : v # b => lrq'[v] = lrq[v]
          /\ \A x \in Threads : home_wid'[x] = home_wid[x] \/ home_wid'[x] = b
      BY <1>w, <1>a, <3>1, <2>3, <2>1, <2>2 DEF Placed, Put, GrownPc, ShareOff
    <3> QED BY <1>a, <3>2 DEF PoolHome
  <2>4. CASE /\ grq' \in Seq(Threads) /\ IsInjective(grq')
             /\ Range(grq') = Range(grq) \cup {u}
             /\ Grown(0, "scan") /\ vi' = Set(vi, 0, 1)
             /\ UNCHANGED <<home_wid, lrq, pinned>>
    <3>1. GrownPc(0, "scan")
      BY <1>w, <2>1, <2>4, GrownMoves DEF Placed, TypeInv
    <3>2. spawned <= spawned' /\ spawned' \in Int /\ UNCHANGED <<home_wid, lrq>>
      BY <3>1, <2>4 DEF GrownPc
    <3> QED BY <1>a, <3>2 DEF PoolHome
  <2> QED BY <2>1, <2>3, <2>4
<1>19. ASSUME PumpRun PROVE PoolHome'
  <2>1. /\ At(0, "code") /\ sched = Free /\ sched' = 0 /\ Goto(0, "begin")
        /\ UNCHANGED <<threadVars, poolVars, idleVars, locked_turn, vi, askVars>>
    BY <1>19, PumpRunCases
  <2>2. PICK t \in Threads :
              /\ ToRun(0, t, "locked")
              /\ \/ ShareOff(t) /\ UNCHANGED <<lrq, lrq_unstarted>>
                 \/ Took(0, t) /\ runq_take(0, t)
    BY <1>19, PumpRunCases
  <2>3. CASE ShareOff(t) /\ UNCHANGED <<lrq, lrq_unstarted>>
    BY <1>w, <2>1, <2>2, <2>3, <1>a DEF ShareOff, PoolHome
  <2>4. CASE Took(0, t) /\ runq_take(0, t)
    <3>1. CountType
      BY DEF TypeInv
    <3>2. /\ grq' = grq /\ lrq_unstarted' \in Int
          /\ Unstarted(t) => lrq_unstarted' = lrq_unstarted - 1
          /\ ~ Unstarted(t) => lrq_unstarted' = lrq_unstarted
      BY <1>w, <2>4, <3>1, TakeCounts
    <3> QED BY <1>w, <2>1, <2>2, <2>4, <3>2, <1>a DEF Took, PoolHome
  <2> QED BY <2>2, <2>3, <2>4
<1>u. CASE UNCHANGED vars
  BY <1>u, <1>a DEF vars, PoolHome
<1> HIDE DEF At, Goto, Set, ToRun, threadVars, queueVars, poolVars, idleVars, runVars,
             askVars
<1> QED BY <1>u, <1>1, <1>2, <1>3, <1>4, <1>5, <1>6, <1>7, <1>8, <1>9, <1>10, <1>11,
           <1>12, <1>13, <1>14, <1>15, <1>16, <1>17, <1>18, <1>19
     DEF Next, LockedStep, UnlockedStep, CvWakes, ThreadStep, WakeStep, RunStep

\* The lock stays with who needs it.
LEMMA LockStep ==
  ASSUME TypeInv, QueueInv, HandInv, StateInv, ScanInv, PoolPc, LockInv,
         Next \/ UNCHANGED vars
  PROVE  LockInv'
<1>w. /\ g_worker_cap \in Nat \ {0} /\ NoThread \notin Threads /\ 0 \in Workers
      /\ \A w \in Helpers : w \in Workers /\ w > 0
      /\ \A w \in Workers : w \in Int /\ w >= 0 /\ w <= g_worker_cap
  BY ConstAssumption DEF Helpers, Workers
<1>a. /\ pc \in [Workers -> Pcs] /\ spawned \in 0 .. g_worker_cap
      /\ from \in [Workers -> {"locked", "local", "stolen"}] /\ from[0] = "locked"
      /\ cur \in [Workers -> Threads \cup {NoThread}]
      /\ sched \in Workers \cup {Free, Monitor} /\ Free = -1 /\ Monitor = -2
      /\ \A w \in Workers : pc[w] \in {"run", "native"} => cur[w] # NoThread
  BY DEF TypeInv, PcType, CountType, RunType, LockType, HandInv, HandAt, BusyPcs, PoolPc,
     Free, Monitor
<1> USE DEF At, Goto, Set, ToRun, threadVars, queueVars, poolVars, idleVars, runVars,
            askVars,WakePcs, OffPcs
<1>1. ASSUME NEW w \in Helpers,
              \/ HelperStarts(w) \/ LoopHead(w)
      PROVE  LockInv'
  BY <1>1, <1>w, <1>a DEF HelperStarts, LoopHead, LockInv
<1>2. ASSUME NEW w \in Helpers,
              \/ PickSteal(w) \/ StealNone(w)
      PROVE  LockInv'
  BY <1>2, <1>w, <1>a DEF PickSteal, StealNone, LockInv
<1>3. ASSUME NEW w \in Helpers,
              \/ IdleLocked(w) \/ LockedBack(w)
      PROVE  LockInv'
  BY <1>3, <1>w, <1>a DEF IdleLocked, LockedBack, LockInv
<1>4. ASSUME NEW w \in Helpers,
              \/ RoundEnds(w) \/ Relock(w)
      PROVE  LockInv'
  BY <1>4, <1>w, <1>a DEF RoundEnds, Relock, LockInv
<1>5. ASSUME NEW w \in Helpers,
              \/ IdleParks(w) \/ IdleResets(w)
      PROVE  LockInv'
  BY <1>5, <1>w, <1>a DEF IdleParks, IdleResets, LockInv
<1>6. ASSUME NEW w \in Helpers,
              \/ IdleLooks(w) \/ IdleSleeps(w)
      PROVE  LockInv'
  BY <1>6, <1>w, <1>a DEF IdleLooks, IdleSleeps, LockInv
<1>7. ASSUME NEW w \in Helpers,
              \/ IdleUp(w) \/ WokenLocked(w)
      PROVE  LockInv'
  BY <1>7, <1>w, <1>a DEF IdleUp, WokenLocked, LockInv
<1>8. ASSUME NEW w \in Helpers,
              \/ IdleWakes(w) \/ LocalTurn(w)
      PROVE  LockInv'
  BY <1>8, <1>w, <1>a DEF IdleWakes, LocalTurn, LockInv
<1>9. ASSUME NEW w \in Workers,
              \/ SwitchOut(w) \/ EnterNative(w)
      PROVE  LockInv'
  BY <1>9, <1>w, <1>a DEF SwitchOut, EnterNative, LockInv
<1>10. ASSUME NEW w \in Workers, LeaveNative(w) PROVE LockInv'
  BY <1>10, <1>w, <1>a DEF LeaveNative, LockInv
<1>11. ASSUME NEW w \in Helpers, PickPlace(w) PROVE LockInv'
  <2>1. PICK t \in Threads :
        /\ w \in Workers /\ At(w, "pick") /\ ShareOff(t)
        /\ UNCHANGED <<state, idleVars, sched, locked_turn, askVars, cur,
                       lrq_unstarted, active>>
        /\ \/ (\E b \in Helpers : Placed(w, b, t)) /\ UNCHANGED runVars
           \/ /\ Grown(w, "begin") /\ ToRun(w, t, "locked")
              /\ UNCHANGED <<home_wid, lrq, pinned, vi>>
    BY <1>11, PickPlaceCases DEF ShareOff
  <2>2. ASSUME NEW b \in Helpers, Placed(w, b, t), UNCHANGED runVars PROVE LockInv'
    <3>1. GrownPc(w, "kick")
      BY <1>w, <2>1, <2>2, GrownMoves DEF Placed, TypeInv
    <3>2. /\ pc[w] = "pick" /\ sched' = sched /\ cur' = cur /\ asking' = asking
          /\ \A x \in Workers : x # w => from'[x] = from[x]
      BY <1>w, <1>a, <2>1, <2>2
    <3> QED BY <1>w, <1>a, <3>1, <3>2 DEF GrownPc, LockInv
  <2>3. CASE /\ Grown(w, "begin") /\ ToRun(w, t, "locked")
             /\ UNCHANGED <<home_wid, lrq, pinned, vi>>
    <3>1. GrownPc(w, "begin")
      BY <1>w, <2>1, <2>3, GrownMoves DEF Placed, TypeInv
    <3>2. /\ pc[w] = "pick" /\ sched' = sched /\ cur' = cur /\ asking' = asking
          /\ \A x \in Workers : x # w => from'[x] = from[x]
      BY <1>w, <1>a, <2>1, <2>3
    <3> QED BY <1>w, <1>a, <3>1, <3>2 DEF GrownPc, LockInv
  <2> QED BY <2>1, <2>2, <2>3
<1>12. ASSUME NEW w \in Helpers, PickOwn(w) PROVE LockInv'
  <2>1. PICK t \in Threads : t = Head(lrq[w]) /\ Took(w, t) /\ runq_take(w, t)
    BY <1>12, <1>w, TakeHead DEF PickOwn
  <2>2. CountType /\ w \in Workers
    BY <1>w DEF TypeInv
  <2>3. /\ grq' = grq /\ lrq_unstarted' \in Int
        /\ Unstarted(t) => lrq_unstarted' = lrq_unstarted - 1
        /\ ~ Unstarted(t) => lrq_unstarted' = lrq_unstarted
    BY <2>1, <2>2, TakeCounts
  <2> QED BY <1>12, <1>w, <2>1, <2>3, <1>a DEF PickOwn, Took, LockInv
<1>13. ASSUME NEW w \in Helpers, sched_steal(w) PROVE LockInv'
  <2>1. PICK t \in Threads : /\ Unstarted(t) /\ Took(vi[w], t) /\ runq_take(vi[w], t)
                             /\ Stolen(w, t)
    BY <1>13, StealCases
  <2>2. w \in Workers /\ At(w, "steal") /\ vi[w] <= spawned /\ vi[w] # w
          /\ vi[w] \in Workers
    BY <1>13, StealCases
  <2>3. CountType
    BY DEF TypeInv
  <2>4. /\ grq' = grq /\ lrq_unstarted' \in Int /\ lrq_unstarted' = lrq_unstarted - 1
    BY <2>1, <2>2, <2>3, TakeCounts
  <2> QED BY <1>w, <2>1, <2>2, <2>4, <1>a DEF Took, Stolen, LockInv
<1>14. ASSUME NEW w \in Helpers, StealNext(w) PROVE LockInv'
  <2>0. w \in Workers /\ spawned \in 0 .. g_worker_cap /\ vi[w] <= spawned
          /\ pc[w] \in {"scan", "steal"}
    BY <1>14, <1>w DEF StealNext, At, TypeInv, CountType
  <2>1. /\ vi[w] \in 0 .. spawned /\ vi[w] + 1 \in 0 .. (g_worker_cap + 1)
        /\ vi[w] \in Workers
    <3>1. vi[w] \in Int /\ 0 <= vi[w]
      BY <2>0, <1>w DEF ScanInv
    <3> QED BY <2>0, <3>1, <1>w DEF Workers
  <2> QED BY <1>14, <1>w, <2>1, <1>a DEF StealNext, LockInv
<1>15. ASSUME NEW w \in Helpers, RunLocal(w) PROVE LockInv'
  <2>1. PICK t \in Threads : t = Head(lrq[w]) /\ Took(w, t) /\ runq_take(w, t)
    BY <1>15, <1>w, TakeHead DEF RunLocal
  <2>2. CountType /\ w \in Workers
    BY <1>w DEF TypeInv
  <2>3. /\ grq' = grq /\ lrq_unstarted' \in Int
        /\ Unstarted(t) => lrq_unstarted' = lrq_unstarted - 1
        /\ ~ Unstarted(t) => lrq_unstarted' = lrq_unstarted
    BY <2>1, <2>2, TakeCounts
  <2> QED BY <1>15, <1>w, <2>1, <2>3, <1>a DEF RunLocal, Took, LockInv
<1>16. ASSUME NEW w \in Workers, sp_safepoint_preempt(w) PROVE LockInv'
  <2>1. cur[w] \in Threads /\ cur[w] # NoThread
    BY <1>16 DEF sp_safepoint_preempt, At, HandInv, HandAt, TypeInv, RunType, BusyPcs
  <2> QED BY <1>16, <1>w, <2>1, <1>a DEF sp_safepoint_preempt, Consume, LockInv
<1>17. ASSUME NEW w \in Workers, SpawnLocal(w) PROVE LockInv'
  <2>1. PICK u \in Threads : /\ state[u] = "NEW" /\ ~ Queued(u) /\ Unstarted(u)
                             /\ state' = Set(state, u, "RUNNABLE") /\ Put(w, u)
    BY <1>17, SpawnLocalCases
  <2>2. /\ At(w, "run") /\ sched = Free /\ sched' = w
        /\ Goto(w, "scan") /\ vi' = Set(vi, w, 1)
        /\ UNCHANGED <<home_wid, poolVars, idleVars, runVars, locked_turn, askVars>>
    BY <1>17 DEF SpawnLocal
  <2>3. grq' = grq /\ lrq_unstarted' = lrq_unstarted + 1
    BY <1>17, SpawnLocalCases
  <2> QED BY <1>w, <2>1, <2>2, <2>3, <1>a DEF Put, LockInv
<1>18. ASSUME NEW w \in Workers, ScanParked(w) PROVE LockInv'
  <2>0. w \in Workers /\ spawned \in 0 .. g_worker_cap /\ vi[w] <= spawned
          /\ pc[w] \in {"scan", "steal"}
    BY <1>18, <1>w DEF ScanParked, At, TypeInv, CountType
  <2>1. /\ vi[w] \in 0 .. spawned /\ vi[w] + 1 \in 0 .. (g_worker_cap + 1)
        /\ vi[w] \in Workers
    <3>1. vi[w] \in Int /\ 0 <= vi[w]
      BY <2>0, <1>w DEF ScanInv
    <3> QED BY <2>0, <3>1, <1>w DEF Workers
  <2> QED BY <1>18, <1>w, <2>1, <1>a DEF ScanParked, LockInv
<1>19. ASSUME NEW w \in Workers, ScanIdle(w) PROVE LockInv'
  <2>1. ASSUME At(w, "scan2"), vi[w] <= spawned
        PROVE  vi[w] \in Workers /\ vi[w] + 1 \in 0 .. (g_worker_cap + 1)
    <3>1. spawned \in 0 .. g_worker_cap /\ vi[w] \in 1 .. (spawned + 1)
      BY <2>1 DEF At, ScanInv, TypeInv, CountType
    <3> QED BY <1>w, <2>1, <3>1 DEF Workers
  <2>2. 1 \in 0 .. (g_worker_cap + 1)
    BY <1>w
  <2> QED BY <1>19, <1>w, <2>1, <2>2, <1>a DEF ScanIdle, WakeDone, LockInv
<1>20. ASSUME NEW w \in Workers, sched_kick_worker(w) PROVE LockInv'
  <2>0. spawned \in 0 .. g_worker_cap /\ vi[w] \in 1 .. spawned
    BY <1>20 DEF sched_kick_worker, At, ScanInv, TypeInv, CountType
  <2>1. vi[w] \in Workers
    BY <1>w, <2>0 DEF Workers
  <2> QED BY <1>20, <1>w, <2>1, <1>a DEF sched_kick_worker, WakeDone, LockInv
<1>21. ASSUME NEW w \in Workers, Begin(w) PROVE LockInv'
  <2>1. /\ tgt[w] \in Threads /\ tgt[w] # NoThread /\ cur[w] = NoThread
        /\ state[tgt[w]] = "RUNNABLE" /\ ~ Queued(tgt[w])
        /\ home_wid[tgt[w]] \in {-1, w}
    BY <1>21 DEF Begin, At, HandInv, HandAt, TypeInv, RunType
  <2> QED BY <1>21, <1>w, <2>1, <1>a DEF Begin, LockInv
<1>22. ASSUME NEW w \in Workers, ClearCur(w) PROVE LockInv'
  <2>1. cur[w] \in Threads /\ cur[w] # NoThread
    BY <1>22 DEF ClearCur, At, HandInv, HandAt, TypeInv, RunType, BusyPcs
  <2> QED BY <1>22, <1>w, <2>1, <1>a DEF ClearCur, LockInv
<1>23. ASSUME NEW w \in Workers, Retire(w) PROVE LockInv'
  <2>1. tgt[w] \in Threads /\ tgt[w] # NoThread /\ cur[w] = NoThread
    BY <1>23, OffFacts DEF Retire
  <2> QED BY <1>23, <1>w, <2>1, <1>a DEF Retire, Consume, Off, LockInv
<1>24. ASSUME NEW w \in Workers, RunParked(w) PROVE LockInv'
  <2>1. Off(w)
    BY <1>24 DEF RunParked, RunEnds
  <2>2. /\ tgt[w] \in Threads /\ tgt[w] # NoThread /\ cur[w] = NoThread
        /\ state[tgt[w]] = "RUNNING" /\ home_wid[tgt[w]] = w /\ ~ Queued(tgt[w])
    BY <2>1, OffFacts
  <2> QED BY <1>24, <1>w, <2>2, <1>a DEF RunParked, RunEnds, Off, LockInv
<1>25. ASSUME NEW w \in Workers, RunDied(w) PROVE LockInv'
  <2>1. Off(w)
    BY <1>25 DEF RunDied, RunEnds
  <2>2. /\ tgt[w] \in Threads /\ tgt[w] # NoThread /\ cur[w] = NoThread
        /\ state[tgt[w]] = "RUNNING" /\ home_wid[tgt[w]] = w /\ ~ Queued(tgt[w])
    BY <2>1, OffFacts
  <2> QED BY <1>25, <1>w, <2>2, <1>a DEF RunDied, RunEnds, Off, LockInv
<1>26. ASSUME NEW w \in Workers, RunPassed(w) PROVE LockInv'
  <2>1. /\ Put(w, tgt[w]) /\ grq' = grq /\ lrq_unstarted' = lrq_unstarted
        /\ Off(w) /\ pc[w] = "passed"
    BY <1>26, PassedPuts
  <2>2. /\ tgt[w] \in Threads /\ tgt[w] # NoThread /\ cur[w] = NoThread
        /\ state[tgt[w]] = "RUNNING" /\ home_wid[tgt[w]] = w /\ ~ Queued(tgt[w])
    BY <2>1, OffFacts
  <2>3. /\ RunEnds(w) /\ state' = Set(state, tgt[w], "RUNNABLE") /\ UNCHANGED pinned
    BY <1>26 DEF RunPassed
  <2> QED BY <1>w, <2>1, <2>2, <2>3, <1>a DEF Put, RunEnds, Off, LockInv
<1>27. ASSUME NEW w \in Workers, MonitorReads(w) PROVE LockInv'
  BY <1>27, <1>w, <1>a DEF MonitorReads, LockInv
<1>28. ASSUME NEW t \in Threads, sched_push_wake(t) PROVE LockInv'
  <2>1. /\ home_wid[t] \in Workers /\ Put(home_wid[t], t) /\ grq' = grq
        /\ ~ Queued(t) /\ lrq_unstarted' = lrq_unstarted
    BY <1>28, WakePuts
  <2>2. /\ state[t] = "BLOCKED" /\ state' = Set(state, t, "RUNNABLE")
        /\ home_wid[t] = 0 => sched = Free
        /\ signalled' = [signalled EXCEPT ![home_wid[t]] = @ \/ idle[home_wid[t]]]
        /\ UNCHANGED <<home_wid, poolVars, parked, wake_sent, idle, runVars, sched,
                       locked_turn, pc, vi, askVars>>
    BY <1>28 DEF sched_push_wake
  <2> QED BY <1>w, <2>1, <2>2, <1>a DEF Put, LockInv
<1>29. ASSUME MainSpawn PROVE LockInv'
  <2>1. PICK u \in Threads :
              /\ state[u] = "NEW" /\ ~ Queued(u) /\ state' = Set(state, u, "RUNNABLE")
              /\ \/ (\E b \in Helpers : Placed(0, b, u)) /\ UNCHANGED grq
                 \/ /\ grq' \in Seq(Threads) /\ IsInjective(grq')
                    /\ Range(grq') = Range(grq) \cup {u}
                    /\ Grown(0, "scan") /\ vi' = Set(vi, 0, 1)
                    /\ UNCHANGED <<home_wid, lrq, pinned>>
    BY <1>29, MainSpawnCases
  <2>2. /\ At(0, "code") /\ sched = Free /\ sched' = 0
        /\ UNCHANGED <<idleVars, runVars, locked_turn, askVars, lrq_unstarted, active>>
    BY <1>29, MainSpawnCases
  <2>3. ASSUME NEW b \in Helpers, Placed(0, b, u), UNCHANGED grq PROVE LockInv'
    <3>1. GrownPc(0, "kick")
      BY <1>w, <2>1, <2>3, GrownMoves DEF Placed, TypeInv
    <3> QED BY <1>w, <1>a, <2>1, <2>3, <3>1, <2>2 DEF Placed, GrownPc, ShareOff, LockInv
  <2>4. CASE /\ grq' \in Seq(Threads) /\ IsInjective(grq')
             /\ Range(grq') = Range(grq) \cup {u}
             /\ Grown(0, "scan") /\ vi' = Set(vi, 0, 1)
             /\ UNCHANGED <<home_wid, lrq, pinned>>
    <3>1. GrownPc(0, "scan")
      BY <1>w, <2>1, <2>4, GrownMoves DEF Placed, TypeInv
    <3> QED BY <1>w, <1>a, <2>1, <2>4, <3>1, <2>2 DEF GrownPc, ShareOff, LockInv
  <2> QED BY <2>1, <2>3, <2>4
<1>30. ASSUME PumpRun PROVE LockInv'
  <2>1. /\ At(0, "code") /\ sched = Free /\ sched' = 0 /\ Goto(0, "begin")
        /\ UNCHANGED <<threadVars, poolVars, idleVars, locked_turn, vi, askVars>>
    BY <1>30, PumpRunCases
  <2>2. PICK t \in Threads :
              /\ ToRun(0, t, "locked")
              /\ \/ ShareOff(t) /\ UNCHANGED <<lrq, lrq_unstarted>>
                 \/ Took(0, t) /\ runq_take(0, t)
    BY <1>30, PumpRunCases
  <2>3. CASE ShareOff(t) /\ UNCHANGED <<lrq, lrq_unstarted>>
    BY <1>w, <2>1, <2>2, <2>3, <1>a DEF ShareOff, LockInv
  <2>4. CASE Took(0, t) /\ runq_take(0, t)
    <3>1. CountType
      BY DEF TypeInv
    <3>2. /\ grq' = grq /\ lrq_unstarted' \in Int
          /\ Unstarted(t) => lrq_unstarted' = lrq_unstarted - 1
          /\ ~ Unstarted(t) => lrq_unstarted' = lrq_unstarted
      BY <1>w, <2>4, <3>1, TakeCounts
    <3> QED BY <1>w, <2>1, <2>2, <2>4, <3>2, <1>a DEF Took, LockInv
  <2> QED BY <2>2, <2>3, <2>4
<1>31. ASSUME PreemptAsks PROVE LockInv'
  <2>1. asking \in Workers \X Threads /\ asking[1] \in Workers /\ asking[2] \in Threads
    BY <1>31 DEF PreemptAsks, TypeInv, LockType
  <2> QED BY <1>31, <1>w, <2>1, <1>a DEF PreemptAsks, LockInv
<1>32. ASSUME PreemptLooks PROVE LockInv'
  <2>1. asking \in Workers \X Threads /\ asking[1] \in Workers /\ asking[2] \in Threads
    BY <1>32 DEF PreemptLooks, TypeInv, LockType
  <2> QED BY <1>32, <1>w, <2>1, <1>a DEF PreemptLooks, LockInv
<1>u. CASE UNCHANGED vars
  BY <1>u, <1>a DEF vars, LockInv
<1> HIDE DEF At, Goto, Set, ToRun, threadVars, queueVars, poolVars, idleVars, runVars,
             askVars,WakePcs, OffPcs
<1> QED BY <1>u, <1>1, <1>2, <1>3, <1>4, <1>5, <1>6, <1>7, <1>8, <1>9, <1>10, <1>11,
           <1>12, <1>13, <1>14, <1>15, <1>16, <1>17, <1>18, <1>19, <1>20, <1>21, <1>22,
           <1>23, <1>24, <1>25, <1>26, <1>27, <1>28, <1>29, <1>30, <1>31, <1>32
     DEF Next, LockedStep, UnlockedStep, CvWakes, ThreadStep, WakeStep, RunStep

\* A scan stays within the pool.
LEMMA ScanStep ==
  ASSUME TypeInv, QueueInv, HandInv, StateInv, ScanInv, PoolPc, LockInv,
         Next \/ UNCHANGED vars
  PROVE  ScanInv'
<1>w. /\ g_worker_cap \in Nat \ {0} /\ NoThread \notin Threads /\ 0 \in Workers
      /\ \A w \in Helpers : w \in Workers /\ w > 0
      /\ \A w \in Workers : w \in Int /\ w >= 0 /\ w <= g_worker_cap
  BY ConstAssumption DEF Helpers, Workers
<1>a. /\ pc \in [Workers -> Pcs] /\ spawned \in 0 .. g_worker_cap
      /\ vi \in [Workers -> 0 .. (g_worker_cap + 1)]
  BY DEF TypeInv, PcType, CountType, RunType
<1> USE DEF At, Goto, Set, ToRun, threadVars, queueVars, poolVars, idleVars, runVars,
            askVars,WakePcs
<1>1. ASSUME NEW w \in Helpers,
              \/ HelperStarts(w) \/ LoopHead(w)
      PROVE  ScanInv'
  BY <1>1, <1>w, <1>a DEF HelperStarts, LoopHead, ScanInv
<1>2. ASSUME NEW w \in Helpers,
              \/ PickSteal(w) \/ StealNone(w)
      PROVE  ScanInv'
  BY <1>2, <1>w, <1>a, SMTT(20) DEF PickSteal, StealNone, ScanInv
<1>3. ASSUME NEW w \in Helpers,
              \/ IdleLocked(w) \/ LockedBack(w)
      PROVE  ScanInv'
  BY <1>3, <1>w, <1>a DEF IdleLocked, LockedBack, ScanInv
<1>4. ASSUME NEW w \in Helpers,
              \/ RoundEnds(w) \/ Relock(w)
      PROVE  ScanInv'
  BY <1>4, <1>w, <1>a DEF RoundEnds, Relock, ScanInv
<1>5. ASSUME NEW w \in Helpers,
              \/ IdleParks(w) \/ IdleResets(w)
      PROVE  ScanInv'
  BY <1>5, <1>w, <1>a DEF IdleParks, IdleResets, ScanInv
<1>6. ASSUME NEW w \in Helpers,
              \/ IdleLooks(w) \/ IdleSleeps(w)
      PROVE  ScanInv'
  BY <1>6, <1>w, <1>a DEF IdleLooks, IdleSleeps, ScanInv
<1>7. ASSUME NEW w \in Helpers,
              \/ IdleUp(w) \/ WokenLocked(w)
      PROVE  ScanInv'
  BY <1>7, <1>w, <1>a DEF IdleUp, WokenLocked, ScanInv
<1>8. ASSUME NEW w \in Helpers,
              \/ IdleWakes(w) \/ LocalTurn(w)
      PROVE  ScanInv'
  BY <1>8, <1>w, <1>a DEF IdleWakes, LocalTurn, ScanInv
<1>9. ASSUME NEW w \in Workers,
              \/ SwitchOut(w) \/ EnterNative(w)
      PROVE  ScanInv'
  BY <1>9, <1>w, <1>a DEF SwitchOut, EnterNative, ScanInv
<1>10. ASSUME NEW w \in Workers,
              \/ LeaveNative(w) \/ MonitorReads(w)
      PROVE  ScanInv'
  BY <1>10, <1>w, <1>a DEF LeaveNative, MonitorReads, ScanInv
<1>11. ASSUME NEW w \in Helpers, PickPlace(w) PROVE ScanInv'
  <2>1. PICK t \in Threads :
        /\ w \in Workers /\ At(w, "pick") /\ ShareOff(t)
        /\ UNCHANGED <<state, idleVars, sched, locked_turn, askVars, cur,
                       lrq_unstarted, active>>
        /\ \/ (\E b \in Helpers : Placed(w, b, t)) /\ UNCHANGED runVars
           \/ /\ Grown(w, "begin") /\ ToRun(w, t, "locked")
              /\ UNCHANGED <<home_wid, lrq, pinned, vi>>
    BY <1>11, PickPlaceCases DEF ShareOff
  <2>2. ASSUME NEW b \in Helpers, Placed(w, b, t), UNCHANGED runVars PROVE ScanInv'
    <3>1. GrownPc(w, "kick")
      BY <1>w, <2>1, <2>2, GrownMoves DEF Placed, TypeInv
    <3>2. /\ vi'[w] = b /\ \A x \in Workers : x # w => vi'[x] = vi[x]
      BY <1>w, <1>a, <2>1, <2>2 DEF Placed
    <3>3. ASSUME NEW x \in Workers, x # w PROVE x <= spawned \/ spawned' < x \/ vi[x] = 0
      BY <1>w, <1>a, <3>3 DEF PoolPc, ScanInv
    <3>4. /\ spawned' \in Int /\ spawned <= spawned' /\ pc'[w] = "kick"
          /\ \A x \in Workers : x # w => \/ pc'[x] = pc[x]
                                         \/ pc'[x] = "start" /\ vi[x] = 0
      BY <1>w, <1>a, <3>1, <3>3 DEF GrownPc
    <3>5. b \in 1 .. spawned' /\ pc[w] = "pick"
      BY <1>w, <1>a, <2>1, <2>2, <3>4 DEF Placed, ScanInv
    <3> QED BY <1>w, <1>a, <3>2, <3>4, <3>5 DEF ScanInv
  <2>3. CASE /\ Grown(w, "begin") /\ ToRun(w, t, "locked")
             /\ UNCHANGED <<home_wid, lrq, pinned, vi>>
    <3>1. GrownPc(w, "begin")
      BY <1>w, <2>1, <2>3, GrownMoves DEF Placed, TypeInv
    <3>2. /\ vi'[w] = vi[w] /\ \A x \in Workers : x # w => vi'[x] = vi[x]
      BY <1>w, <1>a, <2>1, <2>3 DEF Placed
    <3>3. ASSUME NEW x \in Workers, x # w PROVE x <= spawned \/ spawned' < x \/ vi[x] = 0
      BY <1>w, <1>a, <3>3 DEF PoolPc, ScanInv
    <3>4. /\ spawned' \in Int /\ spawned <= spawned' /\ pc'[w] = "begin"
          /\ \A x \in Workers : x # w => \/ pc'[x] = pc[x]
                                         \/ pc'[x] = "start" /\ vi[x] = 0
      BY <1>w, <1>a, <3>1, <3>3 DEF GrownPc
    <3>5. vi[w] = 0 /\ pc[w] = "pick"
      BY <1>w, <1>a, <2>1, <2>3, <3>4 DEF Placed, ScanInv
    <3> QED BY <1>w, <1>a, <3>2, <3>4, <3>5 DEF ScanInv
  <2> QED BY <2>1, <2>2, <2>3
<1>12. ASSUME NEW w \in Helpers, PickOwn(w) PROVE ScanInv'
  <2>1. PICK t \in Threads : t = Head(lrq[w]) /\ Took(w, t) /\ runq_take(w, t)
    BY <1>12, <1>w, TakeHead DEF PickOwn
  <2>2. CountType /\ w \in Workers
    BY <1>w DEF TypeInv
  <2>3. /\ grq' = grq /\ lrq_unstarted' \in Int
        /\ Unstarted(t) => lrq_unstarted' = lrq_unstarted - 1
        /\ ~ Unstarted(t) => lrq_unstarted' = lrq_unstarted
    BY <2>1, <2>2, TakeCounts
  <2> QED BY <1>12, <1>w, <2>1, <2>3, <1>a DEF PickOwn, Took, ScanInv
<1>13. ASSUME NEW w \in Helpers, sched_steal(w) PROVE ScanInv'
  <2>1. PICK t \in Threads : /\ Unstarted(t) /\ Took(vi[w], t) /\ runq_take(vi[w], t)
                             /\ Stolen(w, t)
    BY <1>13, StealCases
  <2>2. w \in Workers /\ At(w, "steal") /\ vi[w] <= spawned /\ vi[w] # w
          /\ vi[w] \in Workers
    BY <1>13, StealCases
  <2>3. CountType
    BY DEF TypeInv
  <2>4. /\ grq' = grq /\ lrq_unstarted' \in Int /\ lrq_unstarted' = lrq_unstarted - 1
    BY <2>1, <2>2, <2>3, TakeCounts
  <2> QED BY <1>w, <2>1, <2>2, <2>4, <1>a DEF Took, Stolen, ScanInv
<1>14. ASSUME NEW w \in Helpers, StealNext(w) PROVE ScanInv'
  <2>0. w \in Workers /\ spawned \in 0 .. g_worker_cap /\ vi[w] <= spawned
          /\ pc[w] \in {"scan", "steal"}
    BY <1>14, <1>w DEF StealNext, At, TypeInv, CountType
  <2>1. /\ vi[w] \in 0 .. spawned /\ vi[w] + 1 \in 0 .. (g_worker_cap + 1)
        /\ vi[w] \in Workers
    <3>1. vi[w] \in Int /\ 0 <= vi[w]
      BY <2>0, <1>w DEF ScanInv
    <3> QED BY <2>0, <3>1, <1>w DEF Workers
  <2> QED BY <1>14, <1>w, <2>1, <1>a DEF StealNext, ScanInv
<1>15. ASSUME NEW w \in Helpers, RunLocal(w) PROVE ScanInv'
  <2>1. PICK t \in Threads : t = Head(lrq[w]) /\ Took(w, t) /\ runq_take(w, t)
    BY <1>15, <1>w, TakeHead DEF RunLocal
  <2>2. CountType /\ w \in Workers
    BY <1>w DEF TypeInv
  <2>3. /\ grq' = grq /\ lrq_unstarted' \in Int
        /\ Unstarted(t) => lrq_unstarted' = lrq_unstarted - 1
        /\ ~ Unstarted(t) => lrq_unstarted' = lrq_unstarted
    BY <2>1, <2>2, TakeCounts
  <2> QED BY <1>15, <1>w, <2>1, <2>3, <1>a DEF RunLocal, Took, ScanInv
<1>16. ASSUME NEW w \in Workers, sp_safepoint_preempt(w) PROVE ScanInv'
  <2>1. cur[w] \in Threads /\ cur[w] # NoThread
    BY <1>16 DEF sp_safepoint_preempt, At, HandInv, HandAt, TypeInv, RunType, BusyPcs
  <2> QED BY <1>16, <1>w, <2>1, <1>a DEF sp_safepoint_preempt, Consume, ScanInv
<1>17. ASSUME NEW w \in Workers, SpawnLocal(w) PROVE ScanInv'
  <2>1. PICK u \in Threads : /\ state[u] = "NEW" /\ ~ Queued(u) /\ Unstarted(u)
                             /\ state' = Set(state, u, "RUNNABLE") /\ Put(w, u)
    BY <1>17, SpawnLocalCases
  <2>2. /\ At(w, "run") /\ sched = Free /\ sched' = w
        /\ Goto(w, "scan") /\ vi' = Set(vi, w, 1)
        /\ UNCHANGED <<home_wid, poolVars, idleVars, runVars, locked_turn, askVars>>
    BY <1>17 DEF SpawnLocal
  <2>3. grq' = grq /\ lrq_unstarted' = lrq_unstarted + 1
    BY <1>17, SpawnLocalCases
  <2> QED BY <1>w, <2>1, <2>2, <2>3, <1>a DEF Put, ScanInv
<1>18. ASSUME NEW w \in Workers, ScanParked(w) PROVE ScanInv'
  <2>0. w \in Workers /\ spawned \in 0 .. g_worker_cap /\ vi[w] <= spawned
          /\ pc[w] \in {"scan", "steal"}
    BY <1>18, <1>w DEF ScanParked, At, TypeInv, CountType
  <2>1. /\ vi[w] \in 0 .. spawned /\ vi[w] + 1 \in 0 .. (g_worker_cap + 1)
        /\ vi[w] \in Workers
    <3>1. vi[w] \in Int /\ 0 <= vi[w]
      BY <2>0, <1>w DEF ScanInv
    <3> QED BY <2>0, <3>1, <1>w DEF Workers
  <2> QED BY <1>18, <1>w, <2>1, <1>a DEF ScanParked, ScanInv
<1>19. ASSUME NEW w \in Workers, ScanIdle(w) PROVE ScanInv'
  <2>1. ASSUME At(w, "scan2"), vi[w] <= spawned
        PROVE  vi[w] \in Workers /\ vi[w] + 1 \in 0 .. (g_worker_cap + 1)
    <3>1. spawned \in 0 .. g_worker_cap /\ vi[w] \in 1 .. (spawned + 1)
      BY <2>1 DEF At, ScanInv, TypeInv, CountType
    <3> QED BY <1>w, <2>1, <3>1 DEF Workers
  <2>2. 1 \in 0 .. (g_worker_cap + 1)
    BY <1>w
  <2> QED BY <1>19, <1>w, <2>1, <2>2, <1>a DEF ScanIdle, WakeDone, ScanInv
<1>20. ASSUME NEW w \in Workers, sched_kick_worker(w) PROVE ScanInv'
  <2>0. spawned \in 0 .. g_worker_cap /\ vi[w] \in 1 .. spawned
    BY <1>20 DEF sched_kick_worker, At, ScanInv, TypeInv, CountType
  <2>1. vi[w] \in Workers
    BY <1>w, <2>0 DEF Workers
  <2> QED BY <1>20, <1>w, <2>1, <1>a DEF sched_kick_worker, WakeDone, ScanInv
<1>21. ASSUME NEW w \in Workers, Begin(w) PROVE ScanInv'
  <2>1. /\ tgt[w] \in Threads /\ tgt[w] # NoThread /\ cur[w] = NoThread
        /\ state[tgt[w]] = "RUNNABLE" /\ ~ Queued(tgt[w])
        /\ home_wid[tgt[w]] \in {-1, w}
    BY <1>21 DEF Begin, At, HandInv, HandAt, TypeInv, RunType
  <2> QED BY <1>21, <1>w, <2>1, <1>a DEF Begin, ScanInv
<1>22. ASSUME NEW w \in Workers, ClearCur(w) PROVE ScanInv'
  <2>1. cur[w] \in Threads /\ cur[w] # NoThread
    BY <1>22 DEF ClearCur, At, HandInv, HandAt, TypeInv, RunType, BusyPcs
  <2> QED BY <1>22, <1>w, <2>1, <1>a DEF ClearCur, ScanInv
<1>23. ASSUME NEW w \in Workers, Retire(w) PROVE ScanInv'
  <2>1. tgt[w] \in Threads /\ tgt[w] # NoThread /\ cur[w] = NoThread
    BY <1>23, OffFacts DEF Retire
  <2> QED BY <1>23, <1>w, <2>1, <1>a DEF Retire, Consume, Off, ScanInv
<1>24. ASSUME NEW w \in Workers, RunParked(w) PROVE ScanInv'
  <2>1. Off(w)
    BY <1>24 DEF RunParked, RunEnds
  <2>2. /\ tgt[w] \in Threads /\ tgt[w] # NoThread /\ cur[w] = NoThread
        /\ state[tgt[w]] = "RUNNING" /\ home_wid[tgt[w]] = w /\ ~ Queued(tgt[w])
    BY <2>1, OffFacts
  <2> QED BY <1>24, <1>w, <2>2, <1>a DEF RunParked, RunEnds, Off, ScanInv
<1>25. ASSUME NEW w \in Workers, RunDied(w) PROVE ScanInv'
  <2>1. Off(w)
    BY <1>25 DEF RunDied, RunEnds
  <2>2. /\ tgt[w] \in Threads /\ tgt[w] # NoThread /\ cur[w] = NoThread
        /\ state[tgt[w]] = "RUNNING" /\ home_wid[tgt[w]] = w /\ ~ Queued(tgt[w])
    BY <2>1, OffFacts
  <2> QED BY <1>25, <1>w, <2>2, <1>a DEF RunDied, RunEnds, Off, ScanInv
<1>26. ASSUME NEW w \in Workers, RunPassed(w) PROVE ScanInv'
  <2>1. /\ Put(w, tgt[w]) /\ grq' = grq /\ lrq_unstarted' = lrq_unstarted
        /\ Off(w) /\ pc[w] = "passed"
    BY <1>26, PassedPuts
  <2>2. /\ tgt[w] \in Threads /\ tgt[w] # NoThread /\ cur[w] = NoThread
        /\ state[tgt[w]] = "RUNNING" /\ home_wid[tgt[w]] = w /\ ~ Queued(tgt[w])
    BY <2>1, OffFacts
  <2>3. /\ RunEnds(w) /\ state' = Set(state, tgt[w], "RUNNABLE") /\ UNCHANGED pinned
    BY <1>26 DEF RunPassed
  <2> QED BY <1>w, <2>1, <2>2, <2>3, <1>a DEF Put, RunEnds, Off, ScanInv
<1>27. ASSUME NEW t \in Threads, sched_push_wake(t) PROVE ScanInv'
  <2>1. /\ home_wid[t] \in Workers /\ Put(home_wid[t], t) /\ grq' = grq
        /\ ~ Queued(t) /\ lrq_unstarted' = lrq_unstarted
    BY <1>27, WakePuts
  <2>2. /\ state[t] = "BLOCKED" /\ state' = Set(state, t, "RUNNABLE")
        /\ home_wid[t] = 0 => sched = Free
        /\ signalled' = [signalled EXCEPT ![home_wid[t]] = @ \/ idle[home_wid[t]]]
        /\ UNCHANGED <<home_wid, poolVars, parked, wake_sent, idle, runVars, sched,
                       locked_turn, pc, vi, askVars>>
    BY <1>27 DEF sched_push_wake
  <2> QED BY <1>w, <2>1, <2>2, <1>a DEF Put, ScanInv
<1>28. ASSUME MainSpawn PROVE ScanInv'
  <2>1. PICK u \in Threads :
              /\ state[u] = "NEW" /\ ~ Queued(u) /\ state' = Set(state, u, "RUNNABLE")
              /\ \/ (\E b \in Helpers : Placed(0, b, u)) /\ UNCHANGED grq
                 \/ /\ grq' \in Seq(Threads) /\ IsInjective(grq')
                    /\ Range(grq') = Range(grq) \cup {u}
                    /\ Grown(0, "scan") /\ vi' = Set(vi, 0, 1)
                    /\ UNCHANGED <<home_wid, lrq, pinned>>
    BY <1>28, MainSpawnCases
  <2>2. /\ At(0, "code") /\ sched = Free /\ sched' = 0
        /\ UNCHANGED <<idleVars, runVars, locked_turn, askVars, lrq_unstarted, active>>
    BY <1>28, MainSpawnCases
  <2>3. ASSUME NEW b \in Helpers, Placed(0, b, u), UNCHANGED grq PROVE ScanInv'
    <3>1. GrownPc(0, "kick")
      BY <1>w, <2>1, <2>3, GrownMoves DEF Placed, TypeInv
    <3>2. /\ vi'[0] = b /\ \A x \in Workers : x # 0 => vi'[x] = vi[x]
      BY <1>w, <1>a, <2>1, <2>3, <2>2 DEF Placed
    <3>3. ASSUME NEW x \in Workers, x # 0 PROVE x <= spawned \/ spawned' < x \/ vi[x] = 0
      BY <1>w, <1>a, <3>3 DEF PoolPc, ScanInv
    <3>4. /\ spawned' \in Int /\ spawned <= spawned' /\ pc'[0] = "kick"
          /\ \A x \in Workers : x # 0 => \/ pc'[x] = pc[x]
                                         \/ pc'[x] = "start" /\ vi[x] = 0
      BY <1>w, <1>a, <3>1, <3>3 DEF GrownPc
    <3>5. b \in 1 .. spawned'
      BY <1>w, <1>a, <2>1, <2>3, <2>2, <3>4 DEF Placed, ScanInv
    <3> QED BY <1>w, <1>a, <3>2, <3>4, <3>5 DEF ScanInv
  <2>4. CASE /\ grq' \in Seq(Threads) /\ IsInjective(grq')
             /\ Range(grq') = Range(grq) \cup {u}
             /\ Grown(0, "scan") /\ vi' = Set(vi, 0, 1)
             /\ UNCHANGED <<home_wid, lrq, pinned>>
    <3>1. GrownPc(0, "scan")
      BY <1>w, <2>1, <2>4, GrownMoves DEF Placed, TypeInv
    <3>2. /\ vi'[0] = 1 /\ \A x \in Workers : x # 0 => vi'[x] = vi[x]
      BY <1>w, <1>a, <2>1, <2>4, <2>2 DEF Placed
    <3>3. ASSUME NEW x \in Workers, x # 0 PROVE x <= spawned \/ spawned' < x \/ vi[x] = 0
      BY <1>w, <1>a, <3>3 DEF PoolPc, ScanInv
    <3>4. /\ spawned' \in Int /\ spawned <= spawned' /\ pc'[0] = "scan"
          /\ \A x \in Workers : x # 0 => \/ pc'[x] = pc[x]
                                         \/ pc'[x] = "start" /\ vi[x] = 0
      BY <1>w, <1>a, <3>1, <3>3 DEF GrownPc
    <3>5. 1 \in 1 .. (spawned' + 1)
      <4>1. \A m, n \in Int : 0 <= m /\ m <= n => 1 \in 1 .. (n + 1)
        OBVIOUS
      <4>2. spawned \in Int /\ 0 <= spawned
        BY <1>w, <1>a
      <4> QED BY <3>4, <4>1, <4>2
    <3> QED BY <1>w, <1>a, <3>2, <3>4, <3>5 DEF ScanInv
  <2> QED BY <2>1, <2>3, <2>4
<1>29. ASSUME PumpRun PROVE ScanInv'
  <2>1. /\ At(0, "code") /\ sched = Free /\ sched' = 0 /\ Goto(0, "begin")
        /\ UNCHANGED <<threadVars, poolVars, idleVars, locked_turn, vi, askVars>>
    BY <1>29, PumpRunCases
  <2>2. PICK t \in Threads :
              /\ ToRun(0, t, "locked")
              /\ \/ ShareOff(t) /\ UNCHANGED <<lrq, lrq_unstarted>>
                 \/ Took(0, t) /\ runq_take(0, t)
    BY <1>29, PumpRunCases
  <2>3. CASE ShareOff(t) /\ UNCHANGED <<lrq, lrq_unstarted>>
    BY <1>w, <2>1, <2>2, <2>3, <1>a DEF ShareOff, ScanInv
  <2>4. CASE Took(0, t) /\ runq_take(0, t)
    <3>1. CountType
      BY DEF TypeInv
    <3>2. /\ grq' = grq /\ lrq_unstarted' \in Int
          /\ Unstarted(t) => lrq_unstarted' = lrq_unstarted - 1
          /\ ~ Unstarted(t) => lrq_unstarted' = lrq_unstarted
      BY <1>w, <2>4, <3>1, TakeCounts
    <3> QED BY <1>w, <2>1, <2>2, <2>4, <3>2, <1>a DEF Took, ScanInv
  <2> QED BY <2>2, <2>3, <2>4
<1>30. ASSUME PreemptAsks PROVE ScanInv'
  <2>1. asking \in Workers \X Threads /\ asking[1] \in Workers /\ asking[2] \in Threads
    BY <1>30 DEF PreemptAsks, TypeInv, LockType
  <2> QED BY <1>30, <1>w, <2>1, <1>a DEF PreemptAsks, ScanInv
<1>31. ASSUME PreemptLooks PROVE ScanInv'
  <2>1. asking \in Workers \X Threads /\ asking[1] \in Workers /\ asking[2] \in Threads
    BY <1>31 DEF PreemptLooks, TypeInv, LockType
  <2> QED BY <1>31, <1>w, <2>1, <1>a DEF PreemptLooks, ScanInv
<1>u. CASE UNCHANGED vars
  BY <1>u, <1>a DEF vars, ScanInv
<1> HIDE DEF At, Goto, Set, ToRun, threadVars, queueVars, poolVars, idleVars, runVars,
             askVars,WakePcs
<1> QED BY <1>u, <1>1, <1>2, <1>3, <1>4, <1>5, <1>6, <1>7, <1>8, <1>9, <1>10, <1>11,
           <1>12, <1>13, <1>14, <1>15, <1>16, <1>17, <1>18, <1>19, <1>20, <1>21, <1>22,
           <1>23, <1>24, <1>25, <1>26, <1>27, <1>28, <1>29, <1>30, <1>31
     DEF Next, LockedStep, UnlockedStep, CvWakes, ThreadStep, WakeStep, RunStep

-----------------------------------------------------------------------------
(* No thread is lost and none is doubled.                                  *)

\* The queues stay disjoint and right.
LEMMA QueueStep ==
  ASSUME TypeInv, QueueInv, HandInv, StateInv, ScanInv, Next \/ UNCHANGED vars
  PROVE  QueueInv'
<1>w. /\ g_worker_cap \in Nat \ {0} /\ NoThread \notin Threads /\ 0 \in Workers
      /\ \A w \in Helpers : w \in Workers /\ w > 0
      /\ \A w \in Workers : w \in Int /\ w >= 0 /\ w <= g_worker_cap
  BY ConstAssumption DEF Helpers, Workers
<1>a. /\ state \in [Threads -> {"NEW", "RUNNABLE", "RUNNING", "BLOCKED", "DEAD"}]
      /\ home_wid \in [Threads -> Workers \cup {-1}]
      /\ \A w \in Workers : Range(lrq[w]) \subseteq Threads
      /\ Range(grq) \subseteq Threads
  BY QueueFacts DEF TypeInv, ThreadType, Queued
<1> USE DEF At, Goto, Set, ToRun, threadVars, queueVars, poolVars, idleVars, runVars,
            askVars
<1>1. ASSUME NEW w \in Helpers,
              \/ HelperStarts(w) \/ LoopHead(w) \/ PickSteal(w) \/ StealNext(w)
              \/ StealNone(w) \/ IdleLocked(w)
      PROVE  QueueInv'
  <2>1. UNCHANGED <<grq, lrq, state, home_wid>>
    BY <1>1 DEF HelperStarts, LoopHead, PickSteal, StealNext, StealNone, IdleLocked
  <2> QED BY <2>1 DEF QueueInv, Queued, Unstarted
<1>2. ASSUME NEW w \in Helpers,
              \/ LockedBack(w) \/ RoundEnds(w) \/ Relock(w) \/ IdleParks(w)
              \/ IdleResets(w) \/ IdleLooks(w)
      PROVE  QueueInv'
  <2>1. UNCHANGED <<grq, lrq, state, home_wid>>
    BY <1>2 DEF LockedBack, RoundEnds, Relock, IdleParks, IdleResets, IdleLooks
  <2> QED BY <2>1 DEF QueueInv, Queued, Unstarted
<1>3. ASSUME NEW w \in Helpers,
              \/ IdleSleeps(w) \/ IdleUp(w) \/ WokenLocked(w) \/ IdleWakes(w)
              \/ LocalTurn(w)
      PROVE  QueueInv'
  <2>1. UNCHANGED <<grq, lrq, state, home_wid>>
    BY <1>3 DEF IdleSleeps, IdleUp, WokenLocked, IdleWakes, LocalTurn
  <2> QED BY <2>1 DEF QueueInv, Queued, Unstarted
<1>4. ASSUME NEW w \in Workers,
              \/ SwitchOut(w) \/ sp_safepoint_preempt(w) \/ EnterNative(w)
                \/ LeaveNative(w)
              \/ ScanParked(w) \/ ScanIdle(w)
      PROVE  QueueInv'
  <2>1. UNCHANGED <<grq, lrq, state, home_wid>>
    BY <1>4 DEF SwitchOut, sp_safepoint_preempt, Consume, EnterNative, LeaveNative,
       ScanParked, ScanIdle, WakeDone
  <2> QED BY <2>1 DEF QueueInv, Queued, Unstarted
<1>5. ASSUME NEW w \in Workers,
              \/ sched_kick_worker(w) \/ ClearCur(w) \/ Retire(w) \/ MonitorReads(w)
      PROVE  QueueInv'
  <2>1. UNCHANGED <<grq, lrq, state, home_wid>>
    BY <1>5 DEF sched_kick_worker, WakeDone, ClearCur, Retire, Consume, Off, MonitorReads
  <2> QED BY <2>1 DEF QueueInv, Queued, Unstarted
<1>6. ASSUME 
              \/ PreemptAsks \/ PreemptLooks
      PROVE  QueueInv'
  <2>1. UNCHANGED <<grq, lrq, state, home_wid>>
    BY <1>6 DEF PreemptAsks, PreemptLooks
  <2> QED BY <2>1 DEF QueueInv, Queued, Unstarted
<1>7. ASSUME NEW w \in Helpers, PickPlace(w) PROVE QueueInv'
  <2>1. PICK t \in Threads :
        /\ w \in Workers /\ At(w, "pick") /\ ShareOff(t)
        /\ UNCHANGED <<state, idleVars, sched, locked_turn, askVars, cur,
                       lrq_unstarted, active>>
        /\ \/ (\E b \in Helpers : Placed(w, b, t)) /\ UNCHANGED runVars
           \/ /\ Grown(w, "begin") /\ ToRun(w, t, "locked")
              /\ UNCHANGED <<home_wid, lrq, pinned, vi>>
    BY <1>7, PickPlaceCases DEF ShareOff
  <2>2. ASSUME NEW b \in Helpers, Placed(w, b, t), UNCHANGED runVars PROVE QueueInv'
    <3>1. GrownPc(w, "kick")
      BY <1>w, <2>1, <2>2, GrownMoves DEF Placed, TypeInv
    <3>2. /\ \A v \in Workers : t \notin Range(lrq[v])
          /\ state[t] = "RUNNABLE"
      BY <2>1 DEF QueueInv, ShareOff, Queued
    <3>3. /\ home_wid'[t] \in {-1, b} /\ state'[t] = "RUNNABLE"
          /\ \A u \in Threads : u # t => state'[u] = state[u]
               /\ home_wid'[u] = home_wid[u]
      BY <1>a, <2>1, <2>2, <3>2 DEF Placed, ShareOff
    <3>4. /\ t \in Threads /\ t \notin Range(grq') /\ IsInjective(grq')
          /\ Range(grq') \subseteq Range(grq) /\ b \in Workers /\ Put(b, t)
      BY <2>1, <2>2 DEF Placed, ShareOff
    <3> QED BY <3>2, <3>3, <3>4, PutKeeps
  <2>3. CASE /\ Grown(w, "begin") /\ ToRun(w, t, "locked")
             /\ UNCHANGED <<home_wid, lrq, pinned, vi>>
    <3>1. GrownPc(w, "begin")
      BY <1>w, <2>1, <2>3, GrownMoves DEF Placed, TypeInv
    <3>2. /\ UNCHANGED <<state, home_wid, lrq>> /\ IsInjective(grq')
          /\ Range(grq') \subseteq Range(grq)
      BY <2>1, <2>3 DEF ShareOff
    <3>3. \A v \in Workers : IsInjective(lrq'[v])
            /\ Range(lrq'[v]) \subseteq Range(lrq[v])
      BY <3>2 DEF QueueInv
    <3> QED BY <3>2, <3>3, OffKeeps
  <2> QED BY <2>1, <2>2, <2>3
<1>8. ASSUME NEW w \in Helpers, PickOwn(w) PROVE QueueInv'
  <2>1. PICK t \in Threads : t = Head(lrq[w]) /\ Took(w, t) /\ runq_take(w, t)
    BY <1>8, <1>w, TakeHead DEF PickOwn
  <2>2. CountType /\ w \in Workers
    BY <1>w DEF TypeInv
  <2>3. /\ grq' = grq /\ lrq_unstarted' \in Int
        /\ Unstarted(t) => lrq_unstarted' = lrq_unstarted - 1
        /\ ~ Unstarted(t) => lrq_unstarted' = lrq_unstarted
    BY <2>1, <2>2, TakeCounts
  <2>4. UNCHANGED <<state, home_wid>>
    BY <1>8 DEF PickOwn
  <2> QED BY <2>1, <2>2, <2>3, <2>4, TookKeeps
<1>9. ASSUME NEW w \in Helpers, sched_steal(w) PROVE QueueInv'
  <2>1. PICK t \in Threads : /\ Unstarted(t) /\ Took(vi[w], t) /\ runq_take(vi[w], t)
                             /\ Stolen(w, t)
    BY <1>9, StealCases
  <2>2. w \in Workers /\ At(w, "steal") /\ vi[w] <= spawned /\ vi[w] # w
          /\ vi[w] \in Workers
    BY <1>9, StealCases
  <2>3. CountType
    BY DEF TypeInv
  <2>4. /\ grq' = grq /\ lrq_unstarted' \in Int /\ lrq_unstarted' = lrq_unstarted - 1
    BY <2>1, <2>2, <2>3, TakeCounts
  <2>5. UNCHANGED <<state, home_wid>>
    BY <2>1 DEF Stolen
  <2> QED BY <2>1, <2>2, <2>4, <2>5, TookKeeps
<1>10. ASSUME NEW w \in Helpers, RunLocal(w) PROVE QueueInv'
  <2>1. PICK t \in Threads : t = Head(lrq[w]) /\ Took(w, t) /\ runq_take(w, t)
    BY <1>10, <1>w, TakeHead DEF RunLocal
  <2>2. CountType /\ w \in Workers
    BY <1>w DEF TypeInv
  <2>3. /\ grq' = grq /\ lrq_unstarted' \in Int
        /\ Unstarted(t) => lrq_unstarted' = lrq_unstarted - 1
        /\ ~ Unstarted(t) => lrq_unstarted' = lrq_unstarted
    BY <2>1, <2>2, TakeCounts
  <2>4. UNCHANGED <<state, home_wid>>
    BY <1>10 DEF RunLocal
  <2> QED BY <2>1, <2>2, <2>3, <2>4, TookKeeps
<1>11. ASSUME NEW w \in Workers, SpawnLocal(w) PROVE QueueInv'
  <2>1. PICK u \in Threads : /\ state[u] = "NEW" /\ ~ Queued(u) /\ Unstarted(u)
                             /\ state' = Set(state, u, "RUNNABLE") /\ Put(w, u)
    BY <1>11, SpawnLocalCases
  <2>2. /\ At(w, "run") /\ sched = Free /\ sched' = w
        /\ Goto(w, "scan") /\ vi' = Set(vi, w, 1)
        /\ UNCHANGED <<home_wid, poolVars, idleVars, runVars, locked_turn, askVars>>
    BY <1>11 DEF SpawnLocal
  <2>3. grq' = grq /\ lrq_unstarted' = lrq_unstarted + 1
    BY <1>11, SpawnLocalCases
  <2>p. /\ home_wid'[u] \in {-1, w} /\ state'[u] = "RUNNABLE"
        /\ \A x \in Threads : x # u => state'[x] = state[x] /\ home_wid'[x] = home_wid[x]
    BY <1>a, <1>w, <2>1, <2>2, <2>3 DEF RunEnds, Unstarted
  <2>q. /\ \A v \in Workers : u \notin Range(lrq[v])
        /\ u \notin Range(grq') /\ IsInjective(grq') /\ Range(grq') \subseteq Range(grq)
    BY <2>1, <2>2, <2>3 DEF Queued, QueueInv
  <2> QED BY <2>1, <2>2, <2>3, <2>p, <2>q, PutKeeps
<1>12. ASSUME NEW w \in Workers, Begin(w) PROVE QueueInv'
  <2>1. /\ tgt[w] \in Threads /\ tgt[w] # NoThread /\ cur[w] = NoThread
        /\ state[tgt[w]] = "RUNNABLE" /\ ~ Queued(tgt[w])
        /\ home_wid[tgt[w]] \in {-1, w}
    BY <1>12 DEF Begin, At, HandInv, HandAt, TypeInv, RunType
  <2> QED BY <1>12, <1>w, <2>1, <1>a, SMTT(20) DEF Begin, QueueInv, Queued, Unstarted
<1>13. ASSUME NEW w \in Workers, RunParked(w) PROVE QueueInv'
  <2>1. Off(w)
    BY <1>13 DEF RunParked, RunEnds
  <2>2. /\ tgt[w] \in Threads /\ tgt[w] # NoThread /\ cur[w] = NoThread
        /\ state[tgt[w]] = "RUNNING" /\ home_wid[tgt[w]] = w /\ ~ Queued(tgt[w])
    BY <2>1, OffFacts
  <2> QED BY <1>13, <1>w, <2>2, <1>a DEF RunParked, RunEnds, Off, QueueInv, Queued,
             Unstarted
<1>14. ASSUME NEW w \in Workers, RunDied(w) PROVE QueueInv'
  <2>1. Off(w)
    BY <1>14 DEF RunDied, RunEnds
  <2>2. /\ tgt[w] \in Threads /\ tgt[w] # NoThread /\ cur[w] = NoThread
        /\ state[tgt[w]] = "RUNNING" /\ home_wid[tgt[w]] = w /\ ~ Queued(tgt[w])
    BY <2>1, OffFacts
  <2> QED BY <1>14, <1>w, <2>2, <1>a DEF RunDied, RunEnds, Off, QueueInv, Queued,
             Unstarted
<1>15. ASSUME NEW w \in Workers, RunPassed(w) PROVE QueueInv'
  <2>1. /\ Put(w, tgt[w]) /\ grq' = grq /\ lrq_unstarted' = lrq_unstarted
        /\ Off(w) /\ pc[w] = "passed"
    BY <1>15, PassedPuts
  <2>2. /\ tgt[w] \in Threads /\ tgt[w] # NoThread /\ cur[w] = NoThread
        /\ state[tgt[w]] = "RUNNING" /\ home_wid[tgt[w]] = w /\ ~ Queued(tgt[w])
    BY <2>1, OffFacts
  <2>3. /\ RunEnds(w) /\ state' = Set(state, tgt[w], "RUNNABLE") /\ UNCHANGED pinned
    BY <1>15 DEF RunPassed
  <2>p. /\ home_wid'[tgt[w]] \in {-1, w} /\ state'[tgt[w]] = "RUNNABLE"
        /\ \A x \in Threads : x # tgt[w] => state'[x] = state[x]
             /\ home_wid'[x] = home_wid[x]
    BY <1>a, <1>w, <2>1, <2>2, <2>3 DEF RunEnds, Unstarted
  <2>q. /\ \A v \in Workers : tgt[w] \notin Range(lrq[v])
        /\ tgt[w] \notin Range(grq') /\ IsInjective(grq')
             /\ Range(grq') \subseteq Range(grq)
    BY <2>1, <2>2, <2>3 DEF Queued, QueueInv
  <2> QED BY <2>1, <2>2, <2>3, <2>p, <2>q, PutKeeps
<1>16. ASSUME NEW t \in Threads, sched_push_wake(t) PROVE QueueInv'
  <2>1. /\ home_wid[t] \in Workers /\ Put(home_wid[t], t) /\ grq' = grq
        /\ ~ Queued(t) /\ lrq_unstarted' = lrq_unstarted
    BY <1>16, WakePuts
  <2>2. /\ state[t] = "BLOCKED" /\ state' = Set(state, t, "RUNNABLE")
        /\ home_wid[t] = 0 => sched = Free
        /\ signalled' = [signalled EXCEPT ![home_wid[t]] = @ \/ idle[home_wid[t]]]
        /\ UNCHANGED <<home_wid, poolVars, parked, wake_sent, idle, runVars, sched,
                       locked_turn, pc, vi, askVars>>
    BY <1>16 DEF sched_push_wake
  <2>p. /\ home_wid'[t] \in {-1, home_wid[t]} /\ state'[t] = "RUNNABLE"
        /\ \A x \in Threads : x # t => state'[x] = state[x] /\ home_wid'[x] = home_wid[x]
    BY <1>a, <1>w, <2>1, <2>2 DEF RunEnds, Unstarted
  <2>q. /\ \A v \in Workers : t \notin Range(lrq[v])
        /\ t \notin Range(grq') /\ IsInjective(grq') /\ Range(grq') \subseteq Range(grq)
    BY <2>1, <2>2 DEF Queued, QueueInv
  <2> QED BY <2>1, <2>2, <2>p, <2>q, PutKeeps
<1>17. ASSUME MainSpawn PROVE QueueInv'
  <2>1. PICK u \in Threads :
              /\ state[u] = "NEW" /\ ~ Queued(u) /\ state' = Set(state, u, "RUNNABLE")
              /\ \/ (\E b \in Helpers : Placed(0, b, u)) /\ UNCHANGED grq
                 \/ /\ grq' \in Seq(Threads) /\ IsInjective(grq')
                    /\ Range(grq') = Range(grq) \cup {u}
                    /\ Grown(0, "scan") /\ vi' = Set(vi, 0, 1)
                    /\ UNCHANGED <<home_wid, lrq, pinned>>
    BY <1>17, MainSpawnCases
  <2>2. /\ At(0, "code") /\ sched = Free /\ sched' = 0
        /\ UNCHANGED <<idleVars, runVars, locked_turn, askVars, lrq_unstarted, active>>
    BY <1>17, MainSpawnCases
  <2>3. ASSUME NEW b \in Helpers, Placed(0, b, u), UNCHANGED grq PROVE QueueInv'
    <3>1. GrownPc(0, "kick")
      BY <1>w, <2>1, <2>3, GrownMoves DEF Placed, TypeInv
    <3>2. /\ home_wid'[u] \in {-1, b} /\ state'[u] = "RUNNABLE"
          /\ \A x \in Threads : x # u => state'[x] = state[x]
               /\ home_wid'[x] = home_wid[x]
      BY <1>a, <2>1, <2>3 DEF Placed
    <3>3. /\ \A v \in Workers : u \notin Range(lrq[v])
          /\ u \notin Range(grq') /\ IsInjective(grq') /\ Range(grq') \subseteq Range(grq)
          /\ b \in Workers /\ Put(b, u)
      BY <2>1, <2>3 DEF Placed, Queued, QueueInv
    <3> QED BY <3>2, <3>3, PutKeeps
  <2>4. CASE /\ grq' \in Seq(Threads) /\ IsInjective(grq')
             /\ Range(grq') = Range(grq) \cup {u}
             /\ Grown(0, "scan") /\ vi' = Set(vi, 0, 1)
             /\ UNCHANGED <<home_wid, lrq, pinned>>
    <3>1. GrownPc(0, "scan")
      BY <1>w, <2>1, <2>4, GrownMoves DEF Placed, TypeInv
    <3>2. /\ state'[u] = "RUNNABLE" /\ \A x \in Threads : x # u => state'[x] = state[x]
          /\ Unstarted(u) /\ UNCHANGED <<home_wid, lrq>>
      BY <1>a, <2>1, <2>4 DEF StateInv, StateAt
    <3> QED BY <2>1, <2>4, <3>2, ShareKeeps
  <2> QED BY <2>1, <2>3, <2>4
<1>18. ASSUME PumpRun PROVE QueueInv'
  <2>1. /\ At(0, "code") /\ sched = Free /\ sched' = 0 /\ Goto(0, "begin")
        /\ UNCHANGED <<threadVars, poolVars, idleVars, locked_turn, vi, askVars>>
    BY <1>18, PumpRunCases
  <2>2. PICK t \in Threads :
              /\ ToRun(0, t, "locked")
              /\ \/ ShareOff(t) /\ UNCHANGED <<lrq, lrq_unstarted>>
                 \/ Took(0, t) /\ runq_take(0, t)
    BY <1>18, PumpRunCases
  <2>3. CASE ShareOff(t) /\ UNCHANGED <<lrq, lrq_unstarted>>
    <3>1. /\ UNCHANGED <<state, home_wid, lrq>> /\ IsInjective(grq')
          /\ Range(grq') \subseteq Range(grq)
      BY <2>1, <2>3 DEF ShareOff
    <3>2. \A v \in Workers : IsInjective(lrq'[v])
            /\ Range(lrq'[v]) \subseteq Range(lrq[v])
      BY <3>1 DEF QueueInv
    <3> QED BY <3>1, <3>2, OffKeeps
  <2>4. CASE Took(0, t) /\ runq_take(0, t)
    <3>1. CountType
      BY DEF TypeInv
    <3>2. /\ grq' = grq /\ lrq_unstarted' \in Int
          /\ Unstarted(t) => lrq_unstarted' = lrq_unstarted - 1
          /\ ~ Unstarted(t) => lrq_unstarted' = lrq_unstarted
      BY <1>w, <2>4, <3>1, TakeCounts
    <3> QED BY <1>w, <2>1, <2>4, <3>2, TookKeeps
  <2> QED BY <2>2, <2>3, <2>4
<1>u. CASE UNCHANGED vars
  <2>1. UNCHANGED <<grq, lrq, state, home_wid>>
    BY <1>u DEF vars
  <2> QED BY <2>1 DEF QueueInv, Queued, Unstarted
<1> HIDE DEF At, Goto, Set, ToRun, threadVars, queueVars, poolVars, idleVars, runVars,
             askVars
<1> QED BY <1>u, <1>1, <1>2, <1>3, <1>4, <1>5, <1>6, <1>7, <1>8, <1>9, <1>10, <1>11,
           <1>12, <1>13, <1>14, <1>15, <1>16, <1>17, <1>18
     DEF Next, LockedStep, UnlockedStep, CvWakes, ThreadStep, WakeStep, RunStep

\* Every step keeps what workers hold and where threads are.
LEMMA HandStep ==
  ASSUME TypeInv, QueueInv, HandInv, StateInv, ScanInv, PoolPc, Next \/ UNCHANGED vars
  PROVE  HandInv' /\ StateInv'
<1>w. /\ g_worker_cap \in Nat \ {0} /\ NoThread \notin Threads /\ 0 \in Workers
      /\ \A w \in Helpers : w \in Workers /\ w > 0
      /\ \A w \in Workers : w \in Int /\ w >= 0 /\ w <= g_worker_cap
  BY ConstAssumption DEF Helpers, Workers
<1>a. /\ pc \in [Workers -> Pcs]
      /\ cur \in [Workers -> Threads \cup {NoThread}]
           /\ tgt \in [Workers -> Threads \cup {NoThread}]
      /\ state \in [Threads -> {"NEW", "RUNNABLE", "RUNNING", "BLOCKED", "DEAD"}]
      /\ home_wid \in [Threads -> Workers \cup {-1}]
      /\ \A l \in {"none", "code"} \cup {"start", "loop", "pick", "steal", "lidle",
               "ul", "ulr", "relock", "park", "reset", "look", "look2", "look3",
               "sleep", "cv", "lcv", "lback", "up"} : l \in NoHand
      /\ "run" \in BusyPcs /\ "native" \in BusyPcs
      /\ \A l \in {"parked", "ended", "passed"} : l \in OffPcs
      /\ \A l \in {"scan", "scan2", "kick"} : l \in WakePcs
  BY DEF TypeInv, PcType, RunType, ThreadType, NoHand, LoopPcs, IdlePcs, BusyPcs, OffPcs,
     WakePcs
<1>b. ASSUME NEW w \in Workers, pc[w] \in NoHand
      PROVE  cur[w] = NoThread /\ tgt[w] = NoThread
  BY <1>b DEF HandInv, HandAt, NoHand, LoopPcs, IdlePcs, BusyPcs, OffPcs, WakePcs
<1> USE DEF At, Goto, Set, ToRun, threadVars, queueVars, poolVars, idleVars, runVars,
            askVars
<1>1. ASSUME NEW w \in Helpers,
              \/ HelperStarts(w) \/ LoopHead(w) \/ PickSteal(w)
      PROVE  HandInv' /\ StateInv'
  <2>1. UNCHANGED <<state, home_wid, cur, tgt, grq, lrq>>
    BY <1>1 DEF HelperStarts, LoopHead, PickSteal
  <2>2. \A x \in Workers : SameHand(x)
    BY <1>1, <1>w, <1>a DEF HelperStarts, LoopHead, PickSteal, SameHand
  <2> QED BY <2>1, <2>2, SameHandKeeps
<1>2. ASSUME NEW w \in Helpers,
              \/ StealNext(w) \/ StealNone(w) \/ IdleLocked(w)
      PROVE  HandInv' /\ StateInv'
  <2>1. UNCHANGED <<state, home_wid, cur, tgt, grq, lrq>>
    BY <1>2 DEF StealNext, StealNone, IdleLocked
  <2>2. \A x \in Workers : SameHand(x)
    BY <1>2, <1>w, <1>a DEF StealNext, StealNone, IdleLocked, SameHand
  <2> QED BY <2>1, <2>2, SameHandKeeps
<1>3. ASSUME NEW w \in Helpers,
              \/ LockedBack(w) \/ RoundEnds(w) \/ Relock(w)
      PROVE  HandInv' /\ StateInv'
  <2>1. UNCHANGED <<state, home_wid, cur, tgt, grq, lrq>>
    BY <1>3 DEF LockedBack, RoundEnds, Relock
  <2>2. \A x \in Workers : SameHand(x)
    BY <1>3, <1>w, <1>a DEF LockedBack, RoundEnds, Relock, SameHand
  <2> QED BY <2>1, <2>2, SameHandKeeps
<1>4. ASSUME NEW w \in Helpers,
              \/ IdleParks(w) \/ IdleResets(w) \/ IdleLooks(w)
      PROVE  HandInv' /\ StateInv'
  <2>1. UNCHANGED <<state, home_wid, cur, tgt, grq, lrq>>
    BY <1>4 DEF IdleParks, IdleResets, IdleLooks
  <2>2. \A x \in Workers : SameHand(x)
    BY <1>4, <1>w, <1>a DEF IdleParks, IdleResets, IdleLooks, SameHand
  <2> QED BY <2>1, <2>2, SameHandKeeps
<1>5. ASSUME NEW w \in Helpers,
              \/ IdleSleeps(w) \/ IdleUp(w) \/ WokenLocked(w)
      PROVE  HandInv' /\ StateInv'
  <2>1. UNCHANGED <<state, home_wid, cur, tgt, grq, lrq>>
    BY <1>5 DEF IdleSleeps, IdleUp, WokenLocked
  <2>2. \A x \in Workers : SameHand(x)
    BY <1>5, <1>w, <1>a DEF IdleSleeps, IdleUp, WokenLocked, SameHand
  <2> QED BY <2>1, <2>2, SameHandKeeps
<1>6. ASSUME NEW w \in Helpers,
              \/ IdleWakes(w) \/ LocalTurn(w)
      PROVE  HandInv' /\ StateInv'
  <2>1. UNCHANGED <<state, home_wid, cur, tgt, grq, lrq>>
    BY <1>6 DEF IdleWakes, LocalTurn
  <2>2. \A x \in Workers : SameHand(x)
    BY <1>6, <1>w, <1>a DEF IdleWakes, LocalTurn, SameHand
  <2> QED BY <2>1, <2>2, SameHandKeeps
<1>7. ASSUME NEW w \in Workers,
              \/ EnterNative(w) \/ LeaveNative(w) \/ Retire(w)
      PROVE  HandInv' /\ StateInv'
  <2>1. UNCHANGED <<state, home_wid, cur, tgt, grq, lrq>>
    BY <1>7 DEF EnterNative, LeaveNative, Retire, Consume, Off
  <2>2. \A x \in Workers : SameHand(x)
    BY <1>7, <1>w, <1>a DEF EnterNative, LeaveNative, Retire, Consume, Off, SameHand
  <2> QED BY <2>1, <2>2, SameHandKeeps
<1>8. ASSUME NEW w \in Workers, MonitorReads(w) PROVE HandInv' /\ StateInv'
  <2>1. UNCHANGED <<state, home_wid, cur, tgt, grq, lrq>>
    BY <1>8 DEF MonitorReads
  <2>2. \A x \in Workers : SameHand(x)
    BY <1>8, <1>w, <1>a DEF MonitorReads, SameHand
  <2> QED BY <2>1, <2>2, SameHandKeeps
<1>9. ASSUME 
              \/ PreemptAsks \/ PreemptLooks
      PROVE  HandInv' /\ StateInv'
  <2>1. UNCHANGED <<state, home_wid, cur, tgt, grq, lrq>>
    BY <1>9 DEF PreemptAsks, PreemptLooks
  <2>2. \A x \in Workers : SameHand(x)
    BY <1>9, <1>w, <1>a DEF PreemptAsks, PreemptLooks, SameHand
  <2> QED BY <2>1, <2>2, SameHandKeeps
<1>10. ASSUME NEW w \in Helpers, PickPlace(w) PROVE HandInv' /\ StateInv'
  <2>1. PICK t \in Threads :
        /\ w \in Workers /\ At(w, "pick") /\ ShareOff(t)
        /\ UNCHANGED <<state, idleVars, sched, locked_turn, askVars, cur,
                       lrq_unstarted, active>>
        /\ \/ (\E b \in Helpers : Placed(w, b, t)) /\ UNCHANGED runVars
           \/ /\ Grown(w, "begin") /\ ToRun(w, t, "locked")
              /\ UNCHANGED <<home_wid, lrq, pinned, vi>>
    BY <1>10, PickPlaceCases DEF ShareOff
  <2>2. ASSUME NEW b \in Helpers, Placed(w, b, t), UNCHANGED runVars
        PROVE  HandInv' /\ StateInv'
    <3>1. GrownPc(w, "kick")
      BY <1>w, <2>1, <2>2, GrownMoves DEF Placed, TypeInv
    <3>2. Queued(t) /\ state[t] = "RUNNABLE"
      BY <2>1 DEF ShareOff, Queued, QueueInv
    <3>5. /\ t \in Threads /\ w \in Workers /\ cur' = cur /\ tgt' = tgt
          /\ state'[t] = "RUNNABLE"
          /\ \A z \in Threads : z # t => state'[z] = state[z]
               /\ home_wid'[z] = home_wid[z]
      BY <2>1, <2>2, <3>2, <1>w, <1>a DEF ShareOff, Placed
    <3>6. Queued(t)' /\ \A z : z # t => (Queued(z)' <=> Queued(z))
      BY <2>1, <2>2, PlacedQueued DEF ShareOff, Placed
    <3>7. \A x \in Workers : cur[x] # t /\ tgt[x] # t
      BY <2>1, <2>2, <3>2, <3>5, NotHeld
    <3>8. /\ HandAt(w)' /\ OthersKeep(w) /\ ThreadsKeep(t) /\ Alone(w, t) /\ LetsGo(w, t)
      <4>1. cur[w] = NoThread /\ tgt[w] = NoThread /\ pc[w] # "none"
        BY <2>1, <2>2, <3>2, <3>5, <1>a, <1>b
      <4>2. pc'[w] \notin {"begin"} \cup BusyPcs \cup OffPcs
        BY <3>1 DEF GrownPc, BusyPcs, OffPcs
      <4>3. HandAt(w)'
        BY <3>5, <4>1, <4>2, HandNone
      <4>4. \A x \in Workers : x # w => pc'[x] = pc[x]
              \/ (pc[x] = "none" /\ pc'[x] = "start")
        BY <1>w, <3>1, <3>5 DEF GrownPc, PoolPc, TypeInv, CountType
      <4> QED BY <1>w, <3>5, <3>6, <3>7, <4>1, <4>3, <4>4 DEF OthersKeep, ThreadsKeep,
                 Alone, LetsGo
    <3>9. StateAt(t)'
      BY <3>5, <3>6 DEF StateAt
    <3> QED BY <3>5, <3>8, <3>9, MoveKeeps
  <2>3. CASE /\ Grown(w, "begin") /\ ToRun(w, t, "locked")
             /\ UNCHANGED <<home_wid, lrq, pinned, vi>>
    <3>1. GrownPc(w, "begin")
      BY <1>w, <2>1, <2>3, GrownMoves DEF Placed, TypeInv
    <3>5. /\ UNCHANGED <<state, home_wid>> /\ pc[w] \in NoHand /\ w \in Workers
               /\ t \in Threads
          /\ pc'[w] = "begin" /\ tgt'[w] = t /\ cur' = cur
          /\ \A x \in Workers : x # w => tgt'[x] = tgt[x]
      BY <2>1, <2>3, <3>1, <1>w, <1>a DEF GrownPc, ShareOff
    <3>6. Queued(t) /\ ~ Queued(t)' /\ \A u : u # t => (Queued(u)' <=> Queued(u))
      BY <2>1, <2>3, ShareOffQueued DEF ShareOff
    <3>7. /\ cur[w] = NoThread /\ tgt[w] = NoThread
        /\ state[t] = "RUNNABLE" /\ home_wid[t] \in {-1, w} /\ t # NoThread
      BY <2>1, <2>3, <3>5, <3>6, <1>w, <1>b, QueuedHome DEF Took, ShareOff
    <3>12. \A x \in Workers : cur[x] # t /\ tgt[x] # t
      BY <3>5, <3>6, NotHeld
    <3>8. HandAt(w)'
      BY <3>5, <3>6, <3>7, HandBegin
    <3>9. StateAt(t)'
      BY <3>5, <3>6, <3>7 DEF StateAt
    <3>11. \A x \in Workers : x # w => pc'[x] = pc[x]
             \/ (pc[x] = "none" /\ pc'[x] = "start")
      BY <1>w, <3>1 DEF GrownPc, PoolPc, TypeInv, CountType
    <3>10. OthersKeep(w) /\ ThreadsKeep(t) /\ Alone(w, t) /\ LetsGo(w, t)
      BY <3>5, <3>6, <3>7, <3>12, <3>11, <1>w DEF OthersKeep, ThreadsKeep, Alone, LetsGo
    <3> QED BY <3>5, <3>8, <3>9, <3>10, MoveKeeps
  <2> QED BY <2>1, <2>2, <2>3
<1>11. ASSUME NEW w \in Helpers, PickOwn(w) PROVE HandInv' /\ StateInv'
  <2>1. PICK t \in Threads : t = Head(lrq[w]) /\ Took(w, t) /\ runq_take(w, t)
    BY <1>11, <1>w, TakeHead DEF PickOwn
  <2>2. CountType /\ w \in Workers
    BY <1>w DEF TypeInv
  <2>3. /\ grq' = grq /\ lrq_unstarted' \in Int
        /\ Unstarted(t) => lrq_unstarted' = lrq_unstarted - 1
        /\ ~ Unstarted(t) => lrq_unstarted' = lrq_unstarted
    BY <2>1, <2>2, TakeCounts
  <2>5. /\ UNCHANGED <<state, home_wid>> /\ pc[w] \in NoHand /\ w \in Workers
             /\ t \in Threads
        /\ pc'[w] = "begin" /\ tgt'[w] = t /\ cur' = cur
        /\ \A x \in Workers : x # w => pc'[x] = pc[x] /\ tgt'[x] = tgt[x]
    BY <1>11, <2>1, <1>w, <1>a DEF PickOwn
  <2>6. Queued(t) /\ ~ Queued(t)' /\ \A u : u # t => (Queued(u)' <=> Queued(u))
    BY <1>w, <2>1, <2>2, <2>3, TookQueued
  <2>7. /\ cur[w] = NoThread /\ tgt[w] = NoThread
      /\ state[t] = "RUNNABLE" /\ home_wid[t] \in {-1, w} /\ t # NoThread
    BY <1>11, <2>1, <2>5, <2>6, <1>w, <1>b, QueuedHome DEF Took, ShareOff
  <2>12. \A x \in Workers : cur[x] # t /\ tgt[x] # t
    BY <2>5, <2>6, NotHeld
  <2>8. HandAt(w)'
    BY <2>5, <2>6, <2>7, HandBegin
  <2>9. StateAt(t)'
    BY <2>5, <2>6, <2>7 DEF StateAt
  <2>10. OthersKeep(w) /\ ThreadsKeep(t) /\ Alone(w, t) /\ LetsGo(w, t)
    BY <2>5, <2>6, <2>7, <2>12, <1>w DEF OthersKeep, ThreadsKeep, Alone, LetsGo
  <2> QED BY <2>5, <2>8, <2>9, <2>10, MoveKeeps
<1>12. ASSUME NEW w \in Helpers, sched_steal(w) PROVE HandInv' /\ StateInv'
  <2>1. PICK t \in Threads : /\ Unstarted(t) /\ Took(vi[w], t) /\ runq_take(vi[w], t)
                             /\ Stolen(w, t)
    BY <1>12, StealCases
  <2>2. w \in Workers /\ At(w, "steal") /\ vi[w] <= spawned /\ vi[w] # w
          /\ vi[w] \in Workers
    BY <1>12, StealCases
  <2>3. CountType
    BY DEF TypeInv
  <2>4. /\ grq' = grq /\ lrq_unstarted' \in Int /\ lrq_unstarted' = lrq_unstarted - 1
    BY <2>1, <2>2, <2>3, TakeCounts
  <2>5. /\ UNCHANGED <<state, home_wid>> /\ pc[w] \in NoHand /\ w \in Workers
             /\ t \in Threads
        /\ pc'[w] = "begin" /\ tgt'[w] = t /\ cur' = cur
        /\ \A x \in Workers : x # w => pc'[x] = pc[x] /\ tgt'[x] = tgt[x]
    BY <2>1, <2>2, <1>w, <1>a DEF Stolen
  <2>6. Queued(t) /\ ~ Queued(t)' /\ \A u : u # t => (Queued(u)' <=> Queued(u))
    BY <2>1, <2>2, <2>4, TookQueued
  <2>7. /\ cur[w] = NoThread /\ tgt[w] = NoThread
      /\ state[t] = "RUNNABLE" /\ home_wid[t] \in {-1, w} /\ t # NoThread
    BY <2>1, <2>2, <2>5, <2>6, <1>w, <1>b, QueuedHome DEF Took, ShareOff
  <2>12. \A x \in Workers : cur[x] # t /\ tgt[x] # t
    BY <2>5, <2>6, NotHeld
  <2>8. HandAt(w)'
    BY <2>5, <2>6, <2>7, HandBegin
  <2>9. StateAt(t)'
    BY <2>5, <2>6, <2>7 DEF StateAt
  <2>10. OthersKeep(w) /\ ThreadsKeep(t) /\ Alone(w, t) /\ LetsGo(w, t)
    BY <2>5, <2>6, <2>7, <2>12, <1>w DEF OthersKeep, ThreadsKeep, Alone, LetsGo
  <2> QED BY <2>5, <2>8, <2>9, <2>10, MoveKeeps
<1>13. ASSUME NEW w \in Helpers, RunLocal(w) PROVE HandInv' /\ StateInv'
  <2>1. PICK t \in Threads : t = Head(lrq[w]) /\ Took(w, t) /\ runq_take(w, t)
    BY <1>13, <1>w, TakeHead DEF RunLocal
  <2>2. CountType /\ w \in Workers
    BY <1>w DEF TypeInv
  <2>3. /\ grq' = grq /\ lrq_unstarted' \in Int
        /\ Unstarted(t) => lrq_unstarted' = lrq_unstarted - 1
        /\ ~ Unstarted(t) => lrq_unstarted' = lrq_unstarted
    BY <2>1, <2>2, TakeCounts
  <2>5. /\ UNCHANGED <<state, home_wid>> /\ pc[w] \in NoHand /\ w \in Workers
             /\ t \in Threads
        /\ pc'[w] = "begin" /\ tgt'[w] = t /\ cur' = cur
        /\ \A x \in Workers : x # w => pc'[x] = pc[x] /\ tgt'[x] = tgt[x]
    BY <1>13, <2>1, <1>w, <1>a DEF RunLocal
  <2>6. Queued(t) /\ ~ Queued(t)' /\ \A u : u # t => (Queued(u)' <=> Queued(u))
    BY <1>w, <2>1, <2>2, <2>3, TookQueued
  <2>7. /\ cur[w] = NoThread /\ tgt[w] = NoThread
      /\ state[t] = "RUNNABLE" /\ home_wid[t] \in {-1, w} /\ t # NoThread
    BY <1>13, <2>1, <2>5, <2>6, <1>w, <1>b, QueuedHome DEF Took, ShareOff
  <2>12. \A x \in Workers : cur[x] # t /\ tgt[x] # t
    BY <2>5, <2>6, NotHeld
  <2>8. HandAt(w)'
    BY <2>5, <2>6, <2>7, HandBegin
  <2>9. StateAt(t)'
    BY <2>5, <2>6, <2>7 DEF StateAt
  <2>10. OthersKeep(w) /\ ThreadsKeep(t) /\ Alone(w, t) /\ LetsGo(w, t)
    BY <2>5, <2>6, <2>7, <2>12, <1>w DEF OthersKeep, ThreadsKeep, Alone, LetsGo
  <2> QED BY <2>5, <2>8, <2>9, <2>10, MoveKeeps
<1>14. ASSUME NEW w \in Workers, SwitchOut(w) PROVE HandInv' /\ StateInv'
  <2>1. UNCHANGED <<state, home_wid, cur, tgt, grq, lrq>>
    BY <1>14 DEF SwitchOut
  <2>2. \A x \in Workers : SameHand(x)
    BY <1>14, <1>w, <1>a DEF SwitchOut, SameHand
  <2> QED BY <2>1, <2>2, SameHandKeeps
<1>15. ASSUME NEW w \in Workers, sp_safepoint_preempt(w) PROVE HandInv' /\ StateInv'
  <2>1. UNCHANGED <<state, home_wid, cur, tgt, grq, lrq>>
    BY <1>15 DEF sp_safepoint_preempt, Consume
  <2>2. \A x \in Workers : SameHand(x)
    BY <1>15, <1>w, <1>a DEF sp_safepoint_preempt, Consume, SameHand
  <2> QED BY <2>1, <2>2, SameHandKeeps
<1>16. ASSUME NEW w \in Workers, SpawnLocal(w) PROVE HandInv' /\ StateInv'
  <2>1. PICK u \in Threads : /\ state[u] = "NEW" /\ ~ Queued(u) /\ Unstarted(u)
                             /\ state' = Set(state, u, "RUNNABLE") /\ Put(w, u)
    BY <1>16, SpawnLocalCases
  <2>2. /\ At(w, "run") /\ sched = Free /\ sched' = w
        /\ Goto(w, "scan") /\ vi' = Set(vi, w, 1)
        /\ UNCHANGED <<home_wid, poolVars, idleVars, runVars, locked_turn, askVars>>
    BY <1>16 DEF SpawnLocal
  <2>3. grq' = grq /\ lrq_unstarted' = lrq_unstarted + 1
    BY <1>16, SpawnLocalCases
  <2>4. /\ w \in Workers /\ cur' = cur /\ tgt' = tgt /\ state'[u] = "RUNNABLE"
        /\ \A x \in Threads : x # u => state'[x] = state[x] /\ home_wid'[x] = home_wid[x]
        /\ pc'[w] = "scan" /\ \A x \in Workers : x # w => pc'[x] = pc[x]
    BY <2>1, <2>2, <1>a
  <2>5. \A x : Queued(x)' <=> Queued(x) \/ x = u
    BY <2>1, <2>3, PutQueued
  <2>6. \A x \in Workers : cur[x] # u /\ tgt[x] # u
    BY <2>1, NotHeld
  <2>7. /\ cur[w] # NoThread /\ tgt[w] = NoThread /\ cur[w] \in Threads
        /\ state[cur[w]] = "RUNNING" /\ home_wid[cur[w]] = w
    BY <2>2, <1>a DEF HandInv, HandAt, BusyPcs
  <2>8. HandAt(w)'
    <3>1. state'[cur[w]] = "RUNNING" /\ home_wid'[cur[w]] = w
      BY <2>4, <2>6, <2>7
    <3> QED BY <1>a, <2>4, <2>7, <3>1, HandRuns
  <2>9. StateAt(u)'
    BY <2>4, <2>5 DEF StateAt
  <2>10. OthersKeep(w) /\ ThreadsKeep(u) /\ Alone(w, u) /\ LetsGo(w, u)
    BY <1>w, <2>4, <2>5, <2>6, <2>7 DEF OthersKeep, ThreadsKeep, Alone, LetsGo
  <2> QED BY <2>8, <2>9, <2>10, MoveKeeps
<1>17. ASSUME NEW w \in Workers, ScanParked(w) PROVE HandInv' /\ StateInv'
  <2>1. UNCHANGED <<state, home_wid, cur, tgt, grq, lrq>>
    BY <1>17 DEF ScanParked
  <2>2. \A x \in Workers : SameHand(x)
    BY <1>17, <1>w, <1>a DEF ScanParked, SameHand
  <2> QED BY <2>1, <2>2, SameHandKeeps
<1>18. ASSUME NEW w \in Workers, ScanIdle(w) PROVE HandInv' /\ StateInv'
  <2>1. UNCHANGED <<state, home_wid, cur, tgt, grq, lrq>>
    BY <1>18 DEF ScanIdle, WakeDone
  <2>2. \A x \in Workers : SameHand(x)
    BY <1>18, <1>w, <1>a DEF ScanIdle, WakeDone, SameHand
  <2> QED BY <2>1, <2>2, SameHandKeeps
<1>19. ASSUME NEW w \in Workers, sched_kick_worker(w) PROVE HandInv' /\ StateInv'
  <2>1. UNCHANGED <<state, home_wid, cur, tgt, grq, lrq>>
    BY <1>19 DEF sched_kick_worker, WakeDone
  <2>2. \A x \in Workers : SameHand(x)
    BY <1>19, <1>w, <1>a DEF sched_kick_worker, WakeDone, SameHand
  <2> QED BY <2>1, <2>2, SameHandKeeps
<1>20. ASSUME NEW w \in Workers, Begin(w) PROVE HandInv' /\ StateInv'
  <2>1. /\ tgt[w] \in Threads /\ tgt[w] # NoThread /\ cur[w] = NoThread
        /\ state[tgt[w]] = "RUNNABLE" /\ ~ Queued(tgt[w])
        /\ home_wid[tgt[w]] \in {-1, w}
    BY <1>20 DEF Begin, At, HandInv, HandAt, TypeInv, RunType
  <2>0. PICK t \in Threads : t = tgt[w]
    BY <2>1
  <2>5. /\ t # NoThread /\ (cur[w] = t \/ tgt[w] = t)
        /\ (cur[w] = t \/ cur[w] = NoThread) /\ (tgt[w] = t \/ tgt[w] = NoThread)
        /\ \A x \in Workers : x # w => pc'[x] = pc[x] /\ cur'[x] = cur[x]
             /\ tgt'[x] = tgt[x]
        /\ \A u \in Threads : u # t => state'[u] = state[u] /\ home_wid'[u] = home_wid[u]
    BY <1>20, <1>w, <1>a, <2>0, <2>1 DEF Begin
  <2>6. /\ pc'[w] = "run" /\ cur'[w] = t /\ tgt'[w] = NoThread
        /\ state'[t] = "RUNNING" /\ home_wid'[t] = w
    BY <1>20, <1>w, <1>a, <2>0, <2>1 DEF Begin, Unstarted
  <2>7. \A u : Queued(u)' <=> Queued(u)
    BY <1>20 DEF Begin, Queued
  <2>8. HandAt(w)'
    BY <1>a, <2>5, <2>6, <2>7, HandRuns
  <2>9. StateAt(t)'
    BY <1>w, <1>a, <2>5, <2>6, <2>7 DEF StateAt, Unstarted
  <2>10. Alone(w, t)
    BY <2>5, HeldOnce
  <2>11. OthersKeep(w) /\ ThreadsKeep(t) /\ LetsGo(w, t)
    BY <1>w, <2>5, <2>6, <2>7 DEF OthersKeep, ThreadsKeep, LetsGo
  <2> QED BY <2>5, <2>8, <2>9, <2>10, <2>11, MoveKeeps
<1>21. ASSUME NEW w \in Workers, ClearCur(w) PROVE HandInv' /\ StateInv'
  <2>1. cur[w] \in Threads /\ cur[w] # NoThread
    BY <1>21 DEF ClearCur, At, HandInv, HandAt, TypeInv, RunType, OffPcs
  <2>2. /\ tgt[w] = NoThread /\ state[cur[w]] = "RUNNING" /\ home_wid[cur[w]] = w
        /\ pc[w] \in OffPcs
    BY <1>21, <1>a, <2>1 DEF ClearCur, HandInv, HandAt
  <2>0. PICK t \in Threads : t = cur[w]
    BY <2>1, <2>2
  <2>5. /\ t # NoThread /\ (cur[w] = t \/ tgt[w] = t)
        /\ (cur[w] = t \/ cur[w] = NoThread) /\ (tgt[w] = t \/ tgt[w] = NoThread)
        /\ \A x \in Workers : x # w => pc'[x] = pc[x] /\ cur'[x] = cur[x]
             /\ tgt'[x] = tgt[x]
        /\ \A u \in Threads : u # t => state'[u] = state[u] /\ home_wid'[u] = home_wid[u]
    BY <1>21, <1>w, <1>a, <2>0, <2>1, <2>2 DEF ClearCur
  <2>6. /\ pc'[w] \in OffPcs /\ cur'[w] = NoThread /\ tgt'[w] = t
        /\ state'[t] = "RUNNING" /\ home_wid'[t] = w
    BY <1>21, <1>w, <1>a, <2>0, <2>1, <2>2 DEF ClearCur, Unstarted
  <2>7. \A u : Queued(u)' <=> Queued(u)
    BY <1>21 DEF ClearCur, Queued
  <2>8. HandAt(w)'
    BY <1>a, <2>5, <2>6, <2>7, HandOff
  <2>9. StateAt(t)'
    BY <1>w, <1>a, <2>5, <2>6, <2>7 DEF StateAt, Unstarted
  <2>10. Alone(w, t)
    BY <2>5, HeldOnce
  <2>11. OthersKeep(w) /\ ThreadsKeep(t) /\ LetsGo(w, t)
    BY <1>w, <2>5, <2>6, <2>7 DEF OthersKeep, ThreadsKeep, LetsGo
  <2> QED BY <2>5, <2>8, <2>9, <2>10, <2>11, MoveKeeps
<1>22. ASSUME NEW w \in Workers, RunParked(w) PROVE HandInv' /\ StateInv'
  <2>1. Off(w)
    BY <1>22 DEF RunParked, RunEnds
  <2>2. /\ tgt[w] \in Threads /\ tgt[w] # NoThread /\ cur[w] = NoThread
        /\ state[tgt[w]] = "RUNNING" /\ home_wid[tgt[w]] = w /\ ~ Queued(tgt[w])
    BY <2>1, OffFacts
  <2>0. PICK t \in Threads : t = tgt[w]
    BY <2>1, <2>2
  <2>5. /\ t # NoThread /\ (cur[w] = t \/ tgt[w] = t)
        /\ (cur[w] = t \/ cur[w] = NoThread) /\ (tgt[w] = t \/ tgt[w] = NoThread)
        /\ \A x \in Workers : x # w => pc'[x] = pc[x] /\ cur'[x] = cur[x]
             /\ tgt'[x] = tgt[x]
        /\ \A u \in Threads : u # t => state'[u] = state[u] /\ home_wid'[u] = home_wid[u]
    BY <1>22, <1>w, <1>a, <2>0, <2>1, <2>2 DEF RunParked, RunEnds, Off
  <2>6. /\ pc'[w] \notin {"begin"} \cup BusyPcs \cup OffPcs
        /\ cur'[w] = NoThread /\ tgt'[w] = NoThread
        /\ state'[t] = "BLOCKED" /\ home_wid'[t] = w
    BY <1>22, <1>w, <1>a, <2>0, <2>1, <2>2 DEF RunParked, RunEnds, Off, BusyPcs, OffPcs
  <2>7. \A u : Queued(u)' <=> Queued(u)
    BY <1>22 DEF RunParked, RunEnds, Off, Queued
  <2>8. HandAt(w)'
    BY <1>a, <2>5, <2>6, <2>7, HandNone
  <2>9. StateAt(t)'
    BY <1>w, <1>a, <2>5, <2>6, <2>7 DEF StateAt, Unstarted
  <2>10. Alone(w, t)
    BY <2>5, HeldOnce
  <2>11. OthersKeep(w) /\ ThreadsKeep(t) /\ LetsGo(w, t)
    BY <1>w, <2>5, <2>6, <2>7 DEF OthersKeep, ThreadsKeep, LetsGo
  <2> QED BY <2>5, <2>8, <2>9, <2>10, <2>11, MoveKeeps
<1>23. ASSUME NEW w \in Workers, RunDied(w) PROVE HandInv' /\ StateInv'
  <2>1. Off(w)
    BY <1>23 DEF RunDied, RunEnds
  <2>2. /\ tgt[w] \in Threads /\ tgt[w] # NoThread /\ cur[w] = NoThread
        /\ state[tgt[w]] = "RUNNING" /\ home_wid[tgt[w]] = w /\ ~ Queued(tgt[w])
    BY <2>1, OffFacts
  <2>0. PICK t \in Threads : t = tgt[w]
    BY <2>1, <2>2
  <2>5. /\ t # NoThread /\ (cur[w] = t \/ tgt[w] = t)
        /\ (cur[w] = t \/ cur[w] = NoThread) /\ (tgt[w] = t \/ tgt[w] = NoThread)
        /\ \A x \in Workers : x # w => pc'[x] = pc[x] /\ cur'[x] = cur[x]
             /\ tgt'[x] = tgt[x]
        /\ \A u \in Threads : u # t => state'[u] = state[u] /\ home_wid'[u] = home_wid[u]
    BY <1>23, <1>w, <1>a, <2>0, <2>1, <2>2 DEF RunDied, RunEnds, Off
  <2>6. /\ pc'[w] \notin {"begin"} \cup BusyPcs \cup OffPcs
        /\ cur'[w] = NoThread /\ tgt'[w] = NoThread
        /\ state'[t] = "DEAD" /\ home_wid'[t] = w
    BY <1>23, <1>w, <1>a, <2>0, <2>1, <2>2 DEF RunDied, RunEnds, Off, BusyPcs, OffPcs
  <2>7. \A u : Queued(u)' <=> Queued(u)
    BY <1>23 DEF RunDied, RunEnds, Off, Queued
  <2>8. HandAt(w)'
    BY <1>a, <2>5, <2>6, <2>7, HandNone
  <2>9. StateAt(t)'
    BY <1>w, <1>a, <2>5, <2>6, <2>7 DEF StateAt, Unstarted
  <2>10. Alone(w, t)
    BY <2>5, HeldOnce
  <2>11. OthersKeep(w) /\ ThreadsKeep(t) /\ LetsGo(w, t)
    BY <1>w, <2>5, <2>6, <2>7 DEF OthersKeep, ThreadsKeep, LetsGo
  <2> QED BY <2>5, <2>8, <2>9, <2>10, <2>11, MoveKeeps
<1>24. ASSUME NEW w \in Workers, RunPassed(w) PROVE HandInv' /\ StateInv'
  <2>1. /\ Put(w, tgt[w]) /\ grq' = grq /\ lrq_unstarted' = lrq_unstarted
        /\ Off(w) /\ pc[w] = "passed"
    BY <1>24, PassedPuts
  <2>2. /\ tgt[w] \in Threads /\ tgt[w] # NoThread /\ cur[w] = NoThread
        /\ state[tgt[w]] = "RUNNING" /\ home_wid[tgt[w]] = w /\ ~ Queued(tgt[w])
    BY <2>1, OffFacts
  <2>3. /\ RunEnds(w) /\ state' = Set(state, tgt[w], "RUNNABLE") /\ UNCHANGED pinned
    BY <1>24 DEF RunPassed
  <2>0. PICK t \in Threads : t = tgt[w]
    BY <2>1, <2>2, <2>3
  <2>5. /\ t # NoThread /\ (cur[w] = t \/ tgt[w] = t)
        /\ (cur[w] = t \/ cur[w] = NoThread) /\ (tgt[w] = t \/ tgt[w] = NoThread)
        /\ \A x \in Workers : x # w => pc'[x] = pc[x] /\ cur'[x] = cur[x]
             /\ tgt'[x] = tgt[x]
        /\ \A u \in Threads : u # t => state'[u] = state[u] /\ home_wid'[u] = home_wid[u]
    BY <1>24, <1>w, <1>a, <2>0, <2>1, <2>2, <2>3 DEF RunPassed, RunEnds, Off
  <2>6. /\ pc'[w] \notin {"begin"} \cup BusyPcs \cup OffPcs
        /\ cur'[w] = NoThread /\ tgt'[w] = NoThread
        /\ state'[t] = "RUNNABLE" /\ home_wid'[t] = w
    BY <1>24, <1>w, <1>a, <2>0, <2>1, <2>2, <2>3 DEF RunPassed, RunEnds, Off, BusyPcs,
       OffPcs
  <2>7. \A u : Queued(u)' <=> Queued(u) \/ u = t
    BY <2>0, <2>1, <2>2, PutQueued
  <2>8. HandAt(w)'
    BY <1>a, <2>5, <2>6, <2>7, HandNone
  <2>9. StateAt(t)'
    BY <1>w, <1>a, <2>5, <2>6, <2>7 DEF StateAt, Unstarted
  <2>10. Alone(w, t)
    BY <2>5, HeldOnce
  <2>11. OthersKeep(w) /\ ThreadsKeep(t) /\ LetsGo(w, t)
    BY <1>w, <2>5, <2>6, <2>7 DEF OthersKeep, ThreadsKeep, LetsGo
  <2> QED BY <2>5, <2>8, <2>9, <2>10, <2>11, MoveKeeps
<1>25. ASSUME NEW t \in Threads, sched_push_wake(t) PROVE HandInv' /\ StateInv'
  <2>1. /\ home_wid[t] \in Workers /\ Put(home_wid[t], t) /\ grq' = grq
        /\ ~ Queued(t) /\ lrq_unstarted' = lrq_unstarted
    BY <1>25, WakePuts
  <2>2. /\ state[t] = "BLOCKED" /\ state' = Set(state, t, "RUNNABLE")
        /\ home_wid[t] = 0 => sched = Free
        /\ signalled' = [signalled EXCEPT ![home_wid[t]] = @ \/ idle[home_wid[t]]]
        /\ UNCHANGED <<home_wid, poolVars, parked, wake_sent, idle, runVars, sched,
                       locked_turn, pc, vi, askVars>>
    BY <1>25 DEF sched_push_wake
  <2>3. /\ UNCHANGED <<pc, cur, tgt, home_wid>> /\ state'[t] = "RUNNABLE"
        /\ \A x \in Threads : x # t => state'[x] = state[x]
    BY <2>2, <1>a
  <2>4. \A x : Queued(x)' <=> Queued(x) \/ x = t
    BY <2>1, PutQueued
  <2>5. \A x \in Workers : cur[x] # t /\ tgt[x] # t
    BY <2>2, NotHeld
  <2>6. HandAt(0)'
    <3>1. HandAt(0) /\ cur[0] \in Threads \cup {NoThread}
            /\ tgt[0] \in Threads \cup {NoThread}
      BY <1>w, <1>a DEF HandInv
    <3>2. /\ tgt[0] # NoThread => state'[tgt[0]] = state[tgt[0]]
               /\ (Queued(tgt[0])' => Queued(tgt[0]))
          /\ cur[0] # NoThread => state'[cur[0]] = state[cur[0]]
      BY <1>w, <2>3, <2>4, <2>5, <3>1
    <3> QED BY <2>3, <3>1, <3>2, HandFrame
  <2>7. StateAt(t)'
    BY <2>3, <2>4 DEF StateAt
  <2>8. OthersKeep(0) /\ ThreadsKeep(t) /\ Alone(0, t) /\ LetsGo(0, t)
    BY <1>w, <2>3, <2>4, <2>5 DEF OthersKeep, ThreadsKeep, Alone, LetsGo
  <2> QED BY <1>w, <2>6, <2>7, <2>8, MoveKeeps
<1>26. ASSUME MainSpawn PROVE HandInv' /\ StateInv'
  <2>1. PICK u \in Threads :
              /\ state[u] = "NEW" /\ ~ Queued(u) /\ state' = Set(state, u, "RUNNABLE")
              /\ \/ (\E b \in Helpers : Placed(0, b, u)) /\ UNCHANGED grq
                 \/ /\ grq' \in Seq(Threads) /\ IsInjective(grq')
                    /\ Range(grq') = Range(grq) \cup {u}
                    /\ Grown(0, "scan") /\ vi' = Set(vi, 0, 1)
                    /\ UNCHANGED <<home_wid, lrq, pinned>>
    BY <1>26, MainSpawnCases
  <2>2. /\ At(0, "code") /\ sched = Free /\ sched' = 0
        /\ UNCHANGED <<idleVars, runVars, locked_turn, askVars, lrq_unstarted, active>>
    BY <1>26, MainSpawnCases
  <2>3. ASSUME NEW b \in Helpers, Placed(0, b, u), UNCHANGED grq
        PROVE  HandInv' /\ StateInv'
    <3>1. GrownPc(0, "kick")
      BY <1>w, <2>1, <2>3, GrownMoves DEF Placed, TypeInv
    <3>5. /\ u \in Threads /\ 0 \in Workers /\ cur' = cur /\ tgt' = tgt
          /\ state'[u] = "RUNNABLE"
          /\ \A z \in Threads : z # u => state'[z] = state[z]
               /\ home_wid'[z] = home_wid[z]
      BY <2>1, <2>2, <2>3, <1>w, <1>a DEF Placed
    <3>6. Queued(u)' /\ \A z : z # u => (Queued(z)' <=> Queued(z))
      BY <2>1, <2>3, PutQueued DEF Placed
    <3>7. \A x \in Workers : cur[x] # u /\ tgt[x] # u
      BY <2>1, <2>2, <2>3, <3>5, NotHeld
    <3>8. /\ HandAt(0)' /\ OthersKeep(0) /\ ThreadsKeep(u) /\ Alone(0, u) /\ LetsGo(0, u)
      <4>1. cur[0] = NoThread /\ tgt[0] = NoThread /\ pc[0] # "none"
        BY <2>1, <2>2, <2>3, <3>5, <1>a, <1>b
      <4>2. pc'[0] \notin {"begin"} \cup BusyPcs \cup OffPcs
        BY <3>1 DEF GrownPc, BusyPcs, OffPcs
      <4>3. HandAt(0)'
        BY <3>5, <4>1, <4>2, HandNone
      <4>4. \A x \in Workers : x # 0 => pc'[x] = pc[x]
              \/ (pc[x] = "none" /\ pc'[x] = "start")
        BY <1>w, <3>1, <3>5 DEF GrownPc, PoolPc, TypeInv, CountType
      <4> QED BY <1>w, <3>5, <3>6, <3>7, <4>1, <4>3, <4>4 DEF OthersKeep, ThreadsKeep,
                 Alone, LetsGo
    <3>9. StateAt(u)'
      BY <3>5, <3>6 DEF StateAt
    <3> QED BY <3>5, <3>8, <3>9, MoveKeeps
  <2>4. CASE /\ grq' \in Seq(Threads) /\ IsInjective(grq')
             /\ Range(grq') = Range(grq) \cup {u}
             /\ Grown(0, "scan") /\ vi' = Set(vi, 0, 1)
             /\ UNCHANGED <<home_wid, lrq, pinned>>
    <3>1. GrownPc(0, "scan")
      BY <1>w, <2>1, <2>4, GrownMoves DEF Placed, TypeInv
    <3>5. /\ u \in Threads /\ 0 \in Workers /\ cur' = cur /\ tgt' = tgt
          /\ state'[u] = "RUNNABLE"
          /\ \A z \in Threads : z # u => state'[z] = state[z]
               /\ home_wid'[z] = home_wid[z]
      BY <2>1, <2>2, <2>4, <1>w, <1>a DEF Placed
    <3>6. Queued(u)' /\ \A z : z # u => (Queued(z)' <=> Queued(z))
      BY <2>1, <2>4, SharedQueued
    <3>7. \A x \in Workers : cur[x] # u /\ tgt[x] # u
      BY <2>1, <2>2, <2>4, <3>5, NotHeld
    <3>8. /\ HandAt(0)' /\ OthersKeep(0) /\ ThreadsKeep(u) /\ Alone(0, u) /\ LetsGo(0, u)
      <4>1. cur[0] = NoThread /\ tgt[0] = NoThread /\ pc[0] # "none"
        BY <2>1, <2>2, <2>4, <3>5, <1>a, <1>b
      <4>2. pc'[0] \notin {"begin"} \cup BusyPcs \cup OffPcs
        BY <3>1 DEF GrownPc, BusyPcs, OffPcs
      <4>3. HandAt(0)'
        BY <3>5, <4>1, <4>2, HandNone
      <4>4. \A x \in Workers : x # 0 => pc'[x] = pc[x]
              \/ (pc[x] = "none" /\ pc'[x] = "start")
        BY <1>w, <3>1, <3>5 DEF GrownPc, PoolPc, TypeInv, CountType
      <4> QED BY <1>w, <3>5, <3>6, <3>7, <4>1, <4>3, <4>4 DEF OthersKeep, ThreadsKeep,
                 Alone, LetsGo
    <3>9. StateAt(u)'
      BY <3>5, <3>6 DEF StateAt
    <3> QED BY <3>5, <3>8, <3>9, MoveKeeps
  <2> QED BY <2>1, <2>3, <2>4
<1>27. ASSUME PumpRun PROVE HandInv' /\ StateInv'
  <2>1. /\ At(0, "code") /\ sched = Free /\ sched' = 0 /\ Goto(0, "begin")
        /\ UNCHANGED <<threadVars, poolVars, idleVars, locked_turn, vi, askVars>>
    BY <1>27, PumpRunCases
  <2>2. PICK t \in Threads :
              /\ ToRun(0, t, "locked")
              /\ \/ ShareOff(t) /\ UNCHANGED <<lrq, lrq_unstarted>>
                 \/ Took(0, t) /\ runq_take(0, t)
    BY <1>27, PumpRunCases
  <2>3. CASE ShareOff(t) /\ UNCHANGED <<lrq, lrq_unstarted>>
    <3>5. /\ UNCHANGED <<state, home_wid>> /\ pc[0] \in NoHand /\ 0 \in Workers
               /\ t \in Threads
          /\ pc'[0] = "begin" /\ tgt'[0] = t /\ cur' = cur
          /\ \A x \in Workers : x # 0 => pc'[x] = pc[x] /\ tgt'[x] = tgt[x]
      BY <2>1, <2>2, <2>3, <1>w, <1>a 
    <3>6. Queued(t) /\ ~ Queued(t)' /\ \A u : u # t => (Queued(u)' <=> Queued(u))
      BY <2>3, ShareOffQueued
    <3>7. /\ cur[0] = NoThread /\ tgt[0] = NoThread
        /\ state[t] = "RUNNABLE" /\ home_wid[t] \in {-1, 0} /\ t # NoThread
      BY <2>1, <2>2, <2>3, <3>5, <3>6, <1>w, <1>b, QueuedHome DEF Took, ShareOff
    <3>12. \A x \in Workers : cur[x] # t /\ tgt[x] # t
      BY <3>5, <3>6, NotHeld
    <3>8. HandAt(0)'
      BY <3>5, <3>6, <3>7, HandBegin
    <3>9. StateAt(t)'
      BY <3>5, <3>6, <3>7 DEF StateAt
    <3>10. OthersKeep(0) /\ ThreadsKeep(t) /\ Alone(0, t) /\ LetsGo(0, t)
      BY <3>5, <3>6, <3>7, <3>12, <1>w DEF OthersKeep, ThreadsKeep, Alone, LetsGo
    <3> QED BY <3>5, <3>8, <3>9, <3>10, MoveKeeps
  <2>4. CASE Took(0, t) /\ runq_take(0, t)
    <3>1. CountType
      BY DEF TypeInv
    <3>2. /\ grq' = grq /\ lrq_unstarted' \in Int
          /\ Unstarted(t) => lrq_unstarted' = lrq_unstarted - 1
          /\ ~ Unstarted(t) => lrq_unstarted' = lrq_unstarted
      BY <1>w, <2>4, <3>1, TakeCounts
    <3>5. /\ UNCHANGED <<state, home_wid>> /\ pc[0] \in NoHand /\ 0 \in Workers
               /\ t \in Threads
          /\ pc'[0] = "begin" /\ tgt'[0] = t /\ cur' = cur
          /\ \A x \in Workers : x # 0 => pc'[x] = pc[x] /\ tgt'[x] = tgt[x]
      BY <2>1, <2>2, <2>4, <1>w, <1>a 
    <3>6. Queued(t) /\ ~ Queued(t)' /\ \A u : u # t => (Queued(u)' <=> Queued(u))
      BY <1>w, <2>4, <3>2, TookQueued
    <3>7. /\ cur[0] = NoThread /\ tgt[0] = NoThread
        /\ state[t] = "RUNNABLE" /\ home_wid[t] \in {-1, 0} /\ t # NoThread
      BY <2>1, <2>2, <2>4, <3>5, <3>6, <1>w, <1>b, QueuedHome DEF Took, ShareOff
    <3>12. \A x \in Workers : cur[x] # t /\ tgt[x] # t
      BY <3>5, <3>6, NotHeld
    <3>8. HandAt(0)'
      BY <3>5, <3>6, <3>7, HandBegin
    <3>9. StateAt(t)'
      BY <3>5, <3>6, <3>7 DEF StateAt
    <3>10. OthersKeep(0) /\ ThreadsKeep(t) /\ Alone(0, t) /\ LetsGo(0, t)
      BY <3>5, <3>6, <3>7, <3>12, <1>w DEF OthersKeep, ThreadsKeep, Alone, LetsGo
    <3> QED BY <3>5, <3>8, <3>9, <3>10, MoveKeeps
  <2> QED BY <2>2, <2>3, <2>4
<1>u. CASE UNCHANGED vars
  <2>1. UNCHANGED <<state, home_wid, cur, tgt, grq, lrq>>
    BY <1>u DEF vars
  <2>2. \A x \in Workers : SameHand(x)
    BY <1>u, <1>w, <1>a DEF vars, SameHand
  <2> QED BY <2>1, <2>2, SameHandKeeps
<1> HIDE DEF At, Goto, Set, ToRun, threadVars, queueVars, poolVars, idleVars, runVars,
             askVars
<1> QED BY <1>u, <1>1, <1>2, <1>3, <1>4, <1>5, <1>6, <1>7, <1>8, <1>9, <1>10, <1>11,
           <1>12, <1>13, <1>14, <1>15, <1>16, <1>17, <1>18, <1>19, <1>20, <1>21, <1>22,
           <1>23, <1>24, <1>25, <1>26, <1>27
     DEF Next, LockedStep, UnlockedStep, CvWakes, ThreadStep, WakeStep, RunStep

-----------------------------------------------------------------------------
(* The counts.                                                             *)

\* No thread is pinned, dies or is born pinned.
LEMMA PinStays ==
  ASSUME PinsMatch, pinned' = pinned,
         \A u \in Threads : /\ home_wid'[u] = home_wid[u]
                            /\ state'[u] = "DEAD" <=> state[u] = "DEAD"
  PROVE  PinsMatch'
<1>1. ASSUME NEW w \in Workers PROVE PinnedTo(w)' = PinnedTo(w)
  BY DEF PinnedTo
<1> QED BY <1>1 DEF PinsMatch

\* One is pinned to b; one that was pinned to b dies.
LEMMA PinGains ==
  ASSUME TypeInv, PinsMatch, NEW t \in Threads, NEW b \in Workers, Unstarted(t),
         home_wid'[t] = b, state'[t] # "DEAD", pinned' = [pinned EXCEPT ![b] = @ + 1],
         \A u \in Threads : u # t => state'[u] = state[u] /\ home_wid'[u] = home_wid[u]
  PROVE  PinsMatch'
<1>a. pinned \in [Workers -> Int] /\ \A w \in Workers : home_wid[t] # w
  BY ConstAssumption DEF TypeInv, CountType, Unstarted, Workers
<1>1. ASSUME NEW w \in Workers
      PROVE  PinnedTo(w) \in SUBSET Threads /\ t \notin PinnedTo(w)
  BY <1>a DEF PinnedTo
<1>2. PinnedTo(b)' = PinnedTo(b) \cup {t}
  BY <1>a DEF PinnedTo
<1>3. Cardinality(PinnedTo(b) \cup {t}) = Cardinality(PinnedTo(b)) + 1
  BY <1>1, CountOne
<1>4. ASSUME NEW w \in Workers, w # b PROVE PinnedTo(w)' = PinnedTo(w)
  BY <1>a, <1>4 DEF PinnedTo
<1>5. ASSUME NEW w \in Workers PROVE pinned'[w] = Cardinality(PinnedTo(w)')
  <2>1. CASE w = b
    BY <1>a, <1>2, <1>3, <2>1 DEF PinsMatch
  <2>2. CASE w # b
    BY <1>a, <1>4, <2>2 DEF PinsMatch
  <2> QED BY <2>1, <2>2
<1> QED BY <1>5 DEF PinsMatch

\* A thread that dies is no longer pinned.
LEMMA PinLoses ==
  ASSUME TypeInv, PinsMatch, NEW t \in Threads, NEW b \in Workers, home_wid[t] = b,
         state[t] # "DEAD", state'[t] = "DEAD", pinned' = [pinned EXCEPT ![b] = @ - 1],
         home_wid' = home_wid, \A u \in Threads : u # t => state'[u] = state[u]
  PROVE  PinsMatch'
<1>a. pinned \in [Workers -> Int]
  BY DEF TypeInv, CountType
<1>1. PinnedTo(b) \in SUBSET Threads /\ t \in PinnedTo(b)
  BY DEF PinnedTo
<1>2. PinnedTo(b)' = PinnedTo(b) \ {t}
  BY DEF PinnedTo
<1>3. Cardinality(PinnedTo(b) \ {t}) = Cardinality(PinnedTo(b)) - 1
  BY <1>1, CountOne
<1>4. ASSUME NEW w \in Workers, w # b PROVE PinnedTo(w)' = PinnedTo(w)
  BY <1>4 DEF PinnedTo
<1>5. ASSUME NEW w \in Workers PROVE pinned'[w] = Cardinality(PinnedTo(w)')
  <2>1. CASE w = b
    BY <1>a, <1>2, <1>3, <2>1 DEF PinsMatch
  <2>2. CASE w # b
    BY <1>a, <1>4, <2>2 DEF PinsMatch
  <2> QED BY <2>1, <2>2
<1> QED BY <1>5 DEF PinsMatch

\* The unstarted threads on workers' queues stay, lose one or gain one.
LEMMA LocalStays ==
  ASSUME LocalMatch, lrq_unstarted' = lrq_unstarted, OnLocal' = OnLocal
  PROVE  LocalMatch'
BY DEF LocalMatch

\* They lose the one that is taken.
LEMMA LocalLoses ==
  ASSUME TypeInv, QueueInv, LocalMatch, NEW v \in Workers, NEW t \in Threads,
         Took(v, t), home_wid' = home_wid,
         Unstarted(t) => lrq_unstarted' = lrq_unstarted - 1,
         ~ Unstarted(t) => lrq_unstarted' = lrq_unstarted
  PROVE  LocalMatch'
<1>1. /\ t \in Range(lrq[v]) /\ t \notin Range(lrq'[v])
      /\ \A w \in Workers : w # v => t \notin Range(lrq'[w])
      /\ \A u : u # t => \A w \in Workers : u \in Range(lrq'[w]) <=> u \in Range(lrq[w])
  BY DEF Took, QueueInv
<1>2. OnLocal' = OnLocal \ {t} /\ (Unstarted(t) <=> t \in OnLocal)
  BY <1>1 DEF OnLocal, Unstarted
<1>3. OnLocal \in SUBSET Threads
  BY DEF OnLocal
<1>4. t \in OnLocal => Cardinality(OnLocal \ {t}) = Cardinality(OnLocal) - 1
  BY <1>3, CountOne
<1>5. t \notin OnLocal => OnLocal \ {t} = OnLocal
  OBVIOUS
<1> QED BY <1>2, <1>4, <1>5 DEF LocalMatch

\* They gain the one that is spawned.
LEMMA LocalGains ==
  ASSUME LocalMatch, NEW v \in Workers, NEW t \in Threads, Put(v, t), ~ Queued(t),
         Unstarted(t), home_wid' = home_wid, lrq_unstarted' = lrq_unstarted + 1
  PROVE  LocalMatch'
<1>1. OnLocal' = OnLocal \cup {t} /\ t \notin OnLocal
  BY DEF OnLocal, Unstarted, Put, Queued
<1>2. OnLocal \in SUBSET Threads
  BY DEF OnLocal
<1>3. Cardinality(OnLocal \cup {t}) = Cardinality(OnLocal) + 1
  BY <1>1, <1>2, CountOne
<1> QED BY <1>1, <1>3 DEF LocalMatch

\* One that has a home by then is put on a queue, or is on none.
LEMMA LocalPut ==
  ASSUME LocalMatch, NEW v \in Workers, NEW t \in Threads, Put(v, t),
         \A w \in Workers : t \notin Range(lrq[w]), home_wid'[t] \in Workers,
         \A u \in Threads : u # t => home_wid'[u] = home_wid[u],
         lrq_unstarted' = lrq_unstarted
  PROVE  LocalMatch'
<1>1. ~ Unstarted(t)'
  BY ConstAssumption DEF Unstarted, Workers
<1>2. t \notin OnLocal /\ t \notin OnLocal'
  BY <1>1 DEF OnLocal
<1>3. ASSUME NEW u \in Threads, u # t PROVE u \in OnLocal' <=> u \in OnLocal
  BY <1>3 DEF OnLocal, Unstarted, Put
<1>4. OnLocal' = OnLocal
  <2>1. \A u : u \in OnLocal => u \in Threads
    BY DEF OnLocal
  <2>2. \A u : u \in OnLocal' => u \in Threads
    BY DEF OnLocal
  <2> QED BY <1>2, <1>3, <2>1, <2>2
<1> QED BY <1>4, LocalStays

\* They do not change when a thread off the queues gets its home.
LEMMA LocalRuns ==
  ASSUME LocalMatch, NEW t \in Threads, ~ Queued(t), UNCHANGED <<lrq, lrq_unstarted>>,
         \A u \in Threads : u # t => home_wid'[u] = home_wid[u]
  PROVE  LocalMatch'
<1>1. t \notin OnLocal /\ t \notin OnLocal'
  BY DEF OnLocal, Queued
<1>2. ASSUME NEW u \in Threads, u # t PROVE u \in OnLocal' <=> u \in OnLocal
  BY <1>2 DEF OnLocal, Unstarted
<1>3. OnLocal' = OnLocal
  <2>1. \A u : u \in OnLocal => u \in Threads
    BY DEF OnLocal
  <2>2. \A u : u \in OnLocal' => u \in Threads
    BY DEF OnLocal
  <2> QED BY <1>1, <1>2, <2>1, <2>2
<1> QED BY <1>3, LocalStays

\* The counts stay those of the queues and the threads.
LEMMA CountStep ==
  ASSUME TypeInv, QueueInv, HandInv, StateInv, ScanInv, LocalMatch, PinsMatch,
         Next \/ UNCHANGED vars
  PROVE  LocalMatch' /\ PinsMatch'
<1>w. /\ g_worker_cap \in Nat \ {0} /\ NoThread \notin Threads /\ 0 \in Workers
      /\ \A w \in Helpers : w \in Workers /\ w > 0
      /\ \A w \in Workers : w \in Int /\ w >= 0 /\ w <= g_worker_cap
  BY ConstAssumption DEF Helpers, Workers
<1>a. /\ state \in [Threads -> {"NEW", "RUNNABLE", "RUNNING", "BLOCKED", "DEAD"}]
      /\ home_wid \in [Threads -> Workers \cup {-1}]
      /\ \A w \in Workers : Range(lrq[w]) \subseteq Threads
      /\ Range(grq) \subseteq Threads
  BY QueueFacts DEF TypeInv, ThreadType, Queued
<1>c. LocalMatch /\ PinsMatch
  OBVIOUS
<1> USE DEF At, Goto, Set, ToRun, threadVars, queueVars, poolVars, idleVars, runVars,
            askVars
<1>1. ASSUME NEW w \in Helpers,
              \/ HelperStarts(w) \/ LoopHead(w) \/ PickSteal(w) \/ StealNext(w)
              \/ StealNone(w) \/ IdleLocked(w)
      PROVE  LocalMatch' /\ PinsMatch'
  <2>1. UNCHANGED <<lrq, lrq_unstarted, home_wid, state, pinned>>
    BY <1>1 DEF HelperStarts, LoopHead, PickSteal, StealNext, StealNone, IdleLocked
  <2> QED BY <1>c, <2>1 DEF LocalMatch, PinsMatch, OnLocal, PinnedTo, Unstarted
<1>2. ASSUME NEW w \in Helpers,
              \/ LockedBack(w) \/ RoundEnds(w) \/ Relock(w) \/ IdleParks(w)
              \/ IdleResets(w) \/ IdleLooks(w)
      PROVE  LocalMatch' /\ PinsMatch'
  <2>1. UNCHANGED <<lrq, lrq_unstarted, home_wid, state, pinned>>
    BY <1>2 DEF LockedBack, RoundEnds, Relock, IdleParks, IdleResets, IdleLooks
  <2> QED BY <1>c, <2>1 DEF LocalMatch, PinsMatch, OnLocal, PinnedTo, Unstarted
<1>3. ASSUME NEW w \in Helpers,
              \/ IdleSleeps(w) \/ IdleUp(w) \/ WokenLocked(w) \/ IdleWakes(w)
              \/ LocalTurn(w)
      PROVE  LocalMatch' /\ PinsMatch'
  <2>1. UNCHANGED <<lrq, lrq_unstarted, home_wid, state, pinned>>
    BY <1>3 DEF IdleSleeps, IdleUp, WokenLocked, IdleWakes, LocalTurn
  <2> QED BY <1>c, <2>1 DEF LocalMatch, PinsMatch, OnLocal, PinnedTo, Unstarted
<1>4. ASSUME NEW w \in Workers,
              \/ SwitchOut(w) \/ sp_safepoint_preempt(w) \/ EnterNative(w)
                \/ LeaveNative(w)
              \/ ScanParked(w) \/ ScanIdle(w)
      PROVE  LocalMatch' /\ PinsMatch'
  <2>1. UNCHANGED <<lrq, lrq_unstarted, home_wid, state, pinned>>
    BY <1>4 DEF SwitchOut, sp_safepoint_preempt, Consume, EnterNative, LeaveNative,
       ScanParked, ScanIdle, WakeDone
  <2> QED BY <1>c, <2>1 DEF LocalMatch, PinsMatch, OnLocal, PinnedTo, Unstarted
<1>5. ASSUME NEW w \in Workers,
              \/ sched_kick_worker(w) \/ ClearCur(w) \/ Retire(w) \/ MonitorReads(w)
      PROVE  LocalMatch' /\ PinsMatch'
  <2>1. UNCHANGED <<lrq, lrq_unstarted, home_wid, state, pinned>>
    BY <1>5 DEF sched_kick_worker, WakeDone, ClearCur, Retire, Consume, Off, MonitorReads
  <2> QED BY <1>c, <2>1 DEF LocalMatch, PinsMatch, OnLocal, PinnedTo, Unstarted
<1>6. ASSUME 
              \/ PreemptAsks \/ PreemptLooks
      PROVE  LocalMatch' /\ PinsMatch'
  <2>1. UNCHANGED <<lrq, lrq_unstarted, home_wid, state, pinned>>
    BY <1>6 DEF PreemptAsks, PreemptLooks
  <2> QED BY <1>c, <2>1 DEF LocalMatch, PinsMatch, OnLocal, PinnedTo, Unstarted
<1>7. ASSUME NEW w \in Helpers, PickPlace(w) PROVE LocalMatch' /\ PinsMatch'
  <2>1. PICK t \in Threads :
        /\ w \in Workers /\ At(w, "pick") /\ ShareOff(t)
        /\ UNCHANGED <<state, idleVars, sched, locked_turn, askVars, cur,
                       lrq_unstarted, active>>
        /\ \/ (\E b \in Helpers : Placed(w, b, t)) /\ UNCHANGED runVars
           \/ /\ Grown(w, "begin") /\ ToRun(w, t, "locked")
              /\ UNCHANGED <<home_wid, lrq, pinned, vi>>
    BY <1>7, PickPlaceCases DEF ShareOff
  <2>2. ASSUME NEW b \in Helpers, Placed(w, b, t), UNCHANGED runVars
        PROVE  LocalMatch' /\ PinsMatch'
    <3>1. GrownPc(w, "kick")
      BY <1>w, <2>1, <2>2, GrownMoves DEF Placed, TypeInv
    <3>2. /\ b \in Workers /\ Put(b, t) /\ home_wid'[t] = b /\ state'[t] # "DEAD"
          /\ pinned' = [pinned EXCEPT ![b] = @ + 1] /\ lrq_unstarted' = lrq_unstarted
          /\ \A x \in Threads : x # t => state'[x] = state[x]
               /\ home_wid'[x] = home_wid[x]
      BY <1>a, <2>1, <2>2 DEF Placed, ShareOff, QueueInv, Queued
    <3>3. Unstarted(t) /\ \A v \in Workers : t \notin Range(lrq[v])
      BY <2>1 DEF QueueInv, ShareOff, Queued, StateInv, StateAt
    <3>4. LocalMatch'
      BY <1>c, <3>2, <3>3, LocalPut
    <3>5. PinsMatch'
      BY <1>c, <3>2, <3>3, PinGains
    <3> QED BY <3>4, <3>5
  <2>3. CASE /\ Grown(w, "begin") /\ ToRun(w, t, "locked")
             /\ UNCHANGED <<home_wid, lrq, pinned, vi>>
    <3>1. GrownPc(w, "begin")
      BY <1>w, <2>1, <2>3, GrownMoves DEF Placed, TypeInv
    <3>2. UNCHANGED <<state, home_wid, pinned, lrq, lrq_unstarted>>
      BY <2>1, <2>3
    <3>3. OnLocal' = OnLocal
      BY <3>2 DEF OnLocal, Unstarted
    <3> QED BY <1>c, <3>2, <3>3, LocalStays, PinStays
  <2> QED BY <2>1, <2>2, <2>3
<1>8. ASSUME NEW w \in Helpers, PickOwn(w) PROVE LocalMatch' /\ PinsMatch'
  <2>1. PICK t \in Threads : t = Head(lrq[w]) /\ Took(w, t) /\ runq_take(w, t)
    BY <1>8, <1>w, TakeHead DEF PickOwn
  <2>2. CountType /\ w \in Workers
    BY <1>w DEF TypeInv
  <2>3. /\ grq' = grq /\ lrq_unstarted' \in Int
        /\ Unstarted(t) => lrq_unstarted' = lrq_unstarted - 1
        /\ ~ Unstarted(t) => lrq_unstarted' = lrq_unstarted
    BY <2>1, <2>2, TakeCounts
  <2>4. UNCHANGED <<state, home_wid, pinned>>
    BY <1>8 DEF PickOwn
  <2> QED BY <1>c, <2>1, <2>2, <2>3, <2>4, LocalLoses, PinStays
<1>9. ASSUME NEW w \in Helpers, sched_steal(w) PROVE LocalMatch' /\ PinsMatch'
  <2>1. PICK t \in Threads : /\ Unstarted(t) /\ Took(vi[w], t) /\ runq_take(vi[w], t)
                             /\ Stolen(w, t)
    BY <1>9, StealCases
  <2>2. w \in Workers /\ At(w, "steal") /\ vi[w] <= spawned /\ vi[w] # w
          /\ vi[w] \in Workers
    BY <1>9, StealCases
  <2>3. CountType
    BY DEF TypeInv
  <2>4. /\ grq' = grq /\ lrq_unstarted' \in Int /\ lrq_unstarted' = lrq_unstarted - 1
    BY <2>1, <2>2, <2>3, TakeCounts
  <2>5. UNCHANGED <<state, home_wid, pinned>>
    BY <2>1 DEF Stolen
  <2> QED BY <1>c, <2>1, <2>2, <2>4, <2>5, LocalLoses, PinStays
<1>10. ASSUME NEW w \in Helpers, RunLocal(w) PROVE LocalMatch' /\ PinsMatch'
  <2>1. PICK t \in Threads : t = Head(lrq[w]) /\ Took(w, t) /\ runq_take(w, t)
    BY <1>10, <1>w, TakeHead DEF RunLocal
  <2>2. CountType /\ w \in Workers
    BY <1>w DEF TypeInv
  <2>3. /\ grq' = grq /\ lrq_unstarted' \in Int
        /\ Unstarted(t) => lrq_unstarted' = lrq_unstarted - 1
        /\ ~ Unstarted(t) => lrq_unstarted' = lrq_unstarted
    BY <2>1, <2>2, TakeCounts
  <2>4. UNCHANGED <<state, home_wid, pinned>>
    BY <1>10 DEF RunLocal
  <2> QED BY <1>c, <2>1, <2>2, <2>3, <2>4, LocalLoses, PinStays
<1>11. ASSUME NEW w \in Workers, SpawnLocal(w) PROVE LocalMatch' /\ PinsMatch'
  <2>1. PICK u \in Threads : /\ state[u] = "NEW" /\ ~ Queued(u) /\ Unstarted(u)
                             /\ state' = Set(state, u, "RUNNABLE") /\ Put(w, u)
    BY <1>11, SpawnLocalCases
  <2>2. /\ At(w, "run") /\ sched = Free /\ sched' = w
        /\ Goto(w, "scan") /\ vi' = Set(vi, w, 1)
        /\ UNCHANGED <<home_wid, poolVars, idleVars, runVars, locked_turn, askVars>>
    BY <1>11 DEF SpawnLocal
  <2>3. grq' = grq /\ lrq_unstarted' = lrq_unstarted + 1
    BY <1>11, SpawnLocalCases
  <2>4. /\ UNCHANGED <<home_wid, pinned>>
        /\ \A x \in Threads : state'[x] = "DEAD" <=> state[x] = "DEAD"
    BY <1>a, <2>1, <2>2
  <2> QED BY <1>c, <2>1, <2>3, <2>4, LocalGains, PinStays
<1>12. ASSUME NEW w \in Workers, Begin(w) PROVE LocalMatch' /\ PinsMatch'
  <2>1. /\ tgt[w] \in Threads /\ tgt[w] # NoThread /\ cur[w] = NoThread
        /\ state[tgt[w]] = "RUNNABLE" /\ ~ Queued(tgt[w])
        /\ home_wid[tgt[w]] \in {-1, w}
    BY <1>12 DEF Begin, At, HandInv, HandAt, TypeInv, RunType
  <2>0. PICK t \in Threads : t = tgt[w]
    BY <2>1
  <2>2. /\ ~ Queued(t) /\ UNCHANGED <<lrq, lrq_unstarted>>
        /\ \A x \in Threads : x # t => state'[x] = state[x] /\ home_wid'[x] = home_wid[x]
        /\ state'[t] # "DEAD" /\ state[t] # "DEAD"
    BY <1>12, <1>a, <2>0, <2>1 DEF Begin
  <2>3. LocalMatch'
    BY <1>c, <2>2, LocalRuns
  <2>4. CASE Unstarted(t)
    <3>1. home_wid'[t] = w /\ pinned' = [pinned EXCEPT ![w] = @ + 1]
      BY <1>12, <1>a, <2>0, <2>4 DEF Begin
    <3>2. PinsMatch'
      BY <1>c, <2>2, <2>4, <3>1, PinGains
    <3> QED BY <2>3, <3>2
  <2>5. CASE ~ Unstarted(t)
    <3>1. home_wid' = home_wid /\ pinned' = pinned
      BY <1>12, <2>0, <2>5 DEF Begin
    <3>2. \A x \in Threads : state'[x] = "DEAD" <=> state[x] = "DEAD"
      BY <2>2
    <3>3. PinsMatch'
      BY <1>c, <3>1, <3>2, PinStays
    <3> QED BY <2>3, <3>3
  <2> QED BY <2>4, <2>5
<1>13. ASSUME NEW w \in Workers, RunParked(w) PROVE LocalMatch' /\ PinsMatch'
  <2>1. Off(w)
    BY <1>13 DEF RunParked, RunEnds
  <2>2. /\ tgt[w] \in Threads /\ tgt[w] # NoThread /\ cur[w] = NoThread
        /\ state[tgt[w]] = "RUNNING" /\ home_wid[tgt[w]] = w /\ ~ Queued(tgt[w])
    BY <2>1, OffFacts
  <2>3. /\ UNCHANGED <<lrq, lrq_unstarted, home_wid, pinned>>
        /\ \A x \in Threads : state'[x] = "DEAD" <=> state[x] = "DEAD"
    BY <1>13, <1>a, <2>2 DEF RunParked, RunEnds, Off
  <2>4. OnLocal' = OnLocal
    BY <2>3 DEF OnLocal, Unstarted
  <2> QED BY <1>c, <2>3, <2>4, LocalStays, PinStays
<1>14. ASSUME NEW w \in Workers, RunDied(w) PROVE LocalMatch' /\ PinsMatch'
  <2>1. Off(w)
    BY <1>14 DEF RunDied, RunEnds
  <2>2. /\ tgt[w] \in Threads /\ tgt[w] # NoThread /\ cur[w] = NoThread
        /\ state[tgt[w]] = "RUNNING" /\ home_wid[tgt[w]] = w /\ ~ Queued(tgt[w])
    BY <2>1, OffFacts
  <2>0. PICK t \in Threads : t = tgt[w]
    BY <2>2
  <2>3. /\ UNCHANGED <<lrq, lrq_unstarted, home_wid>> /\ home_wid[t] = w
        /\ pinned' = [pinned EXCEPT ![w] = @ - 1]
        /\ state[t] # "DEAD" /\ state'[t] = "DEAD"
        /\ \A x \in Threads : x # t => state'[x] = state[x]
    BY <1>14, <1>a, <2>0, <2>2 DEF RunDied, RunEnds, Off
  <2>4. OnLocal' = OnLocal
    BY <2>3 DEF OnLocal, Unstarted
  <2>5. LocalMatch' /\ PinsMatch'
    BY <1>c, <2>3, <2>4, LocalStays, PinLoses
  <2> QED BY <2>5
<1>15. ASSUME NEW w \in Workers, RunPassed(w) PROVE LocalMatch' /\ PinsMatch'
  <2>1. /\ Put(w, tgt[w]) /\ grq' = grq /\ lrq_unstarted' = lrq_unstarted
        /\ Off(w) /\ pc[w] = "passed"
    BY <1>15, PassedPuts
  <2>2. /\ tgt[w] \in Threads /\ tgt[w] # NoThread /\ cur[w] = NoThread
        /\ state[tgt[w]] = "RUNNING" /\ home_wid[tgt[w]] = w /\ ~ Queued(tgt[w])
    BY <2>1, OffFacts
  <2>3. /\ RunEnds(w) /\ state' = Set(state, tgt[w], "RUNNABLE") /\ UNCHANGED pinned
    BY <1>15 DEF RunPassed
  <2>0. PICK t \in Threads : t = tgt[w]
    BY <2>2
  <2>4. /\ UNCHANGED <<home_wid, pinned>> /\ home_wid'[t] = w
        /\ \A x \in Threads : state'[x] = "DEAD" <=> state[x] = "DEAD"
    BY <1>a, <2>0, <2>2, <2>3 DEF RunEnds
  <2>5. Put(w, t) /\ \A v \in Workers : t \notin Range(lrq[v])
    BY <2>0, <2>1, <2>2 DEF Queued
  <2>6. LocalMatch'
    BY <1>c, <2>1, <2>4, <2>5, LocalPut
  <2> QED BY <1>c, <2>4, <2>6, PinStays
<1>16. ASSUME NEW t \in Threads, sched_push_wake(t) PROVE LocalMatch' /\ PinsMatch'
  <2>1. /\ home_wid[t] \in Workers /\ Put(home_wid[t], t) /\ grq' = grq
        /\ ~ Queued(t) /\ lrq_unstarted' = lrq_unstarted
    BY <1>16, WakePuts
  <2>2. /\ state[t] = "BLOCKED" /\ state' = Set(state, t, "RUNNABLE")
        /\ home_wid[t] = 0 => sched = Free
        /\ signalled' = [signalled EXCEPT ![home_wid[t]] = @ \/ idle[home_wid[t]]]
        /\ UNCHANGED <<home_wid, poolVars, parked, wake_sent, idle, runVars, sched,
                       locked_turn, pc, vi, askVars>>
    BY <1>16 DEF sched_push_wake
  <2>4. /\ UNCHANGED <<home_wid, pinned>> /\ home_wid'[t] \in Workers
        /\ \A x \in Threads : state'[x] = "DEAD" <=> state[x] = "DEAD"
    BY <1>a, <2>1, <2>2
  <2>5. \A v \in Workers : t \notin Range(lrq[v])
    BY <2>1 DEF Queued
  <2>6. LocalMatch'
    BY <1>c, <2>1, <2>4, <2>5, LocalPut
  <2> QED BY <1>c, <2>4, <2>6, PinStays
<1>17. ASSUME MainSpawn PROVE LocalMatch' /\ PinsMatch'
  <2>1. PICK u \in Threads :
              /\ state[u] = "NEW" /\ ~ Queued(u) /\ state' = Set(state, u, "RUNNABLE")
              /\ \/ (\E b \in Helpers : Placed(0, b, u)) /\ UNCHANGED grq
                 \/ /\ grq' \in Seq(Threads) /\ IsInjective(grq')
                    /\ Range(grq') = Range(grq) \cup {u}
                    /\ Grown(0, "scan") /\ vi' = Set(vi, 0, 1)
                    /\ UNCHANGED <<home_wid, lrq, pinned>>
    BY <1>17, MainSpawnCases
  <2>2. /\ At(0, "code") /\ sched = Free /\ sched' = 0
        /\ UNCHANGED <<idleVars, runVars, locked_turn, askVars, lrq_unstarted, active>>
    BY <1>17, MainSpawnCases
  <2>3. ASSUME NEW b \in Helpers, Placed(0, b, u), UNCHANGED grq
        PROVE  LocalMatch' /\ PinsMatch'
    <3>1. GrownPc(0, "kick")
      BY <1>w, <2>1, <2>3, GrownMoves DEF Placed, TypeInv
    <3>2. /\ b \in Workers /\ Put(b, u) /\ home_wid'[u] = b /\ state'[u] # "DEAD"
          /\ pinned' = [pinned EXCEPT ![b] = @ + 1] /\ lrq_unstarted' = lrq_unstarted
          /\ \A x \in Threads : x # u => state'[x] = state[x]
               /\ home_wid'[x] = home_wid[x]
      BY <1>a, <2>1, <2>2, <2>3 DEF Placed, ShareOff
    <3>3. Unstarted(u) /\ \A v \in Workers : u \notin Range(lrq[v])
      BY <2>1 DEF QueueInv, ShareOff, Queued, StateInv, StateAt
    <3>4. LocalMatch'
      BY <1>c, <3>2, <3>3, LocalPut
    <3>5. PinsMatch'
      BY <1>c, <3>2, <3>3, PinGains
    <3> QED BY <3>4, <3>5
  <2>4. CASE /\ grq' \in Seq(Threads) /\ IsInjective(grq')
             /\ Range(grq') = Range(grq) \cup {u}
             /\ Grown(0, "scan") /\ vi' = Set(vi, 0, 1)
             /\ UNCHANGED <<home_wid, lrq, pinned>>
    <3>1. GrownPc(0, "scan")
      BY <1>w, <2>1, <2>4, GrownMoves DEF Placed, TypeInv
    <3>2. /\ UNCHANGED <<home_wid, pinned, lrq, lrq_unstarted>>
          /\ \A x \in Threads : state'[x] = "DEAD" <=> state[x] = "DEAD"
      BY <1>a, <2>1, <2>2, <2>4
    <3>3. OnLocal' = OnLocal
      BY <3>2 DEF OnLocal, Unstarted
    <3> QED BY <1>c, <3>2, <3>3, LocalStays, PinStays
  <2> QED BY <2>1, <2>3, <2>4
<1>18. ASSUME PumpRun PROVE LocalMatch' /\ PinsMatch'
  <2>1. /\ At(0, "code") /\ sched = Free /\ sched' = 0 /\ Goto(0, "begin")
        /\ UNCHANGED <<threadVars, poolVars, idleVars, locked_turn, vi, askVars>>
    BY <1>18, PumpRunCases
  <2>2. PICK t \in Threads :
              /\ ToRun(0, t, "locked")
              /\ \/ ShareOff(t) /\ UNCHANGED <<lrq, lrq_unstarted>>
                 \/ Took(0, t) /\ runq_take(0, t)
    BY <1>18, PumpRunCases
  <2>3. CASE ShareOff(t) /\ UNCHANGED <<lrq, lrq_unstarted>>
    <3>1. UNCHANGED <<state, home_wid, pinned, lrq, lrq_unstarted>>
      BY <2>1, <2>3
    <3>2. OnLocal' = OnLocal
      BY <3>1 DEF OnLocal, Unstarted
    <3> QED BY <1>c, <3>1, <3>2, LocalStays, PinStays
  <2>4. CASE Took(0, t) /\ runq_take(0, t)
    <3>1. CountType
      BY DEF TypeInv
    <3>2. /\ grq' = grq /\ lrq_unstarted' \in Int
          /\ Unstarted(t) => lrq_unstarted' = lrq_unstarted - 1
          /\ ~ Unstarted(t) => lrq_unstarted' = lrq_unstarted
      BY <1>w, <2>4, <3>1, TakeCounts
    <3>3. UNCHANGED <<state, home_wid, pinned>>
      BY <2>1
    <3> QED BY <1>c, <1>w, <2>4, <3>2, <3>3, LocalLoses, PinStays
  <2> QED BY <2>2, <2>3, <2>4
<1>u. CASE UNCHANGED vars
  <2>1. UNCHANGED <<lrq, lrq_unstarted, home_wid, state, pinned>>
    BY <1>u DEF vars
  <2> QED BY <1>c, <2>1 DEF LocalMatch, PinsMatch, OnLocal, PinnedTo, Unstarted
<1> HIDE DEF At, Goto, Set, ToRun, threadVars, queueVars, poolVars, idleVars, runVars,
             askVars
<1> QED BY <1>u, <1>1, <1>2, <1>3, <1>4, <1>5, <1>6, <1>7, <1>8, <1>9, <1>10, <1>11,
           <1>12, <1>13, <1>14, <1>15, <1>16, <1>17, <1>18
     DEF Next, LockedStep, UnlockedStep, CvWakes, ThreadStep, WakeStep, RunStep

-----------------------------------------------------------------------------
(* The requests to yield.                                                  *)

\* Who has a thread that was asked to yield has it still.
Kept ==
  \A w \in Workers :
    /\ cur[w] # NoThread => cur'[w] = cur[w] \/ (Off(w)' /\ tgt'[w] = cur[w])
    /\ Off(w) /\ preempt_request[tgt[w]] => Off(w)' /\ tgt'[w] = tgt[w]
\* A request stays on a thread that somebody has.
LEMMA HeldKeeps ==
  ASSUME AskHeld, Kept, asking' = asking,
         \A t \in Threads : preempt_request'[t] => preempt_request[t]
  PROVE  AskHeld'
<1>1. NoThread \notin Threads
  BY ConstAssumption
<1>2. ASSUME NEW t \in Threads, preempt_request'[t],
             NEW w \in Workers, cur[w] = t \/ (Off(w) /\ tgt[w] = t)
      PROVE  cur'[w] = t \/ (Off(w)' /\ tgt'[w] = t)
  BY <1>1, <1>2 DEF Kept
<1> QED BY <1>2 DEF AskHeld

\* Every step keeps a request on a thread somebody has.
LEMMA AskHeldStep ==
  ASSUME TypeInv, QueueInv, HandInv, StateInv, ScanInv, PoolPc, LockInv, AskHeld,
         Next \/ UNCHANGED vars
  PROVE  AskHeld'
<1>w. /\ g_worker_cap \in Nat \ {0} /\ NoThread \notin Threads /\ 0 \in Workers
      /\ \A w \in Helpers : w \in Workers /\ w > 0
      /\ \A w \in Workers : w \in Int /\ w >= 0 /\ w <= g_worker_cap
  BY ConstAssumption DEF Helpers, Workers
<1>a. /\ pc \in [Workers -> Pcs] /\ cur \in [Workers -> Threads \cup {NoThread}]
      /\ tgt \in [Workers -> Threads \cup {NoThread}] /\ spawned \in 0 .. g_worker_cap
      /\ preempt_request \in [Threads -> BOOLEAN]
      /\ \A w \in Workers : pc[w] = "begin" => cur[w] = NoThread
      /\ \A w \in Workers : pc[w] \in {"parked", "ended", "passed"}
           /\ cur[w] # NoThread =>
           tgt[w] = NoThread
  BY DEF TypeInv, PcType, RunType, CountType, ThreadType, HandInv, HandAt, OffPcs
<1> USE DEF At, Goto, Set, ToRun, threadVars, queueVars, poolVars, idleVars, runVars,
            askVars
<1>1. ASSUME NEW w \in Helpers,
              \/ HelperStarts(w) \/ LoopHead(w) \/ PickOwn(w)
      PROVE  AskHeld'
  <2>1. Kept
    BY <1>1, <1>w, <1>a DEF HelperStarts, LoopHead, PickOwn, Kept, Off
  <2>2. asking' = asking /\ \A z \in Threads : preempt_request'[z] => preempt_request[z]
    BY <1>1, <1>a DEF HelperStarts, LoopHead, PickOwn
  <2> QED BY <2>1, <2>2, HeldKeeps
<1>2. ASSUME NEW w \in Helpers,
              \/ PickSteal(w) \/ StealNext(w) \/ StealNone(w)
      PROVE  AskHeld'
  <2>1. Kept
    BY <1>2, <1>w, <1>a DEF PickSteal, StealNext, StealNone, Kept, Off
  <2>2. asking' = asking /\ \A z \in Threads : preempt_request'[z] => preempt_request[z]
    BY <1>2, <1>a DEF PickSteal, StealNext, StealNone
  <2> QED BY <2>1, <2>2, HeldKeeps
<1>3. ASSUME NEW w \in Helpers,
              \/ IdleLocked(w) \/ LockedBack(w) \/ RunLocal(w)
      PROVE  AskHeld'
  <2>1. Kept
    BY <1>3, <1>w, <1>a DEF IdleLocked, LockedBack, RunLocal, Kept, Off
  <2>2. asking' = asking /\ \A z \in Threads : preempt_request'[z] => preempt_request[z]
    BY <1>3, <1>a DEF IdleLocked, LockedBack, RunLocal
  <2> QED BY <2>1, <2>2, HeldKeeps
<1>4. ASSUME NEW w \in Helpers,
              \/ RoundEnds(w) \/ Relock(w) \/ IdleParks(w)
      PROVE  AskHeld'
  <2>1. Kept
    BY <1>4, <1>w, <1>a DEF RoundEnds, Relock, IdleParks, Kept, Off
  <2>2. asking' = asking /\ \A z \in Threads : preempt_request'[z] => preempt_request[z]
    BY <1>4, <1>a DEF RoundEnds, Relock, IdleParks
  <2> QED BY <2>1, <2>2, HeldKeeps
<1>5. ASSUME NEW w \in Helpers,
              \/ IdleResets(w) \/ IdleLooks(w) \/ IdleSleeps(w)
      PROVE  AskHeld'
  <2>1. Kept
    BY <1>5, <1>w, <1>a DEF IdleResets, IdleLooks, IdleSleeps, Kept, Off
  <2>2. asking' = asking /\ \A z \in Threads : preempt_request'[z] => preempt_request[z]
    BY <1>5, <1>a DEF IdleResets, IdleLooks, IdleSleeps
  <2> QED BY <2>1, <2>2, HeldKeeps
<1>6. ASSUME NEW w \in Helpers,
              \/ IdleUp(w) \/ WokenLocked(w) \/ IdleWakes(w)
      PROVE  AskHeld'
  <2>1. Kept
    BY <1>6, <1>w, <1>a DEF IdleUp, WokenLocked, IdleWakes, Kept, Off
  <2>2. asking' = asking /\ \A z \in Threads : preempt_request'[z] => preempt_request[z]
    BY <1>6, <1>a DEF IdleUp, WokenLocked, IdleWakes
  <2> QED BY <2>1, <2>2, HeldKeeps
<1>7. ASSUME NEW w \in Helpers, LocalTurn(w) PROVE AskHeld'
  <2>1. Kept
    BY <1>7, <1>w, <1>a DEF LocalTurn, Kept, Off
  <2>2. asking' = asking /\ \A z \in Threads : preempt_request'[z] => preempt_request[z]
    BY <1>7, <1>a DEF LocalTurn
  <2> QED BY <2>1, <2>2, HeldKeeps
<1>8. ASSUME NEW w \in Workers,
              \/ SwitchOut(w) \/ EnterNative(w) \/ LeaveNative(w)
      PROVE  AskHeld'
  <2>1. Kept
    BY <1>8, <1>w, <1>a DEF SwitchOut, EnterNative, LeaveNative, Kept, Off
  <2>2. asking' = asking /\ \A z \in Threads : preempt_request'[z] => preempt_request[z]
    BY <1>8, <1>a DEF SwitchOut, EnterNative, LeaveNative
  <2> QED BY <2>1, <2>2, HeldKeeps
<1>9. ASSUME NEW w \in Workers,
              \/ ScanParked(w) \/ ScanIdle(w) \/ sched_kick_worker(w)
      PROVE  AskHeld'
  <2>1. Kept
    BY <1>9, <1>w, <1>a DEF ScanParked, ScanIdle, WakeDone, sched_kick_worker, Kept, Off
  <2>2. asking' = asking /\ \A z \in Threads : preempt_request'[z] => preempt_request[z]
    BY <1>9, <1>a DEF ScanParked, ScanIdle, WakeDone, sched_kick_worker
  <2> QED BY <2>1, <2>2, HeldKeeps
<1>10. ASSUME NEW w \in Workers,
              \/ RunParked(w) \/ RunDied(w) \/ RunPassed(w)
      PROVE  AskHeld'
  <2>1. Kept
    BY <1>10, <1>w, <1>a DEF RunParked, RunEnds, Off, RunDied, RunPassed, Kept, Off
  <2>2. asking' = asking /\ \A z \in Threads : preempt_request'[z] => preempt_request[z]
    BY <1>10, <1>a DEF RunParked, RunEnds, Off, RunDied, RunPassed
  <2> QED BY <2>1, <2>2, HeldKeeps
<1>11. ASSUME NEW t \in Threads, sched_push_wake(t) PROVE AskHeld'
  <2>1. Kept
    BY <1>11, <1>w, <1>a DEF sched_push_wake, Kept, Off
  <2>2. asking' = asking /\ \A z \in Threads : preempt_request'[z] => preempt_request[z]
    BY <1>11, <1>a DEF sched_push_wake
  <2> QED BY <2>1, <2>2, HeldKeeps
<1>12. ASSUME NEW w \in Helpers, PickPlace(w) PROVE AskHeld'
  <2>1. PICK t \in Threads :
        /\ w \in Workers /\ At(w, "pick") /\ ShareOff(t)
        /\ UNCHANGED <<state, idleVars, sched, locked_turn, askVars, cur,
                       lrq_unstarted, active>>
        /\ \/ (\E b \in Helpers : Placed(w, b, t)) /\ UNCHANGED runVars
           \/ /\ Grown(w, "begin") /\ ToRun(w, t, "locked")
              /\ UNCHANGED <<home_wid, lrq, pinned, vi>>
    BY <1>12, PickPlaceCases DEF ShareOff
  <2>2. ASSUME NEW b \in Helpers, Placed(w, b, t), UNCHANGED runVars PROVE AskHeld'
    <3>1. GrownPc(w, "kick")
      BY <1>w, <2>1, <2>2, GrownMoves DEF Placed, TypeInv
    <3>2. /\ \A x \in Workers : cur'[x] = cur[x] /\ (x # w => tgt'[x] = tgt[x])
          /\ pc[w] \notin OffPcs /\ asking' = asking /\ preempt_request' = preempt_request
      BY <1>w, <1>a, <2>1, <2>2 DEF OffPcs
    <3>3. \A x \in Workers : x # w /\ pc[x] \in OffPcs => pc'[x] = pc[x]
      BY <1>w, <1>a, <3>1 DEF GrownPc, PoolPc, OffPcs
    <3>4. Kept
      BY <3>2, <3>3 DEF Kept, Off, OffPcs
    <3> QED BY <3>2, <3>4, HeldKeeps
  <2>3. CASE /\ Grown(w, "begin") /\ ToRun(w, t, "locked")
             /\ UNCHANGED <<home_wid, lrq, pinned, vi>>
    <3>1. GrownPc(w, "begin")
      BY <1>w, <2>1, <2>3, GrownMoves DEF Placed, TypeInv
    <3>2. /\ \A x \in Workers : cur'[x] = cur[x] /\ (x # w => tgt'[x] = tgt[x])
          /\ pc[w] \notin OffPcs /\ asking' = asking /\ preempt_request' = preempt_request
      BY <1>w, <1>a, <2>1, <2>3 DEF OffPcs
    <3>3. \A x \in Workers : x # w /\ pc[x] \in OffPcs => pc'[x] = pc[x]
      BY <1>w, <1>a, <3>1 DEF GrownPc, PoolPc, OffPcs
    <3>4. Kept
      BY <3>2, <3>3 DEF Kept, Off, OffPcs
    <3> QED BY <3>2, <3>4, HeldKeeps
  <2> QED BY <2>1, <2>2, <2>3
<1>13. ASSUME NEW w \in Helpers, sched_steal(w) PROVE AskHeld'
  <2>1. Kept
    BY <1>13, <1>w, <1>a DEF sched_steal, Stolen, runq_take, Kept, Off
  <2>2. asking' = asking /\ \A z \in Threads : preempt_request'[z] => preempt_request[z]
    BY <1>13, <1>a DEF sched_steal, Stolen, runq_take
  <2> QED BY <2>1, <2>2, HeldKeeps
<1>14. ASSUME NEW w \in Workers, sp_safepoint_preempt(w) PROVE AskHeld'
  <2>1. Kept
    BY <1>14, <1>w, <1>a DEF sp_safepoint_preempt, Consume, Kept, Off
  <2>2. asking' = asking /\ \A z \in Threads : preempt_request'[z] => preempt_request[z]
    BY <1>14, <1>a DEF sp_safepoint_preempt, Consume
  <2> QED BY <2>1, <2>2, HeldKeeps
<1>15. ASSUME NEW w \in Workers, SpawnLocal(w) PROVE AskHeld'
  <2>1. Kept
    BY <1>15, <1>w, <1>a DEF SpawnLocal, Kept, Off
  <2>2. asking' = asking /\ \A z \in Threads : preempt_request'[z] => preempt_request[z]
    BY <1>15, <1>a DEF SpawnLocal
  <2> QED BY <2>1, <2>2, HeldKeeps
<1>16. ASSUME NEW w \in Workers, Begin(w) PROVE AskHeld'
  <2>1. Kept
    BY <1>16, <1>w, <1>a DEF Begin, Kept, Off
  <2>2. asking' = asking /\ \A z \in Threads : preempt_request'[z] => preempt_request[z]
    BY <1>16, <1>a DEF Begin
  <2> QED BY <2>1, <2>2, HeldKeeps
<1>17. ASSUME NEW w \in Workers, ClearCur(w) PROVE AskHeld'
  <2>1. Kept
    BY <1>17, <1>w, <1>a DEF ClearCur, Kept, Off
  <2>2. asking' = asking /\ \A z \in Threads : preempt_request'[z] => preempt_request[z]
    BY <1>17, <1>a DEF ClearCur
  <2> QED BY <2>1, <2>2, HeldKeeps
<1>18. ASSUME NEW w \in Workers, Retire(w) PROVE AskHeld'
  <2>1. Kept
    BY <1>18, <1>w, <1>a DEF Retire, Consume, Off, Kept, Off
  <2>2. asking' = asking /\ \A z \in Threads : preempt_request'[z] => preempt_request[z]
    BY <1>18, <1>a DEF Retire, Consume, Off
  <2> QED BY <2>1, <2>2, HeldKeeps
<1>19. ASSUME NEW w \in Workers, MonitorReads(w) PROVE AskHeld'
  <2>1. asking = <<>>
    BY <1>19 DEF MonitorReads, LockInv, Free, Monitor
  <2> QED BY <1>19, <2>1 DEF MonitorReads, AskHeld, Off
<1>20. ASSUME MainSpawn PROVE AskHeld'
  <2>1. PICK u \in Threads :
              /\ state[u] = "NEW" /\ ~ Queued(u) /\ state' = Set(state, u, "RUNNABLE")
              /\ \/ (\E b \in Helpers : Placed(0, b, u)) /\ UNCHANGED grq
                 \/ /\ grq' \in Seq(Threads) /\ IsInjective(grq')
                    /\ Range(grq') = Range(grq) \cup {u}
                    /\ Grown(0, "scan") /\ vi' = Set(vi, 0, 1)
                    /\ UNCHANGED <<home_wid, lrq, pinned>>
    BY <1>20, MainSpawnCases
  <2>2. /\ At(0, "code") /\ sched = Free /\ sched' = 0
        /\ UNCHANGED <<idleVars, runVars, locked_turn, askVars, lrq_unstarted, active>>
    BY <1>20, MainSpawnCases
  <2>3. ASSUME NEW b \in Helpers, Placed(0, b, u), UNCHANGED grq PROVE AskHeld'
    <3>1. GrownPc(0, "kick")
      BY <1>w, <2>1, <2>3, GrownMoves DEF Placed, TypeInv
    <3>2. /\ \A x \in Workers : cur'[x] = cur[x] /\ (x # 0 => tgt'[x] = tgt[x])
          /\ pc[0] \notin OffPcs /\ asking' = asking /\ preempt_request' = preempt_request
      BY <1>w, <1>a, <2>1, <2>3, <2>2 DEF OffPcs
    <3>3. \A x \in Workers : x # 0 /\ pc[x] \in OffPcs => pc'[x] = pc[x]
      BY <1>w, <1>a, <3>1 DEF GrownPc, PoolPc, OffPcs
    <3>4. Kept
      BY <3>2, <3>3 DEF Kept, Off, OffPcs
    <3> QED BY <3>2, <3>4, HeldKeeps
  <2>4. CASE /\ grq' \in Seq(Threads) /\ IsInjective(grq')
             /\ Range(grq') = Range(grq) \cup {u}
             /\ Grown(0, "scan") /\ vi' = Set(vi, 0, 1)
             /\ UNCHANGED <<home_wid, lrq, pinned>>
    <3>1. GrownPc(0, "scan")
      BY <1>w, <2>1, <2>4, GrownMoves DEF Placed, TypeInv
    <3>2. /\ \A x \in Workers : cur'[x] = cur[x] /\ (x # 0 => tgt'[x] = tgt[x])
          /\ pc[0] \notin OffPcs /\ asking' = asking /\ preempt_request' = preempt_request
      BY <1>w, <1>a, <2>1, <2>4, <2>2 DEF OffPcs
    <3>3. \A x \in Workers : x # 0 /\ pc[x] \in OffPcs => pc'[x] = pc[x]
      BY <1>w, <1>a, <3>1 DEF GrownPc, PoolPc, OffPcs
    <3>4. Kept
      BY <3>2, <3>3 DEF Kept, Off, OffPcs
    <3> QED BY <3>2, <3>4, HeldKeeps
  <2> QED BY <2>1, <2>3, <2>4
<1>21. ASSUME PumpRun PROVE AskHeld'
  <2>1. /\ At(0, "code") /\ sched = Free /\ sched' = 0 /\ Goto(0, "begin")
        /\ UNCHANGED <<threadVars, poolVars, idleVars, locked_turn, vi, askVars>>
    BY <1>21, PumpRunCases
  <2>2. PICK t \in Threads :
              /\ ToRun(0, t, "locked")
              /\ \/ ShareOff(t) /\ UNCHANGED <<lrq, lrq_unstarted>>
                 \/ Took(0, t) /\ runq_take(0, t)
    BY <1>21, PumpRunCases
  <2>3. Kept
    BY <1>w, <1>a, <2>1, <2>2 DEF Kept, Off
  <2> QED BY <1>a, <2>1, <2>3, HeldKeeps
<1>22. ASSUME PreemptAsks PROVE AskHeld'
  <2>1. asking \in Workers \X Threads /\ asking[1] \in Workers /\ asking[2] \in Threads
    BY <1>22 DEF PreemptAsks, TypeInv, LockType
  <2> QED BY <1>22, <1>a, <2>1 DEF PreemptAsks, AskHeld, Off
<1>23. ASSUME PreemptLooks PROVE AskHeld'
  <2>1. asking \in Workers \X Threads /\ asking[1] \in Workers /\ asking[2] \in Threads
    BY <1>23 DEF PreemptLooks, TypeInv, LockType
  <2>2. preempt_request'[asking[2]] => cur[asking[1]] = asking[2]
    BY <1>23, <1>a, <2>1 DEF PreemptLooks
  <2>3. ASSUME NEW t \in Threads, preempt_request'[t], t # asking[2]
        PROVE  preempt_request[t]
    BY <1>23, <1>a, <2>1, <2>3 DEF PreemptLooks
  <2>4. UNCHANGED <<cur, tgt, pc>>
    BY <1>23 DEF PreemptLooks
  <2> QED BY <2>1, <2>2, <2>3, <2>4 DEF AskHeld, Off
<1>u. CASE UNCHANGED vars
  <2>1. Kept
    BY <1>u, <1>w, <1>a DEF vars, Kept, Off
  <2>2. asking' = asking /\ \A z \in Threads : preempt_request'[z] => preempt_request[z]
    BY <1>u, <1>a DEF vars
  <2> QED BY <2>1, <2>2, HeldKeeps
<1> HIDE DEF At, Goto, Set, ToRun, threadVars, queueVars, poolVars, idleVars, runVars,
             askVars
<1> QED BY <1>u, <1>1, <1>2, <1>3, <1>4, <1>5, <1>6, <1>7, <1>8, <1>9, <1>10, <1>11,
           <1>12, <1>13, <1>14, <1>15, <1>16, <1>17, <1>18, <1>19, <1>20, <1>21, <1>22,
           <1>23
     DEF Next, LockedStep, UnlockedStep, CvWakes, ThreadStep, WakeStep, RunStep

\* Every step keeps the count of requests.
LEMMA AskCountStep ==
  ASSUME TypeInv, QueueInv, HandInv, StateInv, ScanInv, LockInv, AskCount,
         Next \/ UNCHANGED vars
  PROVE  AskCount'
<1>w. /\ g_worker_cap \in Nat \ {0} /\ NoThread \notin Threads /\ 0 \in Workers
      /\ \A w \in Helpers : w \in Workers /\ w > 0
      /\ \A w \in Workers : w \in Int /\ w >= 0 /\ w <= g_worker_cap
  BY ConstAssumption DEF Helpers, Workers
<1>a. /\ preempt_request \in [Threads -> BOOLEAN]
           /\ cur \in [Workers -> Threads \cup {NoThread}]
      /\ sched = Free => asking = <<>>
      /\ \A w \in Workers : sched = w => asking = <<>>
  BY <1>w DEF TypeInv, ThreadType, RunType, LockInv, Free, Monitor
<1>c. npreempt \in Int /\ Cardinality(Asked) \in Int
  <2>1. Asked \in SUBSET Threads /\ IsFiniteSet(Threads)
    BY ConstAssumption DEF Asked
  <2>2. Cardinality(Asked) \in Nat
    BY <2>1, FS_Subset, FS_CardinalityType
  <2> QED BY <2>2 DEF TypeInv, CountType
<1> USE DEF At, Goto, Set, ToRun, threadVars, queueVars, poolVars, idleVars, runVars,
            askVars
<1>1. ASSUME NEW w \in Helpers,
              \/ HelperStarts(w) \/ LoopHead(w) \/ PickOwn(w) \/ PickSteal(w)
              \/ sched_steal(w) \/ StealNext(w)
      PROVE  AskCount'
  <2>1. UNCHANGED <<preempt_request, npreempt, asking>>
    BY <1>1 DEF HelperStarts, LoopHead, PickOwn, PickSteal, sched_steal, Stolen, StealNext
  <2> QED BY <2>1 DEF AskCount, Asked
<1>2. ASSUME NEW w \in Helpers,
              \/ StealNone(w) \/ IdleLocked(w) \/ LockedBack(w) \/ RunLocal(w)
              \/ RoundEnds(w) \/ Relock(w)
      PROVE  AskCount'
  <2>1. UNCHANGED <<preempt_request, npreempt, asking>>
    BY <1>2 DEF StealNone, IdleLocked, LockedBack, RunLocal, RoundEnds, Relock
  <2> QED BY <2>1 DEF AskCount, Asked
<1>3. ASSUME NEW w \in Helpers,
              \/ IdleParks(w) \/ IdleResets(w) \/ IdleLooks(w) \/ IdleSleeps(w)
              \/ IdleUp(w) \/ WokenLocked(w)
      PROVE  AskCount'
  <2>1. UNCHANGED <<preempt_request, npreempt, asking>>
    BY <1>3 DEF IdleParks, IdleResets, IdleLooks, IdleSleeps, IdleUp, WokenLocked
  <2> QED BY <2>1 DEF AskCount, Asked
<1>4. ASSUME NEW w \in Helpers,
              \/ IdleWakes(w) \/ LocalTurn(w)
      PROVE  AskCount'
  <2>1. UNCHANGED <<preempt_request, npreempt, asking>>
    BY <1>4 DEF IdleWakes, LocalTurn
  <2> QED BY <2>1 DEF AskCount, Asked
<1>5. ASSUME NEW w \in Workers,
              \/ SwitchOut(w) \/ EnterNative(w) \/ LeaveNative(w) \/ SpawnLocal(w)
              \/ ScanParked(w) \/ ScanIdle(w)
      PROVE  AskCount'
  <2>1. UNCHANGED <<preempt_request, npreempt, asking>>
    BY <1>5 DEF SwitchOut, EnterNative, LeaveNative, SpawnLocal, ScanParked, ScanIdle,
       WakeDone
  <2> QED BY <2>1 DEF AskCount, Asked
<1>6. ASSUME NEW w \in Workers,
              \/ sched_kick_worker(w) \/ Begin(w) \/ ClearCur(w) \/ RunParked(w)
              \/ RunDied(w) \/ RunPassed(w)
      PROVE  AskCount'
  <2>1. UNCHANGED <<preempt_request, npreempt, asking>>
    BY <1>6 DEF sched_kick_worker, WakeDone, Begin, ClearCur, RunParked, RunEnds, Off,
       RunDied, RunPassed
  <2> QED BY <2>1 DEF AskCount, Asked
<1>7. ASSUME NEW t \in Threads, sched_push_wake(t) PROVE AskCount'
  <2>1. UNCHANGED <<preempt_request, npreempt, asking>>
    BY <1>7 DEF sched_push_wake
  <2> QED BY <2>1 DEF AskCount, Asked
<1>8. ASSUME NEW w \in Helpers, PickPlace(w) PROVE AskCount'
  <2>1. UNCHANGED <<preempt_request, npreempt, asking>>
    BY <1>8 DEF PickPlace
  <2> QED BY <2>1 DEF AskCount, Asked
<1>9. ASSUME NEW w \in Workers, sp_safepoint_preempt(w) PROVE AskCount'
  <2>1. cur[w] \in Threads /\ cur[w] # NoThread
    BY <1>9 DEF sp_safepoint_preempt, At, HandInv, HandAt, TypeInv, RunType, BusyPcs
  <2>2. PICK t \in Threads : t = cur[w]
    BY <2>1
  <2>3. /\ asking = <<>> /\ asking' = <<>> /\ npreempt' = npreempt - 1
        /\ preempt_request[t] /\ ~ preempt_request'[t]
        /\ \A u \in Threads : u # t => preempt_request'[u] = preempt_request[u]
    BY <1>9, <1>w, <1>a, <2>2 DEF sp_safepoint_preempt, Consume
  <2>4. Asked' = Asked \ {t} /\ t \in Asked /\ Asked \in SUBSET Threads
    BY <2>3 DEF Asked
  <2>5. Cardinality(Asked') = Cardinality(Asked) - 1
    BY <2>4, CountOne
  <2> QED BY <1>c, <2>3, <2>5 DEF AskCount
<1>10. ASSUME NEW w \in Workers, Retire(w) PROVE AskCount'
  <2>1. tgt[w] \in Threads /\ tgt[w] # NoThread /\ cur[w] = NoThread
    BY <1>10, OffFacts DEF Retire
  <2>2. PICK t \in Threads : t = tgt[w]
    BY <2>1
  <2>3. /\ asking = <<>> /\ asking' = <<>> /\ npreempt' = npreempt - 1
        /\ preempt_request[t] /\ ~ preempt_request'[t]
        /\ \A u \in Threads : u # t => preempt_request'[u] = preempt_request[u]
    BY <1>10, <1>w, <1>a, <2>2 DEF Retire, Consume, Off
  <2>4. Asked' = Asked \ {t} /\ t \in Asked /\ Asked \in SUBSET Threads
    BY <2>3 DEF Asked
  <2>5. Cardinality(Asked') = Cardinality(Asked) - 1
    BY <2>4, CountOne
  <2> QED BY <1>c, <2>3, <2>5 DEF AskCount
<1>11. ASSUME NEW w \in Workers, MonitorReads(w) PROVE AskCount'
  <2>1. asking = <<>> /\ ~ preempt_request'[asking'[2]]
    BY <1>11, <1>a DEF MonitorReads
  <2>2. UNCHANGED <<npreempt, Asked>>
    BY <1>11 DEF MonitorReads, Asked
  <2> QED BY <1>c, <2>1, <2>2 DEF AskCount
<1>12. ASSUME MainSpawn PROVE AskCount'
  <2>1. UNCHANGED <<preempt_request, npreempt, asking>>
    BY <1>12 DEF MainSpawn
  <2> QED BY <2>1 DEF AskCount, Asked
<1>13. ASSUME PumpRun PROVE AskCount'
  <2>1. UNCHANGED <<preempt_request, npreempt, asking>>
    BY <1>13 DEF PumpRun
  <2> QED BY <2>1 DEF AskCount, Asked
<1>14. ASSUME PreemptAsks PROVE AskCount'
  <2>1. PICK t \in Threads : t = asking[2]
    BY <1>14 DEF PreemptAsks, TypeInv, LockType
  <2>2. /\ asking # <<>> /\ asking' = asking /\ npreempt' = npreempt
        /\ ~ preempt_request[t] /\ preempt_request'[t] /\ asking'[2] = t
        /\ \A u \in Threads : u # t => preempt_request'[u] = preempt_request[u]
    BY <1>14, <1>a, <2>1 DEF PreemptAsks
  <2>3. Asked' = Asked \cup {t} /\ t \notin Asked /\ Asked \in SUBSET Threads
    BY <2>2 DEF Asked
  <2>4. Cardinality(Asked') = Cardinality(Asked) + 1
    BY <2>3, CountOne
  <2> QED BY <1>c, <2>1, <2>2, <2>4 DEF AskCount
<1>15. ASSUME PreemptLooks PROVE AskCount'
  <2>1. PICK t \in Threads : t = asking[2]
    BY <1>15 DEF PreemptLooks, TypeInv, LockType
  <2>2. asking # <<>> /\ asking' = <<>> /\ preempt_request[t]
    BY <1>15, <2>1 DEF PreemptLooks
  <2>3. CASE cur[asking[1]] = t
    <3>1. npreempt' = npreempt + 1 /\ preempt_request' = preempt_request
      BY <1>15, <2>1, <2>3 DEF PreemptLooks
    <3>2. Asked' = Asked
      BY <3>1 DEF Asked
    <3> QED BY <1>c, <2>1, <2>2, <3>1, <3>2 DEF AskCount
  <2>4. CASE cur[asking[1]] # t
    <3>1. /\ npreempt' = npreempt /\ ~ preempt_request'[t]
          /\ \A u \in Threads : u # t => preempt_request'[u] = preempt_request[u]
      BY <1>15, <1>a, <2>1, <2>4 DEF PreemptLooks
    <3>2. Asked' = Asked \ {t} /\ t \in Asked /\ Asked \in SUBSET Threads
      BY <2>2, <3>1 DEF Asked
    <3>3. Cardinality(Asked') = Cardinality(Asked) - 1
      BY <3>2, CountOne
    <3> QED BY <1>c, <2>1, <2>2, <3>1, <3>3 DEF AskCount
  <2> QED BY <2>3, <2>4
<1>u. CASE UNCHANGED vars
  <2>1. UNCHANGED <<preempt_request, npreempt, asking>>
    BY <1>u DEF vars
  <2> QED BY <2>1 DEF AskCount, Asked
<1> HIDE DEF At, Goto, Set, ToRun, threadVars, queueVars, poolVars, idleVars, runVars,
             askVars
<1> QED BY <1>u, <1>1, <1>2, <1>3, <1>4, <1>5, <1>6, <1>7, <1>8, <1>9, <1>10, <1>11,
           <1>12, <1>13, <1>14, <1>15
     DEF Next, LockedStep, UnlockedStep, CvWakes, ThreadStep, WakeStep, RunStep

-----------------------------------------------------------------------------
(* What waits to start.                                                    *)

Waiting(t) == Unstarted(t) /\ Queued(t)
\* It is where it was before a step ...
StaysQueued(t) ==
  /\ Waiting(t) /\ (t \in Range(grq') <=> t \in Range(grq))
  /\ \A v \in Workers : t \in Range(lrq'[v]) <=> t \in Range(lrq[v])
\* ... or it is new, and its spawn looks for a helper.
JustSpawned(t) ==
  \E x \in Workers :
    /\ pc[x] \in {"run", "code"} /\ pc'[x] = "scan" /\ vi'[x] = 1 /\ sched = Free
    /\ \A v \in Workers : t \in Range(lrq'[v]) => v = x
WaitsOn == \A t \in Threads : Waiting(t)' => StaysQueued(t) \/ JustSpawned(t)

\* A thread is taken off a queue, put on one with a home, or put on one anew.
LEMMA WaitTook ==
  ASSUME TypeInv, QueueInv, NEW w \in Workers, NEW t \in Threads, Took(w, t),
         UNCHANGED <<grq, home_wid>>
  PROVE  WaitsOn
<1>1. ~ Queued(t)' /\ \A u : u # t => (Queued(u)' <=> Queued(u))
  BY TookQueued
<1>2. ASSUME NEW u \in Threads, Waiting(u)' PROVE StaysQueued(u)
  <2>1. u # t /\ Waiting(u)
    BY <1>1, <1>2 DEF Waiting, Unstarted
  <2>2. \A v \in Workers : u \in Range(lrq'[v]) <=> u \in Range(lrq[v])
    BY <2>1 DEF Took
  <2> QED BY <2>1, <2>2 DEF StaysQueued
<1> QED BY <1>2 DEF WaitsOn

\* Nobody else starts to wait when a started or placed thread is queued.
LEMMA WaitPut ==
  ASSUME TypeInv, QueueInv, NEW w \in Workers, NEW t \in Threads, Put(w, t),
         home_wid'[t] \in Workers,
         Range(grq') = Range(grq) \/ Range(grq') = Range(grq) \ {t},
         \A u \in Threads : u # t => home_wid'[u] = home_wid[u]
  PROVE  WaitsOn
<1>1. ~ Unstarted(t)'
  BY ConstAssumption DEF Unstarted, Workers
<1>2. ASSUME NEW u \in Threads, Waiting(u)' PROVE StaysQueued(u)
  <2>1. u # t
    BY <1>1, <1>2 DEF Waiting
  <2>2. /\ u \in Range(grq') <=> u \in Range(grq)
        /\ \A v \in Workers : u \in Range(lrq'[v]) <=> u \in Range(lrq[v])
    BY <2>1 DEF Put
  <2>3. Waiting(u)
    BY <1>2, <2>1, <2>2 DEF Waiting, Unstarted, Queued
  <2> QED BY <2>2, <2>3 DEF StaysQueued
<1> QED BY <1>2 DEF WaitsOn

\* Only the thread just spawned starts to wait.
LEMMA WaitNew ==
  ASSUME TypeInv, NEW t \in Threads, JustSpawned(t), home_wid' = home_wid,
         \A u \in Threads : u # t =>
           /\ u \in Range(grq') <=> u \in Range(grq)
           /\ \A v \in Workers : u \in Range(lrq'[v]) <=> u \in Range(lrq[v])
  PROVE  WaitsOn
<1>2. ASSUME NEW u \in Threads, u # t, Waiting(u)' PROVE StaysQueued(u)
  BY <1>2 DEF Waiting, Unstarted, Queued, StaysQueued
<1> QED BY <1>2 DEF WaitsOn

\* Nobody starts to wait when a thread goes off the shared queue.
LEMMA WaitShare ==
  ASSUME TypeInv, QueueInv, NEW t \in Threads, ShareOff(t), UNCHANGED <<lrq, home_wid>>
  PROVE  WaitsOn
<1>1. ~ Queued(t)'
  BY ShareOffQueued
<1>2. ASSUME NEW u \in Threads, Waiting(u)' PROVE StaysQueued(u)
  <2>1. u # t
    BY <1>1, <1>2 DEF Waiting
  <2>2. u \in Range(grq') <=> u \in Range(grq)
    BY <2>1 DEF ShareOff
  <2> QED BY <1>2, <2>2 DEF Waiting, Unstarted, Queued, StaysQueued
<1> QED BY <1>2 DEF WaitsOn

\* Only a spawn makes a thread wait to start.
LEMMA WaitStep ==
  ASSUME TypeInv, QueueInv, HandInv, StateInv, ScanInv, Next \/ UNCHANGED vars
  PROVE  WaitsOn
<1>w. /\ g_worker_cap \in Nat \ {0} /\ NoThread \notin Threads /\ 0 \in Workers
      /\ \A w \in Helpers : w \in Workers /\ w > 0
      /\ \A w \in Workers : w \in Int /\ w >= 0 /\ w <= g_worker_cap
  BY ConstAssumption DEF Helpers, Workers
<1>a. /\ state \in [Threads -> {"NEW", "RUNNABLE", "RUNNING", "BLOCKED", "DEAD"}]
      /\ home_wid \in [Threads -> Workers \cup {-1}]
      /\ \A w \in Workers : Range(lrq[w]) \subseteq Threads
      /\ Range(grq) \subseteq Threads
  BY QueueFacts DEF TypeInv, ThreadType, Queued
<1>v. vi \in [Workers -> 0 .. (g_worker_cap + 1)] /\ pc \in [Workers -> Pcs]
  BY DEF TypeInv, RunType, PcType
<1> USE DEF At, Goto, Set, ToRun, threadVars, queueVars, poolVars, idleVars, runVars,
            askVars
<1>1. ASSUME NEW w \in Helpers,
              \/ HelperStarts(w) \/ LoopHead(w) \/ PickSteal(w) \/ StealNext(w)
              \/ StealNone(w) \/ IdleLocked(w)
      PROVE  WaitsOn
  <2>1. UNCHANGED <<grq, lrq, home_wid>>
    BY <1>1 DEF HelperStarts, LoopHead, PickSteal, StealNext, StealNone, IdleLocked
  <2> QED BY <2>1 DEF WaitsOn, Waiting, StaysQueued, Unstarted, Queued
<1>2. ASSUME NEW w \in Helpers,
              \/ LockedBack(w) \/ RoundEnds(w) \/ Relock(w) \/ IdleParks(w)
              \/ IdleResets(w) \/ IdleLooks(w)
      PROVE  WaitsOn
  <2>1. UNCHANGED <<grq, lrq, home_wid>>
    BY <1>2 DEF LockedBack, RoundEnds, Relock, IdleParks, IdleResets, IdleLooks
  <2> QED BY <2>1 DEF WaitsOn, Waiting, StaysQueued, Unstarted, Queued
<1>3. ASSUME NEW w \in Helpers,
              \/ IdleSleeps(w) \/ IdleUp(w) \/ WokenLocked(w) \/ IdleWakes(w)
              \/ LocalTurn(w)
      PROVE  WaitsOn
  <2>1. UNCHANGED <<grq, lrq, home_wid>>
    BY <1>3 DEF IdleSleeps, IdleUp, WokenLocked, IdleWakes, LocalTurn
  <2> QED BY <2>1 DEF WaitsOn, Waiting, StaysQueued, Unstarted, Queued
<1>4. ASSUME NEW w \in Workers,
              \/ SwitchOut(w) \/ sp_safepoint_preempt(w) \/ EnterNative(w)
                \/ LeaveNative(w)
              \/ ScanParked(w) \/ ScanIdle(w)
      PROVE  WaitsOn
  <2>1. UNCHANGED <<grq, lrq, home_wid>>
    BY <1>4 DEF SwitchOut, sp_safepoint_preempt, Consume, EnterNative, LeaveNative,
       ScanParked, ScanIdle, WakeDone
  <2> QED BY <2>1 DEF WaitsOn, Waiting, StaysQueued, Unstarted, Queued
<1>5. ASSUME NEW w \in Workers,
              \/ sched_kick_worker(w) \/ ClearCur(w) \/ Retire(w) \/ MonitorReads(w)
      PROVE  WaitsOn
  <2>1. UNCHANGED <<grq, lrq, home_wid>>
    BY <1>5 DEF sched_kick_worker, WakeDone, ClearCur, Retire, Consume, Off, MonitorReads
  <2> QED BY <2>1 DEF WaitsOn, Waiting, StaysQueued, Unstarted, Queued
<1>6. ASSUME 
              \/ PreemptAsks \/ PreemptLooks
      PROVE  WaitsOn
  <2>1. UNCHANGED <<grq, lrq, home_wid>>
    BY <1>6 DEF PreemptAsks, PreemptLooks
  <2> QED BY <2>1 DEF WaitsOn, Waiting, StaysQueued, Unstarted, Queued
<1>7. ASSUME NEW w \in Helpers, PickPlace(w) PROVE WaitsOn
  <2>1. PICK t \in Threads :
        /\ w \in Workers /\ At(w, "pick") /\ ShareOff(t)
        /\ UNCHANGED <<state, idleVars, sched, locked_turn, askVars, cur,
                       lrq_unstarted, active>>
        /\ \/ (\E b \in Helpers : Placed(w, b, t)) /\ UNCHANGED runVars
           \/ /\ Grown(w, "begin") /\ ToRun(w, t, "locked")
              /\ UNCHANGED <<home_wid, lrq, pinned, vi>>
    BY <1>7, PickPlaceCases DEF ShareOff
  <2>2. ASSUME NEW b \in Helpers, Placed(w, b, t), UNCHANGED runVars PROVE WaitsOn
    <3>1. GrownPc(w, "kick")
      BY <1>w, <2>1, <2>2, GrownMoves DEF Placed, TypeInv
    <3>2. /\ b \in Workers /\ Put(b, t) /\ home_wid'[t] = b
          /\ Range(grq') = Range(grq) \/ Range(grq') = Range(grq) \ {t}
          /\ \A x \in Threads : x # t => home_wid'[x] = home_wid[x]
      BY <1>a, <2>1, <2>2 DEF Placed, ShareOff
    <3> QED BY <3>2, WaitPut
  <2>3. CASE /\ Grown(w, "begin") /\ ToRun(w, t, "locked")
             /\ UNCHANGED <<home_wid, lrq, pinned, vi>>
    <3>1. GrownPc(w, "begin")
      BY <1>w, <2>1, <2>3, GrownMoves DEF Placed, TypeInv
    <3>2. UNCHANGED <<home_wid, lrq>>
      BY <2>3
    <3> QED BY <2>1, <3>2, WaitShare
  <2> QED BY <2>1, <2>2, <2>3
<1>8. ASSUME NEW w \in Helpers, PickOwn(w) PROVE WaitsOn
  <2>1. PICK t \in Threads : t = Head(lrq[w]) /\ Took(w, t) /\ runq_take(w, t)
    BY <1>8, <1>w, TakeHead DEF PickOwn
  <2>2. CountType /\ w \in Workers
    BY <1>w DEF TypeInv
  <2>3. /\ grq' = grq /\ lrq_unstarted' \in Int
        /\ Unstarted(t) => lrq_unstarted' = lrq_unstarted - 1
        /\ ~ Unstarted(t) => lrq_unstarted' = lrq_unstarted
    BY <2>1, <2>2, TakeCounts
  <2>4. UNCHANGED home_wid
    BY <1>8 DEF PickOwn
  <2> QED BY <2>1, <2>2, <2>3, <2>4, WaitTook
<1>9. ASSUME NEW w \in Helpers, sched_steal(w) PROVE WaitsOn
  <2>1. PICK t \in Threads : /\ Unstarted(t) /\ Took(vi[w], t) /\ runq_take(vi[w], t)
                             /\ Stolen(w, t)
    BY <1>9, StealCases
  <2>2. w \in Workers /\ At(w, "steal") /\ vi[w] <= spawned /\ vi[w] # w
          /\ vi[w] \in Workers
    BY <1>9, StealCases
  <2>3. CountType
    BY DEF TypeInv
  <2>4. /\ grq' = grq /\ lrq_unstarted' \in Int /\ lrq_unstarted' = lrq_unstarted - 1
    BY <2>1, <2>2, <2>3, TakeCounts
  <2>5. UNCHANGED home_wid
    BY <2>1 DEF Stolen
  <2> QED BY <2>1, <2>2, <2>4, <2>5, WaitTook
<1>10. ASSUME NEW w \in Helpers, RunLocal(w) PROVE WaitsOn
  <2>1. PICK t \in Threads : t = Head(lrq[w]) /\ Took(w, t) /\ runq_take(w, t)
    BY <1>10, <1>w, TakeHead DEF RunLocal
  <2>2. CountType /\ w \in Workers
    BY <1>w DEF TypeInv
  <2>3. /\ grq' = grq /\ lrq_unstarted' \in Int
        /\ Unstarted(t) => lrq_unstarted' = lrq_unstarted - 1
        /\ ~ Unstarted(t) => lrq_unstarted' = lrq_unstarted
    BY <2>1, <2>2, TakeCounts
  <2>4. UNCHANGED home_wid
    BY <1>10 DEF RunLocal
  <2> QED BY <2>1, <2>2, <2>3, <2>4, WaitTook
<1>11. ASSUME NEW w \in Workers, SpawnLocal(w) PROVE WaitsOn
  <2>1. PICK u \in Threads : /\ state[u] = "NEW" /\ ~ Queued(u) /\ Unstarted(u)
                             /\ state' = Set(state, u, "RUNNABLE") /\ Put(w, u)
    BY <1>11, SpawnLocalCases
  <2>2. /\ At(w, "run") /\ sched = Free /\ sched' = w
        /\ Goto(w, "scan") /\ vi' = Set(vi, w, 1)
        /\ UNCHANGED <<home_wid, poolVars, idleVars, runVars, locked_turn, askVars>>
    BY <1>11 DEF SpawnLocal
  <2>3. grq' = grq /\ lrq_unstarted' = lrq_unstarted + 1
    BY <1>11, SpawnLocalCases
  <2>4. JustSpawned(u)
    <3>1. pc[w] = "run" /\ pc'[w] = "scan" /\ vi'[w] = 1 /\ sched = Free
      BY <1>v, <2>2
    <3>2. \A v \in Workers : u \in Range(lrq'[v]) => v = w
      BY <2>1 DEF Put, Queued
    <3> QED BY <3>1, <3>2 DEF JustSpawned
  <2>5. home_wid' = home_wid /\ \A x \in Threads : x # u =>
          /\ x \in Range(grq') <=> x \in Range(grq)
          /\ \A v \in Workers : x \in Range(lrq'[v]) <=> x \in Range(lrq[v])
    BY <2>1, <2>2, <2>3 DEF Put
  <2> QED BY <2>4, <2>5, WaitNew
<1>12. ASSUME NEW w \in Workers, Begin(w) PROVE WaitsOn
  <2>1. /\ tgt[w] \in Threads /\ tgt[w] # NoThread /\ cur[w] = NoThread
        /\ state[tgt[w]] = "RUNNABLE" /\ ~ Queued(tgt[w])
        /\ home_wid[tgt[w]] \in {-1, w}
    BY <1>12 DEF Begin, At, HandInv, HandAt, TypeInv, RunType
  <2>0. PICK t \in Threads : t = tgt[w]
    BY <2>1
  <2>2. /\ UNCHANGED <<grq, lrq>> /\ ~ Queued(t)
        /\ \A x \in Threads : x # t => home_wid'[x] = home_wid[x]
    BY <1>12, <1>a, <2>0, <2>1 DEF Begin
  <2>3. ASSUME NEW x \in Threads, Waiting(x)' PROVE StaysQueued(x)
    <3>1. Queued(x)' <=> Queued(x)
      BY <2>2 DEF Queued
    <3>2. Unstarted(x)
      BY <2>2, <2>3, <3>1 DEF Waiting, Unstarted
    <3> QED BY <2>2, <2>3, <3>1, <3>2 DEF Waiting, StaysQueued
  <2> QED BY <2>3 DEF WaitsOn
<1>13. ASSUME NEW w \in Workers, RunParked(w) PROVE WaitsOn
  <2>1. UNCHANGED <<grq, lrq, home_wid>>
    BY <1>13 DEF RunParked, RunEnds, Off
  <2> QED BY <2>1 DEF WaitsOn, Waiting, StaysQueued, Unstarted, Queued
<1>14. ASSUME NEW w \in Workers, RunDied(w) PROVE WaitsOn
  <2>1. UNCHANGED <<grq, lrq, home_wid>>
    BY <1>14 DEF RunDied, RunEnds, Off
  <2> QED BY <2>1 DEF WaitsOn, Waiting, StaysQueued, Unstarted, Queued
<1>15. ASSUME NEW w \in Workers, RunPassed(w) PROVE WaitsOn
  <2>1. /\ Put(w, tgt[w]) /\ grq' = grq /\ lrq_unstarted' = lrq_unstarted
        /\ Off(w) /\ pc[w] = "passed"
    BY <1>15, PassedPuts
  <2>2. /\ tgt[w] \in Threads /\ tgt[w] # NoThread /\ cur[w] = NoThread
        /\ state[tgt[w]] = "RUNNING" /\ home_wid[tgt[w]] = w /\ ~ Queued(tgt[w])
    BY <2>1, OffFacts
  <2>3. /\ RunEnds(w) /\ state' = Set(state, tgt[w], "RUNNABLE") /\ UNCHANGED pinned
    BY <1>15 DEF RunPassed
  <2>0. PICK t \in Threads : t = tgt[w]
    BY <2>2
  <2>4. UNCHANGED home_wid /\ home_wid'[t] = w
    BY <2>0, <2>2, <2>3 DEF RunEnds
  <2>5. Put(w, t)
    BY <2>0, <2>1
  <2> QED BY <2>1, <2>4, <2>5, WaitPut
<1>16. ASSUME NEW t \in Threads, sched_push_wake(t) PROVE WaitsOn
  <2>1. /\ home_wid[t] \in Workers /\ Put(home_wid[t], t) /\ grq' = grq
        /\ ~ Queued(t) /\ lrq_unstarted' = lrq_unstarted
    BY <1>16, WakePuts
  <2>2. /\ state[t] = "BLOCKED" /\ state' = Set(state, t, "RUNNABLE")
        /\ home_wid[t] = 0 => sched = Free
        /\ signalled' = [signalled EXCEPT ![home_wid[t]] = @ \/ idle[home_wid[t]]]
        /\ UNCHANGED <<home_wid, poolVars, parked, wake_sent, idle, runVars, sched,
                       locked_turn, pc, vi, askVars>>
    BY <1>16 DEF sched_push_wake
  <2>4. UNCHANGED home_wid
    BY <2>2
  <2> QED BY <2>1, <2>4, WaitPut
<1>17. ASSUME MainSpawn PROVE WaitsOn
  <2>1. PICK u \in Threads :
              /\ state[u] = "NEW" /\ ~ Queued(u) /\ state' = Set(state, u, "RUNNABLE")
              /\ \/ (\E b \in Helpers : Placed(0, b, u)) /\ UNCHANGED grq
                 \/ /\ grq' \in Seq(Threads) /\ IsInjective(grq')
                    /\ Range(grq') = Range(grq) \cup {u}
                    /\ Grown(0, "scan") /\ vi' = Set(vi, 0, 1)
                    /\ UNCHANGED <<home_wid, lrq, pinned>>
    BY <1>17, MainSpawnCases
  <2>2. /\ At(0, "code") /\ sched = Free /\ sched' = 0
        /\ UNCHANGED <<idleVars, runVars, locked_turn, askVars, lrq_unstarted, active>>
    BY <1>17, MainSpawnCases
  <2>3. ASSUME NEW b \in Helpers, Placed(0, b, u), UNCHANGED grq PROVE WaitsOn
    <3>1. GrownPc(0, "kick")
      BY <1>w, <2>1, <2>3, GrownMoves DEF Placed, TypeInv
    <3>2. /\ b \in Workers /\ Put(b, u) /\ home_wid'[u] = b
          /\ Range(grq') = Range(grq) \/ Range(grq') = Range(grq) \ {u}
          /\ \A x \in Threads : x # u => home_wid'[x] = home_wid[x]
      BY <1>a, <2>1, <2>2, <2>3 DEF Placed, ShareOff
    <3> QED BY <3>2, WaitPut
  <2>4. CASE /\ grq' \in Seq(Threads) /\ IsInjective(grq')
             /\ Range(grq') = Range(grq) \cup {u}
             /\ Grown(0, "scan") /\ vi' = Set(vi, 0, 1)
             /\ UNCHANGED <<home_wid, lrq, pinned>>
    <3>1. GrownPc(0, "scan")
      BY <1>w, <2>1, <2>4, GrownMoves DEF Placed, TypeInv
    <3>2. /\ UNCHANGED <<home_wid, lrq>> /\ Range(grq') = Range(grq) \cup {u}
          /\ \A v \in Workers : u \notin Range(lrq[v])
      BY <2>1, <2>4 DEF Queued
    <3>3. JustSpawned(u)
      <4>1. pc[0] = "code" /\ pc'[0] = "scan" /\ vi'[0] = 1 /\ sched = Free
              /\ 0 \in Workers
        BY <1>w, <1>v, <2>2, <2>4, <3>1 DEF GrownPc
      <4> QED BY <3>2, <4>1 DEF JustSpawned
    <3> QED BY <3>2, <3>3, WaitNew
  <2> QED BY <2>1, <2>3, <2>4
<1>18. ASSUME PumpRun PROVE WaitsOn
  <2>1. /\ At(0, "code") /\ sched = Free /\ sched' = 0 /\ Goto(0, "begin")
        /\ UNCHANGED <<threadVars, poolVars, idleVars, locked_turn, vi, askVars>>
    BY <1>18, PumpRunCases
  <2>2. PICK t \in Threads :
              /\ ToRun(0, t, "locked")
              /\ \/ ShareOff(t) /\ UNCHANGED <<lrq, lrq_unstarted>>
                 \/ Took(0, t) /\ runq_take(0, t)
    BY <1>18, PumpRunCases
  <2>3. CASE ShareOff(t) /\ UNCHANGED <<lrq, lrq_unstarted>>
    <3>1. UNCHANGED <<home_wid, lrq>>
      BY <2>1, <2>3
    <3> QED BY <2>3, <3>1, WaitShare
  <2>4. CASE Took(0, t) /\ runq_take(0, t)
    <3>1. CountType
      BY DEF TypeInv
    <3>2. /\ grq' = grq /\ lrq_unstarted' \in Int
          /\ Unstarted(t) => lrq_unstarted' = lrq_unstarted - 1
          /\ ~ Unstarted(t) => lrq_unstarted' = lrq_unstarted
      BY <1>w, <2>4, <3>1, TakeCounts
    <3>3. UNCHANGED home_wid
      BY <2>1
    <3> QED BY <1>w, <2>4, <3>2, <3>3, WaitTook
  <2> QED BY <2>2, <2>3, <2>4
<1>u. CASE UNCHANGED vars
  <2>1. UNCHANGED <<grq, lrq, home_wid>>
    BY <1>u DEF vars
  <2> QED BY <2>1 DEF WaitsOn, Waiting, StaysQueued, Unstarted, Queued
<1> HIDE DEF At, Goto, Set, ToRun, threadVars, queueVars, poolVars, idleVars, runVars,
             askVars
<1> QED BY <1>u, <1>1, <1>2, <1>3, <1>4, <1>5, <1>6, <1>7, <1>8, <1>9, <1>10, <1>11,
           <1>12, <1>13, <1>14, <1>15, <1>16, <1>17, <1>18
     DEF Next, LockedStep, UnlockedStep, CvWakes, ThreadStep, WakeStep, RunStep

-----------------------------------------------------------------------------
(* Who sleeps.                                                             *)

\* Every step keeps the helpers' flags with their places.
LEMMA SleepPcStep ==
  ASSUME TypeInv, QueueInv, PoolPc, SleepPc,
         Next \/ UNCHANGED vars
  PROVE  SleepPc'
<1>w. /\ g_worker_cap \in Nat \ {0} /\ NoThread \notin Threads /\ 0 \in Workers
      /\ \A w \in Helpers : w \in Workers /\ w > 0
      /\ \A w \in Workers : w \in Int /\ w >= 0 /\ w <= g_worker_cap
  BY ConstAssumption DEF Helpers, Workers
<1>a. /\ pc \in [Workers -> Pcs] /\ spawned \in 0 .. g_worker_cap
      /\ parked \in [Workers -> BOOLEAN] /\ wake_sent \in [Workers -> BOOLEAN]
      /\ idle \in [Workers -> BOOLEAN] /\ signalled \in [Workers -> BOOLEAN]
      /\ vi \in [Workers -> 0 .. (g_worker_cap + 1)]
  BY DEF TypeInv, PcType, CountType, FlagType, RunType
<1> USE DEF At, Goto, Set, ToRun, threadVars, queueVars, poolVars, idleVars, runVars,
            askVars
<1>1. ASSUME NEW w \in Helpers,
              \/ HelperStarts(w) \/ LoopHead(w)
      PROVE  SleepPc'
  BY <1>1, <1>w, <1>a DEF HelperStarts, LoopHead, SleepPc, IdlePcs
<1>2. ASSUME NEW w \in Helpers,
              \/ PickOwn(w) \/ PickSteal(w)
      PROVE  SleepPc'
  BY <1>2, <1>w, <1>a, ZenonT(40) DEF PickOwn, PickSteal, SleepPc, IdlePcs
<1>3. ASSUME NEW w \in Helpers,
              \/ StealNext(w) \/ StealNone(w)
      PROVE  SleepPc'
  BY <1>3, <1>w, <1>a DEF StealNext, StealNone, SleepPc, IdlePcs
<1>4. ASSUME NEW w \in Helpers,
              \/ RunLocal(w) \/ RoundEnds(w)
      PROVE  SleepPc'
  BY <1>4, <1>w, <1>a, ZenonT(40) DEF RunLocal, RoundEnds, SleepPc, IdlePcs
<1>5. ASSUME NEW w \in Helpers,
              \/ Relock(w) \/ IdleParks(w)
      PROVE  SleepPc'
  BY <1>5, <1>w, <1>a DEF Relock, IdleParks, SleepPc, IdlePcs
<1>6. ASSUME NEW w \in Helpers,
              \/ IdleResets(w) \/ IdleLooks(w)
      PROVE  SleepPc'
  BY <1>6, <1>w, <1>a, ZenonT(40) DEF IdleResets, IdleLooks, SleepPc, IdlePcs
<1>7. ASSUME NEW w \in Helpers,
              \/ IdleSleeps(w) \/ IdleUp(w)
      PROVE  SleepPc'
  BY <1>7, <1>w, <1>a DEF IdleSleeps, IdleUp, SleepPc, IdlePcs
<1>8. ASSUME NEW w \in Helpers, LocalTurn(w) PROVE SleepPc'
  BY <1>8, <1>w, <1>a DEF LocalTurn, SleepPc, IdlePcs
<1>9. ASSUME NEW w \in Workers,
              \/ SwitchOut(w) \/ sp_safepoint_preempt(w)
      PROVE  SleepPc'
  BY <1>9, <1>w, <1>a DEF SwitchOut, sp_safepoint_preempt, Consume, SleepPc, IdlePcs
<1>10. ASSUME NEW w \in Workers,
              \/ EnterNative(w) \/ LeaveNative(w)
      PROVE  SleepPc'
  BY <1>10, <1>w, <1>a DEF EnterNative, LeaveNative, SleepPc, IdlePcs
<1>11. ASSUME NEW w \in Workers,
              \/ SpawnLocal(w) \/ ScanParked(w)
      PROVE  SleepPc'
  BY <1>11, <1>w, <1>a DEF SpawnLocal, ScanParked, SleepPc, IdlePcs
<1>12. ASSUME NEW w \in Workers,
              \/ ScanIdle(w) \/ sched_kick_worker(w)
      PROVE  SleepPc'
  BY <1>12, <1>w, <1>a DEF ScanIdle, WakeDone, sched_kick_worker, SleepPc, IdlePcs
<1>13. ASSUME NEW w \in Workers,
              \/ Begin(w) \/ ClearCur(w)
      PROVE  SleepPc'
  BY <1>13, <1>w, <1>a DEF Begin, ClearCur, SleepPc, IdlePcs
<1>14. ASSUME NEW w \in Workers,
              \/ Retire(w) \/ RunParked(w)
      PROVE  SleepPc'
  BY <1>14, <1>w, <1>a DEF Retire, Consume, Off, RunParked, RunEnds, SleepPc, IdlePcs
<1>15. ASSUME NEW w \in Workers,
              \/ RunDied(w) \/ RunPassed(w)
      PROVE  SleepPc'
  BY <1>15, <1>w, <1>a DEF RunDied, RunEnds, Off, RunPassed, SleepPc, IdlePcs
<1>16. ASSUME NEW w \in Workers, MonitorReads(w) PROVE SleepPc'
  BY <1>16, <1>w, <1>a DEF MonitorReads, SleepPc, IdlePcs
<1>17. ASSUME NEW t \in Threads, sched_push_wake(t) PROVE SleepPc'
  BY <1>17, <1>w, <1>a DEF sched_push_wake, SleepPc, IdlePcs
<1>18. ASSUME 
              \/ PreemptAsks \/ PreemptLooks
      PROVE  SleepPc'
  BY <1>18, <1>w, <1>a DEF PreemptAsks, PreemptLooks, SleepPc, IdlePcs
<1>19. ASSUME NEW w \in Helpers, PickPlace(w) PROVE SleepPc'
  <2>1. PICK t \in Threads :
        /\ w \in Workers /\ At(w, "pick") /\ ShareOff(t)
        /\ UNCHANGED <<state, idleVars, sched, locked_turn, askVars, cur,
                       lrq_unstarted, active>>
        /\ \/ (\E b \in Helpers : Placed(w, b, t)) /\ UNCHANGED runVars
           \/ /\ Grown(w, "begin") /\ ToRun(w, t, "locked")
              /\ UNCHANGED <<home_wid, lrq, pinned, vi>>
    BY <1>19, PickPlaceCases DEF ShareOff
  <2>2. ASSUME NEW b \in Helpers, Placed(w, b, t), UNCHANGED runVars PROVE SleepPc'
    <3>1. GrownPc(w, "kick")
      BY <1>w, <2>1, <2>2, GrownMoves DEF Placed, TypeInv
    <3>3. \A x \in Workers : x # w => pc'[x] = pc[x]
            \/ (pc[x] = "none" /\ pc'[x] = "start")
      BY <1>w, <1>a, <3>1 DEF GrownPc, PoolPc
    <3>4. /\ UNCHANGED <<parked, idle>> /\ pc'[w] \in {"kick", "scan", "begin"}
          /\ pc[w] \in {"pick", "code"}
      BY <2>1, <2>2, <3>1 DEF GrownPc
    <3> QED BY <3>3, <3>4 DEF SleepPc, IdlePcs
  <2>3. CASE /\ Grown(w, "begin") /\ ToRun(w, t, "locked")
             /\ UNCHANGED <<home_wid, lrq, pinned, vi>>
    <3>1. GrownPc(w, "begin")
      BY <1>w, <2>1, <2>3, GrownMoves DEF Placed, TypeInv
    <3>3. \A x \in Workers : x # w => pc'[x] = pc[x]
            \/ (pc[x] = "none" /\ pc'[x] = "start")
      BY <1>w, <1>a, <3>1 DEF GrownPc, PoolPc
    <3>4. /\ UNCHANGED <<parked, idle>> /\ pc'[w] \in {"kick", "scan", "begin"}
          /\ pc[w] \in {"pick", "code"}
      BY <2>1, <2>3, <3>1 DEF GrownPc
    <3> QED BY <3>3, <3>4 DEF SleepPc, IdlePcs
  <2> QED BY <2>1, <2>2, <2>3
<1>20. ASSUME NEW w \in Helpers, sched_steal(w) PROVE SleepPc'
  BY <1>20, <1>w, <1>a DEF sched_steal, Stolen, SleepPc, IdlePcs
<1>21. ASSUME NEW w \in Helpers, IdleLocked(w) PROVE SleepPc'
  <2>1. \A x \in Workers : x # w => UNCHANGED <<pc[x], parked[x], idle[x]>>
    BY <1>21, <1>a DEF IdleLocked
  <2>2. (parked'[w] <=> pc'[w] \in IdlePcs) /\ (idle'[w] <=> pc'[w] \in {"cv", "lcv"})
    BY <1>21, <1>w, <1>a DEF IdleLocked, SleepPc, IdlePcs
  <2> QED BY <2>1, <2>2 DEF SleepPc
<1>22. ASSUME NEW w \in Helpers, LockedBack(w) PROVE SleepPc'
  <2>1. \A x \in Workers : x # w => UNCHANGED <<pc[x], parked[x], idle[x]>>
    BY <1>22, <1>a DEF LockedBack
  <2>2. (parked'[w] <=> pc'[w] \in IdlePcs) /\ (idle'[w] <=> pc'[w] \in {"cv", "lcv"})
    BY <1>22, <1>w, <1>a DEF LockedBack, SleepPc, IdlePcs
  <2> QED BY <2>1, <2>2 DEF SleepPc
<1>23. ASSUME NEW w \in Helpers, WokenLocked(w) PROVE SleepPc'
  <2>1. \A x \in Workers : x # w => UNCHANGED <<pc[x], parked[x], idle[x]>>
    BY <1>23, <1>a DEF WokenLocked
  <2>2. (parked'[w] <=> pc'[w] \in IdlePcs) /\ (idle'[w] <=> pc'[w] \in {"cv", "lcv"})
    BY <1>23, <1>w, <1>a DEF WokenLocked, SleepPc, IdlePcs
  <2> QED BY <2>1, <2>2 DEF SleepPc
<1>24. ASSUME NEW w \in Helpers, IdleWakes(w) PROVE SleepPc'
  <2>1. \A x \in Workers : x # w => UNCHANGED <<pc[x], parked[x], idle[x]>>
    BY <1>24, <1>a DEF IdleWakes
  <2>2. (parked'[w] <=> pc'[w] \in IdlePcs) /\ (idle'[w] <=> pc'[w] \in {"cv", "lcv"})
    BY <1>24, <1>w, <1>a DEF IdleWakes, SleepPc, IdlePcs
  <2> QED BY <2>1, <2>2 DEF SleepPc
<1>25. ASSUME MainSpawn PROVE SleepPc'
  <2>1. PICK u \in Threads :
              /\ state[u] = "NEW" /\ ~ Queued(u) /\ state' = Set(state, u, "RUNNABLE")
              /\ \/ (\E b \in Helpers : Placed(0, b, u)) /\ UNCHANGED grq
                 \/ /\ grq' \in Seq(Threads) /\ IsInjective(grq')
                    /\ Range(grq') = Range(grq) \cup {u}
                    /\ Grown(0, "scan") /\ vi' = Set(vi, 0, 1)
                    /\ UNCHANGED <<home_wid, lrq, pinned>>
    BY <1>25, MainSpawnCases
  <2>2. /\ At(0, "code") /\ sched = Free /\ sched' = 0
        /\ UNCHANGED <<idleVars, runVars, locked_turn, askVars, lrq_unstarted, active>>
    BY <1>25, MainSpawnCases
  <2>3. ASSUME NEW b \in Helpers, Placed(0, b, u), UNCHANGED grq PROVE SleepPc'
    <3>1. GrownPc(0, "kick")
      BY <1>w, <2>1, <2>3, GrownMoves DEF Placed, TypeInv
    <3>3. \A x \in Workers : x # 0 => pc'[x] = pc[x]
            \/ (pc[x] = "none" /\ pc'[x] = "start")
      BY <1>w, <1>a, <3>1 DEF GrownPc, PoolPc
    <3>4. /\ UNCHANGED <<parked, idle>> /\ pc'[0] \in {"kick", "scan", "begin"}
          /\ pc[0] \in {"pick", "code"}
      BY <2>1, <2>3, <2>2, <3>1 DEF GrownPc
    <3> QED BY <3>3, <3>4 DEF SleepPc, IdlePcs
  <2>4. CASE /\ grq' \in Seq(Threads) /\ IsInjective(grq')
             /\ Range(grq') = Range(grq) \cup {u}
             /\ Grown(0, "scan") /\ vi' = Set(vi, 0, 1)
             /\ UNCHANGED <<home_wid, lrq, pinned>>
    <3>1. GrownPc(0, "scan")
      BY <1>w, <2>1, <2>4, GrownMoves DEF Placed, TypeInv
    <3>3. \A x \in Workers : x # 0 => pc'[x] = pc[x]
            \/ (pc[x] = "none" /\ pc'[x] = "start")
      BY <1>w, <1>a, <3>1 DEF GrownPc, PoolPc
    <3>4. /\ UNCHANGED <<parked, idle>> /\ pc'[0] \in {"kick", "scan", "begin"}
          /\ pc[0] \in {"pick", "code"}
      BY <2>1, <2>4, <2>2, <3>1 DEF GrownPc
    <3> QED BY <3>3, <3>4 DEF SleepPc, IdlePcs
  <2> QED BY <2>1, <2>3, <2>4
<1>26. ASSUME PumpRun PROVE SleepPc'
  <2>1. /\ At(0, "code") /\ Goto(0, "begin") /\ UNCHANGED <<parked, idle>>
    BY <1>26, PumpRunCases
  <2> QED BY <1>w, <1>a, <2>1 DEF SleepPc, IdlePcs
<1>u. CASE UNCHANGED vars
  BY <1>u, <1>w, <1>a DEF vars, SleepPc, IdlePcs
<1> HIDE DEF At, Goto, Set, ToRun, threadVars, queueVars, poolVars, idleVars, runVars,
             askVars
<1> QED BY <1>u, <1>1, <1>2, <1>3, <1>4, <1>5, <1>6, <1>7, <1>8, <1>9, <1>10, <1>11,
           <1>12, <1>13, <1>14, <1>15, <1>16, <1>17, <1>18, <1>19, <1>20, <1>21, <1>22,
           <1>23, <1>24, <1>25, <1>26
     DEF Next, LockedStep, UnlockedStep, CvWakes, ThreadStep, WakeStep, RunStep

\* A helper that comes to look for work elsewhere has none of its own.
QuietMoves ==
  \A w \in Workers : pc'[w] \in QuietPcs => pc[w] \in QuietPcs \/ Range(lrq[w]) = {}
\* This holds of every step.
LEMMA QuietStep ==
  ASSUME TypeInv, QueueInv, PoolPc, Next \/ UNCHANGED vars
  PROVE  QuietMoves
<1>w. /\ g_worker_cap \in Nat \ {0} /\ NoThread \notin Threads /\ 0 \in Workers
      /\ \A w \in Helpers : w \in Workers /\ w > 0
      /\ \A w \in Workers : w \in Int /\ w >= 0 /\ w <= g_worker_cap
  BY ConstAssumption DEF Helpers, Workers
<1>a. /\ pc \in [Workers -> Pcs] /\ spawned \in 0 .. g_worker_cap
      /\ parked \in [Workers -> BOOLEAN] /\ wake_sent \in [Workers -> BOOLEAN]
      /\ idle \in [Workers -> BOOLEAN] /\ signalled \in [Workers -> BOOLEAN]
      /\ vi \in [Workers -> 0 .. (g_worker_cap + 1)]
  BY DEF TypeInv, PcType, CountType, FlagType, RunType
<1>q. \A w \in Workers : lrq[w] = <<>> => Range(lrq[w]) = {}
  BY QueueFacts
<1> USE DEF At, Goto, Set, ToRun, threadVars, queueVars, poolVars, idleVars, runVars,
            askVars
<1>1. ASSUME NEW w \in Helpers,
              \/ HelperStarts(w) \/ LoopHead(w)
      PROVE  QuietMoves
  BY <1>1, <1>w, <1>a, <1>q DEF HelperStarts, LoopHead, QuietMoves, QuietPcs, IdlePcs
<1>2. ASSUME NEW w \in Helpers,
              \/ PickOwn(w) \/ PickSteal(w)
      PROVE  QuietMoves
  BY <1>2, <1>w, <1>a, <1>q DEF PickOwn, PickSteal, QuietMoves, QuietPcs, IdlePcs
<1>3. ASSUME NEW w \in Helpers,
              \/ StealNext(w) \/ StealNone(w)
      PROVE  QuietMoves
  BY <1>3, <1>w, <1>a, <1>q DEF StealNext, StealNone, QuietMoves, QuietPcs, IdlePcs
<1>4. ASSUME NEW w \in Helpers,
              \/ IdleLocked(w) \/ LockedBack(w)
      PROVE  QuietMoves
  BY <1>4, <1>w, <1>a, <1>q DEF IdleLocked, LockedBack, QuietMoves, QuietPcs, IdlePcs
<1>5. ASSUME NEW w \in Helpers,
              \/ RunLocal(w) \/ RoundEnds(w)
      PROVE  QuietMoves
  BY <1>5, <1>w, <1>a, <1>q DEF RunLocal, RoundEnds, QuietMoves, QuietPcs, IdlePcs
<1>6. ASSUME NEW w \in Helpers,
              \/ Relock(w) \/ IdleParks(w)
      PROVE  QuietMoves
  BY <1>6, <1>w, <1>a, <1>q DEF Relock, IdleParks, QuietMoves, QuietPcs, IdlePcs
<1>7. ASSUME NEW w \in Helpers,
              \/ IdleResets(w) \/ IdleLooks(w)
      PROVE  QuietMoves
  BY <1>7, <1>w, <1>a, <1>q DEF IdleResets, IdleLooks, QuietMoves, QuietPcs, IdlePcs
<1>8. ASSUME NEW w \in Helpers,
              \/ IdleSleeps(w) \/ IdleUp(w)
      PROVE  QuietMoves
  BY <1>8, <1>w, <1>a, <1>q DEF IdleSleeps, IdleUp, QuietMoves, QuietPcs, IdlePcs
<1>9. ASSUME NEW w \in Helpers,
              \/ WokenLocked(w) \/ IdleWakes(w)
      PROVE  QuietMoves
  BY <1>9, <1>w, <1>a, <1>q DEF WokenLocked, IdleWakes, QuietMoves, QuietPcs, IdlePcs
<1>10. ASSUME NEW w \in Helpers, LocalTurn(w) PROVE QuietMoves
  BY <1>10, <1>w, <1>a, <1>q DEF LocalTurn, QuietMoves, QuietPcs, IdlePcs
<1>11. ASSUME NEW w \in Workers,
              \/ SwitchOut(w) \/ sp_safepoint_preempt(w)
      PROVE  QuietMoves
  BY <1>11, <1>w, <1>a, <1>q DEF SwitchOut, sp_safepoint_preempt, Consume, QuietMoves,
     QuietPcs, IdlePcs
<1>12. ASSUME NEW w \in Workers,
              \/ EnterNative(w) \/ LeaveNative(w)
      PROVE  QuietMoves
  BY <1>12, <1>w, <1>a, <1>q DEF EnterNative, LeaveNative, QuietMoves, QuietPcs, IdlePcs
<1>13. ASSUME NEW w \in Workers,
              \/ SpawnLocal(w) \/ ScanParked(w)
      PROVE  QuietMoves
  BY <1>13, <1>w, <1>a, <1>q DEF SpawnLocal, ScanParked, QuietMoves, QuietPcs, IdlePcs
<1>14. ASSUME NEW w \in Workers,
              \/ ScanIdle(w) \/ sched_kick_worker(w)
      PROVE  QuietMoves
  BY <1>14, <1>w, <1>a, <1>q DEF ScanIdle, WakeDone, sched_kick_worker, QuietMoves,
     QuietPcs, IdlePcs
<1>15. ASSUME NEW w \in Workers,
              \/ Begin(w) \/ ClearCur(w)
      PROVE  QuietMoves
  BY <1>15, <1>w, <1>a, <1>q DEF Begin, ClearCur, QuietMoves, QuietPcs, IdlePcs
<1>16. ASSUME NEW w \in Workers,
              \/ Retire(w) \/ RunParked(w)
      PROVE  QuietMoves
  BY <1>16, <1>w, <1>a, <1>q DEF Retire, Consume, Off, RunParked, RunEnds, QuietMoves,
     QuietPcs, IdlePcs
<1>17. ASSUME NEW w \in Workers,
              \/ RunDied(w) \/ RunPassed(w)
      PROVE  QuietMoves
  BY <1>17, <1>w, <1>a, <1>q DEF RunDied, RunEnds, Off, RunPassed, QuietMoves, QuietPcs,
     IdlePcs
<1>18. ASSUME NEW w \in Workers, MonitorReads(w) PROVE QuietMoves
  BY <1>18, <1>w, <1>a, <1>q DEF MonitorReads, QuietMoves, QuietPcs, IdlePcs
<1>19. ASSUME NEW t \in Threads, sched_push_wake(t) PROVE QuietMoves
  BY <1>19, <1>w, <1>a, <1>q DEF sched_push_wake, QuietMoves, QuietPcs, IdlePcs
<1>20. ASSUME 
              \/ PreemptAsks \/ PreemptLooks
      PROVE  QuietMoves
  BY <1>20, <1>w, <1>a, <1>q DEF PreemptAsks, PreemptLooks, QuietMoves, QuietPcs, IdlePcs
<1>21. ASSUME NEW w \in Helpers, PickPlace(w) PROVE QuietMoves
  <2>1. PICK t \in Threads :
        /\ w \in Workers /\ At(w, "pick") /\ ShareOff(t)
        /\ UNCHANGED <<state, idleVars, sched, locked_turn, askVars, cur,
                       lrq_unstarted, active>>
        /\ \/ (\E b \in Helpers : Placed(w, b, t)) /\ UNCHANGED runVars
           \/ /\ Grown(w, "begin") /\ ToRun(w, t, "locked")
              /\ UNCHANGED <<home_wid, lrq, pinned, vi>>
    BY <1>21, PickPlaceCases DEF ShareOff
  <2>2. ASSUME NEW b \in Helpers, Placed(w, b, t), UNCHANGED runVars PROVE QuietMoves
    <3>1. GrownPc(w, "kick")
      BY <1>w, <2>1, <2>2, GrownMoves DEF Placed, TypeInv
    <3>3. \A x \in Workers : x # w => pc'[x] = pc[x]
            \/ (pc[x] = "none" /\ pc'[x] = "start")
      BY <1>w, <1>a, <3>1 DEF GrownPc, PoolPc
    <3>4. pc'[w] \in {"kick", "scan", "begin"}
      BY <3>1 DEF GrownPc
    <3> QED BY <3>3, <3>4 DEF QuietMoves, QuietPcs, IdlePcs
  <2>3. CASE /\ Grown(w, "begin") /\ ToRun(w, t, "locked")
             /\ UNCHANGED <<home_wid, lrq, pinned, vi>>
    <3>1. GrownPc(w, "begin")
      BY <1>w, <2>1, <2>3, GrownMoves DEF Placed, TypeInv
    <3>3. \A x \in Workers : x # w => pc'[x] = pc[x]
            \/ (pc[x] = "none" /\ pc'[x] = "start")
      BY <1>w, <1>a, <3>1 DEF GrownPc, PoolPc
    <3>4. pc'[w] \in {"kick", "scan", "begin"}
      BY <3>1 DEF GrownPc
    <3> QED BY <3>3, <3>4 DEF QuietMoves, QuietPcs, IdlePcs
  <2> QED BY <2>1, <2>2, <2>3
<1>22. ASSUME NEW w \in Helpers, sched_steal(w) PROVE QuietMoves
  BY <1>22, <1>w, <1>a DEF sched_steal, Stolen, QuietMoves, QuietPcs, IdlePcs
<1>23. ASSUME MainSpawn PROVE QuietMoves
  <2>1. PICK u \in Threads :
              /\ state[u] = "NEW" /\ ~ Queued(u) /\ state' = Set(state, u, "RUNNABLE")
              /\ \/ (\E b \in Helpers : Placed(0, b, u)) /\ UNCHANGED grq
                 \/ /\ grq' \in Seq(Threads) /\ IsInjective(grq')
                    /\ Range(grq') = Range(grq) \cup {u}
                    /\ Grown(0, "scan") /\ vi' = Set(vi, 0, 1)
                    /\ UNCHANGED <<home_wid, lrq, pinned>>
    BY <1>23, MainSpawnCases
  <2>2. /\ At(0, "code") /\ sched = Free /\ sched' = 0
        /\ UNCHANGED <<idleVars, runVars, locked_turn, askVars, lrq_unstarted, active>>
    BY <1>23, MainSpawnCases
  <2>3. ASSUME NEW b \in Helpers, Placed(0, b, u), UNCHANGED grq PROVE QuietMoves
    <3>1. GrownPc(0, "kick")
      BY <1>w, <2>1, <2>3, GrownMoves DEF Placed, TypeInv
    <3>3. \A x \in Workers : x # 0 => pc'[x] = pc[x]
            \/ (pc[x] = "none" /\ pc'[x] = "start")
      BY <1>w, <1>a, <3>1 DEF GrownPc, PoolPc
    <3>4. pc'[0] \in {"kick", "scan", "begin"}
      BY <3>1 DEF GrownPc
    <3> QED BY <3>3, <3>4 DEF QuietMoves, QuietPcs, IdlePcs
  <2>4. CASE /\ grq' \in Seq(Threads) /\ IsInjective(grq')
             /\ Range(grq') = Range(grq) \cup {u}
             /\ Grown(0, "scan") /\ vi' = Set(vi, 0, 1)
             /\ UNCHANGED <<home_wid, lrq, pinned>>
    <3>1. GrownPc(0, "scan")
      BY <1>w, <2>1, <2>4, GrownMoves DEF Placed, TypeInv
    <3>3. \A x \in Workers : x # 0 => pc'[x] = pc[x]
            \/ (pc[x] = "none" /\ pc'[x] = "start")
      BY <1>w, <1>a, <3>1 DEF GrownPc, PoolPc
    <3>4. pc'[0] \in {"kick", "scan", "begin"}
      BY <3>1 DEF GrownPc
    <3> QED BY <3>3, <3>4 DEF QuietMoves, QuietPcs, IdlePcs
  <2> QED BY <2>1, <2>3, <2>4
<1>24. ASSUME PumpRun PROVE QuietMoves
  <2>1. At(0, "code") /\ Goto(0, "begin")
    BY <1>24, PumpRunCases
  <2> QED BY <1>w, <1>a, <2>1 DEF QuietMoves, QuietPcs, IdlePcs
<1>u. CASE UNCHANGED vars
  BY <1>u, <1>w, <1>a, <1>q DEF vars, QuietMoves, QuietPcs, IdlePcs
<1> HIDE DEF At, Goto, Set, ToRun, threadVars, queueVars, poolVars, idleVars, runVars,
             askVars
<1> QED BY <1>u, <1>1, <1>2, <1>3, <1>4, <1>5, <1>6, <1>7, <1>8, <1>9, <1>10, <1>11,
           <1>12, <1>13, <1>14, <1>15, <1>16, <1>17, <1>18, <1>19, <1>20, <1>21, <1>22,
           <1>23, <1>24
     DEF Next, LockedStep, UnlockedStep, CvWakes, ThreadStep, WakeStep, RunStep

\* A helper that is to sleep still has no unstarted thread of its own.
LEMMA OwnStep ==
  ASSUME TypeInv, QueueInv, HandInv, StateInv, ScanInv, PoolPc, OwnInv,
         Next \/ UNCHANGED vars
  PROVE  OwnInv'
<1>1. QuietMoves /\ WaitsOn
  BY QuietStep, WaitStep
<1>2. QueueType'
  BY QueueTypeStep
<1>3. SUFFICES ASSUME NEW w \in Workers, pc'[w] \in QuietPcs, NEW t \in Range(lrq'[w]),
                      Unstarted(t)'
               PROVE  FALSE
  BY DEF OwnInv
<1>4. t \in Threads
  BY <1>2, EmptyList DEF QueueType
<1>5. Waiting(t)'
  BY <1>3 DEF Waiting, Queued
<1>6. CASE StaysQueued(t)
  BY <1>1, <1>3, <1>6 DEF StaysQueued, Waiting, QuietMoves, OwnInv
<1>7. CASE JustSpawned(t)
  BY <1>3, <1>7 DEF JustSpawned, QuietPcs, IdlePcs
<1> QED BY <1>1, <1>4, <1>5, <1>6, <1>7 DEF WaitsOn

\* With the scheduler lock, a helper looks at all the queues in turn.
LookMoves ==
  \A w \in Workers : pc'[w] \in {"lidle", "steal"} =>
    \/ pc'[w] = pc[w] /\ vi'[w] = vi[w] /\ (sched' = w => sched = w)
    \/ w \in Helpers /\ (PickSteal(w) \/ StealNone(w) \/ StealNext(w) \/ RoundEnds(w))
\* This holds of every step.
LEMMA LookMoveStep ==
  ASSUME TypeInv, QueueInv, PoolPc, Next \/ UNCHANGED vars
  PROVE  LookMoves
<1>w. /\ g_worker_cap \in Nat \ {0} /\ NoThread \notin Threads /\ 0 \in Workers
      /\ \A w \in Helpers : w \in Workers /\ w > 0
      /\ \A w \in Workers : w \in Int /\ w >= 0 /\ w <= g_worker_cap
  BY ConstAssumption DEF Helpers, Workers
<1>a. /\ pc \in [Workers -> Pcs] /\ spawned \in 0 .. g_worker_cap
      /\ parked \in [Workers -> BOOLEAN] /\ wake_sent \in [Workers -> BOOLEAN]
      /\ idle \in [Workers -> BOOLEAN] /\ signalled \in [Workers -> BOOLEAN]
      /\ vi \in [Workers -> 0 .. (g_worker_cap + 1)]
  BY DEF TypeInv, PcType, CountType, FlagType, RunType
<1>f. sched \in Workers \cup {Free, Monitor} /\ Free = -1 /\ Monitor = -2
  BY DEF TypeInv, LockType, Free, Monitor
<1> USE DEF At, Goto, Set, ToRun, threadVars, queueVars, poolVars, idleVars, runVars,
            askVars
<1>1. ASSUME NEW w \in Helpers,
              \/ HelperStarts(w) \/ LoopHead(w) \/ PickOwn(w)
      PROVE  LookMoves
  BY <1>1, <1>w, <1>a, <1>f DEF HelperStarts, LoopHead, PickOwn, LookMoves
<1>2. ASSUME NEW w \in Helpers,
              \/ IdleLocked(w) \/ LockedBack(w) \/ RunLocal(w)
      PROVE  LookMoves
  BY <1>2, <1>w, <1>a, <1>f DEF IdleLocked, LockedBack, RunLocal, LookMoves
<1>3. ASSUME NEW w \in Helpers,
              \/ Relock(w) \/ IdleParks(w) \/ IdleResets(w)
      PROVE  LookMoves
  BY <1>3, <1>w, <1>a, <1>f DEF Relock, IdleParks, IdleResets, LookMoves
<1>4. ASSUME NEW w \in Helpers,
              \/ IdleLooks(w) \/ IdleSleeps(w) \/ IdleUp(w)
      PROVE  LookMoves
  BY <1>4, <1>w, <1>a, <1>f DEF IdleLooks, IdleSleeps, IdleUp, LookMoves
<1>5. ASSUME NEW w \in Helpers,
              \/ WokenLocked(w) \/ IdleWakes(w) \/ LocalTurn(w)
      PROVE  LookMoves
  BY <1>5, <1>w, <1>a, <1>f DEF WokenLocked, IdleWakes, LocalTurn, LookMoves
<1>6. ASSUME NEW w \in Workers,
              \/ SwitchOut(w) \/ sp_safepoint_preempt(w) \/ EnterNative(w)
      PROVE  LookMoves
  BY <1>6, <1>w, <1>a, <1>f DEF SwitchOut, sp_safepoint_preempt, Consume, EnterNative,
     LookMoves
<1>7. ASSUME NEW w \in Workers,
              \/ LeaveNative(w) \/ SpawnLocal(w) \/ ScanParked(w)
      PROVE  LookMoves
  BY <1>7, <1>w, <1>a, <1>f DEF LeaveNative, SpawnLocal, ScanParked, LookMoves
<1>8. ASSUME NEW w \in Workers,
              \/ ScanIdle(w) \/ sched_kick_worker(w) \/ Begin(w)
      PROVE  LookMoves
  BY <1>8, <1>w, <1>a, <1>f DEF ScanIdle, WakeDone, sched_kick_worker, Begin, LookMoves
<1>9. ASSUME NEW w \in Workers,
              \/ ClearCur(w) \/ Retire(w) \/ RunParked(w)
      PROVE  LookMoves
  BY <1>9, <1>w, <1>a, <1>f DEF ClearCur, Retire, Consume, Off, RunParked, RunEnds,
     LookMoves
<1>10. ASSUME NEW w \in Workers,
              \/ RunDied(w) \/ RunPassed(w) \/ MonitorReads(w)
      PROVE  LookMoves
  BY <1>10, <1>w, <1>a, <1>f DEF RunDied, RunEnds, Off, RunPassed, MonitorReads, LookMoves
<1>11. ASSUME NEW t \in Threads, sched_push_wake(t) PROVE LookMoves
  BY <1>11, <1>w, <1>a, <1>f DEF sched_push_wake, LookMoves
<1>12. ASSUME 
              \/ PreemptAsks \/ PreemptLooks
      PROVE  LookMoves
  BY <1>12, <1>w, <1>a, <1>f DEF PreemptAsks, PreemptLooks, LookMoves
<1>13. ASSUME NEW w \in Helpers, PickPlace(w) PROVE LookMoves
  <2>1. PICK t \in Threads :
        /\ w \in Workers /\ At(w, "pick") /\ ShareOff(t)
        /\ UNCHANGED <<state, idleVars, sched, locked_turn, askVars, cur,
                       lrq_unstarted, active>>
        /\ \/ (\E b \in Helpers : Placed(w, b, t)) /\ UNCHANGED runVars
           \/ /\ Grown(w, "begin") /\ ToRun(w, t, "locked")
              /\ UNCHANGED <<home_wid, lrq, pinned, vi>>
    BY <1>13, PickPlaceCases DEF ShareOff
  <2>2. ASSUME NEW b \in Helpers, Placed(w, b, t), UNCHANGED runVars PROVE LookMoves
    <3>1. GrownPc(w, "kick")
      BY <1>w, <2>1, <2>2, GrownMoves DEF Placed, TypeInv
    <3>2. /\ \A x \in Workers : x # w => vi'[x] = vi[x]
          /\ sched' = sched \/ sched' = w
      BY <1>w, <1>a, <2>1, <2>2 DEF Placed
    <3>3. \A x \in Workers : x # w => pc'[x] = pc[x]
            \/ (pc[x] = "none" /\ pc'[x] = "start")
      BY <1>w, <1>a, <3>1 DEF GrownPc, PoolPc
    <3>4. pc'[w] \in {"kick", "scan", "begin"}
      BY <3>1 DEF GrownPc
    <3> QED BY <3>2, <3>3, <3>4 DEF LookMoves
  <2>3. CASE /\ Grown(w, "begin") /\ ToRun(w, t, "locked")
             /\ UNCHANGED <<home_wid, lrq, pinned, vi>>
    <3>1. GrownPc(w, "begin")
      BY <1>w, <2>1, <2>3, GrownMoves DEF Placed, TypeInv
    <3>2. /\ \A x \in Workers : x # w => vi'[x] = vi[x]
          /\ sched' = sched \/ sched' = w
      BY <1>w, <1>a, <2>1, <2>3 DEF Placed
    <3>3. \A x \in Workers : x # w => pc'[x] = pc[x]
            \/ (pc[x] = "none" /\ pc'[x] = "start")
      BY <1>w, <1>a, <3>1 DEF GrownPc, PoolPc
    <3>4. pc'[w] \in {"kick", "scan", "begin"}
      BY <3>1 DEF GrownPc
    <3> QED BY <3>2, <3>3, <3>4 DEF LookMoves
  <2> QED BY <2>1, <2>2, <2>3
<1>14. ASSUME NEW w \in Helpers, PickSteal(w) PROVE LookMoves
  <2>1. \A x \in Workers : x # w => pc'[x] = pc[x] /\ vi'[x] = vi[x] /\ sched' = sched
    BY <1>14, <1>w, <1>a DEF PickSteal
  <2> QED BY <1>14, <1>w, <2>1 DEF LookMoves
<1>15. ASSUME NEW w \in Helpers, sched_steal(w) PROVE LookMoves
  BY <1>15, <1>w, <1>a DEF sched_steal, Stolen, LookMoves
<1>16. ASSUME NEW w \in Helpers, StealNext(w) PROVE LookMoves
  <2>1. \A x \in Workers : x # w => pc'[x] = pc[x] /\ vi'[x] = vi[x] /\ sched' = sched
    BY <1>16, <1>w, <1>a DEF StealNext
  <2> QED BY <1>16, <1>w, <2>1 DEF LookMoves
<1>17. ASSUME NEW w \in Helpers, StealNone(w) PROVE LookMoves
  <2>1. \A x \in Workers : x # w => pc'[x] = pc[x] /\ vi'[x] = vi[x] /\ sched' = sched
    BY <1>17, <1>w, <1>a DEF StealNone
  <2> QED BY <1>17, <1>w, <2>1 DEF LookMoves
<1>18. ASSUME NEW w \in Helpers, RoundEnds(w) PROVE LookMoves
  <2>1. \A x \in Workers : x # w => pc'[x] = pc[x] /\ vi'[x] = vi[x] /\ sched' = sched
    BY <1>18, <1>w, <1>a DEF RoundEnds
  <2> QED BY <1>18, <1>w, <2>1 DEF LookMoves
<1>19. ASSUME MainSpawn PROVE LookMoves
  <2>1. PICK u \in Threads :
              /\ state[u] = "NEW" /\ ~ Queued(u) /\ state' = Set(state, u, "RUNNABLE")
              /\ \/ (\E b \in Helpers : Placed(0, b, u)) /\ UNCHANGED grq
                 \/ /\ grq' \in Seq(Threads) /\ IsInjective(grq')
                    /\ Range(grq') = Range(grq) \cup {u}
                    /\ Grown(0, "scan") /\ vi' = Set(vi, 0, 1)
                    /\ UNCHANGED <<home_wid, lrq, pinned>>
    BY <1>19, MainSpawnCases
  <2>2. /\ At(0, "code") /\ sched = Free /\ sched' = 0
        /\ UNCHANGED <<idleVars, runVars, locked_turn, askVars, lrq_unstarted, active>>
    BY <1>19, MainSpawnCases
  <2>3. ASSUME NEW b \in Helpers, Placed(0, b, u), UNCHANGED grq PROVE LookMoves
    <3>1. GrownPc(0, "kick")
      BY <1>w, <2>1, <2>3, GrownMoves DEF Placed, TypeInv
    <3>2. /\ \A x \in Workers : x # 0 => vi'[x] = vi[x]
          /\ sched' = sched \/ sched' = 0
      BY <1>w, <1>a, <2>1, <2>3, <2>2 DEF Placed
    <3>3. \A x \in Workers : x # 0 => pc'[x] = pc[x]
            \/ (pc[x] = "none" /\ pc'[x] = "start")
      BY <1>w, <1>a, <3>1 DEF GrownPc, PoolPc
    <3>4. pc'[0] \in {"kick", "scan", "begin"}
      BY <3>1 DEF GrownPc
    <3> QED BY <3>2, <3>3, <3>4 DEF LookMoves
  <2>4. CASE /\ grq' \in Seq(Threads) /\ IsInjective(grq')
             /\ Range(grq') = Range(grq) \cup {u}
             /\ Grown(0, "scan") /\ vi' = Set(vi, 0, 1)
             /\ UNCHANGED <<home_wid, lrq, pinned>>
    <3>1. GrownPc(0, "scan")
      BY <1>w, <2>1, <2>4, GrownMoves DEF Placed, TypeInv
    <3>2. /\ \A x \in Workers : x # 0 => vi'[x] = vi[x]
          /\ sched' = sched \/ sched' = 0
      BY <1>w, <1>a, <2>1, <2>4, <2>2 DEF Placed
    <3>3. \A x \in Workers : x # 0 => pc'[x] = pc[x]
            \/ (pc[x] = "none" /\ pc'[x] = "start")
      BY <1>w, <1>a, <3>1 DEF GrownPc, PoolPc
    <3>4. pc'[0] \in {"kick", "scan", "begin"}
      BY <3>1 DEF GrownPc
    <3> QED BY <3>2, <3>3, <3>4 DEF LookMoves
  <2> QED BY <2>1, <2>3, <2>4
<1>20. ASSUME PumpRun PROVE LookMoves
  <2>1. At(0, "code") /\ Goto(0, "begin") /\ sched' = 0 /\ vi' = vi
    BY <1>20, PumpRunCases
  <2> QED BY <1>w, <1>a, <2>1 DEF LookMoves
<1>u. CASE UNCHANGED vars
  BY <1>u, <1>w, <1>a, <1>f DEF vars, LookMoves
<1> HIDE DEF At, Goto, Set, ToRun, threadVars, queueVars, poolVars, idleVars, runVars,
             askVars
<1> QED BY <1>u, <1>1, <1>2, <1>3, <1>4, <1>5, <1>6, <1>7, <1>8, <1>9, <1>10, <1>11,
           <1>12, <1>13, <1>14, <1>15, <1>16, <1>17, <1>18, <1>19, <1>20
     DEF Next, LockedStep, UnlockedStep, CvWakes, ThreadStep, WakeStep, RunStep

\* With the lock, what has been looked at stays empty of unstarted threads.
LEMMA LookStep ==
  ASSUME TypeInv, QueueInv, HandInv, StateInv, ScanInv, PoolInv, LockInv, LocalMatch,
         OwnInv, LookInv, Next \/ UNCHANGED vars
  PROVE  LookInv'
<1>w. /\ g_worker_cap \in Nat /\ \A w \in Helpers : w \in Workers /\ w > 0
      /\ \A w \in Workers : w \in Int /\ w >= 0 /\ w <= g_worker_cap
      /\ vi \in [Workers -> 0 .. (g_worker_cap + 1)] /\ pc \in [Workers -> Pcs]
      /\ spawned \in 0 .. g_worker_cap /\ \A w \in Workers : w # Free
  BY ConstAssumption DEF Helpers, Workers, TypeInv, RunType, PcType, CountType, Free
<1>0. QueueType' /\ LookMoves /\ WaitsOn
  BY QueueTypeStep, LookMoveStep, WaitStep DEF PoolInv
<1>1. ASSUME NEW t, Queued(t)' PROVE t \in Threads
  <2>1. grq' \in Seq(Threads) /\ \A v \in Workers : lrq'[v] \in Seq(Threads)
    BY <1>0 DEF QueueType
  <2>2. Range(grq') \subseteq Threads
          /\ \A v \in Workers : Range(lrq'[v]) \subseteq Threads
    BY <2>1, EmptyList
  <2> QED BY <1>1, <2>2 DEF Queued
<1>2. \A t : Queued(t) => t \in Threads
  BY QueueFacts
<1>3. lrq_unstarted = 0 => \A w \in Workers : \A t \in Range(lrq[w]) : ~ Unstarted(t)
  <2>1. IsFiniteSet(OnLocal)
    BY CountOne, ConstAssumption, FS_Subset DEF OnLocal
  <2>2. lrq_unstarted = 0 => OnLocal = {}
    BY <2>1, FS_EmptySet DEF LocalMatch
  <2> QED BY <1>2, <2>2 DEF OnLocal, Queued
<1>4. ASSUME NEW w \in Workers, pc'[w] = "lidle", NEW t \in Threads, Waiting(t)'
      PROVE  FALSE
  <2>1. CASE pc[w] = "lidle"
    <3>1. sched = w /\ ~ Waiting(t)
      BY <2>1 DEF LockInv, LookInv, At, Waiting
    <3> QED BY <1>w, <1>0, <1>4, <3>1 DEF WaitsOn, StaysQueued, JustSpawned
  <2>2. CASE PickSteal(w) \/ StealNone(w)
    <3>1. UNCHANGED <<grq, lrq, home_wid>>
      BY <2>2 DEF PickSteal, StealNone, threadVars, queueVars
    <3>2. Waiting(t)
      BY <1>4, <3>1 DEF Waiting, Queued, Unstarted
    <3>3. CASE PickSteal(w)
      <4>1. grq = <<>> /\ lrq_unstarted \in Int /\ ~(lrq_unstarted > 0)
        BY <1>w, <1>4, <3>3 DEF PickSteal, Goto, TypeInv, CountType
      <4>2. lrq_unstarted = 0
        <5>1. OnLocal \in SUBSET Threads
          BY DEF OnLocal
        <5>2. Cardinality(OnLocal) \in Nat
          BY <5>1, ConstAssumption, FS_Subset, FS_CardinalityType
        <5> QED BY <4>1, <5>2 DEF LocalMatch
      <4>3. Range(grq) = {}
        BY <4>1, QueueFacts
      <4> QED BY <1>3, <3>2, <4>2, <4>3 DEF Waiting, Queued
    <3>4. CASE StealNone(w)
      <4>1. At(w, "steal") /\ sched = w /\ vi[w] > spawned
        BY <1>w, <1>4, <3>4 DEF StealNone, Goto
      <4>2. /\ Range(grq) = {}
            /\ \A v \in Workers : v < vi[w] => \A u \in Range(lrq[v]) : ~ Unstarted(u)
        BY <4>1 DEF LookInv
      <4>3. \A v \in Workers : Range(lrq[v]) # {} => v < vi[w]
        BY <1>w, <4>1 DEF PoolInv, PoolHome
      <4> QED BY <3>2, <4>2, <4>3 DEF Waiting, Queued
    <3> QED BY <2>2, <3>3, <3>4
  <2>3. (~ StealNext(w) /\ ~ RoundEnds(w)) \/ pc[w] = "lidle"
    BY <1>w, <1>4 DEF StealNext, RoundEnds, Goto, At
  <2> QED BY <1>0, <1>4, <2>1, <2>2, <2>3 DEF LookMoves
<1>5. ASSUME NEW w \in Workers, pc'[w] = "steal", sched' = w, NEW t \in Threads,
             Waiting(t)'
      PROVE  t \notin Range(grq') /\ \A v \in Workers : v < vi'[w] =>
               t \notin Range(lrq'[v])
  <2>1. CASE pc[w] = "steal" /\ vi'[w] = vi[w] /\ sched = w
    <3>1. StaysQueued(t)
      BY <1>w, <1>0, <1>5, <2>1 DEF WaitsOn, JustSpawned
    <3>2. /\ Range(grq) = {}
          /\ \A v \in Workers : v < vi[w] => \A u \in Range(lrq[v]) : ~ Unstarted(u)
      BY <2>1 DEF LookInv, At
    <3> QED BY <2>1, <3>1, <3>2 DEF StaysQueued, Waiting
  <2>2. CASE PickSteal(w) \/ StealNone(w) \/ RoundEnds(w)
    <3>1. pc[w] # "steal" /\ vi'[w] = vi[w] /\ grq = <<>> /\ UNCHANGED <<grq, lrq>>
      BY <1>w, <1>5, <2>2 DEF PickSteal, StealNone, RoundEnds, Goto, At, Set, queueVars
    <3>2. vi'[w] = 0
      BY <1>w, <1>5, <2>2, <3>1 DEF ScanInv, WakePcs, PickSteal, StealNone, RoundEnds, At
    <3>3. Range(grq') = {}
      BY <3>1, QueueFacts
    <3> QED BY <1>w, <3>2, <3>3
  <2>3. CASE StealNext(w)
    <3>1. /\ pc[w] = "steal" /\ sched = w /\ vi'[w] = vi[w] + 1 /\ ~ CanSteal(w, vi[w])
          /\ UNCHANGED <<grq, lrq, home_wid>> /\ vi[w] <= spawned
      BY <1>w, <1>5, <2>3 DEF StealNext, At, Set, queueVars, threadVars
    <3>2. /\ Range(grq) = {} /\ Unstarted(t)
          /\ \A v \in Workers : v < vi[w] => \A u \in Range(lrq[v]) : ~ Unstarted(u)
      BY <1>5, <3>1 DEF LookInv, At, Waiting, Unstarted
    <3>3. \A u \in Range(lrq[w]) : ~ Unstarted(u)
      BY <3>1 DEF OwnInv, QuietPcs
    <3>4. \A u \in Range(lrq[vi[w]]) : ~ Unstarted(u)
      <4>1. CASE vi[w] = w
        BY <3>3, <4>1
      <4>2. CASE vi[w] # w
        BY <3>1, <4>2 DEF CanSteal, Range
      <4> QED BY <4>1, <4>2
    <3>5. \A v \in Workers : v < vi'[w] => v < vi[w] \/ v = vi[w]
      BY <1>w, <3>1
    <3> QED BY <3>1, <3>2, <3>4, <3>5
  <2> QED BY <1>0, <1>5, <2>1, <2>2, <2>3 DEF LookMoves
<1>6. ASSUME NEW w \in Workers, pc'[w] = "steal", sched' = w
      PROVE  /\ Range(grq') = {}
             /\ \A v \in Workers : v < vi'[w] => \A t \in Range(lrq'[v]) : ~ Unstarted(t)'
  <2>1. QueueInv'
    BY QueueStep
  <2>2. \A t \in Range(grq') : Waiting(t)' /\ t \in Threads
    BY <1>1, <2>1 DEF QueueInv, Waiting, Queued
  <2>3. ASSUME NEW v \in Workers, v < vi'[w], NEW t \in Range(lrq'[v]), Unstarted(t)'
        PROVE  FALSE
    <3>1. Queued(t)'
      BY <2>3 DEF Queued
    <3>2. Waiting(t)' /\ t \in Threads
      BY <1>1, <2>3, <3>1 DEF Waiting
    <3> QED BY <1>5, <1>6, <2>3, <3>2
  <2> QED BY <1>5, <1>6, <2>2, <2>3
<1> QED BY <1>1, <1>4, <1>6 DEF LookInv, At, Waiting

-----------------------------------------------------------------------------
(* The kick that is on its way.                                            *)

\* A kick stays on its way, and a helper that sleeps slept before, with no less
\* to wake for, or has nothing, or is being kicked.
KicksOn == \A x \in Workers : pc[x] = "kick" => pc'[x] = "kick" /\ vi'[x] = vi[x]
SleepsOn ==
  \A v \in Workers : Asleep(v)' =>
    \/ Asleep(v) /\ (wake_sent'[v] => wake_sent[v])
      /\ Range(lrq'[v]) \subseteq Range(lrq[v])
    \/ ~ wake_sent'[v] /\ Range(lrq'[v]) = {}
    \/ Kicked(v)'
\* Kicks and sleepers that go on so keep the invariant.
LEMMA KickKeeps ==
  ASSUME KickInv, KicksOn, SleepsOn
  PROVE  KickInv'
<1>1. ASSUME NEW v \in Workers, Kicked(v) PROVE Kicked(v)'
  BY <1>1 DEF Kicked, KicksOn, At
<1>2. ASSUME NEW v \in Workers, Asleep(v)', wake_sent'[v] \/ Range(lrq'[v]) # {}
      PROVE  Kicked(v)'
  BY <1>1, <1>2 DEF SleepsOn, KickInv
<1> QED BY <1>2 DEF KickInv

\* Every step keeps a kick on its way to a helper that sleeps over a wake.
LEMMA KickStep ==
  ASSUME TypeInv, QueueInv, HandInv, StateInv, ScanInv, PoolPc, SleepPc, KickInv,
         Next \/ UNCHANGED vars
  PROVE  KickInv'
<1>w. /\ g_worker_cap \in Nat \ {0} /\ NoThread \notin Threads /\ 0 \in Workers
      /\ \A w \in Helpers : w \in Workers /\ w > 0
      /\ \A w \in Workers : w \in Int /\ w >= 0 /\ w <= g_worker_cap
  BY ConstAssumption DEF Helpers, Workers
<1>a. /\ pc \in [Workers -> Pcs] /\ spawned \in 0 .. g_worker_cap
      /\ parked \in [Workers -> BOOLEAN] /\ wake_sent \in [Workers -> BOOLEAN]
      /\ idle \in [Workers -> BOOLEAN] /\ signalled \in [Workers -> BOOLEAN]
      /\ vi \in [Workers -> 0 .. (g_worker_cap + 1)]
  BY DEF TypeInv, PcType, CountType, FlagType, RunType
<1>q. \A w \in Workers : lrq[w] = <<>> => Range(lrq[w]) = {}
  BY QueueFacts
<1> USE DEF At, Goto, Set, ToRun, threadVars, queueVars, poolVars, idleVars, runVars,
            askVars
<1>1. ASSUME NEW w \in Helpers,
              \/ HelperStarts(w) \/ LoopHead(w)
      PROVE  KickInv'
  <2>1. KicksOn
    BY <1>1, <1>w, <1>a DEF HelperStarts, LoopHead, KicksOn
  <2>2. SleepsOn
    BY <1>1, <1>w, <1>a, <1>q DEF HelperStarts, LoopHead, SleepsOn, Asleep
  <2> QED BY <2>1, <2>2, KickKeeps
<1>2. ASSUME NEW w \in Helpers,
              \/ PickSteal(w) \/ StealNext(w)
      PROVE  KickInv'
  <2>1. KicksOn
    BY <1>2, <1>w, <1>a DEF PickSteal, StealNext, KicksOn
  <2>2. SleepsOn
    BY <1>2, <1>w, <1>a, <1>q DEF PickSteal, StealNext, SleepsOn, Asleep
  <2> QED BY <2>1, <2>2, KickKeeps
<1>3. ASSUME NEW w \in Helpers,
              \/ StealNone(w) \/ IdleLocked(w)
      PROVE  KickInv'
  <2>1. KicksOn
    BY <1>3, <1>w, <1>a DEF StealNone, IdleLocked, KicksOn
  <2>2. SleepsOn
    BY <1>3, <1>w, <1>a, <1>q DEF StealNone, IdleLocked, SleepsOn, Asleep
  <2> QED BY <2>1, <2>2, KickKeeps
<1>4. ASSUME NEW w \in Helpers,
              \/ LockedBack(w) \/ RoundEnds(w)
      PROVE  KickInv'
  <2>1. KicksOn
    BY <1>4, <1>w, <1>a DEF LockedBack, RoundEnds, KicksOn
  <2>2. SleepsOn
    BY <1>4, <1>w, <1>a, <1>q DEF LockedBack, RoundEnds, SleepsOn, Asleep
  <2> QED BY <2>1, <2>2, KickKeeps
<1>5. ASSUME NEW w \in Helpers,
              \/ Relock(w) \/ IdleParks(w)
      PROVE  KickInv'
  <2>1. KicksOn
    BY <1>5, <1>w, <1>a DEF Relock, IdleParks, KicksOn
  <2>2. SleepsOn
    BY <1>5, <1>w, <1>a, <1>q DEF Relock, IdleParks, SleepsOn, Asleep
  <2> QED BY <2>1, <2>2, KickKeeps
<1>6. ASSUME NEW w \in Helpers,
              \/ IdleResets(w) \/ IdleLooks(w)
      PROVE  KickInv'
  <2>1. KicksOn
    BY <1>6, <1>w, <1>a DEF IdleResets, IdleLooks, KicksOn
  <2>2. SleepsOn
    BY <1>6, <1>w, <1>a, <1>q DEF IdleResets, IdleLooks, SleepsOn, Asleep
  <2> QED BY <2>1, <2>2, KickKeeps
<1>7. ASSUME NEW w \in Helpers,
              \/ IdleSleeps(w) \/ IdleUp(w)
      PROVE  KickInv'
  <2>1. KicksOn
    BY <1>7, <1>w, <1>a DEF IdleSleeps, IdleUp, KicksOn
  <2>2. SleepsOn
    BY <1>7, <1>w, <1>a, <1>q DEF IdleSleeps, IdleUp, SleepsOn, Asleep
  <2> QED BY <2>1, <2>2, KickKeeps
<1>8. ASSUME NEW w \in Helpers,
              \/ WokenLocked(w) \/ IdleWakes(w)
      PROVE  KickInv'
  <2>1. KicksOn
    BY <1>8, <1>w, <1>a DEF WokenLocked, IdleWakes, KicksOn
  <2>2. SleepsOn
    BY <1>8, <1>w, <1>a, <1>q DEF WokenLocked, IdleWakes, SleepsOn, Asleep
  <2> QED BY <2>1, <2>2, KickKeeps
<1>9. ASSUME NEW w \in Helpers, LocalTurn(w) PROVE KickInv'
  <2>1. KicksOn
    BY <1>9, <1>w, <1>a DEF LocalTurn, KicksOn
  <2>2. SleepsOn
    BY <1>9, <1>w, <1>a, <1>q DEF LocalTurn, SleepsOn, Asleep
  <2> QED BY <2>1, <2>2, KickKeeps
<1>10. ASSUME NEW w \in Workers,
              \/ SwitchOut(w) \/ sp_safepoint_preempt(w)
      PROVE  KickInv'
  <2>1. KicksOn
    BY <1>10, <1>w, <1>a DEF SwitchOut, sp_safepoint_preempt, Consume, KicksOn
  <2>2. SleepsOn
    BY <1>10, <1>w, <1>a, <1>q DEF SwitchOut, sp_safepoint_preempt, Consume, SleepsOn,
       Asleep
  <2> QED BY <2>1, <2>2, KickKeeps
<1>11. ASSUME NEW w \in Workers,
              \/ EnterNative(w) \/ LeaveNative(w)
      PROVE  KickInv'
  <2>1. KicksOn
    BY <1>11, <1>w, <1>a DEF EnterNative, LeaveNative, KicksOn
  <2>2. SleepsOn
    BY <1>11, <1>w, <1>a, <1>q DEF EnterNative, LeaveNative, SleepsOn, Asleep
  <2> QED BY <2>1, <2>2, KickKeeps
<1>12. ASSUME NEW w \in Workers,
              \/ ScanIdle(w) \/ Begin(w)
      PROVE  KickInv'
  <2>1. KicksOn
    BY <1>12, <1>w, <1>a DEF ScanIdle, WakeDone, Begin, KicksOn
  <2>2. SleepsOn
    BY <1>12, <1>w, <1>a, <1>q DEF ScanIdle, WakeDone, Begin, SleepsOn, Asleep
  <2> QED BY <2>1, <2>2, KickKeeps
<1>13. ASSUME NEW w \in Workers,
              \/ ClearCur(w) \/ Retire(w)
      PROVE  KickInv'
  <2>1. KicksOn
    BY <1>13, <1>w, <1>a DEF ClearCur, Retire, Consume, Off, KicksOn
  <2>2. SleepsOn
    BY <1>13, <1>w, <1>a, <1>q DEF ClearCur, Retire, Consume, Off, SleepsOn, Asleep
  <2> QED BY <2>1, <2>2, KickKeeps
<1>14. ASSUME NEW w \in Workers,
              \/ RunParked(w) \/ RunDied(w)
      PROVE  KickInv'
  <2>1. KicksOn
    BY <1>14, <1>w, <1>a DEF RunParked, RunEnds, Off, RunDied, KicksOn
  <2>2. SleepsOn
    BY <1>14, <1>w, <1>a, <1>q DEF RunParked, RunEnds, Off, RunDied, SleepsOn, Asleep
  <2> QED BY <2>1, <2>2, KickKeeps
<1>15. ASSUME NEW w \in Workers, MonitorReads(w) PROVE KickInv'
  <2>1. KicksOn
    BY <1>15, <1>w, <1>a DEF MonitorReads, KicksOn
  <2>2. SleepsOn
    BY <1>15, <1>w, <1>a, <1>q DEF MonitorReads, SleepsOn, Asleep
  <2> QED BY <2>1, <2>2, KickKeeps
<1>16. ASSUME 
              \/ PreemptAsks \/ PreemptLooks
      PROVE  KickInv'
  <2>1. KicksOn
    BY <1>16, <1>w, <1>a DEF PreemptAsks, PreemptLooks, KicksOn
  <2>2. SleepsOn
    BY <1>16, <1>w, <1>a, <1>q DEF PreemptAsks, PreemptLooks, SleepsOn, Asleep
  <2> QED BY <2>1, <2>2, KickKeeps
<1>17. ASSUME NEW w \in Helpers, PickPlace(w) PROVE KickInv'
  <2>1. PICK t \in Threads :
        /\ w \in Workers /\ At(w, "pick") /\ ShareOff(t)
        /\ UNCHANGED <<state, idleVars, sched, locked_turn, askVars, cur,
                       lrq_unstarted, active>>
        /\ \/ (\E b \in Helpers : Placed(w, b, t)) /\ UNCHANGED runVars
           \/ /\ Grown(w, "begin") /\ ToRun(w, t, "locked")
              /\ UNCHANGED <<home_wid, lrq, pinned, vi>>
    BY <1>17, PickPlaceCases DEF ShareOff
  <2>2. ASSUME NEW b \in Helpers, Placed(w, b, t), UNCHANGED runVars PROVE KickInv'
    <3>1. GrownPc(w, "kick")
      BY <1>w, <2>1, <2>2, GrownMoves DEF Placed, TypeInv
    <3>3. \A x \in Workers : x # w => pc'[x] = pc[x]
            \/ (pc[x] = "none" /\ pc'[x] = "start")
      BY <1>w, <1>a, <3>1 DEF GrownPc, PoolPc
    <3>4. KicksOn
      <4>1. \A x \in Workers : x # w => vi'[x] = vi[x]
        BY <1>a, <2>1, <2>2 DEF Placed
      <4>2. pc[w] \in {"pick", "code"}
        BY <2>1
      <4> QED BY <3>3, <4>1, <4>2 DEF KicksOn
    <3>5. \A v \in Workers : (Asleep(v)' <=> Asleep(v)) /\ wake_sent'[v] = wake_sent[v]
      BY <2>1 DEF Asleep
    <3>6. SleepsOn
      <4>1. Kicked(b)'
        <5>1. pc'[w] = "kick" /\ vi'[w] = b
          BY <1>w, <1>a, <2>2, <3>1 DEF Placed, GrownPc
        <5> QED BY <1>w, <2>1, <5>1 DEF Kicked
      <4>2. \A v \in Workers : v # b => lrq'[v] = lrq[v]
        BY <2>2 DEF Placed, Put
      <4> QED BY <3>5, <4>1, <4>2 DEF SleepsOn
    <3> QED BY <3>4, <3>6, KickKeeps
  <2>3. CASE /\ Grown(w, "begin") /\ ToRun(w, t, "locked")
             /\ UNCHANGED <<home_wid, lrq, pinned, vi>>
    <3>1. GrownPc(w, "begin")
      BY <1>w, <2>1, <2>3, GrownMoves DEF Placed, TypeInv
    <3>3. \A x \in Workers : x # w => pc'[x] = pc[x]
            \/ (pc[x] = "none" /\ pc'[x] = "start")
      BY <1>w, <1>a, <3>1 DEF GrownPc, PoolPc
    <3>4. KicksOn
      <4>1. \A x \in Workers : x # w => vi'[x] = vi[x]
        BY <1>a, <2>1, <2>3 DEF Placed
      <4>2. pc[w] \in {"pick", "code"}
        BY <2>1
      <4> QED BY <3>3, <4>1, <4>2 DEF KicksOn
    <3>5. \A v \in Workers : (Asleep(v)' <=> Asleep(v)) /\ wake_sent'[v] = wake_sent[v]
      BY <2>1 DEF Asleep
    <3>6. SleepsOn
      BY <3>5, <2>3 DEF SleepsOn
    <3> QED BY <3>4, <3>6, KickKeeps
  <2> QED BY <2>1, <2>2, <2>3
<1>18. ASSUME NEW w \in Helpers, PickOwn(w) PROVE KickInv'
  <2>1. PICK t \in Threads : t = Head(lrq[w]) /\ Took(w, t) /\ runq_take(w, t)
    BY <1>18, <1>w, TakeHead DEF PickOwn
  <2>2. CountType /\ w \in Workers
    BY <1>w DEF TypeInv
  <2>3. /\ grq' = grq /\ lrq_unstarted' \in Int
        /\ Unstarted(t) => lrq_unstarted' = lrq_unstarted - 1
        /\ ~ Unstarted(t) => lrq_unstarted' = lrq_unstarted
    BY <2>1, <2>2, TakeCounts
  <2>k. KicksOn
    BY <1>18, <2>1, <2>3, <1>w, <1>a DEF PickOwn, KicksOn
  <2>s. SleepsOn
    BY <1>18, <2>1, <2>3, <1>w, <1>a, <1>q DEF PickOwn, Took, SleepsOn, Asleep
  <2> QED BY <2>k, <2>s, KickKeeps
<1>19. ASSUME NEW w \in Helpers, sched_steal(w) PROVE KickInv'
  <2>1. PICK t \in Threads : /\ Unstarted(t) /\ Took(vi[w], t) /\ runq_take(vi[w], t)
                             /\ Stolen(w, t)
    BY <1>19, StealCases
  <2>2. w \in Workers /\ At(w, "steal") /\ vi[w] <= spawned /\ vi[w] # w
          /\ vi[w] \in Workers
    BY <1>19, StealCases
  <2>3. CountType
    BY DEF TypeInv
  <2>4. /\ grq' = grq /\ lrq_unstarted' \in Int /\ lrq_unstarted' = lrq_unstarted - 1
    BY <2>1, <2>2, <2>3, TakeCounts
  <2>k. KicksOn
    BY <2>1, <2>2, <2>4, <1>w, <1>a DEF Stolen, KicksOn
  <2>s. SleepsOn
    BY <2>1, <2>2, <2>4, <1>w, <1>a, <1>q DEF Stolen, Took, SleepsOn, Asleep
  <2> QED BY <2>k, <2>s, KickKeeps
<1>20. ASSUME NEW w \in Helpers, RunLocal(w) PROVE KickInv'
  <2>1. PICK t \in Threads : t = Head(lrq[w]) /\ Took(w, t) /\ runq_take(w, t)
    BY <1>20, <1>w, TakeHead DEF RunLocal
  <2>2. CountType /\ w \in Workers
    BY <1>w DEF TypeInv
  <2>3. /\ grq' = grq /\ lrq_unstarted' \in Int
        /\ Unstarted(t) => lrq_unstarted' = lrq_unstarted - 1
        /\ ~ Unstarted(t) => lrq_unstarted' = lrq_unstarted
    BY <2>1, <2>2, TakeCounts
  <2>k. KicksOn
    BY <1>20, <2>1, <2>3, <1>w, <1>a DEF RunLocal, KicksOn
  <2>s. SleepsOn
    BY <1>20, <2>1, <2>3, <1>w, <1>a, <1>q DEF RunLocal, Took, SleepsOn, Asleep
  <2> QED BY <2>k, <2>s, KickKeeps
<1>21. ASSUME NEW w \in Workers, SpawnLocal(w) PROVE KickInv'
  <2>1. PICK u \in Threads : /\ state[u] = "NEW" /\ ~ Queued(u) /\ Unstarted(u)
                             /\ state' = Set(state, u, "RUNNABLE") /\ Put(w, u)
    BY <1>21, SpawnLocalCases
  <2>2. /\ At(w, "run") /\ sched = Free /\ sched' = w
        /\ Goto(w, "scan") /\ vi' = Set(vi, w, 1)
        /\ UNCHANGED <<home_wid, poolVars, idleVars, runVars, locked_turn, askVars>>
    BY <1>21 DEF SpawnLocal
  <2>3. grq' = grq /\ lrq_unstarted' = lrq_unstarted + 1
    BY <1>21, SpawnLocalCases
  <2>k. KicksOn
    BY <2>1, <2>2, <2>3, <1>w, <1>a DEF KicksOn
  <2>s. SleepsOn
    BY <2>1, <2>2, <2>3, <1>w, <1>a, <1>q DEF Put, SleepPc, SleepsOn, Asleep
  <2> QED BY <2>k, <2>s, KickKeeps
<1>22. ASSUME NEW w \in Workers, ScanParked(w) PROVE KickInv'
  <2>0. pc[w] = "scan" /\ vi[w] \in Workers
    <3>1. pc[w] = "scan" /\ vi[w] <= spawned /\ vi[w] \in 1 .. (spawned + 1)
      BY <1>22 DEF ScanParked, ScanInv
    <3> QED BY <1>w, <1>a, <3>1 DEF Workers
  <2>1. KicksOn
    BY <1>22, <1>a, <2>0 DEF ScanParked, KicksOn
  <2>2. CASE parked[vi[w]] /\ ~ wake_sent[vi[w]]
    <3>1. pc'[w] = "kick" /\ vi'[w] = vi[w]
      BY <1>22, <1>a, <2>2 DEF ScanParked
    <3>2. PICK b \in Workers : b = vi[w]
      BY <2>0
    <3>3. Kicked(b)'
      BY <3>1, <3>2 DEF Kicked
    <3>4. /\ UNCHANGED <<idle, signalled, lrq>>
          /\ \A v \in Workers : v # b => wake_sent'[v] = wake_sent[v]
      BY <1>22, <1>a, <2>2, <3>2 DEF ScanParked
    <3>5. SleepsOn
      BY <3>3, <3>4 DEF SleepsOn, Asleep
    <3> QED BY <2>1, <3>5, KickKeeps
  <2>3. CASE ~(parked[vi[w]] /\ ~ wake_sent[vi[w]])
    <3>1. UNCHANGED <<idle, signalled, lrq, wake_sent>>
      BY <1>22, <2>3 DEF ScanParked
    <3>2. SleepsOn
      BY <3>1 DEF SleepsOn, Asleep
    <3> QED BY <2>1, <3>2, KickKeeps
  <2> QED BY <2>2, <2>3
<1>23. ASSUME NEW w \in Workers, sched_kick_worker(w) PROVE KickInv'
  <2>0. pc[w] = "kick" /\ vi[w] \in Workers
    <3>1. pc[w] = "kick" /\ vi[w] \in 1 .. spawned
      BY <1>23 DEF sched_kick_worker, ScanInv
    <3> QED BY <1>w, <1>a, <3>1 DEF Workers
  <2>1. /\ UNCHANGED <<idle, lrq, wake_sent>> /\ \A v \in Workers : Asleep(v)' =>
             Asleep(v) /\ v # vi[w]
    <3>1. /\ UNCHANGED <<idle, lrq, wake_sent>>
          /\ signalled'[vi[w]] = (signalled[vi[w]] \/ idle[vi[w]])
          /\ \A v \in Workers : v # vi[w] => signalled'[v] = signalled[v]
      BY <1>23, <1>a, <2>0 DEF sched_kick_worker, WakeDone
    <3> QED BY <3>1 DEF Asleep
  <2>2. \A x \in Workers : x # w => pc'[x] = pc[x] /\ vi'[x] = vi[x]
    BY <1>23, <1>a DEF sched_kick_worker, WakeDone
  <2>3. ASSUME NEW v \in Workers, Asleep(v)', wake_sent'[v] \/ Range(lrq'[v]) # {}
        PROVE  Kicked(v)'
    <3>1. Kicked(v) /\ v # vi[w]
      BY <2>1, <2>3 DEF KickInv
    <3> QED BY <2>2, <3>1 DEF Kicked
  <2> QED BY <2>3 DEF KickInv
<1>24. ASSUME NEW w \in Workers, RunPassed(w) PROVE KickInv'
  <2>1. /\ Put(w, tgt[w]) /\ grq' = grq /\ lrq_unstarted' = lrq_unstarted
        /\ Off(w) /\ pc[w] = "passed"
    BY <1>24, PassedPuts
  <2>2. /\ tgt[w] \in Threads /\ tgt[w] # NoThread /\ cur[w] = NoThread
        /\ state[tgt[w]] = "RUNNING" /\ home_wid[tgt[w]] = w /\ ~ Queued(tgt[w])
    BY <2>1, OffFacts
  <2>3. /\ RunEnds(w) /\ state' = Set(state, tgt[w], "RUNNABLE") /\ UNCHANGED pinned
    BY <1>24 DEF RunPassed
  <2>k. KicksOn
    BY <2>1, <2>2, <2>3, <1>w, <1>a DEF RunEnds, KicksOn
  <2>s. SleepsOn
    BY <2>1, <2>2, <2>3, <1>w, <1>a, <1>q DEF Put, RunEnds, SleepPc, SleepsOn, Asleep
  <2> QED BY <2>k, <2>s, KickKeeps
<1>25. ASSUME NEW t \in Threads, sched_push_wake(t) PROVE KickInv'
  <2>1. /\ home_wid[t] \in Workers /\ Put(home_wid[t], t) /\ grq' = grq
        /\ ~ Queued(t) /\ lrq_unstarted' = lrq_unstarted
    BY <1>25, WakePuts
  <2>2. /\ state[t] = "BLOCKED" /\ state' = Set(state, t, "RUNNABLE")
        /\ home_wid[t] = 0 => sched = Free
        /\ signalled' = [signalled EXCEPT ![home_wid[t]] = @ \/ idle[home_wid[t]]]
        /\ UNCHANGED <<home_wid, poolVars, parked, wake_sent, idle, runVars, sched,
                       locked_turn, pc, vi, askVars>>
    BY <1>25 DEF sched_push_wake
  <2>k. KicksOn
    BY <2>1, <2>2, <1>w, <1>a DEF KicksOn
  <2>s. SleepsOn
    BY <2>1, <2>2, <1>w, <1>a, <1>q DEF Put, SleepsOn, Asleep
  <2> QED BY <2>k, <2>s, KickKeeps
<1>26. ASSUME MainSpawn PROVE KickInv'
  <2>1. PICK u \in Threads :
              /\ state[u] = "NEW" /\ ~ Queued(u) /\ state' = Set(state, u, "RUNNABLE")
              /\ \/ (\E b \in Helpers : Placed(0, b, u)) /\ UNCHANGED grq
                 \/ /\ grq' \in Seq(Threads) /\ IsInjective(grq')
                    /\ Range(grq') = Range(grq) \cup {u}
                    /\ Grown(0, "scan") /\ vi' = Set(vi, 0, 1)
                    /\ UNCHANGED <<home_wid, lrq, pinned>>
    BY <1>26, MainSpawnCases
  <2>2. /\ At(0, "code") /\ sched = Free /\ sched' = 0
        /\ UNCHANGED <<idleVars, runVars, locked_turn, askVars, lrq_unstarted, active>>
    BY <1>26, MainSpawnCases
  <2>3. ASSUME NEW b \in Helpers, Placed(0, b, u), UNCHANGED grq PROVE KickInv'
    <3>1. GrownPc(0, "kick")
      BY <1>w, <2>1, <2>3, GrownMoves DEF Placed, TypeInv
    <3>3. \A x \in Workers : x # 0 => pc'[x] = pc[x]
            \/ (pc[x] = "none" /\ pc'[x] = "start")
      BY <1>w, <1>a, <3>1 DEF GrownPc, PoolPc
    <3>4. KicksOn
      <4>1. \A x \in Workers : x # 0 => vi'[x] = vi[x]
        BY <1>a, <2>1, <2>3, <2>2 DEF Placed
      <4>2. pc[0] \in {"pick", "code"}
        BY <2>1, <2>2
      <4> QED BY <3>3, <4>1, <4>2 DEF KicksOn
    <3>5. \A v \in Workers : (Asleep(v)' <=> Asleep(v)) /\ wake_sent'[v] = wake_sent[v]
      BY <2>1, <2>2 DEF Asleep
    <3>6. SleepsOn
      <4>1. Kicked(b)'
        <5>1. pc'[0] = "kick" /\ vi'[0] = b
          BY <1>w, <1>a, <2>3, <3>1 DEF Placed, GrownPc
        <5> QED BY <1>w, <2>1, <5>1 DEF Kicked
      <4>2. \A v \in Workers : v # b => lrq'[v] = lrq[v]
        BY <2>3 DEF Placed, Put
      <4> QED BY <3>5, <4>1, <4>2 DEF SleepsOn
    <3> QED BY <3>4, <3>6, KickKeeps
  <2>4. CASE /\ grq' \in Seq(Threads) /\ IsInjective(grq')
             /\ Range(grq') = Range(grq) \cup {u}
             /\ Grown(0, "scan") /\ vi' = Set(vi, 0, 1)
             /\ UNCHANGED <<home_wid, lrq, pinned>>
    <3>1. GrownPc(0, "scan")
      BY <1>w, <2>1, <2>4, GrownMoves DEF Placed, TypeInv
    <3>3. \A x \in Workers : x # 0 => pc'[x] = pc[x]
            \/ (pc[x] = "none" /\ pc'[x] = "start")
      BY <1>w, <1>a, <3>1 DEF GrownPc, PoolPc
    <3>4. KicksOn
      <4>1. \A x \in Workers : x # 0 => vi'[x] = vi[x]
        BY <1>a, <2>1, <2>4, <2>2 DEF Placed
      <4>2. pc[0] \in {"pick", "code"}
        BY <2>1, <2>2
      <4> QED BY <3>3, <4>1, <4>2 DEF KicksOn
    <3>5. \A v \in Workers : (Asleep(v)' <=> Asleep(v)) /\ wake_sent'[v] = wake_sent[v]
      BY <2>1, <2>2 DEF Asleep
    <3>6. SleepsOn
      BY <3>5, <2>4 DEF SleepsOn
    <3> QED BY <3>4, <3>6, KickKeeps
  <2> QED BY <2>1, <2>3, <2>4
<1>27. ASSUME PumpRun PROVE KickInv'
  <2>1. /\ At(0, "code") /\ sched = Free /\ sched' = 0 /\ Goto(0, "begin")
        /\ UNCHANGED <<threadVars, poolVars, idleVars, locked_turn, vi, askVars>>
    BY <1>27, PumpRunCases
  <2>2. PICK t \in Threads :
              /\ ToRun(0, t, "locked")
              /\ \/ ShareOff(t) /\ UNCHANGED <<lrq, lrq_unstarted>>
                 \/ Took(0, t) /\ runq_take(0, t)
    BY <1>27, PumpRunCases
  <2>3. \A v \in Workers : Range(lrq'[v]) \subseteq Range(lrq[v])
    BY <2>2 DEF Took
  <2>k. KicksOn
    BY <2>1, <1>w, <1>a DEF KicksOn
  <2>s. SleepsOn
    BY <2>1, <2>3 DEF SleepsOn, Asleep
  <2> QED BY <2>k, <2>s, KickKeeps
<1>u. CASE UNCHANGED vars
  <2>1. KicksOn
    BY <1>u, <1>w, <1>a DEF vars, KicksOn
  <2>2. SleepsOn
    BY <1>u, <1>w, <1>a, <1>q DEF vars, SleepsOn, Asleep
  <2> QED BY <2>1, <2>2, KickKeeps
<1> HIDE DEF At, Goto, Set, ToRun, threadVars, queueVars, poolVars, idleVars, runVars,
             askVars
<1> QED BY <1>u, <1>1, <1>2, <1>3, <1>4, <1>5, <1>6, <1>7, <1>8, <1>9, <1>10, <1>11,
           <1>12, <1>13, <1>14, <1>15, <1>16, <1>17, <1>18, <1>19, <1>20, <1>21, <1>22,
           <1>23, <1>24, <1>25, <1>26, <1>27
     DEF Next, LockedStep, UnlockedStep, CvWakes, ThreadStep, WakeStep, RunStep

-----------------------------------------------------------------------------
(* The cover of a thread that waits to start.                              *)

\* While t waits where it was, a helper that is alert stays so.
LEMMA AlertStep ==
  ASSUME TypeInv, QueueInv, ScanInv, PoolPc, LocalMatch, LookInv, NEW t \in Threads,
         StaysQueued(t), Waiting(t)', NEW v \in Workers, Alert(v, t),
         Next \/ UNCHANGED vars
  PROVE  Alert(v, t)'
<1>w. /\ g_worker_cap \in Nat \ {0} /\ NoThread \notin Threads /\ 0 \in Workers
      /\ \A w \in Helpers : w \in Workers /\ w > 0
      /\ \A w \in Workers : w \in Int /\ w >= 0 /\ w <= g_worker_cap
  BY ConstAssumption DEF Helpers, Workers
<1>a. /\ pc \in [Workers -> Pcs] /\ spawned \in 0 .. g_worker_cap
      /\ parked \in [Workers -> BOOLEAN] /\ wake_sent \in [Workers -> BOOLEAN]
      /\ idle \in [Workers -> BOOLEAN] /\ signalled \in [Workers -> BOOLEAN]
      /\ vi \in [Workers -> 0 .. (g_worker_cap + 1)]
  BY DEF TypeInv, PcType, CountType, FlagType, RunType
<1>t. t \in Range(grq') <=> t \in Range(grq)
  BY DEF StaysQueued
<1> USE DEF At, Goto, Set, ToRun, threadVars, queueVars, poolVars, idleVars, runVars,
            askVars
<1>1. ASSUME NEW w \in Helpers,
              \/ HelperStarts(w) \/ LoopHead(w)
      PROVE  Alert(v, t)'
  BY <1>1, <1>w, <1>a, <1>t DEF HelperStarts, LoopHead, Alert
<1>2. ASSUME NEW w \in Helpers,
              \/ PickOwn(w) \/ PickSteal(w)
      PROVE  Alert(v, t)'
  BY <1>2, <1>w, <1>a, <1>t DEF PickOwn, PickSteal, Alert
<1>3. ASSUME NEW w \in Helpers,
              \/ sched_steal(w) \/ StealNext(w)
      PROVE  Alert(v, t)'
  BY <1>3, <1>w, <1>a, <1>t DEF sched_steal, Stolen, StealNext, Alert
<1>4. ASSUME NEW w \in Helpers,
              \/ StealNone(w) \/ LockedBack(w)
      PROVE  Alert(v, t)'
  BY <1>4, <1>w, <1>a, <1>t DEF StealNone, LockedBack, Alert
<1>5. ASSUME NEW w \in Helpers,
              \/ RunLocal(w) \/ RoundEnds(w)
      PROVE  Alert(v, t)'
  BY <1>5, <1>w, <1>a, <1>t DEF RunLocal, RoundEnds, Alert
<1>6. ASSUME NEW w \in Helpers,
              \/ Relock(w) \/ IdleParks(w)
      PROVE  Alert(v, t)'
  BY <1>6, <1>w, <1>a, <1>t DEF Relock, IdleParks, Alert
<1>7. ASSUME NEW w \in Helpers,
              \/ IdleResets(w) \/ IdleSleeps(w)
      PROVE  Alert(v, t)'
  BY <1>7, <1>w, <1>a, <1>t DEF IdleResets, IdleSleeps, Alert
<1>8. ASSUME NEW w \in Helpers,
              \/ IdleUp(w) \/ WokenLocked(w)
      PROVE  Alert(v, t)'
  BY <1>8, <1>w, <1>a, <1>t DEF IdleUp, WokenLocked, Alert
<1>9. ASSUME NEW w \in Helpers,
              \/ IdleWakes(w) \/ LocalTurn(w)
      PROVE  Alert(v, t)'
  BY <1>9, <1>w, <1>a, <1>t DEF IdleWakes, LocalTurn, Alert
<1>10. ASSUME NEW w \in Workers,
              \/ SwitchOut(w) \/ sp_safepoint_preempt(w)
      PROVE  Alert(v, t)'
  BY <1>10, <1>w, <1>a, <1>t DEF SwitchOut, sp_safepoint_preempt, Consume, Alert
<1>11. ASSUME NEW w \in Workers,
              \/ EnterNative(w) \/ LeaveNative(w)
      PROVE  Alert(v, t)'
  BY <1>11, <1>w, <1>a, <1>t DEF EnterNative, LeaveNative, Alert
<1>12. ASSUME NEW w \in Workers,
              \/ SpawnLocal(w) \/ ScanIdle(w)
      PROVE  Alert(v, t)'
  BY <1>12, <1>w, <1>a, <1>t DEF SpawnLocal, ScanIdle, WakeDone, Alert
<1>13. ASSUME NEW w \in Workers,
              \/ Begin(w) \/ ClearCur(w)
      PROVE  Alert(v, t)'
  BY <1>13, <1>w, <1>a, <1>t DEF Begin, ClearCur, Alert
<1>14. ASSUME NEW w \in Workers,
              \/ Retire(w) \/ RunParked(w)
      PROVE  Alert(v, t)'
  BY <1>14, <1>w, <1>a, <1>t DEF Retire, Consume, Off, RunParked, RunEnds, Alert
<1>15. ASSUME NEW w \in Workers,
              \/ RunDied(w) \/ RunPassed(w)
      PROVE  Alert(v, t)'
  BY <1>15, <1>w, <1>a, <1>t DEF RunDied, RunEnds, Off, RunPassed, Alert
<1>16. ASSUME NEW w \in Workers, MonitorReads(w) PROVE Alert(v, t)'
  BY <1>16, <1>w, <1>a, <1>t DEF MonitorReads, Alert
<1>17. ASSUME 
              \/ PreemptAsks \/ PreemptLooks
      PROVE  Alert(v, t)'
  BY <1>17, <1>w, <1>a, <1>t DEF PreemptAsks, PreemptLooks, Alert
<1>18. ASSUME NEW w \in Helpers, PickPlace(w) PROVE Alert(v, t)'
  <2>1. PICK u \in Threads :
        /\ w \in Workers /\ At(w, "pick") /\ ShareOff(u)
        /\ UNCHANGED <<state, idleVars, sched, locked_turn, askVars, cur,
                       lrq_unstarted, active>>
        /\ \/ (\E b \in Helpers : Placed(w, b, u)) /\ UNCHANGED runVars
           \/ /\ Grown(w, "begin") /\ ToRun(w, u, "locked")
              /\ UNCHANGED <<home_wid, lrq, pinned, vi>>
    BY <1>18, PickPlaceCases DEF ShareOff
  <2>2. ASSUME NEW b \in Helpers, Placed(w, b, u), UNCHANGED runVars PROVE Alert(v, t)'
    <3>1. GrownPc(w, "kick")
      BY <1>w, <2>1, <2>2, GrownMoves DEF Placed, TypeInv
    <3>3. \A x \in Workers : x # w => pc'[x] = pc[x]
            \/ (pc[x] = "none" /\ pc'[x] = "start")
      BY <1>w, <1>a, <3>1 DEF GrownPc, PoolPc
    <3>4. /\ UNCHANGED <<signalled, wake_sent>> /\ pc'[w] \in {"kick", "scan", "begin"}
      BY <2>1, <2>2, <3>1 DEF GrownPc
    <3> QED BY <1>t, <3>3, <3>4 DEF Alert
  <2>3. CASE /\ Grown(w, "begin") /\ ToRun(w, u, "locked")
             /\ UNCHANGED <<home_wid, lrq, pinned, vi>>
    <3>1. GrownPc(w, "begin")
      BY <1>w, <2>1, <2>3, GrownMoves DEF Placed, TypeInv
    <3>3. \A x \in Workers : x # w => pc'[x] = pc[x]
            \/ (pc[x] = "none" /\ pc'[x] = "start")
      BY <1>w, <1>a, <3>1 DEF GrownPc, PoolPc
    <3>4. /\ UNCHANGED <<signalled, wake_sent>> /\ pc'[w] \in {"kick", "scan", "begin"}
      BY <2>1, <2>3, <3>1 DEF GrownPc
    <3> QED BY <1>t, <3>3, <3>4 DEF Alert
  <2> QED BY <2>1, <2>2, <2>3
<1>19. ASSUME NEW w \in Helpers, IdleLocked(w) PROVE Alert(v, t)'
  <2>1. v # w
    BY <1>19 DEF IdleLocked, LookInv, StaysQueued, Waiting
  <2> QED BY <1>19, <1>w, <1>a, <1>t, <2>1 DEF IdleLocked, Alert
<1>20. ASSUME NEW w \in Helpers, IdleLooks(w) PROVE Alert(v, t)'
  <2>1. CASE v # w
    BY <1>20, <1>a, <1>t, <2>1 DEF IdleLooks, Alert
  <2>2. CASE v = w /\ pc[w] = "look"
    BY <1>20, <1>w, <1>a, <2>2 DEF IdleLooks, Alert
  <2>3. CASE v = w /\ pc[w] = "look2"
    <3>1. grq = <<>> => Range(grq) = {}
      BY QueueFacts
    <3> QED BY <1>20, <1>w, <1>a, <1>t, <2>3, <3>1 DEF IdleLooks, Alert
  <2>4. CASE v = w /\ pc[w] = "look3"
    <3>1. t \notin Range(grq) => lrq_unstarted # 0
      <4>1. t \notin Range(grq) => t \in OnLocal
        BY DEF StaysQueued, Waiting, Queued, OnLocal
      <4>2. OnLocal \in SUBSET Threads
        BY DEF OnLocal
      <4>3. IsFiniteSet(OnLocal)
        BY <4>2, CountOne
      <4> QED BY <4>1, <4>3, FS_EmptySet DEF LocalMatch
    <3> QED BY <1>20, <1>w, <1>a, <2>4, <3>1 DEF IdleLooks, Alert
  <2> QED BY <1>20, <2>1, <2>2, <2>3, <2>4 DEF IdleLooks
<1>21. ASSUME NEW w \in Workers, ScanParked(w) PROVE Alert(v, t)'
  <2>1. pc' = pc \/ pc' = [pc EXCEPT ![w] = "kick"]
    BY <1>21 DEF ScanParked
  <2>2. signalled' = signalled /\ (wake_sent[v] => wake_sent'[v])
    BY <1>21, <1>w, <1>a DEF ScanParked
  <2> QED BY <1>w, <1>a, <1>t, <2>1, <2>2 DEF Alert
<1>22. ASSUME NEW w \in Workers, sched_kick_worker(w) PROVE Alert(v, t)'
  <2>1. /\ wake_sent' = wake_sent /\ (signalled[v] => signalled'[v])
        /\ pc'[v] = pc[v] \/ pc'[v] \in {"code", "pick", "run"}
    BY <1>22, <1>w, <1>a DEF sched_kick_worker, WakeDone
  <2> QED BY <1>t, <2>1 DEF Alert
<1>23. ASSUME NEW u \in Threads, sched_push_wake(u) PROVE Alert(v, t)'
  <2>1. /\ pc' = pc /\ wake_sent' = wake_sent
        /\ signalled' = [signalled EXCEPT ![home_wid[u]] = @ \/ idle[home_wid[u]]]
    BY <1>23 DEF sched_push_wake
  <2>2. signalled[v] => signalled'[v]
    BY <1>a, <2>1
  <2> QED BY <1>t, <2>1, <2>2 DEF Alert
<1>24. ASSUME MainSpawn PROVE Alert(v, t)'
  <2>1. PICK u \in Threads :
              /\ state[u] = "NEW" /\ ~ Queued(u) /\ state' = Set(state, u, "RUNNABLE")
              /\ \/ (\E b \in Helpers : Placed(0, b, u)) /\ UNCHANGED grq
                 \/ /\ grq' \in Seq(Threads) /\ IsInjective(grq')
                    /\ Range(grq') = Range(grq) \cup {u}
                    /\ Grown(0, "scan") /\ vi' = Set(vi, 0, 1)
                    /\ UNCHANGED <<home_wid, lrq, pinned>>
    BY <1>24, MainSpawnCases
  <2>2. /\ At(0, "code") /\ sched = Free /\ sched' = 0
        /\ UNCHANGED <<idleVars, runVars, locked_turn, askVars, lrq_unstarted, active>>
    BY <1>24, MainSpawnCases
  <2>3. ASSUME NEW b \in Helpers, Placed(0, b, u), UNCHANGED grq PROVE Alert(v, t)'
    <3>1. GrownPc(0, "kick")
      BY <1>w, <2>1, <2>3, GrownMoves DEF Placed, TypeInv
    <3>3. \A x \in Workers : x # 0 => pc'[x] = pc[x]
            \/ (pc[x] = "none" /\ pc'[x] = "start")
      BY <1>w, <1>a, <3>1 DEF GrownPc, PoolPc
    <3>4. /\ UNCHANGED <<signalled, wake_sent>> /\ pc'[0] \in {"kick", "scan", "begin"}
      BY <2>1, <2>3, <2>2, <3>1 DEF GrownPc
    <3> QED BY <1>t, <3>3, <3>4 DEF Alert
  <2>4. CASE /\ grq' \in Seq(Threads) /\ IsInjective(grq')
             /\ Range(grq') = Range(grq) \cup {u}
             /\ Grown(0, "scan") /\ vi' = Set(vi, 0, 1)
             /\ UNCHANGED <<home_wid, lrq, pinned>>
    <3>1. GrownPc(0, "scan")
      BY <1>w, <2>1, <2>4, GrownMoves DEF Placed, TypeInv
    <3>3. \A x \in Workers : x # 0 => pc'[x] = pc[x]
            \/ (pc[x] = "none" /\ pc'[x] = "start")
      BY <1>w, <1>a, <3>1 DEF GrownPc, PoolPc
    <3>4. /\ UNCHANGED <<signalled, wake_sent>> /\ pc'[0] \in {"kick", "scan", "begin"}
      BY <2>1, <2>4, <2>2, <3>1 DEF GrownPc
    <3> QED BY <1>t, <3>3, <3>4 DEF Alert
  <2> QED BY <2>1, <2>3, <2>4
<1>25. ASSUME PumpRun PROVE Alert(v, t)'
  <2>1. /\ At(0, "code") /\ Goto(0, "begin") /\ UNCHANGED <<signalled, wake_sent>>
    BY <1>25, PumpRunCases
  <2> QED BY <1>w, <1>a, <1>t, <2>1 DEF Alert
<1>u. CASE UNCHANGED vars
  BY <1>u, <1>w, <1>a, <1>t DEF vars, Alert
<1> HIDE DEF At, Goto, Set, ToRun, threadVars, queueVars, poolVars, idleVars, runVars,
             askVars
<1> QED BY <1>u, <1>1, <1>2, <1>3, <1>4, <1>5, <1>6, <1>7, <1>8, <1>9, <1>10, <1>11,
           <1>12, <1>13, <1>14, <1>15, <1>16, <1>17, <1>18, <1>19, <1>20, <1>21, <1>22,
           <1>23, <1>24, <1>25
     DEF Next, LockedStep, UnlockedStep, CvWakes, ThreadStep, WakeStep, RunStep

\* A scan or a kick goes on by its own steps only; a sleeper that wakes is up; and
\* the pool only grows, not during a scan, and by helpers that have yet to start.
Moves(x) ==
  /\ pc[x] \in {"scan", "kick"} =>
       \/ pc'[x] = pc[x] /\ vi'[x] = vi[x] /\ spawned' = spawned
       \/ ScanParked(x) \/ ScanIdle(x) \/ sched_kick_worker(x)
  /\ pc[x] \in {"cv", "lcv"} => pc'[x] \in {pc[x], "up", "lback"}
  /\ spawned' \in Int /\ spawned <= spawned' /\ spawned' <= g_worker_cap
  /\ spawned < x /\ x <= spawned' => pc'[x] = "start"
\* This holds of every step.
LEMMA MovesStep ==
  ASSUME TypeInv, QueueInv, PoolPc, LockInv,
         Next \/ UNCHANGED vars
  PROVE  \A x \in Workers : Moves(x)
<1>w. /\ g_worker_cap \in Nat \ {0} /\ NoThread \notin Threads /\ 0 \in Workers
      /\ \A w \in Helpers : w \in Workers /\ w > 0
      /\ \A w \in Workers : w \in Int /\ w >= 0 /\ w <= g_worker_cap
  BY ConstAssumption DEF Helpers, Workers
<1>a. /\ pc \in [Workers -> Pcs] /\ spawned \in 0 .. g_worker_cap
      /\ parked \in [Workers -> BOOLEAN] /\ wake_sent \in [Workers -> BOOLEAN]
      /\ idle \in [Workers -> BOOLEAN] /\ signalled \in [Workers -> BOOLEAN]
      /\ vi \in [Workers -> 0 .. (g_worker_cap + 1)]
  BY DEF TypeInv, PcType, CountType, FlagType, RunType
<1>f. sched \in Workers \cup {Free, Monitor}
  BY DEF TypeInv, LockType
<1> USE DEF At, Goto, Set, ToRun, threadVars, queueVars, poolVars, idleVars, runVars,
            askVars
<1>1. ASSUME NEW w \in Helpers,
              \/ HelperStarts(w) \/ LoopHead(w) \/ PickOwn(w)
      PROVE  \A x \in Workers : Moves(x)
  <2>1. UNCHANGED spawned
    BY <1>1 DEF HelperStarts, LoopHead, PickOwn
  <2>2. \A x \in Workers : pc[x] \in {"scan", "kick"} => pc'[x] = pc[x] /\ vi'[x] = vi[x]
    BY <1>1, <1>w, <1>a DEF HelperStarts, LoopHead, PickOwn
  <2>3. \A x \in Workers : pc[x] \in {"cv", "lcv"} => pc'[x] \in {pc[x], "up", "lback"}
    BY <1>1, <1>w, <1>a DEF HelperStarts, LoopHead, PickOwn
  <2> QED BY <1>w, <1>a, <2>1, <2>2, <2>3 DEF Moves
<1>2. ASSUME NEW w \in Helpers,
              \/ PickSteal(w) \/ sched_steal(w) \/ StealNext(w)
      PROVE  \A x \in Workers : Moves(x)
  <2>1. UNCHANGED spawned
    BY <1>2 DEF PickSteal, sched_steal, Stolen, StealNext
  <2>2. \A x \in Workers : pc[x] \in {"scan", "kick"} => pc'[x] = pc[x] /\ vi'[x] = vi[x]
    BY <1>2, <1>w, <1>a DEF PickSteal, sched_steal, Stolen, StealNext
  <2>3. \A x \in Workers : pc[x] \in {"cv", "lcv"} => pc'[x] \in {pc[x], "up", "lback"}
    BY <1>2, <1>w, <1>a DEF PickSteal, sched_steal, Stolen, StealNext
  <2> QED BY <1>w, <1>a, <2>1, <2>2, <2>3 DEF Moves
<1>3. ASSUME NEW w \in Helpers,
              \/ StealNone(w) \/ IdleLocked(w) \/ LockedBack(w)
      PROVE  \A x \in Workers : Moves(x)
  <2>1. UNCHANGED spawned
    BY <1>3 DEF StealNone, IdleLocked, LockedBack
  <2>2. \A x \in Workers : pc[x] \in {"scan", "kick"} => pc'[x] = pc[x] /\ vi'[x] = vi[x]
    BY <1>3, <1>w, <1>a DEF StealNone, IdleLocked, LockedBack
  <2>3. \A x \in Workers : pc[x] \in {"cv", "lcv"} => pc'[x] \in {pc[x], "up", "lback"}
    BY <1>3, <1>w, <1>a DEF StealNone, IdleLocked, LockedBack
  <2> QED BY <1>w, <1>a, <2>1, <2>2, <2>3 DEF Moves
<1>4. ASSUME NEW w \in Helpers,
              \/ RunLocal(w) \/ RoundEnds(w) \/ Relock(w)
      PROVE  \A x \in Workers : Moves(x)
  <2>1. UNCHANGED spawned
    BY <1>4 DEF RunLocal, RoundEnds, Relock
  <2>2. \A x \in Workers : pc[x] \in {"scan", "kick"} => pc'[x] = pc[x] /\ vi'[x] = vi[x]
    BY <1>4, <1>w, <1>a DEF RunLocal, RoundEnds, Relock
  <2>3. \A x \in Workers : pc[x] \in {"cv", "lcv"} => pc'[x] \in {pc[x], "up", "lback"}
    BY <1>4, <1>w, <1>a DEF RunLocal, RoundEnds, Relock
  <2> QED BY <1>w, <1>a, <2>1, <2>2, <2>3 DEF Moves
<1>5. ASSUME NEW w \in Helpers,
              \/ IdleParks(w) \/ IdleResets(w) \/ IdleLooks(w)
      PROVE  \A x \in Workers : Moves(x)
  <2>1. UNCHANGED spawned
    BY <1>5 DEF IdleParks, IdleResets, IdleLooks
  <2>2. \A x \in Workers : pc[x] \in {"scan", "kick"} => pc'[x] = pc[x] /\ vi'[x] = vi[x]
    BY <1>5, <1>w, <1>a DEF IdleParks, IdleResets, IdleLooks
  <2>3. \A x \in Workers : pc[x] \in {"cv", "lcv"} => pc'[x] \in {pc[x], "up", "lback"}
    BY <1>5, <1>w, <1>a DEF IdleParks, IdleResets, IdleLooks
  <2> QED BY <1>w, <1>a, <2>1, <2>2, <2>3 DEF Moves
<1>6. ASSUME NEW w \in Helpers,
              \/ IdleSleeps(w) \/ IdleUp(w) \/ WokenLocked(w)
      PROVE  \A x \in Workers : Moves(x)
  <2>1. UNCHANGED spawned
    BY <1>6 DEF IdleSleeps, IdleUp, WokenLocked
  <2>2. \A x \in Workers : pc[x] \in {"scan", "kick"} => pc'[x] = pc[x] /\ vi'[x] = vi[x]
    BY <1>6, <1>w, <1>a DEF IdleSleeps, IdleUp, WokenLocked
  <2>3. \A x \in Workers : pc[x] \in {"cv", "lcv"} => pc'[x] \in {pc[x], "up", "lback"}
    BY <1>6, <1>w, <1>a DEF IdleSleeps, IdleUp, WokenLocked
  <2> QED BY <1>w, <1>a, <2>1, <2>2, <2>3 DEF Moves
<1>7. ASSUME NEW w \in Helpers,
              \/ IdleWakes(w) \/ LocalTurn(w)
      PROVE  \A x \in Workers : Moves(x)
  <2>1. UNCHANGED spawned
    BY <1>7 DEF IdleWakes, LocalTurn
  <2>2. \A x \in Workers : pc[x] \in {"scan", "kick"} => pc'[x] = pc[x] /\ vi'[x] = vi[x]
    BY <1>7, <1>w, <1>a DEF IdleWakes, LocalTurn
  <2>3. \A x \in Workers : pc[x] \in {"cv", "lcv"} => pc'[x] \in {pc[x], "up", "lback"}
    BY <1>7, <1>w, <1>a DEF IdleWakes, LocalTurn
  <2> QED BY <1>w, <1>a, <2>1, <2>2, <2>3 DEF Moves
<1>8. ASSUME NEW w \in Workers,
              \/ SwitchOut(w) \/ sp_safepoint_preempt(w) \/ EnterNative(w)
      PROVE  \A x \in Workers : Moves(x)
  <2>1. UNCHANGED spawned
    BY <1>8 DEF SwitchOut, sp_safepoint_preempt, Consume, EnterNative
  <2>2. \A x \in Workers : pc[x] \in {"scan", "kick"} => pc'[x] = pc[x] /\ vi'[x] = vi[x]
    BY <1>8, <1>w, <1>a DEF SwitchOut, sp_safepoint_preempt, Consume, EnterNative
  <2>3. \A x \in Workers : pc[x] \in {"cv", "lcv"} => pc'[x] \in {pc[x], "up", "lback"}
    BY <1>8, <1>w, <1>a DEF SwitchOut, sp_safepoint_preempt, Consume, EnterNative
  <2> QED BY <1>w, <1>a, <2>1, <2>2, <2>3 DEF Moves
<1>9. ASSUME NEW w \in Workers,
              \/ LeaveNative(w) \/ SpawnLocal(w) \/ Begin(w)
      PROVE  \A x \in Workers : Moves(x)
  <2>1. UNCHANGED spawned
    BY <1>9 DEF LeaveNative, SpawnLocal, Begin
  <2>2. \A x \in Workers : pc[x] \in {"scan", "kick"} => pc'[x] = pc[x] /\ vi'[x] = vi[x]
    BY <1>9, <1>w, <1>a DEF LeaveNative, SpawnLocal, Begin
  <2>3. \A x \in Workers : pc[x] \in {"cv", "lcv"} => pc'[x] \in {pc[x], "up", "lback"}
    BY <1>9, <1>w, <1>a DEF LeaveNative, SpawnLocal, Begin
  <2> QED BY <1>w, <1>a, <2>1, <2>2, <2>3 DEF Moves
<1>10. ASSUME NEW w \in Workers,
              \/ ClearCur(w) \/ Retire(w) \/ RunParked(w)
      PROVE  \A x \in Workers : Moves(x)
  <2>1. UNCHANGED spawned
    BY <1>10 DEF ClearCur, Retire, Consume, Off, RunParked, RunEnds
  <2>2. \A x \in Workers : pc[x] \in {"scan", "kick"} => pc'[x] = pc[x] /\ vi'[x] = vi[x]
    BY <1>10, <1>w, <1>a DEF ClearCur, Retire, Consume, Off, RunParked, RunEnds
  <2>3. \A x \in Workers : pc[x] \in {"cv", "lcv"} => pc'[x] \in {pc[x], "up", "lback"}
    BY <1>10, <1>w, <1>a DEF ClearCur, Retire, Consume, Off, RunParked, RunEnds
  <2> QED BY <1>w, <1>a, <2>1, <2>2, <2>3 DEF Moves
<1>11. ASSUME NEW w \in Workers,
              \/ RunDied(w) \/ RunPassed(w) \/ MonitorReads(w)
      PROVE  \A x \in Workers : Moves(x)
  <2>1. UNCHANGED spawned
    BY <1>11 DEF RunDied, RunEnds, Off, RunPassed, MonitorReads
  <2>2. \A x \in Workers : pc[x] \in {"scan", "kick"} => pc'[x] = pc[x] /\ vi'[x] = vi[x]
    BY <1>11, <1>w, <1>a DEF RunDied, RunEnds, Off, RunPassed, MonitorReads
  <2>3. \A x \in Workers : pc[x] \in {"cv", "lcv"} => pc'[x] \in {pc[x], "up", "lback"}
    BY <1>11, <1>w, <1>a DEF RunDied, RunEnds, Off, RunPassed, MonitorReads
  <2> QED BY <1>w, <1>a, <2>1, <2>2, <2>3 DEF Moves
<1>12. ASSUME NEW t \in Threads, sched_push_wake(t) PROVE \A x \in Workers : Moves(x)
  <2>1. UNCHANGED spawned
    BY <1>12 DEF sched_push_wake
  <2>2. \A x \in Workers : pc[x] \in {"scan", "kick"} => pc'[x] = pc[x] /\ vi'[x] = vi[x]
    BY <1>12, <1>w, <1>a DEF sched_push_wake
  <2>3. \A x \in Workers : pc[x] \in {"cv", "lcv"} => pc'[x] \in {pc[x], "up", "lback"}
    BY <1>12, <1>w, <1>a DEF sched_push_wake
  <2> QED BY <1>w, <1>a, <2>1, <2>2, <2>3 DEF Moves
<1>13. ASSUME 
              \/ PumpRun \/ PreemptAsks \/ PreemptLooks
      PROVE  \A x \in Workers : Moves(x)
  <2>1. UNCHANGED spawned
    BY <1>13 DEF PumpRun, PreemptAsks, PreemptLooks
  <2>2. \A x \in Workers : pc[x] \in {"scan", "kick"} => pc'[x] = pc[x] /\ vi'[x] = vi[x]
    BY <1>13, <1>w, <1>a DEF PumpRun, PreemptAsks, PreemptLooks
  <2>3. \A x \in Workers : pc[x] \in {"cv", "lcv"} => pc'[x] \in {pc[x], "up", "lback"}
    BY <1>13, <1>w, <1>a DEF PumpRun, PreemptAsks, PreemptLooks
  <2> QED BY <1>w, <1>a, <2>1, <2>2, <2>3 DEF Moves
<1>14. ASSUME NEW w \in Helpers, PickPlace(w) PROVE \A x \in Workers : Moves(x)
  <2>1. PICK t \in Threads :
        /\ w \in Workers /\ At(w, "pick") /\ ShareOff(t)
        /\ UNCHANGED <<state, idleVars, sched, locked_turn, askVars, cur,
                       lrq_unstarted, active>>
        /\ \/ (\E b \in Helpers : Placed(w, b, t)) /\ UNCHANGED runVars
           \/ /\ Grown(w, "begin") /\ ToRun(w, t, "locked")
              /\ UNCHANGED <<home_wid, lrq, pinned, vi>>
    BY <1>14, PickPlaceCases DEF ShareOff
  <2>2. ASSUME NEW b \in Helpers, Placed(w, b, t), UNCHANGED runVars
        PROVE  \A x \in Workers : Moves(x)
    <3>1. GrownPc(w, "kick")
      BY <1>w, <2>1, <2>2, GrownMoves DEF Placed, TypeInv
    <3>2. /\ \A x \in Workers : x # w => vi'[x] = vi[x]
          /\ pc[w] \in {"pick", "code"} /\ w <= spawned
      BY <1>w, <1>a, <2>1, <2>2 DEF Placed, PoolPc
    <3>3. \A x \in Workers : pc[x] \notin {"scan", "kick"}
      BY <1>f, <1>w, <2>1, <3>2 DEF LockInv, WakePcs, Free
    <3>4. \A x \in Workers : x # w => pc'[x] = pc[x]
            \/ (pc[x] = "none" /\ pc'[x] = "start")
      BY <1>w, <1>a, <3>1 DEF GrownPc, PoolPc
    <3>5. /\ spawned' \in Int /\ spawned <= spawned' /\ spawned' <= g_worker_cap
          /\ \A x \in Workers : spawned < x /\ x <= spawned' => pc'[x] = "start"
      BY <1>w, <1>a, <3>1, <3>2 DEF GrownPc
    <3> QED BY <3>2, <3>3, <3>4, <3>5 DEF Moves
  <2>3. CASE /\ Grown(w, "begin") /\ ToRun(w, t, "locked")
             /\ UNCHANGED <<home_wid, lrq, pinned, vi>>
    <3>1. GrownPc(w, "begin")
      BY <1>w, <2>1, <2>3, GrownMoves DEF Placed, TypeInv
    <3>2. /\ \A x \in Workers : x # w => vi'[x] = vi[x]
          /\ pc[w] \in {"pick", "code"} /\ w <= spawned
      BY <1>w, <1>a, <2>1, <2>3 DEF Placed, PoolPc
    <3>3. \A x \in Workers : pc[x] \notin {"scan", "kick"}
      BY <1>f, <1>w, <2>1, <3>2 DEF LockInv, WakePcs, Free
    <3>4. \A x \in Workers : x # w => pc'[x] = pc[x]
            \/ (pc[x] = "none" /\ pc'[x] = "start")
      BY <1>w, <1>a, <3>1 DEF GrownPc, PoolPc
    <3>5. /\ spawned' \in Int /\ spawned <= spawned' /\ spawned' <= g_worker_cap
          /\ \A x \in Workers : spawned < x /\ x <= spawned' => pc'[x] = "start"
      BY <1>w, <1>a, <3>1, <3>2 DEF GrownPc
    <3> QED BY <3>2, <3>3, <3>4, <3>5 DEF Moves
  <2> QED BY <2>1, <2>2, <2>3
<1>15. ASSUME NEW w \in Workers, ScanParked(w) PROVE \A x \in Workers : Moves(x)
  <2>1. UNCHANGED spawned
    BY <1>15 DEF ScanParked
  <2>2. \A x \in Workers : x # w => pc'[x] = pc[x] /\ vi'[x] = vi[x]
    BY <1>15, <1>w, <1>a DEF ScanParked
  <2>3. pc[w] \notin {"cv", "lcv"}
    BY <1>15 DEF ScanParked
  <2> QED BY <1>15, <1>w, <1>a, <2>1, <2>2, <2>3 DEF Moves
<1>16. ASSUME NEW w \in Workers, ScanIdle(w) PROVE \A x \in Workers : Moves(x)
  <2>1. UNCHANGED spawned
    BY <1>16 DEF ScanIdle, WakeDone
  <2>2. \A x \in Workers : x # w => pc'[x] = pc[x] /\ vi'[x] = vi[x]
    BY <1>16, <1>w, <1>a DEF ScanIdle, WakeDone
  <2>3. pc[w] \notin {"cv", "lcv"}
    BY <1>16 DEF ScanIdle
  <2> QED BY <1>16, <1>w, <1>a, <2>1, <2>2, <2>3 DEF Moves
<1>17. ASSUME NEW w \in Workers, sched_kick_worker(w) PROVE \A x \in Workers : Moves(x)
  <2>1. UNCHANGED spawned
    BY <1>17 DEF sched_kick_worker, WakeDone
  <2>2. \A x \in Workers : x # w => pc'[x] = pc[x] /\ vi'[x] = vi[x]
    BY <1>17, <1>w, <1>a DEF sched_kick_worker, WakeDone
  <2>3. pc[w] \notin {"cv", "lcv"}
    BY <1>17 DEF sched_kick_worker
  <2> QED BY <1>17, <1>w, <1>a, <2>1, <2>2, <2>3 DEF Moves
<1>18. ASSUME MainSpawn PROVE \A x \in Workers : Moves(x)
  <2>1. PICK u \in Threads :
              /\ state[u] = "NEW" /\ ~ Queued(u) /\ state' = Set(state, u, "RUNNABLE")
              /\ \/ (\E b \in Helpers : Placed(0, b, u)) /\ UNCHANGED grq
                 \/ /\ grq' \in Seq(Threads) /\ IsInjective(grq')
                    /\ Range(grq') = Range(grq) \cup {u}
                    /\ Grown(0, "scan") /\ vi' = Set(vi, 0, 1)
                    /\ UNCHANGED <<home_wid, lrq, pinned>>
    BY <1>18, MainSpawnCases
  <2>2. /\ At(0, "code") /\ sched = Free /\ sched' = 0
        /\ UNCHANGED <<idleVars, runVars, locked_turn, askVars, lrq_unstarted, active>>
    BY <1>18, MainSpawnCases
  <2>3. ASSUME NEW b \in Helpers, Placed(0, b, u), UNCHANGED grq
        PROVE  \A x \in Workers : Moves(x)
    <3>1. GrownPc(0, "kick")
      BY <1>w, <2>1, <2>3, GrownMoves DEF Placed, TypeInv
    <3>2. /\ \A x \in Workers : x # 0 => vi'[x] = vi[x]
          /\ pc[0] \in {"pick", "code"} /\ 0 <= spawned
      BY <1>w, <1>a, <2>1, <2>3, <2>2 DEF Placed, PoolPc
    <3>3. \A x \in Workers : pc[x] \notin {"scan", "kick"}
      BY <1>f, <1>w, <2>1, <3>2, <2>2 DEF LockInv, WakePcs, Free
    <3>4. \A x \in Workers : x # 0 => pc'[x] = pc[x]
            \/ (pc[x] = "none" /\ pc'[x] = "start")
      BY <1>w, <1>a, <3>1 DEF GrownPc, PoolPc
    <3>5. /\ spawned' \in Int /\ spawned <= spawned' /\ spawned' <= g_worker_cap
          /\ \A x \in Workers : spawned < x /\ x <= spawned' => pc'[x] = "start"
      BY <1>w, <1>a, <3>1, <3>2 DEF GrownPc
    <3> QED BY <3>2, <3>3, <3>4, <3>5 DEF Moves
  <2>4. CASE /\ grq' \in Seq(Threads) /\ IsInjective(grq')
             /\ Range(grq') = Range(grq) \cup {u}
             /\ Grown(0, "scan") /\ vi' = Set(vi, 0, 1)
             /\ UNCHANGED <<home_wid, lrq, pinned>>
    <3>1. GrownPc(0, "scan")
      BY <1>w, <2>1, <2>4, GrownMoves DEF Placed, TypeInv
    <3>2. /\ \A x \in Workers : x # 0 => vi'[x] = vi[x]
          /\ pc[0] \in {"pick", "code"} /\ 0 <= spawned
      BY <1>w, <1>a, <2>1, <2>4, <2>2 DEF Placed, PoolPc
    <3>3. \A x \in Workers : pc[x] \notin {"scan", "kick"}
      BY <1>f, <1>w, <2>1, <3>2, <2>2 DEF LockInv, WakePcs, Free
    <3>4. \A x \in Workers : x # 0 => pc'[x] = pc[x]
            \/ (pc[x] = "none" /\ pc'[x] = "start")
      BY <1>w, <1>a, <3>1 DEF GrownPc, PoolPc
    <3>5. /\ spawned' \in Int /\ spawned <= spawned' /\ spawned' <= g_worker_cap
          /\ \A x \in Workers : spawned < x /\ x <= spawned' => pc'[x] = "start"
      BY <1>w, <1>a, <3>1, <3>2 DEF GrownPc
    <3> QED BY <3>2, <3>3, <3>4, <3>5 DEF Moves
  <2> QED BY <2>1, <2>3, <2>4
<1>u. CASE UNCHANGED vars
  <2>1. UNCHANGED spawned
    BY <1>u DEF vars
  <2>2. \A x \in Workers : pc[x] \in {"scan", "kick"} => pc'[x] = pc[x] /\ vi'[x] = vi[x]
    BY <1>u, <1>w, <1>a DEF vars
  <2>3. \A x \in Workers : pc[x] \in {"cv", "lcv"} => pc'[x] \in {pc[x], "up", "lback"}
    BY <1>u, <1>w, <1>a DEF vars
  <2> QED BY <1>w, <1>a, <2>1, <2>2, <2>3 DEF Moves
<1> HIDE DEF At, Goto, Set, ToRun, threadVars, queueVars, poolVars, idleVars, runVars,
             askVars
<1> QED BY <1>u, <1>1, <1>2, <1>3, <1>4, <1>5, <1>6, <1>7, <1>8, <1>9, <1>10, <1>11,
           <1>12, <1>13, <1>14, <1>15, <1>16, <1>17, <1>18
     DEF Next, LockedStep, UnlockedStep, CvWakes, ThreadStep, WakeStep, RunStep

\* A thread that waits to start stays covered.
LEMMA CoverStep ==
  ASSUME TypeInv, QueueInv, HandInv, StateInv, ScanInv, PoolInv, LockInv, LocalMatch,
         OwnInv, LookInv, SleepPc, KickInv, CoverInv, Next \/ UNCHANGED vars
  PROVE  CoverInv'
<1>a. /\ g_worker_cap \in Nat /\ \A x \in Workers : x \in Int /\ x >= 0
      /\ spawned \in 0 .. g_worker_cap /\ pc \in [Workers -> Pcs]
      /\ idle \in [Workers -> BOOLEAN] /\ signalled \in [Workers -> BOOLEAN]
      /\ wake_sent \in [Workers -> BOOLEAN] /\ vi \in [Workers -> 0 .. (g_worker_cap + 1)]
  BY ConstAssumption DEF Workers, TypeInv, CountType, PcType, FlagType, RunType
<1>0. WaitsOn /\ SleepPc' /\ \A x \in Workers : Moves(x)
  BY WaitStep, SleepPcStep, MovesStep DEF PoolInv
<1>1. SUFFICES ASSUME NEW t \in Threads, Waiting(t)', Others(t)' # {}
               PROVE  \/ \E w \in Others(t)' : Alert(w, t)'
                      \/ \E x \in Workers : /\ pc'[x] = "kick" /\ idle'[vi'[x]]
                                            /\ vi'[x] \in Others(t)'
                      \/ \E x \in Workers : /\ pc'[x] = "scan"
                                            /\ \A w \in Others(t)' : vi'[x] <= w
  BY DEF CoverInv, Waiting, At
<1>2. \A w : w \in Others(t) <=> w \in 1 .. spawned /\ t \notin Range(lrq[w])
  BY DEF Others
<1>3. \A w : w \in Others(t)' <=> w \in 1 .. spawned' /\ t \notin Range(lrq'[w])
  BY DEF Others
<1>5. CASE JustSpawned(t)
  <2>1. PICK x \in Workers : pc'[x] = "scan" /\ vi'[x] = 1
    BY <1>5 DEF JustSpawned
  <2>2. spawned' \in Int
    BY <1>0, <2>1 DEF Moves
  <2>3. \A w \in Others(t)' : vi'[x] <= w
    BY <1>3, <2>1, <2>2
  <2> QED BY <2>1, <2>3
<1>6. CASE StaysQueued(t)
  <2>1. /\ Waiting(t) /\ (t \in Range(grq') <=> t \in Range(grq))
        /\ \A v \in Workers : t \in Range(lrq'[v]) <=> t \in Range(lrq[v])
    BY <1>6 DEF StaysQueued
  <2>2. ASSUME NEW v \in Workers, Alert(v, t) PROVE Alert(v, t)'
    BY <1>1, <1>6, <2>2, AlertStep DEF PoolInv
  <2>3. CASE spawned' # spawned
    <3>0. 0 \in Workers /\ \A n \in Int : 0 <= n /\ n <= g_worker_cap => n \in Workers
      BY <1>a DEF Workers
    <3>1. /\ spawned' \in Int /\ spawned < spawned' /\ spawned' <= g_worker_cap
          /\ \A x \in Workers : spawned < x /\ x <= spawned' => pc'[x] = "start"
      BY <1>a, <1>0, <2>3, <3>0 DEF Moves
    <3>2. PICK w \in Workers : w = spawned'
      BY <1>a, <3>0, <3>1
    <3>3. pc'[w] = "start" /\ t \notin Range(lrq'[w]) /\ w \in 1 .. spawned'
      BY <1>a, <2>1, <3>1, <3>2 DEF PoolInv, PoolHome
    <3>4. Alert(w, t)' /\ w \in Others(t)'
      BY <1>3, <3>3 DEF Alert
    <3> QED BY <3>4
  <2>4. CASE spawned' = spawned
    <3>0. \A w \in 1 .. spawned : w \in Workers
      BY <1>a DEF Workers
    <3>1. \A w : w \in Others(t)' <=> w \in Others(t)
      BY <1>2, <1>3, <2>1, <2>4, <3>0
    <3>2. \A w \in Others(t) : w \in Workers
      BY <1>2, <3>0
    <3>3. ASSUME NEW w \in Others(t), Alert(w, t) PROVE w \in Others(t)' /\ Alert(w, t)'
      BY <2>2, <3>1, <3>2, <3>3
    <3>4. ASSUME NEW x \in Workers, pc[x] = "kick", idle[vi[x]], vi[x] \in Others(t)
          PROVE  \/ \E w \in Others(t)' : Alert(w, t)'
                 \/ pc'[x] = "kick" /\ idle'[vi'[x]] /\ vi'[x] \in Others(t)'
      <4>1. PICK v \in Workers : v = vi[x]
        BY <3>2, <3>4
      <4>2. v \in Others(t)' /\ pc[v] \in {"cv", "lcv"} /\ v # x
        BY <3>1, <3>4, <4>1 DEF SleepPc
      <4>3. CASE pc'[x] = "kick" /\ vi'[x] = vi[x]
        <5>1. idle'[v] \/ Alert(v, t)'
          BY <1>0, <4>2 DEF Moves, SleepPc, Alert
        <5> QED BY <4>1, <4>2, <4>3, <5>1
      <4>4. CASE sched_kick_worker(x)
        <5>1. signalled'[v] /\ pc'[v] = pc[v]
          BY <1>a, <3>4, <4>1, <4>2, <4>4 DEF sched_kick_worker, WakeDone, Goto
        <5>2. Alert(v, t)'
          BY <4>2, <5>1 DEF Alert
        <5> QED BY <4>2, <5>2
      <4>5. ~ ScanParked(x) /\ ~ ScanIdle(x)
        BY <3>4 DEF ScanParked, ScanIdle, At
      <4> QED BY <1>0, <3>4, <4>3, <4>4, <4>5 DEF Moves
    <3>5. ASSUME NEW x \in Workers, pc[x] = "scan", \A w \in Others(t) : vi[x] <= w
          PROVE  \/ \E w \in Others(t)' : Alert(w, t)'
                 \/ pc'[x] = "kick" /\ idle'[vi'[x]] /\ vi'[x] \in Others(t)'
                 \/ pc'[x] = "scan" /\ \A w \in Others(t)' : vi'[x] <= w
      <4>1. CASE pc'[x] = "scan" /\ vi'[x] = vi[x]
        BY <3>1, <3>5, <4>1
      <4>2. CASE ScanParked(x)
        <5>0. vi[x] \in Int /\ vi[x] \in 1 .. spawned
          BY <1>a, <3>5, <4>2 DEF ScanParked, ScanInv
        <5>1. PICK v \in Workers : v = vi[x]
          BY <3>0, <5>0
        <5>2. CASE parked[v] /\ ~ wake_sent[v]
          <6>1. /\ wake_sent'[v] /\ pc'[x] = "kick" /\ vi'[x] = v /\ idle' = idle
                /\ v # x => pc'[v] = pc[v]
            BY <1>a, <4>2, <5>1, <5>2 DEF ScanParked, Set, Goto
          <6>2. pc[v] \in IdlePcs /\ v # x
            BY <3>5, <5>2 DEF SleepPc, IdlePcs
          <6>3. t \notin Range(lrq[v])
            BY <2>1, <6>2 DEF OwnInv, QuietPcs, Waiting
          <6>4. v \in Others(t)'
            BY <1>2, <3>1, <5>0, <5>1, <6>3
          <6>5. idle[v] \/ Alert(v, t)'
            BY <6>1, <6>2 DEF SleepPc, Alert
          <6> QED BY <6>1, <6>4, <6>5
        <5>3. CASE ~(parked[v] /\ ~ wake_sent[v])
          <6>1. vi'[x] = v + 1 /\ pc'[x] = "scan"
            BY <1>a, <3>5, <4>2, <5>1, <5>3 DEF ScanParked, Set
          <6>2. CASE v \in Others(t)
            <7>1. wake_sent[v] /\ idle[v] => signalled[v]
              <8>1. ~ Kicked(v)
                BY <3>5 DEF LockInv, WakePcs, Kicked, At
              <8> QED BY <8>1 DEF KickInv, Asleep
            <7>2. Alert(v, t)
              BY <1>a, <5>3, <7>1 DEF SleepPc, IdlePcs, Alert
            <7> QED BY <3>3, <6>2, <7>2
          <6>3. CASE v \notin Others(t)
            <7>1. \A w \in Others(t) : w \in Int /\ w # v /\ v <= w
              BY <1>a, <3>2, <3>5, <5>1, <6>3
            <7>2. \A w \in Others(t) : v + 1 <= w
              BY <1>a, <7>1
            <7> QED BY <3>1, <6>1, <7>2
          <6> QED BY <6>2, <6>3
        <5> QED BY <5>2, <5>3
      <4>3. CASE ScanIdle(x)
        <5>1. vi[x] > spawned
          BY <3>5, <4>3 DEF ScanIdle, At
        <5>2. PICK w : w \in Others(t)
          BY <1>1, <3>1
        <5> QED BY <1>a, <1>2, <3>5, <5>1, <5>2
      <4>4. ~ sched_kick_worker(x)
        BY <3>5 DEF sched_kick_worker, At
      <4> QED BY <1>0, <3>5, <4>1, <4>2, <4>3, <4>4 DEF Moves
    <3>6. \/ \E w \in Others(t) : Alert(w, t)
          \/ \E x \in Workers : pc[x] = "kick" /\ idle[vi[x]] /\ vi[x] \in Others(t)
          \/ \E x \in Workers : pc[x] = "scan" /\ \A w \in Others(t) : vi[x] <= w
      BY <1>1, <2>1, <3>1 DEF CoverInv, Waiting, At
    <3> QED BY <3>3, <3>4, <3>5, <3>6
  <2> QED BY <2>3, <2>4
<1> QED BY <1>0, <1>1, <1>5, <1>6 DEF WaitsOn

-----------------------------------------------------------------------------
(* The invariant.                                                          *)

\* The invariant holds at first.
LEMMA InitInv == Init => IInv
<1> SUFFICES ASSUME Init PROVE IInv
  OBVIOUS
<1> USE DEF Init
<1>w. /\ g_worker_cap \in Nat \ {0} /\ NoThread \notin Threads /\ 0 \in Workers
      /\ Free \notin Workers /\ Free # Monitor
      /\ \A w \in Workers : w \in Int /\ w >= 0 /\ w <= g_worker_cap
  BY ConstAssumption DEF Workers, Free, Monitor
<1>q. /\ Range(<<>>) = {} /\ IsInjective(<<>>) /\ <<>> \in Seq(Threads)
  <2>1. <<>> \in Seq(Threads)
    OBVIOUS
  <2> QED BY <2>1, EmptyList
<1>n. \A t : ~ Queued(t)
  BY <1>q DEF Queued
<1>u. \A t \in Threads : Unstarted(t)
  BY DEF Unstarted
<1>p. \A w \in Workers : pc[w] \in {"none", "code"} /\ (pc[w] = "code" <=> w = 0)
  OBVIOUS
<1>1. TypeInv
  <2>1. ThreadType /\ CountType
    BY <1>w DEF ThreadType, CountType
  <2>2. QueueType /\ FlagType /\ LockType
    BY <1>q DEF QueueType, FlagType, LockType
  <2>3. RunType /\ PcType
    BY <1>w DEF RunType, PcType, Pcs
  <2> QED BY <2>1, <2>2, <2>3 DEF TypeInv
<1>2. PoolInv
  <2>1. PoolPc
    BY <1>w, <1>p DEF PoolPc, LoopPcs, IdlePcs
  <2>2. PoolHome
    BY <1>w, <1>q DEF PoolHome
  <2> QED BY <2>1, <2>2 DEF PoolInv
<1>3. LockInv /\ ScanInv
  BY <1>w, <1>p DEF LockInv, ScanInv, WakePcs, OffPcs
<1>4. QueueInv
  BY <1>q, <1>n DEF QueueInv
<1>5. HandInv
  BY <1>p DEF HandInv, HandAt, OffPcs, BusyPcs, WakePcs
<1>6. StateInv
  BY <1>u DEF StateInv, StateAt
<1>7. LocalMatch
  <2>1. OnLocal = {}
    BY <1>q DEF OnLocal
  <2> QED BY <2>1, FS_EmptySet DEF LocalMatch
<1>8. PinsMatch
  <2>1. \A w \in Workers : PinnedTo(w) = {}
    BY <1>w DEF PinnedTo
  <2> QED BY <2>1, FS_EmptySet DEF PinsMatch
<1>9. AskCount /\ AskHeld
  <2>1. Asked = {}
    BY DEF Asked
  <2>2. Cardinality(Asked) = 0
    BY <2>1, FS_EmptySet
  <2> QED BY <2>2 DEF AskCount, AskHeld
<1>10. SleepPc /\ OwnInv
  BY <1>p DEF SleepPc, OwnInv, QuietPcs, IdlePcs
<1>11. LookInv /\ KickInv
  BY <1>p DEF LookInv, KickInv, Asleep, At
<1>12. CoverInv
  BY <1>n DEF CoverInv
<1> QED BY <1>1, <1>2, <1>3, <1>4, <1>5, <1>6, <1>7, <1>8, <1>9, <1>10, <1>11, <1>12
           DEF IInv

\* Every step keeps the invariant.
LEMMA StepInv ==
  ASSUME IInv, Next \/ UNCHANGED vars
  PROVE  IInv'
<1>1. TypeInv' /\ QueueInv'
  BY TypeStep, QueueStep DEF IInv
<1>2. PoolInv'
  BY PoolPcStep, PoolHomeStep DEF IInv, PoolInv
<1>3. LockInv' /\ ScanInv'
  BY LockStep, ScanStep DEF IInv, PoolInv
<1>4. HandInv' /\ StateInv'
  BY HandStep DEF IInv, PoolInv
<1>5. LocalMatch' /\ PinsMatch'
  BY CountStep DEF IInv
<1>6. AskCount' /\ AskHeld'
  BY AskCountStep, AskHeldStep DEF IInv, PoolInv
<1>7. SleepPc' /\ OwnInv'
  BY SleepPcStep, OwnStep DEF IInv, PoolInv
<1>8. LookInv'
  BY LookStep DEF IInv
<1>9. KickInv'
  BY KickStep DEF IInv, PoolInv
<1>10. CoverInv'
  BY CoverStep DEF IInv
<1> QED BY <1>1, <1>2, <1>3, <1>4, <1>5, <1>6, <1>7, <1>8, <1>9, <1>10 DEF IInv

\* The inductive invariant holds in every state the run queues can reach.
THEOREM Invariance == Spec => []IInv
<1>1. Init => IInv
  BY InitInv
<1>2. IInv /\ [Next]_vars => IInv'
  BY StepInv
<1> QED BY <1>1, <1>2, PTL DEF Spec

-----------------------------------------------------------------------------
(* One place.                                                              *)

\* In a queue that has no thread twice, t has one position or none.
LEMMA OnePosition ==
  ASSUME NEW q \in Seq(Threads), IsInjective(q), NEW t
  PROVE  /\ t \notin Range(q) <=> Positions(q, t) = {}
         /\ t \in Range(q) => \E i \in DOMAIN q : Positions(q, t) = {i}
<1>1. t \notin Range(q) <=> Positions(q, t) = {}
  BY DEF Range, Positions
<1>2. ASSUME t \in Range(q) PROVE \E i \in DOMAIN q : Positions(q, t) = {i}
  <2>1. PICK i \in DOMAIN q : q[i] = t
    BY <1>2 DEF Range
  <2>2. \A j \in DOMAIN q : q[j] = t => j = i
    BY <2>1 DEF IsInjective
  <2> QED BY <2>1, <2>2 DEF Positions
<1> QED BY <1>1, <1>2

\* A queued thread is at one position of one queue.
LEMMA QueuedOnce ==
  ASSUME TypeInv, QueueInv, NEW t \in Threads
  PROVE  /\ ~ Queued(t) <=> OnQueues(t) = {}
         /\ Queued(t) => Cardinality(OnQueues(t)) = 1
<1>1. /\ grq \in Seq(Threads) /\ IsInjective(grq)
      /\ \A w \in Workers : lrq[w] \in Seq(Threads) /\ IsInjective(lrq[w])
  BY DEF TypeInv, QueueType, QueueInv
<1>2. /\ t \notin Range(grq) <=> Positions(grq, t) = {}
      /\ t \in Range(grq) => \E i \in DOMAIN grq : Positions(grq, t) = {i}
  BY <1>1, OnePosition
<1>3. \A w \in Workers :
        /\ t \notin Range(lrq[w]) <=> Positions(lrq[w], t) = {}
        /\ t \in Range(lrq[w]) => \E i \in DOMAIN lrq[w] : Positions(lrq[w], t) = {i}
  BY <1>1, OnePosition
<1>4. \A p : p \in OnQueues(t) <=>
        \/ p \in {Free} \X Positions(grq, t)
        \/ \E w \in Workers : p \in {w} \X Positions(lrq[w], t)
  BY DEF OnQueues
<1>5. ~ Queued(t) <=> OnQueues(t) = {}
  <2>1. ASSUME ~ Queued(t) PROVE OnQueues(t) = {}
    BY <1>2, <1>3, <1>4, <2>1 DEF Queued
  <2>2. ASSUME t \in Range(grq) PROVE OnQueues(t) # {}
    <3>1. PICK i : i \in Positions(grq, t)
      BY <1>2, <2>2
    <3>2. <<Free, i>> \in {Free} \X Positions(grq, t)
      BY <3>1
    <3> QED BY <1>4, <3>2
  <2>3. ASSUME NEW w \in Workers, t \in Range(lrq[w]) PROVE OnQueues(t) # {}
    <3>1. PICK i : i \in Positions(lrq[w], t)
      BY <1>3, <2>3
    <3>2. <<w, i>> \in {w} \X Positions(lrq[w], t)
      BY <3>1
    <3> QED BY <1>4, <3>2
  <2> QED BY <2>1, <2>2, <2>3 DEF Queued
<1>6. ASSUME t \in Range(grq) PROVE \E p : OnQueues(t) = {p}
  <2>1. \A w \in Workers : Positions(lrq[w], t) = {}
    BY <1>3, <1>6 DEF QueueInv
  <2>2. PICK i \in DOMAIN grq : Positions(grq, t) = {i}
    BY <1>2, <1>6
  <2>3. \A p : p \in {Free} \X {i} <=> p = <<Free, i>>
    OBVIOUS
  <2>4. \A p : p \in OnQueues(t) <=> p = <<Free, i>>
    BY <1>4, <2>1, <2>2, <2>3
  <2>5. OnQueues(t) = {<<Free, i>>}
    BY <2>4
  <2> QED BY <2>5
<1>7. ASSUME NEW v \in Workers, t \in Range(lrq[v]) PROVE \E p : OnQueues(t) = {p}
  <2>1. Positions(grq, t) = {} /\ \A w \in Workers : w # v => Positions(lrq[w], t) = {}
    BY <1>2, <1>3, <1>7 DEF QueueInv
  <2>2. PICK i \in DOMAIN lrq[v] : Positions(lrq[v], t) = {i}
    BY <1>3, <1>7
  <2>3. \A p : p \in {v} \X {i} <=> p = <<v, i>>
    OBVIOUS
  <2>4. \A p : p \in OnQueues(t) <=> p = <<v, i>>
    BY <1>4, <2>1, <2>2, <2>3
  <2>5. OnQueues(t) = {<<v, i>>}
    BY <2>4
  <2> QED BY <2>5
<1>8. ASSUME NEW p, OnQueues(t) = {p} PROVE Cardinality(OnQueues(t)) = 1
  BY <1>8, FS_Singleton
<1> QED BY <1>5, <1>6, <1>7, <1>8 DEF Queued

\* A thread somebody has is in one worker's hands.
LEMMA HeldByOne ==
  ASSUME TypeInv, HandInv, NEW t \in Threads, NEW w \in Workers, cur[w] = t \/ tgt[w] = t
  PROVE  Cardinality(InHands(t)) = 1
<1>1. Alone(w, t)
  BY HeldOnce
<1>2. InHands(t) = {w}
  BY <1>1 DEF InHands, Alone
<1> QED BY <1>2, FS_Singleton

\* The invariant leaves a thread one place, at home.
LEMMA OnePlaceInv == IInv => OnePlaceAtHome
<1> SUFFICES ASSUME IInv PROVE OnePlaceAtHome
  OBVIOUS
<1>1. TypeInv /\ QueueInv /\ HandInv /\ StateInv
  BY DEF IInv
<1>2. ASSUME NEW t \in Threads
      PROVE  CASE state[t] = "RUNNABLE" ->
                    Cardinality(OnQueues(t)) + Cardinality(InHands(t)) = 1
               [] state[t] = "RUNNING"  -> OnQueues(t) = {} /\ Cardinality(InHands(t)) = 1
               [] OTHER                 -> OnQueues(t) = {} /\ InHands(t) = {}
  <2>0. /\ ~ Queued(t) <=> OnQueues(t) = {}
        /\ Queued(t) => Cardinality(OnQueues(t)) = 1
        /\ Queued(t) => state[t] = "RUNNABLE"
        /\ StateAt(t)
    BY <1>1, QueuedOnce DEF QueueInv, StateInv
  <2>1. CASE state[t] = "RUNNABLE"
    <3>1. CASE Queued(t)
      <4>1. InHands(t) = {}
        BY <1>1, <3>1, NotHeld DEF InHands
      <4>2. Cardinality(InHands(t)) = 0
        BY <4>1, FS_EmptySet
      <4> QED BY <2>0, <2>1, <3>1, <4>2
    <3>2. CASE ~ Queued(t)
      <4>1. PICK w \in Workers : tgt[w] = t
        BY <2>0, <2>1, <3>2 DEF StateAt
      <4>2. Cardinality(InHands(t)) = 1
        BY <1>1, <4>1, HeldByOne
      <4>3. Cardinality(OnQueues(t)) = 0
        BY <2>0, <3>2, FS_EmptySet
      <4> QED BY <2>1, <4>2, <4>3
    <3> QED BY <3>1, <3>2
  <2>2. CASE state[t] = "RUNNING"
    <3>1. PICK w \in Workers : cur[w] = t \/ tgt[w] = t
      BY <2>0, <2>2 DEF StateAt
    <3>2. Cardinality(InHands(t)) = 1
      BY <1>1, <3>1, HeldByOne
    <3> QED BY <2>0, <2>2, <3>2
  <2>3. CASE state[t] \notin {"RUNNABLE", "RUNNING"}
    <3>1. state[t] \in {"NEW", "BLOCKED", "DEAD"}
      BY <1>1, <2>3 DEF TypeInv, ThreadType
    <3>2. InHands(t) = {}
      BY <1>1, <3>1, NotHeld DEF InHands
    <3> QED BY <2>0, <2>3, <3>2
  <2> QED BY <2>1, <2>2, <2>3
<1>3. ASSUME NEW w \in Workers, NEW t \in Threads
      PROVE  /\ cur[w] = t => home_wid[t] = w
             /\ ~ Unstarted(t) /\ (tgt[w] = t \/ t \in Range(lrq[w])) => home_wid[t] = w
             /\ t \in Range(grq) => Unstarted(t)
  <2>1. HandAt(w) /\ t # NoThread /\ (home_wid[t] = -1 => Unstarted(t))
    BY <1>1, ConstAssumption DEF HandInv, Unstarted
  <2>2. tgt[w] = t => home_wid[t] \in {-1, w}
    BY <2>1 DEF HandAt
  <2>3. t \in Range(lrq[w]) => home_wid[t] \in {-1, w}
    BY <1>1 DEF QueueInv
  <2> QED BY <1>1, <2>1, <2>2, <2>3 DEF HandAt, QueueInv
<1>4. OnePlace
  BY <1>2 DEF OnePlace
<1>5. RunsAtHome
  BY <1>3 DEF RunsAtHome
<1> QED BY <1>4, <1>5 DEF OnePlaceAtHome

\* No thread is lost and none is doubled, whatever workers take, steal, place and
\* requeue at once, and a started thread runs on and is queued for its home
\* worker only (sched_steal, sched_place_unstarted, runq_take, run_thread_once).
THEOREM OnePlaceHolds == Spec => []OnePlaceAtHome
BY Invariance, OnePlaceInv, PTL

-----------------------------------------------------------------------------
(* The counts.                                                             *)

\* The invariant makes the counts exact.
LEMMA CountsInv == IInv => CountsAgree
<1> SUFFICES ASSUME IInv PROVE CountsAgree
  OBVIOUS
<1>1. TypeInv /\ LocalMatch /\ PinsMatch /\ AskCount /\ AskHeld
  BY DEF IInv
<1>2. CountsMatch
  BY <1>1 DEF CountsMatch, LocalMatch, PinsMatch, OnLocal, PinnedTo
<1>3. RequestsMatch
  BY <1>1 DEF RequestsMatch, AskCount, AskHeld, Asked
<1>4. \A S \in SUBSET Threads : /\ Cardinality(S) \in 0 .. Cardinality(Threads)
                                /\ S # {} => Cardinality(S) \in 1 .. Cardinality(Threads)
  <2>1. Cardinality(Threads) \in Nat /\ IsFiniteSet(Threads)
    BY ConstAssumption, FS_CardinalityType
  <2>2. ASSUME NEW S \in SUBSET Threads
        PROVE  /\ Cardinality(S) \in Nat /\ Cardinality(S) <= Cardinality(Threads)
               /\ S # {} => Cardinality(S) # 0
    <3>1. IsFiniteSet(S) /\ Cardinality(S) <= Cardinality(Threads)
      BY <2>1, FS_Subset
    <3> QED BY <3>1, FS_CardinalityType, FS_EmptySet
  <2> QED BY <2>1, <2>2
<1>5. lrq_unstarted \in 0 .. Cardinality(Threads)
  <2>1. OnLocal \in SUBSET Threads
    BY DEF OnLocal
  <2> QED BY <1>1, <1>4, <2>1 DEF LocalMatch
<1>6. pinned \in [Workers -> 0 .. Cardinality(Threads)]
  <2>1. \A w \in Workers : PinnedTo(w) \in SUBSET Threads
    BY DEF PinnedTo
  <2>2. \A w \in Workers : pinned[w] \in 0 .. Cardinality(Threads)
    BY <1>1, <1>4, <2>1 DEF PinsMatch
  <2> QED BY <1>1, <2>2 DEF TypeInv, CountType
<1>7. npreempt \in 0 .. Cardinality(Threads)
  <2>1. Asked \in SUBSET Threads /\ Cardinality(Threads) \in Nat
    BY ConstAssumption, FS_CardinalityType DEF Asked
  <2>2. CASE asking # <<>> /\ preempt_request[asking[2]]
    <3>1. asking[2] \in Asked
      BY <1>1, <2>2 DEF TypeInv, LockType, Asked
    <3>2. Cardinality(Asked) \in 1 .. Cardinality(Threads)
      BY <1>4, <2>1, <3>1
    <3>3. npreempt = Cardinality(Asked) - 1
      BY <1>1, <2>2 DEF AskCount
    <3> QED BY <2>1, <3>2, <3>3
  <2>3. CASE ~(asking # <<>> /\ preempt_request[asking[2]])
    <3>1. Cardinality(Asked) \in 0 .. Cardinality(Threads)
      BY <1>4, <2>1
    <3>2. npreempt = Cardinality(Asked) - 0
      BY <1>1, <2>3 DEF AskCount
    <3> QED BY <2>1, <3>1, <3>2
  <2> QED BY <2>2, <2>3
<1>8. TypeOK
  BY <1>1, <1>5, <1>6, <1>7 DEF TypeOK, TypeInv, ThreadType, CountType, LockType
<1> QED BY <1>2, <1>3, <1>8 DEF CountsAgree

\* The counts the scheduler decides by without a lock are exact: unstarted threads
\* on workers' queues (g_lrq_unstarted), each worker's pinned threads, and the
\* requests to yield, none of which is left on a thread that stopped (g_npreempt).
THEOREM CountsAgreeHolds == Spec => []CountsAgree
BY Invariance, CountsInv, PTL

-----------------------------------------------------------------------------
(* No sleep over work.                                                     *)

\* The invariant leaves no helper asleep over work.
LEMMA NoSleepInv == IInv => NoSleepOver
<1> SUFFICES ASSUME IInv PROVE NoSleepOver
  OBVIOUS
<1>1. /\ TypeInv /\ QueueInv /\ SleepPc /\ KickInv /\ CoverInv
  BY DEF IInv
<1>2. NoSleepOverOwn
  <2>1. ASSUME NEW w \in Helpers, Asleep(w), lrq[w] # <<>>
        PROVE  \E x \in Workers : At(x, "kick") /\ vi[x] = w
    <3>1. w \in Workers
      BY ConstAssumption DEF Helpers, Workers
    <3>2. Range(lrq[w]) # {}
      BY <1>1, <2>1, <3>1, QueueFacts
    <3> QED BY <1>1, <2>1, <3>1, <3>2 DEF KickInv, Kicked
  <2> QED BY <2>1 DEF NoSleepOverOwn
<1>3. ASSUME NEW t \in Threads, Waits(t), ~ Waking, Others(t) # {}
      PROVE  \E w \in Others(t) : ~ Asleep(w)
  <2>1. Unstarted(t) /\ Queued(t)
    BY <1>1, <1>3, QueuedOnce DEF Waits
  <2>2. ASSUME NEW x \in Workers PROVE ~ At(x, "kick") /\ ~ At(x, "scan")
    BY <1>3 DEF Waking, At
  <2>3. PICK w \in Others(t) : Alert(w, t)
    BY <1>1, <1>3, <2>1, <2>2 DEF CoverInv
  <2>4. w \in Workers
    BY <1>1, <2>3, ConstAssumption DEF Others, Workers, TypeInv, CountType
  <2>5. ~ Asleep(w)
    BY <1>1, <2>3, <2>4 DEF Alert, Asleep, SleepPc
  <2> QED BY <2>3, <2>5
<1> QED BY <1>2, <1>3 DEF NoSleepOver, NoSleepOverWork

\* No helper sleeps over work: over a thread on its own queue only while the kick
\* for it is on its way, and while a thread waits to start, one of the helpers
\* that could take it is up (sp_worker_idle_unlocked, sched_wake_idle_helper).
THEOREM NoSleepOverHolds == Spec => []NoSleepOver
BY Invariance, NoSleepInv, PTL

=============================================================================
