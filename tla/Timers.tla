------------------------------- MODULE Timers -------------------------------
(***************************************************************************)
(* The timers of lib/sp_sched.c and the monitor's wait for them.           *)
(*                                                                         *)
(* A thread about to wait stages its timer on its worker's buffer and      *)
(* lowers g_nearest to its deadline; where it lowered it, it nudges the    *)
(* monitor.  The monitor takes the buffers into its heap, claims what is   *)
(* due, publishes the next deadline as g_nearest, looks at the buffers     *)
(* again, and waits: on its condition variable, or in poll().  Nothing but *)
(* the order of these stores and reads keeps it from sleeping through a    *)
(* deadline staged meanwhile.                                              *)
(*                                                                         *)
(* Abstracted: the heap is a set of entries, its root an entry of least    *)
(* deadline; time is a counter; whether a worker is busy, a thread waits   *)
(* for I/O and on what, or one was just started is chosen at each turn.    *)
(* The monitor's wait for a collection, timeslices and the list a thread   *)
(* waits on are left out (module ParkWake has the list and what an expiry  *)
(* does to it).                                                            *)
(***************************************************************************)
EXTENDS Naturals, FiniteSets

CONSTANTS
  Threads,     \* green threads that wait with a deadline
  NumWorkers,  \* workers, each with a staging buffer
  home,        \* home_wid: the worker a thread is pinned to
  MaxGen,      \* bound: timers armed
  MaxTime,     \* bound: the clock, and every deadline
  MaxFail,     \* bound: failed allocations
  Rounds       \* how often sp_timer_next looks again (4 in the code)

ASSUME TimersAssumption ==
  /\ IsFiniteSet(Threads)
  /\ NumWorkers \in Nat \ {0} /\ MaxGen \in Nat /\ MaxTime \in Nat \ {0}
  /\ MaxFail \in Nat /\ Rounds \in Nat \ {0}

Workers == 0 .. (NumWorkers - 1)

ASSUME HomeAssumption == home \in [Threads -> Workers]

Time    == 1 .. MaxTime
NoTime  == 0                     \* g_nearest: nothing is timed
Entry   == [thread : Threads, gen : 1 .. MaxGen, deadline : Time]

VARIABLES
  \* threads
  pc,          \* where the thread is in its wait
  dl,          \* its deadline
  tm_seq,      \* generations given out
  tm_armed,    \* the armed generation, 0 when none
  \* shared
  stage,       \* g_tm_stage: what the workers have staged
  nearest,     \* g_nearest
  idle,        \* g_sysmon_idle: 1 in the untimed wait, 2 in the timed one
  pipe,        \* a byte is in g_sysmon_pipe
  \* the monitor
  heap,        \* g_timer_heap
  mpc,         \* where it is in its turn
  phase,       \* sp_timer_fire_due or sp_timer_next
  mw,          \* the worker whose buffer it looks at
  round,       \* sp_timer_next's round
  mnow,        \* sp_timer_fire_due's reading of the clock
  mnear,       \* its `nearest`
  \* environment
  now,         \* the clock
  nfail        \* allocations that failed

thread  == <<pc, dl, tm_seq, tm_armed>>
monitor == <<heap, mpc, phase, mw, round, mnow, mnear>>
env     == <<now, nfail>>
vars    == <<thread, stage, nearest, idle, pipe, monitor, env>>

\* tm_live: the entry's generation is still the armed one.
tm_live(e) == tm_armed[e.thread] = e.gen

\* The lock is free: the monitor holds it but for its waits.
SchedFree == mpc \in {"wait", "poll", "woken", "polled"}

Init ==
  /\ pc = [t \in Threads |-> "run"]
  /\ dl = [t \in Threads |-> NoTime]
  /\ tm_seq = [t \in Threads |-> 0]
  /\ tm_armed = [t \in Threads |-> 0]
  /\ stage = [w \in Workers |-> {}]
  /\ nearest = NoTime /\ idle = 0 /\ pipe = FALSE
  /\ heap = {} /\ mpc = "top" /\ phase = "fire" /\ mw = 0 /\ round = 0
  /\ mnow = NoTime /\ mnear = NoTime
  /\ now = 1 /\ nfail = 0

-----------------------------------------------------------------------------
(* A thread arms its timer, waits, and goes on. *)

\* The generations given out so far.
Given == Cardinality({g \in Threads \X (1 .. MaxGen) : g[2] <= tm_seq[g[1]]})

Goto(t, l) == pc' = [pc EXCEPT ![t] = l]

\* sp_timer_schedule: staged and armed, under its worker's staging lock.
sp_timer_schedule(t) ==
  /\ pc[t] = "run" /\ Given < MaxGen
  /\ tm_seq' = [tm_seq EXCEPT ![t] = @ + 1]
  /\ tm_armed' = [tm_armed EXCEPT ![t] = tm_seq[t] + 1]
  /\ \E d \in now .. MaxTime :
       /\ dl' = [dl EXCEPT ![t] = d]
       /\ stage' = [stage EXCEPT ![home[t]] =
            @ \cup {[thread |-> t, gen |-> tm_seq[t] + 1, deadline |-> d]}]
  /\ Goto(t, "lower")
  /\ UNCHANGED <<nearest, idle, pipe, monitor, env>>

\* There was no storage: the generation is used up, nothing is armed, and the
\* wait does not begin.
ScheduleFails(t) ==
  /\ pc[t] = "run" /\ Given < MaxGen /\ nfail < MaxFail
  /\ tm_seq' = [tm_seq EXCEPT ![t] = @ + 1]
  /\ nfail' = nfail + 1
  /\ UNCHANGED <<pc, dl, tm_armed, stage, nearest, idle, pipe, monitor, now>>

\* sp_nearest_lower: where it lowered g_nearest the monitor must be woken.
sp_nearest_lower(t) ==
  /\ pc[t] = "lower"
  /\ IF nearest = NoTime \/ dl[t] < nearest
     THEN nearest' = dl[t] /\ Goto(t, "nudge")
     ELSE UNCHANGED nearest /\ Goto(t, "parked")
  /\ UNCHANGED <<dl, tm_seq, tm_armed, stage, idle, pipe, monitor, env>>

\* sp_sysmon_nudge reads the flag: a monitor that waits is signalled under the
\* lock its condition variable uses.
sp_sysmon_nudge(t) ==
  /\ pc[t] = "nudge"
  /\ Goto(t, IF idle # 0 THEN "nudge_locked" ELSE "nudge_bare")
  /\ UNCHANGED <<dl, tm_seq, tm_armed, stage, nearest, idle, pipe,
                 monitor, env>>

\* sp_sysmon_wake reads the flag again; a signal reaches only a monitor that
\* is in its wait.
sp_sysmon_wake(t) ==
  /\ \/ pc[t] = "nudge_locked" /\ SchedFree
     \/ pc[t] = "nudge_bare"
  /\ IF idle # 0
     THEN /\ mpc' = IF mpc = "wait" THEN "woken" ELSE mpc
          /\ UNCHANGED pipe
     ELSE pipe' = TRUE /\ UNCHANGED mpc
  /\ Goto(t, "parked")
  /\ UNCHANGED <<dl, tm_seq, tm_armed, stage, nearest, idle, heap, phase,
                 mw, round, mnow, mnear, env>>

\* A waker ends the wait: sp_timer_cancel disarms the timer, and its entry is
\* stale.  The list's lock keeps wakers out until g_nearest is lowered.
sp_timer_cancel(t) ==
  /\ tm_armed[t] # 0 /\ pc[t] # "lower"
  /\ tm_armed' = [tm_armed EXCEPT ![t] = 0]
  /\ UNCHANGED <<pc, dl, tm_seq, stage, nearest, idle, pipe, monitor, env>>

\* Woken or expired, the thread runs on.
Resume(t) ==
  /\ pc[t] = "parked" /\ tm_armed[t] = 0
  /\ dl' = [dl EXCEPT ![t] = NoTime]
  /\ Goto(t, "run")
  /\ UNCHANGED <<tm_seq, tm_armed, stage, nearest, idle, pipe, monitor, env>>

-----------------------------------------------------------------------------
(* The monitor: sp_timer_fire_due and sp_timer_next. *)

\* A turn begins: the clock is read, and what is staged is flushed first.
Top ==
  /\ mpc = "top"
  /\ mnow' = now /\ mnear' = NoTime /\ mpc' = "flush"
  /\ UNCHANGED <<thread, stage, nearest, idle, pipe, heap, phase, mw, round,
                 env>>

\* sp_timer_flush takes one worker's buffer, without what went stale in it.
sp_timer_flush ==
  /\ mpc = "flush" /\ mw < NumWorkers
  /\ heap' = heap \cup {e \in stage[mw] : tm_live(e)}
  /\ stage' = [stage EXCEPT ![mw] = {}]
  /\ mw' = mw + 1
  /\ UNCHANGED <<thread, nearest, idle, pipe, mpc, phase, round, mnow, mnear,
                 env>>

\* Wrong on purpose: the heap cannot grow and the buffer is emptied.
FlushFails_Empties ==
  /\ mpc = "flush" /\ mw < NumWorkers /\ stage[mw] # {} /\ nfail < MaxFail
  /\ nfail' = nfail + 1
  /\ stage' = [stage EXCEPT ![mw] = {}]
  /\ mw' = mw + 1
  /\ UNCHANGED <<thread, nearest, idle, pipe, heap, mpc, phase, round, mnow,
                 mnear, now>>

\* The heap cannot grow: the buffer is left for later.
FlushFails ==
  /\ mpc = "flush" /\ mw < NumWorkers /\ stage[mw] # {} /\ nfail < MaxFail
  /\ nfail' = nfail + 1
  /\ mw' = mw + 1
  /\ UNCHANGED <<thread, stage, nearest, idle, pipe, heap, mpc, phase, round,
                 mnow, mnear, now>>

\* All are flushed; a heap that is mostly stale is compacted.
Flushed ==
  /\ mpc = "flush" /\ mw = NumWorkers
  /\ heap' \in {heap, {e \in heap : tm_live(e)}}
  /\ mpc' = "peek"
  /\ UNCHANGED <<thread, stage, nearest, idle, pipe, phase, mw, round, mnow,
                 mnear, env>>

\* e is at the heap's root.
Root(e) == e \in heap /\ \A f \in heap : e.deadline <= f.deadline

\* Wrong on purpose: a stale root is met again and again.
PeekStale_Kept ==
  /\ mpc = "peek"
  /\ \E e \in heap : Root(e) /\ ~tm_live(e)
  /\ UNCHANGED vars

\* sp_timer_peek drops stale entries as they reach the root.
PeekStale ==
  /\ mpc = "peek"
  /\ \E e \in heap : Root(e) /\ ~tm_live(e) /\ heap' = heap \ {e}
  /\ UNCHANGED <<thread, stage, nearest, idle, pipe, mpc, phase, mw, round,
                 mnow, mnear, env>>

\* The root is due: its generation is claimed and its thread's wait expires.
Claim ==
  /\ mpc = "peek" /\ phase = "fire"
  /\ \E e \in heap :
       /\ Root(e) /\ tm_live(e) /\ e.deadline <= mnow
       /\ tm_armed' = [tm_armed EXCEPT ![e.thread] = 0]
       /\ heap' = heap \ {e}
  /\ UNCHANGED <<pc, dl, tm_seq, stage, nearest, idle, pipe, mpc, phase,
                 mw, round, mnow, mnear, env>>

\* Nothing more is due: on to sp_timer_next.
FiredAll ==
  /\ mpc = "peek" /\ phase = "fire"
  /\ heap # {} => \E e \in heap : Root(e) /\ tm_live(e) /\ e.deadline > mnow
  /\ phase' = "next" /\ round' = 1 /\ mw' = 0 /\ mpc' = "flush"
  /\ mnow' = NoTime
  /\ UNCHANGED <<thread, stage, nearest, idle, pipe, heap, mnear, env>>

\* The next deadline, as sp_timer_peek finds it ...
Peeked ==
  /\ mpc = "peek" /\ phase = "next"
  /\ \/ heap = {} /\ mnear' = NoTime
     \/ \E e \in heap : Root(e) /\ tm_live(e) /\ mnear' = e.deadline
  /\ mpc' = "publish"
  /\ UNCHANGED <<thread, stage, nearest, idle, pipe, heap, phase, mw, round,
                 mnow, env>>

\* Wrong on purpose: the lengths are not read again.
Publish_NoScan ==
  /\ mpc = "publish"
  /\ nearest' = mnear
  /\ mw' = NumWorkers /\ mpc' = "scan"
  /\ UNCHANGED <<thread, stage, idle, pipe, heap, phase, round, mnow, mnear,
                 env>>

\* ... is published, and then the buffers' lengths are read ...
Publish ==
  /\ mpc = "publish"
  /\ nearest' = mnear
  /\ mw' = 0 /\ mpc' = "scan"
  /\ UNCHANGED <<thread, stage, idle, pipe, heap, phase, round, mnow, mnear,
                 env>>

\* ... one by one: a timer staged meanwhile starts another round, and after
\* the last one the monitor comes straight back.
Scan ==
  /\ mpc = "scan"
  /\ IF mw = NumWorkers THEN mpc' = "walks" /\ UNCHANGED <<mw, round>>
     ELSE IF stage[mw] = {} THEN mw' = mw + 1 /\ UNCHANGED <<mpc, round>>
     ELSE IF round < Rounds
     THEN round' = round + 1 /\ mw' = 0 /\ mpc' = "flush"
     ELSE mpc' = "late" /\ UNCHANGED <<mw, round>>
  /\ UNCHANGED <<thread, stage, nearest, idle, pipe, heap, phase, mnow, mnear,
                 env>>

\* The rounds are used up: the clock's own time is published.
Late ==
  /\ mpc = "late"
  /\ mnear' = now /\ nearest' = now
  /\ mpc' = "walks"
  /\ UNCHANGED <<thread, stage, idle, pipe, heap, phase, mw, round, mnow, env>>

-----------------------------------------------------------------------------
(* The monitor: sp_sysmon_main's wait. *)

\* An earlier deadline was added since the heap was read.
Earlier == nearest # NoTime /\ (mnear = NoTime \/ nearest < mnear)

\* Where the workers have readiness sets and nothing is due, the walk over
\* the I/O waiters is skipped, and g_nearest read instead.
Walks ==
  /\ mpc = "walks"
  /\ \/ UNCHANGED mnear
     \/ Earlier /\ now < nearest /\ mnear' = nearest
  /\ mpc' = "decide" /\ phase' = "fire" /\ round' = 0 /\ mw' = 0
  /\ UNCHANGED <<thread, stage, nearest, idle, pipe, heap, mnow, env>>

\* Nothing to time, no worker busy for a while and no thread in I/O.
Untimed ==
  /\ mpc = "decide" /\ mnear = NoTime
  /\ idle' = 1 /\ mpc' = "look"
  /\ UNCHANGED <<thread, stage, nearest, pipe, heap, phase, mw, round, mnow,
                 mnear, env>>

\* A timed wait on the condition variable: the flag goes up first.
Timed ==
  /\ mpc = "decide"
  /\ idle' = 2 /\ mpc' = "look"
  /\ UNCHANGED <<thread, stage, nearest, pipe, heap, phase, mw, round, mnow,
                 mnear, env>>

\* Without readiness sets, and with descriptors to watch, it waits in poll().
Poll ==
  /\ mpc = "decide"
  /\ mpc' = "poll"
  /\ UNCHANGED <<thread, stage, nearest, idle, pipe, heap, phase, mw, round,
                 mnow, mnear, env>>

\* The flag is up: it waits, unless there is an earlier deadline, or a worker
\* just started a thread.
Look ==
  /\ mpc = "look"
  /\ mpc' = "woken" \/ (~Earlier /\ mpc' = "wait")
  /\ UNCHANGED <<thread, stage, nearest, idle, pipe, heap, phase, mw, round,
                 mnow, mnear, env>>

\* A timed wait ends by itself, at its deadline or before it (50 ms at most).
TimedOut ==
  /\ mpc = "wait" /\ idle = 2
  /\ mpc' = "woken"
  /\ UNCHANGED <<thread, stage, nearest, idle, pipe, heap, phase, mw, round,
                 mnow, mnear, env>>

\* A worker that starts a thread signals the monitor, too.
Started ==
  /\ mpc = "wait" /\ idle = 1
  /\ mpc' = "woken"
  /\ UNCHANGED <<thread, stage, nearest, idle, pipe, heap, phase, mw, round,
                 mnow, mnear, env>>

\* It has the lock again, and the flag comes down.
Woken ==
  /\ mpc = "woken"
  /\ idle' = 0 /\ mpc' = "top"
  /\ UNCHANGED <<thread, stage, nearest, pipe, heap, phase, mw, round, mnow,
                 mnear, env>>

\* poll() returns for a byte, a descriptor or its time-out.
PollReturns ==
  /\ mpc = "poll"
  /\ mpc' = "polled"
  /\ UNCHANGED <<thread, stage, nearest, idle, pipe, heap, phase, mw, round,
                 mnow, mnear, env>>

\* The wake pipe is drained.
Polled ==
  /\ mpc = "polled"
  /\ pipe' = FALSE /\ mpc' = "top"
  /\ UNCHANGED <<thread, stage, nearest, idle, heap, phase, mw, round, mnow,
                 mnear, env>>

Tick ==
  /\ now < MaxTime /\ now' = now + 1
  /\ UNCHANGED <<thread, stage, nearest, idle, pipe, monitor, nfail>>

-----------------------------------------------------------------------------
Arming(t) == sp_nearest_lower(t) \/ sp_sysmon_nudge(t) \/ sp_sysmon_wake(t)

ThreadStep(t) ==
  \/ sp_timer_schedule(t) \/ ScheduleFails(t) \/ Arming(t)
  \/ sp_timer_cancel(t) \/ Resume(t)

\* What the monitor goes on to do by itself.
Turn ==
  \/ Top \/ sp_timer_flush \/ FlushFails \/ Flushed
  \/ PeekStale \/ Claim \/ FiredAll \/ Peeked \/ Publish \/ Scan \/ Late
  \/ Walks \/ Untimed \/ Timed \/ Poll
  \/ Look \/ TimedOut \/ Woken \/ PollReturns \/ Polled

Next == (\E t \in Threads : ThreadStep(t)) \/ Turn \/ Started \/ Tick

Spec == Init /\ [][Next]_vars

\* The monitor is a thread of its own and every timed wait of it ends; a
\* thread that arms its timer runs on; time goes on.
FairSpec ==
  /\ Spec
  /\ WF_vars(Turn) /\ WF_vars(Tick)
  /\ \A t \in Threads : WF_vars(Arming(t))

-----------------------------------------------------------------------------
(* Properties. *)

\* Type correctness; sp_timer_next looks no more than Rounds times.
TypeOK ==
  /\ pc \in [Threads -> {"run", "lower", "nudge", "nudge_locked", "nudge_bare",
                         "parked"}]
  /\ dl \in [Threads -> Time \cup {NoTime}]
  /\ tm_seq \in [Threads -> 0 .. MaxGen]
  /\ tm_armed \in [Threads -> 0 .. MaxGen]
  /\ stage \in [Workers -> SUBSET Entry] /\ heap \in SUBSET Entry
  /\ nearest \in Time \cup {NoTime} /\ mnear \in Time \cup {NoTime}
  /\ idle \in 0 .. 2 /\ pipe \in BOOLEAN
  /\ mpc \in {"top", "flush", "peek", "publish", "scan", "late", "walks",
              "decide", "look", "wait", "woken", "poll", "polled"}
  /\ phase \in {"fire", "next"} /\ mw \in 0 .. NumWorkers
  /\ round \in 0 .. Rounds
  /\ mnow \in Time \cup {NoTime} /\ now \in Time /\ nfail \in 0 .. MaxFail

\* An armed timer is never lost on its way from the staging buffers through
\* the heap: failed growth, compaction and the dropping of stale entries
\* leave the entry of an armed generation in one of them (sp_timer_flush,
\* sp_timer_peek).
ArmedIsKept ==
  \A t \in Threads : tm_armed[t] # 0 =>
    \E e \in heap \cup UNION {stage[w] : w \in Workers} :
      e.thread = t /\ e.gen = tm_armed[t] /\ e.deadline = dl[t]

\* A wake of the monitor is on its way.
Nudged == \/ mpc = "poll" /\ pipe
          \/ \E t \in Threads :
               pc[t] \in {"nudge", "nudge_locked", "nudge_bare"}

\* "the monitor does not wait past the deadline, or the parker signals it"
\* (sp_sysmon_nudge): a monitor in its wait waits for a deadline no later
\* than any armed one, or its wait is over, or somebody is about to end it.
NotSleptPast ==
  mpc \in {"wait", "poll"} =>
    \A t \in Threads : tm_armed[t] # 0 =>
      \/ mnear # NoTime /\ (mnear <= dl[t] \/ mnear <= now)
      \/ pc[t] = "lower"
      \/ Nudged

\* Every timer fires or is cancelled: no thread waits with a deadline that
\* nobody keeps.
DeadlineFires ==
  \A t \in Threads : tm_armed[t] # 0 ~> tm_armed[t] = 0

\* No armed timer is dropped on its way from a thread's call through the staging
\* buffers to the heap, when the heap cannot grow either (sp_timer_flush).
TimersKept == TypeOK /\ ArmedIsKept
=============================================================================
