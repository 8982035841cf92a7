--------------------------- MODULE Timers_proofs ---------------------------
(***************************************************************************)
(* No armed timer is lost and the monitor sleeps past none, for any number *)
(* of threads, workers, generations, rounds and failed allocations.        *)
(***************************************************************************)
EXTENDS Timers, FiniteSetTheorems, TLAPS

\* A staged entry lies in the buffer of its thread's worker.
StagedAtHome == \A w \in Workers : \A e \in stage[w] : home[e.thread] = w

\* What the monitor is about to publish is no later than any entry it has.
PeekedInv ==
  mpc = "publish" => \A e \in heap : mnear # NoTime /\ mnear <= e.deadline

\* The flag is up from before the monitor's last look to the end of its wait.
IdleInv == idle # 0 <=> mpc \in {"look", "wait", "woken"}

\* From publishing g_nearest to the end of its wait.
Published == mpc \in {"scan", "walks", "decide", "look", "wait", "poll"}
Overdue   == mnear # NoTime /\ mnear <= now
Nudging   == \E t \in Threads : pc[t] \in {"nudge", "nudge_locked", "nudge_bare"}

\* g_nearest covers every armed timer once it is published: it is no later,
\* or the thread has still to lower it, or the monitor has still to find the
\* buffer the timer is staged in.
NearestInv ==
  Published => \A t \in Threads : tm_armed[t] # 0 =>
    \/ Overdue
    \/ pc[t] = "lower"
    \/ nearest # NoTime /\ nearest <= dl[t]
    \/ mpc = "scan" /\ mw <= home[t] /\ stage[home[t]] # {}

\* A g_nearest earlier than what the monitor waits for has somebody to tell it.
EarlierInv ==
  /\ mpc \in {"scan", "walks", "decide", "poll"} /\ Earlier => pipe \/ Nudging
  /\ mpc = "wait" /\ Earlier => Nudging

\* A thread lowers g_nearest to a time.
LowerInv == \A t \in Threads : pc[t] = "lower" => dl[t] # NoTime

SleepInv == LowerInv /\ PeekedInv /\ IdleInv /\ NearestInv /\ EarlierInv
IInv == TypeOK /\ ArmedIsKept /\ StagedAtHome /\ SleepInv

-----------------------------------------------------------------------------
(* Types.                                                                  *)

\* The bound on the timers armed bounds each thread's generation.
LEMMA GivenBounds ==
  ASSUME TypeOK, NEW t \in Threads, Given < MaxGen
  PROVE  tm_seq[t] + 1 \in 1 .. MaxGen
<1> DEFINE Gens == {g \in Threads \X (1 .. MaxGen) : g[2] <= tm_seq[g[1]]}
           Own  == {t} \X (1 .. MaxGen)
<1>1. MaxGen \in Nat /\ tm_seq[t] \in 0 .. MaxGen
  BY TimersAssumption DEF TypeOK
<1>2. IsFiniteSet(1 .. MaxGen) /\ Cardinality(1 .. MaxGen) = MaxGen
  BY <1>1, FS_Interval
<1>3. IsFiniteSet(Threads \X (1 .. MaxGen))
  BY <1>2, TimersAssumption, FS_Product
<1>4. IsFiniteSet(Gens)
  BY <1>3, FS_Subset
<1>5. Cardinality(Own) = MaxGen
  <2>1. IsFiniteSet({t}) /\ Cardinality({t}) = 1
    BY FS_Singleton
  <2>2. Cardinality(Own) = Cardinality({t}) * Cardinality(1 .. MaxGen)
    BY <2>1, <1>2, FS_Product
  <2> QED BY <2>1, <2>2, <1>1, <1>2
<1>6. ASSUME tm_seq[t] = MaxGen PROVE FALSE
  <2>1. Own \subseteq Gens
    BY <1>6
  <2>2. Cardinality(Own) <= Cardinality(Gens)
    BY <2>1, <1>4, FS_Subset
  <2>3. Cardinality(Gens) \in Nat
    BY <1>4, FS_CardinalityType
  <2> QED BY <2>2, <2>3, <1>1, <1>5 DEF Given
<1> QED BY <1>1, <1>6

LEMMA TypeInductive ==
  ASSUME TypeOK, [Next]_vars
  PROVE  TypeOK'
<1> DEFINE Goal == TypeOK'
<1> USE TimersAssumption, HomeAssumption DEF TypeOK, Goto, thread, monitor, env, Time, NoTime
<1>1. ASSUME NEW t \in Threads, sp_timer_schedule(t) PROVE Goal
  <2>1. tm_seq[t] + 1 \in 1 .. MaxGen
    BY <1>1, GivenBounds DEF sp_timer_schedule
  <2>2. PICK d \in now .. MaxTime :
          /\ dl' = [dl EXCEPT ![t] = d]
          /\ stage' = [stage EXCEPT ![home[t]] =
               @ \cup {[thread |-> t, gen |-> tm_seq[t] + 1, deadline |-> d]}]
    BY <1>1 DEF sp_timer_schedule
  <2>3. d \in Time /\ home[t] \in Workers
    OBVIOUS
  <2>4. [thread |-> t, gen |-> tm_seq[t] + 1, deadline |-> d] \in Entry
    BY <2>1, <2>3 DEF Entry
  <2>5. stage' \in [Workers -> SUBSET Entry]
    BY <2>2, <2>3, <2>4
  <2> QED BY <1>1, <2>1, <2>2, <2>3, <2>5 DEF sp_timer_schedule
<1>2. ASSUME NEW t \in Threads, ScheduleFails(t) PROVE Goal
  <2>1. tm_seq[t] + 1 \in 1 .. MaxGen
    BY <1>2, GivenBounds DEF ScheduleFails
  <2> QED BY <1>2, <2>1 DEF ScheduleFails
<1>3. ASSUME NEW t \in Threads, sp_nearest_lower(t) PROVE Goal
  BY <1>3 DEF sp_nearest_lower
<1>4. ASSUME NEW t \in Threads, sp_sysmon_nudge(t) PROVE Goal
  BY <1>4 DEF sp_sysmon_nudge
<1>5. ASSUME NEW t \in Threads, sp_sysmon_wake(t) PROVE Goal
  BY <1>5 DEF sp_sysmon_wake, SchedFree
<1>6. ASSUME NEW t \in Threads, sp_timer_cancel(t) PROVE Goal
  BY <1>6 DEF sp_timer_cancel
<1>7. ASSUME NEW t \in Threads, Resume(t) PROVE Goal
  BY <1>7 DEF Resume
<1>8. CASE Top
  BY <1>8 DEF Top
<1>9. CASE sp_timer_flush
  BY <1>9 DEF sp_timer_flush, Workers
<1>10. CASE FlushFails
  BY <1>10 DEF FlushFails
<1>11. CASE Flushed
  BY <1>11 DEF Flushed
<1>12. CASE PeekStale
  BY <1>12 DEF PeekStale
<1>13. CASE Claim
  BY <1>13 DEF Claim, Entry
<1>14. CASE FiredAll
  BY <1>14 DEF FiredAll
<1>15. CASE Peeked
  BY <1>15 DEF Peeked, Entry, Root
<1>16. CASE Publish
  BY <1>16 DEF Publish
<1>17. CASE Scan
  BY <1>17 DEF Scan
<1>18. CASE Late
  BY <1>18 DEF Late
<1>19. CASE Walks
  BY <1>19 DEF Walks
<1>20. CASE Untimed
  BY <1>20 DEF Untimed
<1>21. CASE Timed
  BY <1>21 DEF Timed
<1>22. CASE Poll
  BY <1>22 DEF Poll
<1>23. CASE Look
  BY <1>23 DEF Look
<1>24. CASE TimedOut
  BY <1>24 DEF TimedOut
<1>25. CASE Woken
  BY <1>25 DEF Woken
<1>26. CASE PollReturns
  BY <1>26 DEF PollReturns
<1>27. CASE Polled
  BY <1>27 DEF Polled
<1>28. CASE Started
  BY <1>28 DEF Started
<1>29. CASE Tick
  BY <1>29 DEF Tick
<1>30. CASE UNCHANGED vars
  BY <1>30 DEF vars, thread, monitor, env
<1> QED BY <1>1, <1>2, <1>3, <1>4, <1>5, <1>6, <1>7, <1>8, <1>9, <1>10, <1>11, <1>12, <1>13, <1>14, <1>15, <1>16, <1>17, <1>18, <1>19, <1>20, <1>21, <1>22, <1>23, <1>24, <1>25, <1>26, <1>27, <1>28, <1>29, <1>30 DEF Next, ThreadStep, Arming, Turn

-----------------------------------------------------------------------------
(* Armed timers are kept.                                                  *)

\* The entries there are, and the one of an armed timer among them.
Entries == heap \cup UNION {stage[w] : w \in Workers}
Mine(t, e) == e.thread = t /\ e.gen = tm_armed[t] /\ e.deadline = dl[t]

\* A step that arms nothing, changes no armed thread's deadline and takes away
\* nothing but entries that are then stale keeps every armed timer.
LEMMA KeptByEntries ==
  ASSUME ArmedIsKept,
         \A t \in Threads : tm_armed'[t] # 0 => tm_armed'[t] = tm_armed[t] /\ dl'[t] = dl[t],
         \A e \in Entries : tm_armed'[e.thread] = e.gen => e \in Entries'
  PROVE  ArmedIsKept'
<1> SUFFICES ASSUME NEW t \in Threads, tm_armed'[t] # 0
             PROVE  \E e \in Entries' : Mine(t, e)'
  BY DEF ArmedIsKept, Entries, Mine
<1>1. PICK e \in Entries : Mine(t, e)
  BY DEF ArmedIsKept, Entries, Mine
<1>2. e \in Entries'
  BY <1>1 DEF Mine
<1> QED BY <1>1, <1>2 DEF Mine

LEMMA KeptInductive ==
  ASSUME TypeOK, ArmedIsKept, StagedAtHome, [Next]_vars
  PROVE  (ArmedIsKept /\ StagedAtHome)'
<1> DEFINE Goal == (ArmedIsKept /\ StagedAtHome)'
<1> USE TimersAssumption, HomeAssumption
<1> USE DEF Goto, thread, monitor, env
<1>1. ASSUME NEW t \in Threads, sp_timer_schedule(t) PROVE Goal
  <2>1. PICK d \in now .. MaxTime :
          /\ dl' = [dl EXCEPT ![t] = d]
          /\ stage' = [stage EXCEPT ![home[t]] =
               @ \cup {[thread |-> t, gen |-> tm_seq[t] + 1, deadline |-> d]}]
    BY <1>1 DEF sp_timer_schedule
  <2> DEFINE n == [thread |-> t, gen |-> tm_seq[t] + 1, deadline |-> d]
  <2>2. home[t] \in Workers
    OBVIOUS
  <2>3. n \in stage'[home[t]] /\ \A w \in Workers : stage[w] \subseteq stage'[w]
    BY <2>1, <2>2 DEF TypeOK
  <2>4. n \in Entries' /\ Entries \subseteq Entries'
    BY <2>2, <2>3, <1>1 DEF Entries, sp_timer_schedule
  <2>5. tm_armed'[t] = tm_seq[t] + 1 /\ dl'[t] = d
    BY <1>1, <2>1 DEF sp_timer_schedule, TypeOK
  <2>6. \A u \in Threads \ {t} : tm_armed'[u] = tm_armed[u] /\ dl'[u] = dl[u]
    BY <1>1, <2>1 DEF sp_timer_schedule, TypeOK
  <2>7. ASSUME NEW u \in Threads, tm_armed'[u] # 0
        PROVE  \E e \in Entries' : Mine(u, e)'
    <3>1. CASE u = t
      BY <3>1, <2>4, <2>5 DEF Mine
    <3>2. CASE u # t
      <4>1. PICK e \in Entries : Mine(u, e)
        BY <3>2, <2>6, <2>7 DEF ArmedIsKept, Entries, Mine
      <4> QED BY <4>1, <3>2, <2>4, <2>6 DEF Mine
    <3> QED BY <3>1, <3>2
  <2>8. ArmedIsKept'
    BY <2>7 DEF ArmedIsKept, Entries, Mine
  <2>9. StagedAtHome'
    BY <2>1, <2>2 DEF StagedAtHome, TypeOK
  <2> QED BY <2>8, <2>9
<1>2. ASSUME NEW t \in Threads, ScheduleFails(t) PROVE Goal
  BY <1>2 DEF ScheduleFails, ArmedIsKept, StagedAtHome
<1>3. ASSUME NEW t \in Threads, sp_nearest_lower(t) PROVE Goal
  BY <1>3 DEF sp_nearest_lower, ArmedIsKept, StagedAtHome
<1>4. ASSUME NEW t \in Threads, sp_sysmon_nudge(t) PROVE Goal
  BY <1>4 DEF sp_sysmon_nudge, ArmedIsKept, StagedAtHome
<1>5. ASSUME NEW t \in Threads, sp_sysmon_wake(t) PROVE Goal
  BY <1>5 DEF sp_sysmon_wake, ArmedIsKept, StagedAtHome
<1>6. ASSUME NEW t \in Threads, sp_timer_cancel(t) PROVE Goal
  <2>1. Entries' = Entries
    BY <1>6 DEF sp_timer_cancel, Entries
  <2>2. ArmedIsKept'
    BY <1>6, <2>1, KeptByEntries DEF sp_timer_cancel, TypeOK
  <2> QED BY <1>6, <2>2 DEF sp_timer_cancel, StagedAtHome
<1>7. ASSUME NEW t \in Threads, Resume(t) PROVE Goal
  <2>1. Entries' = Entries
    BY <1>7 DEF Resume, Entries
  <2>2. ArmedIsKept'
    BY <1>7, <2>1, KeptByEntries DEF Resume, TypeOK
  <2> QED BY <1>7, <2>2 DEF Resume, StagedAtHome
<1>8. CASE Top
  BY <1>8 DEF Top, ArmedIsKept, StagedAtHome
<1>9. CASE sp_timer_flush
  <2>1. mw \in Workers
    BY <1>9 DEF sp_timer_flush, TypeOK, Workers
  <2>2. \A e \in Entries : tm_armed'[e.thread] = e.gen => e \in Entries'
    <3> SUFFICES ASSUME NEW e \in Entries, tm_armed[e.thread] = e.gen
                 PROVE  e \in Entries'
      BY <1>9 DEF sp_timer_flush
    <3>1. CASE e \in heap
      BY <3>1, <1>9 DEF sp_timer_flush, Entries
    <3>2. ASSUME NEW w \in Workers, e \in stage[w]
          PROVE  e \in Entries'
      <4>1. CASE w = mw
        BY <4>1, <3>2, <1>9 DEF sp_timer_flush, Entries, tm_live
      <4>2. CASE w # mw
        <5>1. stage'[w] = stage[w]
          BY <4>2, <2>1, <1>9 DEF sp_timer_flush, TypeOK
        <5> QED BY <5>1, <3>2 DEF Entries
      <4> QED BY <4>1, <4>2
    <3> QED BY <3>1, <3>2 DEF Entries
  <2>3. ArmedIsKept'
    BY <1>9, <2>2, KeptByEntries DEF sp_timer_flush
  <2> QED BY <1>9, <2>3 DEF sp_timer_flush, StagedAtHome, TypeOK
<1>10. CASE FlushFails
  BY <1>10 DEF FlushFails, ArmedIsKept, StagedAtHome
<1>11. CASE Flushed
  <2>1. \A e \in Entries : tm_armed'[e.thread] = e.gen => e \in Entries'
    BY <1>11 DEF Flushed, Entries, tm_live
  <2>2. ArmedIsKept'
    BY <1>11, <2>1, KeptByEntries DEF Flushed
  <2> QED BY <1>11, <2>2 DEF Flushed, StagedAtHome
<1>12. CASE PeekStale
  <2>1. \A e \in Entries : tm_armed'[e.thread] = e.gen => e \in Entries'
    BY <1>12 DEF PeekStale, Entries, tm_live
  <2>2. ArmedIsKept'
    BY <1>12, <2>1, KeptByEntries DEF PeekStale
  <2> QED BY <1>12, <2>2 DEF PeekStale, StagedAtHome
<1>13. CASE Claim
  <2>1. PICK e \in heap : /\ tm_live(e)
                           /\ tm_armed' = [tm_armed EXCEPT ![e.thread] = 0]
                           /\ heap' = heap \ {e}
    BY <1>13 DEF Claim
  <2>2. e.thread \in Threads /\ e.gen # 0
    BY DEF TypeOK, Entry
  <2>3. tm_armed'[e.thread] = 0
        /\ \A u \in Threads \ {e.thread} : tm_armed'[u] = tm_armed[u]
    BY <2>1, <2>2 DEF TypeOK
  <2>4. \A f \in Entries : tm_armed'[f.thread] = f.gen => f \in Entries'
    BY <2>1, <2>2, <2>3, <1>13 DEF Entries, Claim
  <2>5. ArmedIsKept'
    BY <1>13, <2>3, <2>4, KeptByEntries DEF Claim
  <2> QED BY <1>13, <2>5 DEF Claim, StagedAtHome
<1>14. CASE FiredAll
  BY <1>14 DEF FiredAll, ArmedIsKept, StagedAtHome
<1>15. CASE Peeked
  BY <1>15 DEF Peeked, ArmedIsKept, StagedAtHome
<1>16. CASE Publish
  BY <1>16 DEF Publish, ArmedIsKept, StagedAtHome
<1>17. CASE Scan
  BY <1>17 DEF Scan, ArmedIsKept, StagedAtHome
<1>18. CASE Late
  BY <1>18 DEF Late, ArmedIsKept, StagedAtHome
<1>19. CASE Walks
  BY <1>19 DEF Walks, ArmedIsKept, StagedAtHome
<1>20. CASE Untimed
  BY <1>20 DEF Untimed, ArmedIsKept, StagedAtHome
<1>21. CASE Timed
  BY <1>21 DEF Timed, ArmedIsKept, StagedAtHome
<1>22. CASE Poll
  BY <1>22 DEF Poll, ArmedIsKept, StagedAtHome
<1>23. CASE Look
  BY <1>23 DEF Look, ArmedIsKept, StagedAtHome
<1>24. CASE TimedOut
  BY <1>24 DEF TimedOut, ArmedIsKept, StagedAtHome
<1>25. CASE Woken
  BY <1>25 DEF Woken, ArmedIsKept, StagedAtHome
<1>26. CASE PollReturns
  BY <1>26 DEF PollReturns, ArmedIsKept, StagedAtHome
<1>27. CASE Polled
  BY <1>27 DEF Polled, ArmedIsKept, StagedAtHome
<1>28. CASE Started
  BY <1>28 DEF Started, ArmedIsKept, StagedAtHome
<1>29. CASE Tick
  BY <1>29 DEF Tick, ArmedIsKept, StagedAtHome
<1>30. CASE UNCHANGED vars
  BY <1>30 DEF vars, ArmedIsKept, StagedAtHome
<1> QED BY <1>1, <1>2, <1>3, <1>4, <1>5, <1>6, <1>7, <1>8, <1>9, <1>10, <1>11, <1>12, <1>13, <1>14, <1>15, <1>16, <1>17, <1>18, <1>19, <1>20, <1>21, <1>22, <1>23, <1>24, <1>25, <1>26, <1>27, <1>28, <1>29, <1>30 DEF Next, ThreadStep, Arming, Turn

-----------------------------------------------------------------------------
(* The monitor does not sleep past a deadline.                             *)

LEMMA SleepInductive ==
  ASSUME TypeOK, ArmedIsKept, StagedAtHome, SleepInv, [Next]_vars
  PROVE  SleepInv'
<1> DEFINE Goal == SleepInv'
<1> USE TimersAssumption, HomeAssumption
<1> USE DEF Goto, thread, monitor, env, SleepInv, LowerInv, PeekedInv, IdleInv, NearestInv, EarlierInv,
            Published, Overdue, Nudging, Earlier, Time, NoTime, Workers
<1>1. ASSUME NEW t \in Threads, sp_timer_schedule(t) PROVE Goal
  BY <1>1 DEF sp_timer_schedule, TypeOK
<1>2. ASSUME NEW t \in Threads, ScheduleFails(t) PROVE Goal
  BY <1>2 DEF ScheduleFails, TypeOK
<1>3. ASSUME NEW t \in Threads, sp_nearest_lower(t) PROVE Goal
  <2>1. CASE nearest = NoTime \/ dl[t] < nearest
    <3>1. nearest' = dl[t] /\ dl[t] # NoTime /\ pc' = [pc EXCEPT ![t] = "nudge"]
      BY <1>3, <2>1 DEF sp_nearest_lower
    <3>2. pc'[t] = "nudge" /\ \A u \in Threads \ {t} : pc'[u] = pc[u]
      BY <3>1 DEF TypeOK
    <3>3. Nudging'
      BY <3>2
    <3>4. NearestInv'
      BY <1>3, <2>1, <3>1, <3>2 DEF sp_nearest_lower, TypeOK
    <3>5. (LowerInv /\ PeekedInv /\ IdleInv)'
      BY <1>3, <3>2 DEF sp_nearest_lower
    <3> QED BY <3>3, <3>4, <3>5
  <2>2. CASE nearest # NoTime /\ ~(dl[t] < nearest)
    <3>1. nearest' = nearest /\ pc' = [pc EXCEPT ![t] = "parked"]
      BY <1>3, <2>2 DEF sp_nearest_lower
    <3>2. nearest <= dl[t]
      <4>1. nearest \in Nat /\ dl \in [Threads -> Nat]
        BY DEF TypeOK
      <4>2. dl[t] \in Nat
        BY <4>1
      <4> HIDE DEF SleepInv
      <4> QED BY <2>2, <4>1, <4>2
    <3>3. pc'[t] = "parked" /\ \A u \in Threads \ {t} : pc'[u] = pc[u]
      BY <3>1 DEF TypeOK
    <3>4. Nudging' <=> Nudging
      BY <1>3, <3>3 DEF sp_nearest_lower
    <3>5. NearestInv'
      BY <1>3, <2>2, <3>1, <3>2, <3>3 DEF sp_nearest_lower
    <3> QED BY <1>3, <3>1, <3>3, <3>4, <3>5 DEF sp_nearest_lower
  <2> QED BY <2>1, <2>2
<1>4. ASSUME NEW t \in Threads, sp_sysmon_nudge(t) PROVE Goal
  BY <1>4 DEF sp_sysmon_nudge, TypeOK
<1>5. ASSUME NEW t \in Threads, sp_sysmon_wake(t) PROVE Goal
  BY <1>5 DEF sp_sysmon_wake, SchedFree, TypeOK
<1>6. ASSUME NEW t \in Threads, sp_timer_cancel(t) PROVE Goal
  BY <1>6 DEF sp_timer_cancel, TypeOK
<1>7. ASSUME NEW t \in Threads, Resume(t) PROVE Goal
  BY <1>7 DEF Resume, TypeOK
<1>8. CASE Top
  BY <1>8 DEF Top, TypeOK
<1>9. CASE sp_timer_flush
  BY <1>9 DEF sp_timer_flush, TypeOK
<1>10. CASE FlushFails
  BY <1>10 DEF FlushFails, TypeOK
<1>11. CASE Flushed
  BY <1>11 DEF Flushed, TypeOK
<1>12. CASE PeekStale
  BY <1>12 DEF PeekStale, TypeOK
<1>13. CASE Claim
  BY <1>13 DEF Claim, TypeOK
<1>14. CASE FiredAll
  BY <1>14 DEF FiredAll, TypeOK
<1>15. CASE Peeked
  BY <1>15 DEF Peeked, Root, Entry, TypeOK
<1>16. CASE Publish
  <2>1. ASSUME NEW t \in Threads, tm_armed[t] # 0
        PROVE  \/ mnear # 0 /\ mnear <= dl[t]
               \/ stage[home[t]] # {}
    BY <1>16, <2>1 DEF ArmedIsKept, StagedAtHome, Publish
  <2> QED BY <1>16, <2>1 DEF Publish, TypeOK
<1>17. CASE Scan
  BY <1>17 DEF Scan, TypeOK
<1>18. CASE Late
  BY <1>18 DEF Late, TypeOK
<1>19. CASE Walks
  BY <1>19 DEF Walks, TypeOK
<1>20. CASE Untimed
  BY <1>20 DEF Untimed, TypeOK
<1>21. CASE Timed
  BY <1>21 DEF Timed, TypeOK
<1>22. CASE Poll
  BY <1>22 DEF Poll, TypeOK
<1>23. CASE Look
  BY <1>23 DEF Look, TypeOK
<1>24. CASE TimedOut
  BY <1>24 DEF TimedOut, TypeOK
<1>25. CASE Woken
  BY <1>25 DEF Woken, TypeOK
<1>26. CASE PollReturns
  BY <1>26 DEF PollReturns, TypeOK
<1>27. CASE Polled
  BY <1>27 DEF Polled, TypeOK
<1>28. CASE Started
  BY <1>28 DEF Started, TypeOK
<1>29. CASE Tick
  BY <1>29 DEF Tick, TypeOK
<1>30. CASE UNCHANGED vars
  BY <1>30 DEF vars
<1> QED BY <1>1, <1>2, <1>3, <1>4, <1>5, <1>6, <1>7, <1>8, <1>9, <1>10, <1>11, <1>12, <1>13, <1>14, <1>15, <1>16, <1>17, <1>18, <1>19, <1>20, <1>21, <1>22, <1>23, <1>24, <1>25, <1>26, <1>27, <1>28, <1>29, <1>30 DEF Next, ThreadStep, Arming, Turn

-----------------------------------------------------------------------------
LEMMA InitInv == Init => IInv
<1> SUFFICES ASSUME Init PROVE IInv
  OBVIOUS
<1> USE TimersAssumption, HomeAssumption DEF Init, NoTime, Time
<1>1. TypeOK
  <2>1. stage \in [Workers -> SUBSET Entry] /\ heap \in SUBSET Entry
    OBVIOUS
  <2>2. /\ pc \in [Threads -> {"run", "lower", "nudge", "nudge_locked", "nudge_bare",
                             "parked"}]
        /\ dl \in [Threads -> Time \cup {NoTime}]
        /\ tm_seq \in [Threads -> 0 .. MaxGen] /\ tm_armed \in [Threads -> 0 .. MaxGen]
    OBVIOUS
  <2>3. pipe \in BOOLEAN
    OBVIOUS
  <2> QED BY <2>1, <2>2, <2>3 DEF TypeOK
<1>2. ArmedIsKept /\ StagedAtHome
  BY DEF ArmedIsKept, StagedAtHome
<1>3. SleepInv
  BY DEF SleepInv, LowerInv, PeekedInv, IdleInv, NearestInv, EarlierInv, Published
<1> QED BY <1>1, <1>2, <1>3 DEF IInv

LEMMA Invariance == Spec => []IInv
<1>1. IInv /\ [Next]_vars => IInv'
  BY TypeInductive, KeptInductive, SleepInductive DEF IInv
<1> QED BY InitInv, <1>1, PTL DEF Spec

\* No armed timer is dropped on its way from a thread's call through the staging
\* buffers to the heap, whatever allocations fail (sp_timer_flush, sp_timer_peek).
THEOREM ArmedTimersAreKept == Spec => []TimersKept
<1>1. IInv => TimersKept
  BY DEF IInv, TimersKept
<1> QED BY Invariance, <1>1, PTL

\* The monitor in its wait has a deadline no later than any armed one, or
\* somebody is about to end the wait (sp_sysmon_nudge, sp_timer_next).
THEOREM MonitorSleepsPastNone == Spec => []NotSleptPast
<1>1. IInv => NotSleptPast
  BY TimersAssumption DEF IInv, SleepInv, NearestInv, EarlierInv, NotSleptPast, Nudged, Nudging,
     Published, Overdue, Earlier, TypeOK, Time, NoTime
<1> QED BY Invariance, <1>1, PTL
=============================================================================
