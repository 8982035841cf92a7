# A verification of Spinel's thread runtime

Spinel compiles Ruby to C.  A compiled program is linked with a runtime
(`lib/`), and with threads that runtime is an M:N scheduler: Ruby threads are
green threads, run by a pool of OS workers, timed by a monitor thread, and
stopped by a stop-the-world barrier when one of them collects garbage.  The
scheduler, with `Mutex`, `Monitor`, `ConditionVariable`, `Queue` and
`SizedQueue`, is one file, `lib/sp_sched.c`.  It has given up its one big lock
for a lock per wait list, atomics and careful store/read orders, and its
comments argue at each place why no wake is lost.  This project states those
arguments as TLA+, checks them with TLC, and proves most of them with TLAPS.

The compiler itself (`src/`) is a sequential pipeline of parsing, inference and
code generation; its tests compare programs with CRuby, which suits it better
than a model.  The inventory below says what each part is, and what is left out.

## Inventory

### The system's parts

| Part | Source | State | Operations | Talks to |
|---|---|---|---|---|
| Park and wake | `lib/sp_sched.c` | a thread's state and park word, wait lists and their locks, run queues | `sp_sched_block_wl`, `sp_sched_block_timeout`, `wl_take_one`, `sched_wake_unlinked`, `sched_make_runnable`, `run_thread_once`, `sp_thread_deliver` | every blocking object; timers; workers |
| Timers and monitor | `lib/sp_sched.c` | staging buffers, heap, `g_nearest`, generations, `g_sysmon_idle`, wake pipe | `sp_timer_schedule`, `sp_timer_cancel`, `sp_timer_flush`, `sp_timer_fire_due`, `sp_timer_next`, `sp_sysmon_main` | timed waits, sleeps, timed I/O |
| Stop-the-world barrier | `lib/sp_sched.c` | `g_stw_active`, epoch, parked and out counts, recorded fibers, each worker's place and blocking-call depth | `sp_safepoint`, `sp_stw_collect`, `sp_native_enter`/`leave`, ffi callbacks, the two idle waits, `sp_sched_maybe_grow`, `sp_sched_fork`, `sp_sched_drain` | collector, workers, all blocking system calls |
| Mutex, Monitor, ConditionVariable | `lib/sp_sched.c` | owner, depth, waiter count, lists | `#lock`, `#try_lock`, `#unlock`, `#wait` (plain, timed, zero), `#signal`, `#broadcast` | park and wake; `Thread#raise` |
| Queue, SizedQueue | `lib/sp_sched.c` | ring buffer, closed flag, two lists | `#push`, `#pop` (blocking, timed, non-blocking), `#clear`, `#close` | park and wake; `Thread#raise` |
| Run queues, placement, stealing | `lib/sp_sched.c` | a shared queue, a queue per worker, counts of pinned and unstarted threads, each helper's `parked`, `wake_sent`, `idle` | `sp_Thread_spawn_fiber`, `sched_pick`, `sched_place_unstarted`, `sched_steal`, `sched_wake_idle_helper`, `sched_kick_worker`, `sp_worker_main` with its unlocked rounds | workers, main's pump |
| Pump, quiescence, deadlock report | `lib/sp_sched.c` | runnable, running and timed counts in a slot per worker, each under a sequence number; `g_main_waits` | `cnt_add4`, `counts_snapshot`, `sp_sched_pump`, `sp_sched_signal_if_quiescent` | main, helpers |
| Concurrent sweep | `lib/sp_sched.c`, `lib/sp_gc.c` | task array, claims, counts of unclaimed, finished and running, detached lists | `sp_sched_conc_start`, `sp_cs_owner_run`, `sp_cs_help_run`, `sp_cs_sweeper_main`, `sp_sched_conc_wait` | barrier, allocator |
| I/O readiness | `lib/sp_sched.c`, `lib/sp_io.c` | an epoll/kqueue set and a table of waiters per worker, the monitor's poll list, a handle's uses | `sp_sched_wait_io_impl`, `sp_ev_drain`, `sp_ev_dispatch_w`, `sp_sched_ev_forget`, `sp_io_use`/`unuse`, `sp_io_close_handle` | workers, timers, monitor, kernel |
| Join and life cycle | `lib/sp_sched.c` | joiners, value, exception | spawn, death, `#join`, `#value` | park and wake, pump |
| Monitor's timeslices | `lib/sp_sched.c` | worker slots, preempt requests | `sched_preempt`, `sp_safepoint_preempt` | workers |
| Thread data | `lib/sp_sched.c` | names, priorities, thread-locals | getters and setters | - |
| Fibers, exceptions | `lib/sp_fiber.c`, `lib/sp_exc.c` | stacks, inject slot, handlers | switch, raise | scheduler |
| Collector, allocator | `lib/sp_gc.c`, `lib/sp_alloc.c`, `lib/sp_slab.c` | heap, remembered set, slabs | mark, sweep, allocate | barrier |
| Library types, I/O wrappers, C extension bridge | `lib/` | sequential data | Ruby methods | - |
| Compiler, unit cache, packages | `src/`, `packages/` | AST, types, emitted text | sequential passes | - |

### What is hard

* A wait list has its own spin lock, and the thread that parks is linked while
  still on its stack: thread, worker, waker, monitor and raiser meet without a
  common lock.
* Timers are claimed by generation with a compare-and-swap while the thread
  may already be in its next wait; `g_nearest` is kept right by store/read
  order alone.
* The barrier counts workers that park, that are in blocking calls and that
  idle; idle workers come and go with atomics only.
* The uncontended mutex is one compare-exchange; `#unlock` and a `#lock` about
  to park publish in opposite orders.
* `Thread#raise` can end any wait after another thread spent a wake on it.
* Storage for timers and rings can run out in the middle of an operation.
* A helper runs, steals and goes to sleep without the scheduler lock, while
  others queue threads and choose a sleeper to wake.
* Main calls a deadlock from counts that other workers change while it adds
  them up.
* A descriptor's number is given away by a close while threads of several
  workers wait on it, and events for it are under way.
* One task array serves all sweeps, is walked with no lock, and is written
  again under the barrier while an OS thread may be late to it.

`PROJECT.json` lists each of these at its line under `hazards`, with the
property that would catch it going wrong, or why there is none.

### What makes each part correct

| Part | Property |
|---|---|
| Park and wake | a queued thread is off its stack; no wake is lost; a listed thread is in the wait that listed it; a raise that is not deferred is not slept through |
| Timers | a timed wait keeps its deadline; it has one result; an armed timer is never dropped; the monitor does not sleep past one |
| Barrier | the counts are exact; while one worker collects all others are stopped and recorded; one barrier at a time; every collection happens and every parker is released |
| Mutex, condvar | who is inside is the owner; a free mutex with a waiter is about to be offered; a Monitor's depth survives a wait; a sleeper is on its list |
| Queue | it implements a linearizable bounded FIFO; an item or a free slot does not wait beside a parked thread; nobody stays parked after `#close` |
| Run queues | a thread is in one place and runs at home; the counts are those of the queues; no helper sleeps over work it was to take; what is queued runs |
| Pump, join | deadlock is reported only when nothing can run; main does not wait for nothing; a join that answers has seen the death, and one of a dead thread ends |
| Readiness | a thread waits only on its own handle's number; a handle in use keeps it; a one-shot arm is never used up under a waiter; data and closes reach everyone who waits |
| Concurrent sweep | nobody walks the array while it is written; the next mark begins after every task is done; no chunk is released under a sweep; the collector comes out of settling; what nobody owns is swept |

## Modules

| Module | Models |
|---|---|
| `ParkWake` | parking on wait lists, waking, timers' expiry, `Thread#raise` |
| `ParkWake_proofs` | its safety theorems |
| `Timers` | staging, heap, `g_nearest` and the monitor's wait |
| `Timers_proofs` | its safety theorems |
| `StopWorld` | the barrier and all that takes part in it |
| `StopWorld_proofs` | its safety theorems |
| `CondMutex` | one Mutex or Monitor and one ConditionVariable |
| `CondMutex_proofs` | its safety theorems |
| `Queue` | one Queue or SizedQueue |
| `Fifo` | abstract specification of a Queue, implemented by `Queue` |
| `Queue_proofs` | its safety theorems, and that it implements `Fifo` |
| `RunQueues` | where runnable threads wait, and how a worker finds, steals and sleeps over them; preemption |
| `RunQueues_proofs` | its safety theorems |
| `Quiesce` | the sharded counts, main's pump, deadlock report, `#join` and the exit's wait |
| `Readiness` | waits for a descriptor, readiness sets, the monitor's poll, `#close` and reuse |
| `ConcSweep` | the sweep beside the program |
| `ConcSweep_proofs` | its safety theorems |
| `ListFacts` | lemmas on lists and queues: what appending, taking and removing leave behind |
| `MC...` | model values, initial sets and symmetry for TLC |

Definitions keep the C names (`sp_timer_schedule`, `sp_out_leave_locked`); an
operation that several atomic steps of other actors can fall into is split, and
the parts are named for what they do (`LockCount`, `LockLast`, `LockPark`).
The `map` of `PROJECT.json` gives the lines of each.  A definition named
`X_Something` before an `X` is wrong on purpose: a plausible error in `X`, used
to show that a property can fail.

The atomics are sequentially consistent in the models.  The code's are, on the
paths modelled, sequentially consistent or acquire/release under a lock.

### ParkWake

*State.* `state` and `park` are the thread's (`RUN`, `PARKING`, `PARKED`,
`WOKEN`); `waiters`, `wait_lock` and `wl` the lists, each thread's link and
the locks; `tm_seq`, `tm_armed`, `wait_timer`, `timer_expired` its timer;
`heap` and `due` the monitor's entries and claims; `lrq` and `cur` the worker's
queue and thread; `inject` and `defer` the pending raise of its fiber and
`inject_defer`.  `pc` is where each actor is.

*Steps.* `BlockLock`, `BlockPublish`, `sp_timer_schedule` or `TimerFailed`,
`BlockUnlock` and `SwitchOut` are `sp_sched_block_timeout` (without the timer
steps, `sp_sched_block_wl`) between its synchronisation points; `RunThread` and
`ThreadStopped` are `run_thread_once` before and after the switch; `TakeOne`,
`sp_timer_cancel` and `sched_make_runnable` are a waker; `sp_timer_fire_due`
and `sp_sched_timer_expire` the monitor; `DeliverInject` and `DeliverUnpark` a
`Thread#raise`.  `Pass` is `Thread.pass` and preemption.  `DeferInject` and
`UndeferInject` are `sp_fiber_defer_inject` and its counterpart, around a wait
that has to take a mutex back first (`Mutex#sleep`, `connect`); a condition
variable's wait defers from its switch out on, which `Resume` has.  With a
deferred raise pending, `BlockPublish` does not fire it but drops the list's
lock, `BlockRelock` takes it back and publishes the park without the inject
slot held, and `BlockLink` goes on the list: a second raise may come at any of
these points.

A deferred raise that is pending when its thread parks stays pending: the thread
sleeps on until something else wakes it.  The code means it so ("a deferred one
is left pending", lines 4099 and 5066), and `RaiseNotSleptThrough` leaves out
threads that defer.

*Abstracted.* Threads are pinned from the start (an unstarted one may still be
stolen in the code); main is only a source of wakes; joins and sleeps are lists
like others; the timers' heap is a set.  `inject_defer` is a flag, as no caller
nests; setting the inject and reading the state of the thread are one step of
the raiser, whose order against a parking thread the inject slot gives; what a
condition variable's wait does to its mutex is in `CondMutex`.

### Timers

*State.* `stage` is `g_tm_stage`, `heap` the monitor's heap as a set of
entries, `nearest` `g_nearest`, `idle` `g_sysmon_idle`, `pipe` the wake pipe.
The monitor's locals are `mpc`, `phase` (fire or next), `mw` (the buffer it
looks at), `round`, `mnow`, `mnear`.

*Steps.* A thread does `sp_timer_schedule`, `sp_nearest_lower`,
`sp_sysmon_nudge` and `sp_sysmon_wake`; the monitor's turn is `Top`, a flush
buffer by buffer, `PeekStale`/`Claim`, then `sp_timer_next` as `Peeked`,
`Publish`, `Scan` (again by buffer), and the wait: `Walks`, `Untimed`, `Timed`
or `Poll`, `Look`, and what ends it.

*Abstracted.* Time is a counter; the heap's array, compaction thresholds and
batches of 64 are sets and choices; the number of workers is fixed; the
fallback `nanosleep` of a monitor that could not allocate its poll array (50 ms
at most, deaf to nudges) is left out.

### StopWorld

*State.* `active`, `stw_active`, `stw_epoch`, `nparked`, `nnative`,
`native_out`, `parked_fiber` are the globals; `my_epoch`, `cont`, `depth`,
`noop` and `saved` are per worker: the epoch it parked in, where it goes on,
its nesting of blocking calls, the mark of a call entered before the pool, and
the depths that ffi callbacks saved.

*Steps.* `sp_safepoint`, `Released` and `sp_cs_owner_run` (parking and leaving);
`sp_native_enter`, `NestedEnter`, `sp_native_leave`, `sp_out_leave_locked` and
the callback actions; `LockedIdle`/`EvWaitEnd` and the unlocked idle path
`IdleEnter` .. `IdleReadd`; `sp_stw_collect`, `BarrierWait`, `BarrierEnd`;
`StartWorkers`, `sp_sched_maybe_grow`, `sp_sched_fork`, `sp_sched_fork_child`,
`sp_sched_drain`, `Joined`.

*Abstracted.* The collection is the state `collect`; parallel marking is not in
it, and the sweep is `ConcSweep`.  Which thread a worker runs does not matter
here.

### CondMutex

Every atomic access to `owner` and `nwaiters` is a step.  `#lock` is `LockFast`
or `LockContended`, `LockSlow`, `LockCount`, `LockLast`, `LockPark`,
`LockWoken`, `LockDiscount`; `LockRelock` and `LockLink` are the path of
`sp_sched_block_wl` that drops and retakes the lock for a deferred raise.  A
wait is `Wait`, `WaitList`, `WaitRelease`, `WaitWoken`, `WaitDone`, or
`WaitRaises`.  `nest` is history: the `#lock` calls a thread made and not undid.

A waker has two steps, as in the code: it takes a waiter off its list
(`sp_mutex_wake_waiter`, `UnlockSlow`, `sp_CondVar_signal`,
`sp_CondVar_broadcast`), which is then in its `hand`, and later makes it runnable
(`sched_wake_unlinked`).  A raiser has three: it sets the inject and finds the
thread BLOCKED (`sp_thread_deliver`), takes it off whatever list it is on
(`DeliverUnpark`) and makes it runnable (`DeliverWake`), also when it was on no
list because a waker had it in hand.  Then two wakes are under way for one wait,
and the later one may find the thread in its next: it runs on while a list names
it.  `crossed` is history that says that this has begun.  From then on the links
of the code's lists may be cut or form a ring, which sequences do not show; so
`ListsAgree` speaks of the lists only before, while `HoldsWhileInside`, which
rests on the exchange of `owner` alone, is stated for every behaviour.

*Left out.* As in `ParkWake`, setting the inject and reading the state are one
step.  Not modelled are `Mutex#sleep`, calls by a thread that is not the owner (they raise
and change nothing), waits before the first Thread, the deadlock error that
lets main out of a `#lock`, a thread that dies holding the mutex, and the
`malloc` failure in `#broadcast`.

### Queue and Fifo

All of a queue's state is under its wait lock, so a critical section is one
step; what is split is what drops it: timed waits, which look again under the
lock before they park, and `sp_queue_wake_all`, which wakes in batches.  The
ring has its real arithmetic: growth from `InitCap` by doubling with rotation,
wrap-around, `head` and `len`.  `Fifo` is what callers rely on: calls that take
effect once between call and return.  `Queue` implements it under the mapping
of its ring to the sequence `items`.

*Abstracted.* Taking a waiter off its list wakes it.  A raise that falls between
the two, as in `CondMutex`, is left out: what is said of the queue's lists with
a raise is said for raises that do not meet a waker on one wait.

### RunQueues

*State.* `grq` and `lrq` are the queues, `lrq_unstarted` and `pinned` the counts
kept beside them, `home_wid` a thread's worker (-1 before its first run);
`parked`, `wake_sent`, `idle` and `signalled` each helper's place between
looking and sleeping; `sched` the scheduler lock's holder; `preempt_request`,
`npreempt` and `asking` the monitor's requests.

*Steps.* `MainSpawn` and `SpawnLocal` are `sp_Thread_spawn_fiber`, with
`sp_sched_maybe_grow` and the scan for a helper to wake (`ScanParked`,
`ScanIdle`, `sched_kick_worker`) after it.  `LoopHead`, `PickPlace`, `PickOwn`,
`PickSteal`, `sched_steal`, `IdleLocked`, `WokenLocked` are the locked loop;
`RunLocal`, `LocalTurn`, `RoundEnds`, `IdleParks` .. `IdleUp` the unlocked one;
`Begin`, `SwitchOut`, `ClearCur`, `Retire`, `RunParked`, `RunDied`, `RunPassed`
are `run_thread_once`; `MonitorReads`, `PreemptAsks`, `PreemptLooks` a request
to yield.  `PumpRun` is main running a thread while it waits.

*Abstracted.* A critical section of a queue's lock is one step; how a thread
parks and is woken is `ParkWake`'s.  Idle helpers wait on their condition
variable; with a readiness set they wait in the kernel, where a missed kick
costs at most the 50 ms backstop.  The woken lane (`SPINEL_WAKE_PREEMPT`), a
pool without helpers and the sweep over the queues that main makes in
`Thread.pass` (`sched_pass_stranded` and `sp_sched_pass`, lines 3288-3345) are
left out.

### Quiesce

*State.* `runnable`, `running` and `timed` are `g_cnt`'s slots; `rpos`, `sum`,
`dirty` and `read` a reading of them (`dirty` stands for the sequence numbers:
the slots changed since they were read); `nnative` who is out of the world;
`main_waits`, `main_cv` main's sleep; `joined` and `mode` what main waits for;
`owed` the threads a waker has taken off a list and not woken yet.

*Steps.* `cnt_pass`, `ReadAgain`, `ReadFails` are `counts_snapshot`; a helper's
`runq_take`, `RUNNABLE_TO_RUNNING`, the blocking calls, `Die`,
`sp_thread_wake_joiners` and `sched_make_runnable`, and its way to sleep
`IdleOut`, `IdleLast`, `IdleAsks`, `sp_sched_signal_if_quiescent`; main's
`MainJoins`, `MainWaits`, `MainTimedWaits`, `sp_sched_drain`, then `PumpLooks`,
`PumpDecides`, `PumpWakes` and the ways back.

*Abstracted.* The second pass of a reading is one step, as a slot that has moved
stays moved.  Threads exist from the start and are pinned; all waits are on one
list or on a thread's joiners; the I/O count is `Readiness`'s `nio`; main runs no
thread itself.

### Readiness

*State.* A handle has its number (`fileno`), `uses`, `closing`, `closed`; a
worker its set (`evfd`, the kernel's `reg`), its table `ev_tab` and what the
kernel answered (`batch`); the poll path its list and the monitor's `pset`.

*Steps.* `sp_io_use`, `Read`, `Eagain`, `sp_ev_worker_up`, `IoPark` or
`PollPark`, `WaitBack` are a read or an accept; `sp_ev_drain`, `sp_ev_handle`,
`sp_ev_wake_out` a worker between two threads; `sp_sched_timer_expire` a
deadline; `sp_io_close_handle`, `CloseFlag`, `SkipWorker`, `ForgetWorker`,
`ForgetPolled` a close; `MonBuild`, `MonPoll`, `MonReady` the monitor.

*Abstracted.* One kind of readiness stands for reading and writing.  The
kernel is external: a set tells of an armed descriptor with data, once, and
forgets one that is closed.

### ConcSweep

*State.* `tasks`, `claimed`, `unclaimed`, `finished`, `running`, `pending`,
`full`, `help` are the `g_cs_` globals; `pos` and `ran` a walk's locals; `fresh`
the sweepers that have not seen `g_cs_gen`.  Of the barrier there is what
`StopWorld` proves: who is `counted` or `away` stays stopped until it is down.

*Steps.* `sp_cs_enter` and `SweeperWakes`, then `ScanPass`, `ScanFinds`, `Claim`,
`Discount`, `TaskDone`, `sp_cs_finish` are a walk, every access to a claim or a
counter a step; `SettleLook` .. `Apply` are `sp_sched_conc_wait`; `Mark` and
`sp_sched_conc_start` begin the next sweep; `Released`, `Back`, `CheckRelease`
are a worker's return, with the release of its empty chunks.

*Abstracted.* What a task does to its lists is the label `task`.  `Raise` is a
collection over the threshold, `GC.start` or a fork.  The look of
`sp_slab_release_worker` at `wk->sweeping` is left out: `ReleaseSettled` holds
without it.

## Runs

| Run | Instance | Shows |
|---|---|---|
| `ParkWake` | 2 threads on 2 workers, 2 lists, 2 timers, timers may fail, 1 raise, or 2 while one is deferred | `PlacesAgree` (`QueuedOffStack`, `ListedIsParkedUnraised`), `NoLostWake`, `TimedWaitRight` (`DeadlineKept`, `WokenIsNotTimeout`), `RaiseNotSleptThrough` |
| `ParkWakeLive` | the same with 1 list, no raise | `TimedWaitEnds`, `WokenRuns` |
| `Timers` | a thread on each of 2 workers, 2 timers, 2 instants, 1 failure, 2 rounds | `TimersKept` (`ArmedIsKept`), `NotSleptPast`, `DeadlineFires` |
| `StopWorld` | main and a helper, 3 barriers, blocking depth 2, 2 nested callbacks, fork, drain | `CountsExact`, `WorldStopped`, `RootsMarked`, `BlockingCallIsOut` |
| `StopWorldLive` | main and 2 helpers, 2 barriers | `CollectionHappens`, `ParkedReleased`; no deadlock |
| `CondMutex` | 3 threads, nesting 2, 1 raise anywhere when nobody nests | `HoldsWhileInside`, `DepthKeptUnraised`, `FreeIsOfferedUnraised`, `ListsAgree` (`ListedIsCounted`, `SleeperIsListed`) |
| `Queue` | 3 threads, 2 values, Queue and SizedQueue of 1, ring from 1, batches of 1, 1 raise | `IsFifo`, `NoneWaitsInVain` (`ItemsHaveTakersUnraised`, `SlotsHaveTakers`, `ClosedIsEmptied`) |
| `RunQueues` | 3 threads, up to 2 helpers, 1 request to yield | `OnePlaceAtHome` (`OnePlace`, `RunsAtHome`), `NoSleepOver` (`NoSleepOverOwn`, `NoSleepOverWork`), `CountsAgree` (`CountsMatch`, `RequestsMatch`) |
| `RunQueuesLive` | 2 threads, up to 2 helpers, 1 of which may not be created | `WorkRuns` |
| `Quiesce` | 2 threads on 2 helpers, 1 raise in main, 1 operation besides dying | `DeadlockIsReal`, `JoinsRight` (`JoinersTaken`, `JoinedIsDead` while nothing was raised in main), `MainGoesOn` |
| `Readiness` | 3 threads on 2 workers, 2 handles sharing 1 number, batches of 1, 2 arrivals | `NumberIsOwn` (`ParkedIsOwn`, `UsedIsOpen`), `WaitsAgree` (`ParkedIsWatched`, `WaitersCounted`), `ReadyRuns`, `CloseReleases` |
| `ConcSweep` | 2 workers, 1 sweeper, 3 tasks, 2 collections | `ArrayStill`, `SweepComplete`, `ReleaseSettled`, `SweepEnds` (`SettleEnds`, `SharedSwept`) |

In brackets are the parts of a conjunction that is checked as one.  Each run also
checks its module's type invariant, by itself or in such a conjunction, but for
the liveness runs of `ParkWake`, `StopWorld` and `RunQueues`.

### Bounds, and why they are enough

* Two threads with two lists let a thread be taken off one list and park on
  another while a waker of the first is still at work; two timers let a stale
  entry of a thread's earlier wait meet its later one.  Raises are bounded by
  one, enough for every known disagreement, or by two while a thread defers
  them: one that is pending when the thread parks, and one that comes while it
  does so.  `DeferBound`, a constraint of the run, lets threads defer with at most
  one timer armed; the theorems have neither bound.
* Three epochs let a straggler of one barrier meet the next and the one after.
  Two workers suffice for the safety run because the theorems cover any number;
  three are used for liveness, where a helper parks, another idles and main
  collects.
* Three threads on a mutex are the holder, the woken and the one that stays
  asleep.  A nesting of two tells a Monitor's depth from none.  With a raise the
  nesting is one (`FlatWhenRaised`, a constraint of the run): a waker, the thread
  it took and a raiser's wake are enough for two wakes of one wait.
* The ring starts with one slot, so growth happens with one item and
  wrap-around with two; batches of one make every `#close` and `#clear` drop
  the lock between two waiters.
* In `Timers` the two instants are "due now" and "later"; two workers let a
  buffer be staged on behind the monitor's scan; one failure reaches the last
  round of `sp_timer_next` with two rounds.
* Three threads in `RunQueues` are one that runs, one on a queue to be stolen and
  one being spawned; two helpers are a thief and its victim, or a sleeper and the
  one that wakes it.  With three helpers a woken helper that finds work of its
  own first may leave an unstarted thread waiting while another sleeps: the
  pool promises one taker that is up, not the first free one, and so do
  `NoSleepOverWork` and `WorkRuns`.
* In `Quiesce` one operation besides dying moves a thread's count from one slot
  to another while a third worker reads.  The safety properties were also
  checked with two operations and no raise (2.9 million states).
* Two handles that get one number make every reuse happen; three threads on two
  workers are a reader on each worker's set and a closer; batches of one make
  a close visit a table twice.
* Two collections let a late walk of the first sweep meet the array of the
  second.  Each worker has a task of its own and one task is nobody's.  Safety
  was also checked with two sweepers (6.9 million states), and the theorems
  cover any number.

`CHECK_DEADLOCK FALSE` is used where the program may stop by itself: all
threads waiting on a mutex, condition variable, queue or descriptor that nobody
uses any more, all threads dead, main exited or told of a deadlock, or the bound
on collections reached with every worker idle.

### Fairness

* `ParkWakeLive`: an OS thread that can step does (weak fairness for workers
  and for an actor inside a call); a running green thread is made to yield
  again and again by its timeslice (strong fairness of `Pass`); the monitor
  comes back for due timers (strong fairness, as a list's lock may be taken
  each time it looks).  Nothing is assumed of wakers that have not begun.
* `Timers`: the monitor is an OS thread, and each of its timed waits ends
  within 50 ms (weak fairness of `Turn`); a thread that arms a timer runs on;
  the clock advances.  The untimed wait is not assumed to end.
* `StopWorldLive`: each worker's own steps are strongly fair, as they need the
  scheduler lock, which `pthread_mutex_lock` hands out in the end; generated
  code polls at loop back-edges; a readiness wait has a kick and a backstop.
  Nothing is assumed of blocking calls, nor that an idle worker gets work.
* `RunQueuesLive`: a helper's own steps are strongly fair, as they need locks;
  the 61st pick of the fast path takes a locked turn (strong fairness of
  `LocalTurn`), and the monitor preempts a thread that computes (of
  `SwitchOut`); a signalled condition variable wakes its waiter.  A native call
  may last for ever, and main need not wait.
* `Quiesce`: helpers' and main's steps are strongly fair.  A thread may run for
  ever and no timer need fire.
* `Readiness`: a thread inside a call goes on; a worker runs what is queued and
  looks at its set, at the latest after 16 threads (`sp_ev_drain_due`; strong
  fairness, as both take turns); the monitor turns.  No data need arrive.
* `ConcSweep`: an OS thread inside a walk, and a collector that settles, go on;
  a sweeper wakes on a new generation.  Nothing is assumed of a worker in the
  program, nor that another collection comes.

### Known disagreements

Where the code does not do what its comments say, the property that holds is
checked (`...Unraised`, or without the exit drain) and the stronger one stays
defined in its module.  Each of these is found by TLC when it is named in the
run's cfg with the constants given; all lines are of `lib/sp_sched.c`.

1. `ListedIsParked` (`ParkWake.cfg` with `MaxGen = 1`, `MaxRaise = 1`,
   `TimerMayFail = FALSE`, `MayDefer = FALSE`), line 5302 against the comment at
   5162.  `sp_thread_deliver` ignores the answer of `sp_sched_unpark`, so a raise
   makes a thread runnable that a waker has taken off its list already.  With the
   waker's own wake still to come, the thread may park again, be woken by it, and
   run while its new list still names it.  A late `sp_timer_cancel` can then also
   disarm a later wait's timer, which is why `DeadlineKept` and
   `WokenIsNotTimeout` are stated for runs without a raise.  In `CondMutex` the
   same makes `ListedIsCounted` ("a listed waiter is a counted one", 5740) false
   once two wakes have crossed (`CondMutex.cfg`).
2. `DrainEnds` (`StopWorldLive.cfg` with `MaxWorkers = 2`, `MaxEpoch = 1`,
   `MayDrain = TRUE`), line 4894 against 4879.  Main joins the helpers while
   counted in the world.  A helper that passed the shutdown check and drops the
   lock for its readiness set may pick a thread that collects: it waits for
   main, and main for it.
3. `CollectionHappens`, same constants, against 1060.  After the joins
   `sp_active_workers` still counts the helpers, so a collection made by an exit
   finalizer (run after the drain: `src/codegen.c`, 23432 and 23447) waits for
   ever.
4. `FreeIsOffered` (`CondMutex.cfg` with `MaxNest = 1`, `Waits <- NoWaits`), line
   5702 against 5627.  A woken `#lock` waiter that has a raise pending raises in
   `sp_sched_block_wl` without passing its wake on: the mutex is free, the others
   sleep.  The retaken lock of the deferred case has the same effect: the waiter
   parks without looking at `owner` again.  A queue's popper loses its wake the
   same way (`ItemsHaveTakers`).
5. `DepthKept` (`CondMutex.cfg` without its constraint, `Threads <- TwoThreads`,
   `RaiseAt <- InWait`, `Waits = {"plain"}`), line 5893 against 5880.  A raise out
   of a wait skips the restoring of a Monitor's depth.  A timer that cannot be
   stored does the same.
6. `JoinedIsDead` (`Quiesce.cfg`), line 2162 against 3424.  A death took main off
   the joiners, a raise woke main first, and main is in another join when the
   death's wake arrives: that join answers although its thread lives.
7. `ReadyRuns` (`Readiness.cfg` with `SetsFail = TRUE`), lines 3876 and 3890
   against 1384.  If one worker's readiness set cannot be made while another's
   is up, its threads go to a list the monitor does not poll any more.
8. `OwnSweptFirst` (`ConcSweep.cfg`), lines 4574 and 4684.  A worker that idled
   through a whole collection between its look at `g_cs_unclaimed` and its return
   runs before its own lists are swept.  Harmless: they are swept at the next
   barrier, and `SweepComplete` holds.

## Proofs

`StopWorld_proofs` proves, for any number of workers, epochs, nested calls and
callbacks, that `Spec` implies `[]TypeOK`, `[]CountsExact`, `[]WorldStopped`,
`[]RootsMarked`, `[]OneBarrier` and `[]BlockingCallIsOut`.  The only assumption
is `ConstAssumption` of `StopWorld` (the bounds are naturals, there is at least
main), which TLC evaluates in every run of it.

`WorldStopped` alone is not inductive: that the collector's condition
`nparked + nnative >= active - 1` stops everybody needs the counts to be exact,
the sets they count to be disjoint and not to contain the collector, and no
worker beyond `active` to exist.  The invariant `IInv` has these parts:

* `LocalInv`: what depth, no-op mark, `native_out` and `cont` are at each label;
* `PoolInv`: workers from `active` on do not exist; without a pool main is
  alone and never parks;
* `EpochInv`: no worker parked in a future epoch, so raising a barrier empties
  the set the count is about;
* `RaiserInv`: one worker has the barrier up;
* `CountsExact`, `WorldStopped`, `ParkedRecorded` (a parker's fibers are
  recorded from when it parks) and `RootsMarked`.

Most actions are the step of one worker.  `WorkerStep` carries `IInv` over such
a step from what it leaves alone (`Others`), what it does to the worker (`Own`)
and to the counts (`Counted`), so an action's lemma has just these three to
show; `CardChange` and `CountsFromMembers` turn membership into counts.  The
barrier's raising and end, the pool's start and growth and the fork's child have
proofs of their own.  `FullMeansAll` is the barrier's argument: counts that are
exact and reach `active - 1` leave nobody in the world.

`ConcSweep_proofs` proves, for any number of workers, sweepers, tasks and
collections and any ownership of tasks, that `Spec` implies `[]TypeOK`,
`[]ArrayStill`, `[]SweepComplete` and `[]ReleaseSettled`.  The only assumption is
`ConstAssumption` of `ConcSweep`, which TLC evaluates in its run.  None of the
four is inductive: a collector that finds `finished` at the number of tasks and,
a step later, `running` at zero has learned something only because the counters
are exact and because nobody can enter once everything is claimed.  The parts of
the invariant:

* `ShapeInv`, `CollInv`, `WorldInv`, `StopInv`: the labels of each kind of actor;
  one collector; who is counted parked or out is; past its wait, the collector
  has all others stopped, or about to see the barrier;
* `WalkInv`: what a walk has claimed and run is its own and nobody else's;
* `CountInv`: `running`, `unclaimed` and `finished` are the sizes of the sets of
  actors inside the array, of tasks not claimed (or claimed and not yet
  discounted), and of tasks done in walks that have ended;
* `SettledInv`: once both counters were seen at rest, until the next sweep is
  written, and whenever no sweep is pending, every task is done and nobody is
  in the array;
* `ReleaseSettled` itself: a worker that releases is in the world, so no
  collector can be writing a new sweep.

`RestIsDone` is the argument's heart: with `finished` at the number of tasks
nothing is unclaimed, so `sp_cs_join_locked` refuses everyone from then on, and
a later zero of `running` is final.

`ParkWake_proofs` proves, for any number of threads, workers, lists, timers and
raises and any pinning, that `Spec` implies `[]PlacesAgree`, `[]NoLostWake`,
`[]TimedWaitRight` and `[]RaiseNotSleptThrough`.  The parts of the invariant:

* `TgtInv`, `LockInv`, `GenInv`: what an actor holds at each label;
* `PlaceInv`: a thread on its stack is its worker's current one; its park word is
  `RUN` outside the way out; `PARKED` means that its worker has left it;
* `QueueInv` and `OffInv`: who is queued is off its stack, at home, there once
  and with the park word `RUN`; who is off its stack is queued, with its worker
  or `PARKED`.  Both survive any raise: the word decides, not the list;
* `WakeInv`: a thread that sleeps is on a list or is somebody's target;
* `RaiseNotSleptThrough` itself, which rests on a part of `LockInv`: a thread that
  goes on to wait with the inject slot given up (`relock`, `link`) defers;
* `ListInv` (until the first raise): nothing is pending (`QuietRight`), a listed thread sleeps in the wait that
  listed it, and one being woken is on no list and has one waker;
* `MarkInv` and `TimerInv`: on `ListInv` rest the timed waits.  A cancel is for
  a thread off its list, and the monitor's expiry cannot fall between arming and
  publishing, as the waiter holds the list's lock from one to the other.

`Timers_proofs` proves `[]TimersKept` and `[]NotSleptPast` for any number of
threads, workers, generations, failures and rounds.  `SleepInv` has the argument:
once the monitor has published `g_nearest`, every armed timer is covered by it,
or its thread has still to lower it, or the scan has still to reach the buffer
it is staged in (`NearestInv`); and when `g_nearest` is earlier than what the
monitor goes to wait for, the pipe holds a byte or a thread is about to nudge
(`EarlierInv`).

`CondMutex_proofs` proves `[]ListsAgree`, `[]HoldsWhileInside`,
`[]DepthKeptUnraised` and `[]FreeIsOfferedUnraised` for any number of threads, nested
locks and raises.  `CoreType` has the types and `RemoveFirstType` what removing a
thread from a list leaves.  `WakeInv` says who has threads in hand, and that
a raiser does one thing at a time; `ListInv`, until two wakes have crossed, that who
is listed sleeps there, once, and that who sleeps is on its list or in the hands
of just one who will wake it: it is what `SleeperIsListed` and `ListedIsCounted` need to be
inductive.  `HoldInv` says who is known to own the mutex and who not;
`LowInv` that the depth is less than the owner's calls, and 0 wherever the mutex is given
away; `NestInv` makes that exact while no raise ended a Monitor's wait; `CountInv` bounds
`nwaiters` from below; `OfferInv` is the two-sided look of `#lock` (count, then
owner) and `#unlock` (owner, then count), with the threads between the two in it,
without which `FreeIsOfferedUnraised` is not inductive.

`Queue_proofs` proves `[]TypeOK`, `[]NoneWaitsInVain` and `IsFifo`: every step of
`Queue` is a step of `Fifo` or leaves its variables alone.  `StoreRing`, `TakeRing`
and `ClearRing` say what growing, wrapping, taking and clearing the ring do to the sequence
of its items; `StepRefines` goes through the operations with them.  `GrownInv`
(a queue somebody is parked to push on has a ring that needs no growth) and
`CloseInv` (a `#close` that has not woken everybody is still at it) strengthen
`NoneWaitsInVain`.

`RunQueues_proofs` proves, for any number of threads and helpers, failures to
create one and requests to yield, that `Spec` implies `[]OnePlaceAtHome`,
`[]CountsAgree` and `[]NoSleepOver`.  The parts of the invariant:

* `PoolInv`, `LockInv`, `ScanInv`: which workers exist, who has the scheduler
  lock, which worker a scan or a steal looks at;
* `QueueInv`, `HandInv`, `StateInv`: what each queue may hold, no queue a thread
  twice and no two the same; what a worker holds at each place of
  `run_thread_once`; that a runnable or running thread is somewhere.
  `OnePlaceAtHome` is these three;
* `LocalMatch`, `PinsMatch`, `AskCount`, `AskHeld`: each count is the size of a
  set, so a step has to show only which thread enters or leaves it;
* `SleepPc`, `OwnInv`: `parked` and `idle` follow the helper's place, and a
  helper that looks elsewhere has no unstarted thread of its own, as only it
  puts one there;
* `KickInv`: a helper sleeps with a wake sent, or with its queue filled, only
  while the kick is on its way;
* `LookInv`: with the scheduler lock, a helper that passed a queue leaves no
  unstarted thread behind;
* `CoverInv`: for every thread that waits to start, one of the helpers that
  could take it is `Alert` (it will look again, or was sent a wake), or is being
  kicked, or the spawner's scan has not passed any of them.

`CoverInv` is what `NoSleepOver` needs to be inductive, and the two-sided
argument of the code: the helper stores `parked` and then looks, the spawner
queues and then looks at `parked`.  A thread starts to wait only by a spawn
(`WaitStep`), and its scan begins below every helper.  The scan passes a helper
only if that is not parked, has a wake sent to it already, or gets one: each
leaves it alert (`CoverStep`).  A helper that is alert for a thread stays so as
long as the thread waits (`AlertStep`): the looks of `sp_worker_idle_unlocked`
and `sched_steal` find it, and a spawn needs the scheduler lock, so none comes between
a look with that lock and the sleep.

What these assume of the constants, each in its module's `ASSUME`, evaluated by TLC in
every run: there are finitely many threads, as a process has; the marks for
nobody and nothing are no threads, lists or values, and `"busy"`, the mark of a
call under way, is no value; bounds are naturals; the ring starts with a slot.

Only model-checked: liveness (fairness is out of the prover's reach), and
the invariants of `Quiesce` and `Readiness`, whose proofs are not written.
The parts of the properties named `...Unraised` are proved as
they are checked; the stronger forms are false of the code (*Known
disagreements*).

## Not modelled

* The compiler, the library types and C extensions (`SP_CEXT`): sequential code,
  or an optional build.  The single-threaded build (`SP_THREADS` undefined) has
  none of this concurrency.
* The collector's marking (also by parked workers), the stop-the-world form of
  the parallel sweep, the lists a sweep task works on, the sweepers' shutdown,
  and the sweep in a fork's child.
* Fibers' stack switching and exceptions' unwinding; timeslices in real time;
  the preemption of main in a pool without helpers; the woken lane
  (`SPINEL_WAKE_PREEMPT`).
* In `Readiness`: `IO.select`'s sets, event kinds, `park_first`, `#reopen`, a
  table that cannot grow, a raise delivered in an I/O wait, and the plain `poll`
  of a program without threads.
* A thread's value and exception, the registry of threads, thread-local data.

## Plan

Modelled, in this order: `ParkWake`, `StopWorld`, `CondMutex`, `Queue` with
`Fifo`, `Timers`, `RunQueues`, `Quiesce` (with joins), `Readiness`, `ConcSweep`.
Proved about: `StopWorld`, `ConcSweep`, `Timers`, `CondMutex`, `Queue`,
`ParkWake`, `RunQueues`.  What is left:

1. Theorems: `ParkedIsOwn` and `UsedIsOpen` of `Readiness`; `JoinersTaken` of
   `Quiesce`.
2. `TimerHeap`: the heap's array operations against a sorted reference; refines
   `heap` of `Timers`.
3. An abstract monitor (a lock with depth and a wait set), to be implemented by
   `CondMutex`.
