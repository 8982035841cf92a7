----------------------------- MODULE Readiness -----------------------------
(***************************************************************************)
(* A thread that waits for a descriptor, and the close that takes the      *)
(* descriptor away from it: lib/sp_sched.c (the readiness sets, the poll   *)
(* path, sp_sched_ev_forget) and lib/sp_io.c (the uses of a handle).       *)
(*                                                                         *)
(* A thread takes a use of the handle around a read; one that would block  *)
(* parks on the descriptor in its worker's readiness set, where it is      *)
(* armed for one event.  The worker asks the kernel what is ready between  *)
(* two threads and hands the events out.  A close marks the handle, wakes  *)
(* who is parked on its descriptor in any worker's set and lets the number *)
(* go when the last use is gone; another handle may be given it then.      *)
(*                                                                         *)
(* One kind of readiness stands for POLLIN and POLLOUT.  The critical      *)
(* section of a worker's I/O lock is one step, and so is a wake (ParkWake  *)
(* has the switch).  A thread's own code between two calls leaves its      *)
(* worker free.  The kernel is external: a set tells of an armed           *)
(* descriptor that has data, once, and forgets one that is closed.         *)
(***************************************************************************)
EXTENDS Integers, Sequences, SequencesExt, FiniteSets

CONSTANTS
  Threads, Workers, Handles, Fds,
  Home,       \* home_wid: the worker each thread is pinned to
  NoFd, NoHandle,
  Timed,      \* the threads whose reads have a deadline (IO#timeout)
  SP_EV_OUT,  \* threads that one dispatch may take
  SetsFail,   \* a worker's set may fail to be made where another's was
  MaxData,    \* bound: times that data arrives
  MaxCalls    \* bound: reads and closes of a thread

ASSUME ConstAssumption ==
  /\ IsFiniteSet(Threads) /\ IsFiniteSet(Workers) /\ Workers \subseteq Nat
  /\ Home \in [Threads -> Workers]
  /\ Timed \subseteq Threads
  /\ NoFd \notin Fds /\ NoHandle \notin Handles
  /\ SP_EV_OUT \in Nat \ {0} /\ SetsFail \in BOOLEAN /\ MaxData \in Nat
  /\ MaxCalls \in Nat

VARIABLES
  fileno,     \* the number each handle's FILE has, or NoFd
  opened,     \* handles that were opened
  uses,       \* sp_File.uses without its bits
  closing,    \* SP_IO_CLOSING
  closed,     \* sp_File.closed
  data,       \* handles with something to read
  ndata,
  disabled,   \* SPINEL_SCHED_POLL, or no epoll
  evfd,       \* each worker's set: "none" yet, "up" or "failed"
  reg,        \* the kernel's: [w][fd] "no", "off" (it told) or "on"
  ev_tab,     \* each worker's table: the threads waiting on a descriptor there
  nio,        \* NIO_INC: threads in an I/O wait
  batch,      \* what a worker's epoll_wait answered, to be handed out
  g_io_polled, g_io_waiters, \* the poll path's list
  pset,       \* what the monitor polls: the threads, with their descriptors
  mon,        \* where the monitor is: "build", "poll" or "ready"
  state,      \* "RUNNING", "RUNNABLE" or "BLOCKED"
  calls,      \* reads and closes it has begun
  pc, io,     \* where a thread is, the handle it works on
  fd,         \* the number it has read from it
  held,       \* it keeps its use across the wait (accept)
  timer,      \* its wait has a deadline
  rev,        \* io_revents
  out,        \* the threads a worker or a closing thread has taken to wake
  todo        \* a closing thread: the workers whose table it has to visit

handleVars == <<fileno, opened, uses, closing, closed>>
setVars    == <<evfd, reg, ev_tab, nio, batch>>
pollVars   == <<g_io_polled, g_io_waiters, pset, mon>>
waitVars   == <<timer, rev>>
vars == <<handleVars, data, ndata, disabled, setVars, pollVars, state, pc, io, fd,
          held, waitVars, out, todo, calls>>

Init ==
  /\ fileno = [h \in Handles |-> NoFd] /\ opened = {}
  /\ uses = [h \in Handles |-> 0]
  /\ closing = {} /\ closed = {}
  /\ data = {} /\ ndata = 0
  /\ disabled \in BOOLEAN
  /\ evfd = [w \in Workers |-> "none"]
  /\ reg = [w \in Workers |-> [n \in Fds |-> "no"]]
  /\ ev_tab = [w \in Workers |-> [n \in Fds |-> <<>>]]
  /\ nio = 0 /\ batch = [w \in Workers |-> {}]
  /\ g_io_polled = FALSE /\ g_io_waiters = {} /\ pset = {}
  /\ state = [t \in Threads |-> "RUNNABLE"]
  /\ pc = [t \in Threads |-> "code"]
  /\ io = [t \in Threads |-> NoHandle] /\ fd = [t \in Threads |-> NoFd]
  /\ held = {} /\ timer = {} /\ rev = {}
  /\ out = [a \in Threads \cup Workers |-> <<>>]
  /\ todo = [t \in Threads |-> {}] /\ mon = "build"
  /\ calls = [t \in Threads |-> 0]

At(t, l)      == state[t] = "RUNNING" /\ pc[t] = l
Goto(t, l)    == pc' = [pc EXCEPT ![t] = l]
Set(f, x, v)  == [f EXCEPT ![x] = v]
OnSet(t)      == fd[t] # NoFd /\ t \in ToSet(ev_tab[Home[t]][fd[t]])
Running(w)    == {t \in Threads : Home[t] = w /\ state[t] = "RUNNING"}
\* A worker between two threads, with nothing to hand out.
Free(w)       == Running(w) = {} /\ batch[w] = {} /\ out[w] = <<>>
\* A thread about to call into the library, and one that is back in its code.
Begin(t)      == pc[t] = "code" /\ state[t] = "RUNNABLE" /\ Free(Home[t])
Call(t)       == Begin(t) /\ calls[t] < MaxCalls
                 /\ calls' = [calls EXCEPT ![t] = @ + 1]
Done(t)       == /\ Goto(t, "code") /\ state' = Set(state, t, "RUNNABLE")
                 /\ io' = Set(io, t, NoHandle) /\ fd' = Set(fd, t, NoFd)
HasData(n)    == \E h \in data : fileno[h] = n

-----------------------------------------------------------------------------
(* The handle.                                                             *)

\* A number that no file has.
sp_File_open(t, h) ==
  /\ Begin(t) /\ h \notin opened
  /\ \E n \in Fds :
       /\ \A g \in Handles : fileno[g] # n
       /\ fileno' = Set(fileno, h, n)
  /\ opened' = opened \cup {h}
  /\ UNCHANGED <<uses, closing, closed, data, ndata, disabled, setVars, pollVars,
                 state, pc, io, fd, held, waitVars, out, todo, calls>>
\* External: the peer sends something.
Arrive(h) ==
  /\ fileno[h] # NoFd /\ h \notin data /\ ndata < MaxData
  /\ data' = data \cup {h} /\ ndata' = ndata + 1
  /\ UNCHANGED <<handleVars, disabled, setVars, pollVars, state, pc, io, fd, held,
                 waitVars, out, todo, calls>>

\* A use, which a handle being closed refuses (IOError).
sp_io_use(t, h) ==
  /\ Call(t) \/ (At(t, "retry") /\ io[t] = h /\ UNCHANGED calls)
  /\ h \in opened \ closing
  /\ state' = Set(state, t, "RUNNING")
  /\ uses' = [uses EXCEPT ![h] = @ + 1]
  /\ io' = Set(io, t, h) /\ fd' = Set(fd, t, fileno[h])
  /\ Goto(t, "using")
  /\ UNCHANGED <<fileno, opened, closing, closed, data, ndata, disabled, setVars,
                 pollVars, held, waitVars, out, todo>>
RetryFails(t) ==
  /\ At(t, "retry") /\ io[t] \in closing
  /\ Done(t)
  /\ UNCHANGED <<handleVars, data, ndata, disabled, setVars, pollVars, held,
                 waitVars, out, todo, calls>>
\* The last use of a handle being closed lets the number go, which every set
\* forgets.
sp_io_unuse(h) ==
  /\ uses' = [uses EXCEPT ![h] = @ - 1]
  /\ IF h \in closing /\ uses[h] = 1
     THEN /\ fileno' = Set(fileno, h, NoFd)
          /\ data' = data \ {h}
          /\ reg' = [w \in Workers |->
                       IF fileno[h] = NoFd THEN reg[w] ELSE Set(reg[w], fileno[h], "no")]
     ELSE UNCHANGED <<fileno, data, reg>>
\* The read finds something.
Read(t) ==
  /\ At(t, "using") /\ io[t] \in data
  /\ data' = data \ {io[t]}
  /\ held' = held \ {t}
  /\ Goto(t, "leave")
  /\ UNCHANGED <<handleVars, ndata, disabled, setVars, pollVars, state, io, fd,
                 waitVars, out, todo, calls>>
Leave(t) ==
  /\ At(t, "leave")
  /\ sp_io_unuse(io[t])
  /\ Done(t)
  /\ UNCHANGED <<opened, closing, closed, ndata, disabled, evfd, ev_tab, nio, batch,
                 pollVars, held, waitVars, out, todo, calls>>
\* Or nothing: an accept waits with its use kept, any other reader gives it up
\* first.
Eagain(t) ==
  /\ At(t, "using") /\ io[t] \notin data
  /\ \/ held' = held \cup {t} /\ UNCHANGED <<handleVars, data, reg>>
     \/ /\ t \notin held
        /\ sp_io_unuse(io[t])
        /\ UNCHANGED <<opened, closing, closed, held>>
  /\ Goto(t, "wait")
  /\ UNCHANGED <<ndata, disabled, evfd, ev_tab, nio, batch, pollVars, state, io, fd,
                 waitVars, out, todo, calls>>

-----------------------------------------------------------------------------
(* The wait: sp_sched_wait_io_impl.                                        *)

\* The home worker's set is brought up, once.
sp_ev_worker_up(t) ==
  LET w == Home[t] IN
  /\ At(t, "wait") /\ evfd[w] = "none"
  /\ evfd' = Set(evfd, w, IF disabled THEN "failed" ELSE "up")
       \/ (SetsFail /\ evfd' = Set(evfd, w, "failed"))
  /\ UNCHANGED <<handleVars, data, ndata, disabled, reg, ev_tab, nio, batch,
                 pollVars, state, pc, io, fd, held, waitVars, out, todo, calls>>
\* A handle that was closed meanwhile: no wait.
Cancelled(t) ==
  /\ io[t] \in closed
  /\ Goto(t, "woken")
  /\ UNCHANGED <<nio, ev_tab, reg, g_io_waiters, state, timer, rev>>
\* Parked, with a deadline unless it is an accept.
Park_Unasked(t) == \* Wrong on purpose: the closed flag is not asked for.
  /\ timer' = timer \cup (({t} \cap Timed) \ held) /\ rev' = rev \ {t}
  /\ state' = Set(state, t, "BLOCKED") /\ Goto(t, "woken")
Park(t) ==
  /\ io[t] \notin closed
  /\ timer' = timer \cup (({t} \cap Timed) \ held) /\ rev' = rev \ {t}
  /\ state' = Set(state, t, "BLOCKED") /\ Goto(t, "woken")
ParkInTable(t) ==
  LET w == Home[t] IN
  /\ nio' = nio + 1
  /\ ev_tab' = [ev_tab EXCEPT ![w][fd[t]] = <<t>> \o @]
  /\ reg' = [reg EXCEPT ![w][fd[t]] = "on"]
  /\ UNCHANGED g_io_waiters
\* On the worker's table and armed, whatever was armed before.
IoPark(t) ==
  /\ At(t, "wait") /\ evfd[Home[t]] = "up"
  /\ Cancelled(t) \/ (Park(t) /\ ParkInTable(t))
  /\ UNCHANGED <<handleVars, data, ndata, disabled, evfd, batch, g_io_polled, pset, mon,
                 io, fd, held, out, todo, calls>>
\* Without a set: on the monitor's list, under the scheduler lock.
PollRaise(t) ==
  /\ At(t, "wait") /\ evfd[Home[t]] = "failed"
  /\ g_io_polled' = TRUE
  /\ Goto(t, "poll")
  /\ UNCHANGED <<handleVars, data, ndata, disabled, setVars, g_io_waiters, pset, mon,
                 state, io, fd, held, waitVars, out, todo, calls>>
PollPark(t) ==
  /\ At(t, "poll")
  /\ \/ Cancelled(t)
     \/ /\ Park(t)
        /\ g_io_waiters' = g_io_waiters \cup {t}
        /\ UNCHANGED <<nio, ev_tab, reg>>
  /\ UNCHANGED <<handleVars, data, ndata, disabled, evfd, batch, g_io_polled, pset, mon,
                 io, fd, held, out, todo, calls>>
\* Back from it.  Closed or timed out, it is an error.  Otherwise an accept
\* tries again; a reader takes a new use, or asks about the number it has and
\* waits again (sp_io_wait_deadline).
WaitBack_Retries(t) == \* Wrong on purpose: it does not look whether it was closed.
  LET fails == io[t] \in closed \/ t \notin rev IN
  /\ At(t, "woken")
  /\ \/ t \notin held /\ fails /\ Done(t) /\ UNCHANGED held
     \/ /\ \/ t \notin held /\ ~fails /\ Goto(t, "retry")
           \/ t \notin held /\ ~fails /\ ~HasData(fd[t]) /\ Goto(t, "wait")
           \/ t \in held /\ Goto(t, "using")
        /\ held' = held
        /\ UNCHANGED <<state, io, fd>>
  /\ rev' = rev \ {t}
  /\ UNCHANGED <<handleVars, data, ndata, disabled, setVars, pollVars, timer, out,
                 todo, calls>>

WaitBack(t) ==
  LET fails == io[t] \in closed \/ t \notin rev IN
  /\ At(t, "woken")
  /\ \/ t \notin held /\ fails /\ Done(t) /\ UNCHANGED held
     \/ /\ \/ t \notin held /\ ~fails /\ Goto(t, "retry")
           \/ t \notin held /\ ~fails /\ ~HasData(fd[t]) /\ Goto(t, "wait")
           \/ t \in held /\ Goto(t, IF fails THEN "leave" ELSE "using")
        /\ held' = IF fails THEN held \ {t} ELSE held
        /\ UNCHANGED <<state, io, fd>>
  /\ rev' = rev \ {t}
  /\ UNCHANGED <<handleVars, data, ndata, disabled, setVars, pollVars, timer, out,
                 todo, calls>>

-----------------------------------------------------------------------------
(* The workers: they run threads, and between two of them look at the set. *)

Run(t) ==
  /\ state[t] = "RUNNABLE" /\ pc[t] # "code" /\ Free(Home[t])
  /\ state' = Set(state, t, "RUNNING")
  /\ UNCHANGED <<handleVars, data, ndata, disabled, setVars, pollVars, pc, io, fd,
                 held, waitVars, out, todo, calls>>

\* What is armed and has data; the kernel disarms it.
sp_ev_drain(w) ==
  LET hits == {n \in Fds : reg[w][n] = "on" /\ HasData(n)} IN
  /\ Free(w) /\ evfd[w] = "up" /\ hits # {}
  /\ batch' = Set(batch, w, hits)
  /\ reg' = Set(reg, w, [n \in Fds |-> IF n \in hits THEN "off" ELSE reg[w][n]])
  /\ UNCHANGED <<handleVars, data, ndata, disabled, evfd, ev_tab, nio, pollVars,
                 state, pc, io, fd, held, waitVars, out, todo, calls>>
\* Under the worker's I/O lock a (the worker, or a thread that closes) takes the
\* first waiters off, still counted, and arms the descriptor for whoever is left.
Taken(w, n)  == SubSeq(ev_tab[w][n], 1, Min({SP_EV_OUT, Len(ev_tab[w][n])}))
Left(w, n)   == SubSeq(ev_tab[w][n], Len(Taken(w, n)) + 1, Len(ev_tab[w][n]))
Rearm_Not(w, n) == reg' = reg \* Wrong on purpose: nobody arms it again.
Rearm(w, n) ==
  reg' = IF Left(w, n) = <<>> THEN reg ELSE [reg EXCEPT ![w][n] = "on"]
sp_ev_dispatch_w(w, n, a) ==
  /\ out' = Set(out, a, Taken(w, n))
  /\ rev' = rev \cup ToSet(Taken(w, n))
  /\ ev_tab' = [ev_tab EXCEPT ![w][n] = Left(w, n)]
  /\ UNCHANGED nio
sp_ev_handle(w) ==
  /\ out[w] = <<>>
  /\ \E n \in batch[w] :
       /\ batch' = Set(batch, w, batch[w] \ {n})
       /\ sp_ev_dispatch_w(w, n, w) /\ Rearm(w, n)
  /\ UNCHANGED <<handleVars, data, ndata, disabled, evfd, pollVars, state, pc, io, fd,
                 held, timer, todo, calls>>
\* The wakes, with no lock held: sched_wake_unlinked cancels the timer.
sp_ev_wake_out(a) ==
  LET t == Head(out[a]) IN
  /\ out[a] # <<>>
  /\ out' = Set(out, a, Tail(out[a]))
  /\ timer' = timer \ {t}
  /\ state' = Set(state, t, "RUNNABLE")
  /\ nio' = nio - 1
  /\ UNCHANGED <<handleVars, data, ndata, disabled, evfd, reg, ev_tab, batch, pollVars,
                 pc, io, fd, held, rev, todo, calls>>

\* A deadline: off its list it is a timeout; taken by a waker already, nothing.
sp_sched_timer_expire(t) ==
  /\ t \in timer
  /\ timer' = timer \ {t}
  /\ \/ /\ OnSet(t)
        /\ ev_tab' = [ev_tab EXCEPT ![Home[t]][fd[t]] = SelectSeq(@, LAMBDA u : u # t)]
        /\ nio' = nio - 1
        /\ UNCHANGED g_io_waiters
     \/ /\ t \in g_io_waiters
        /\ g_io_waiters' = g_io_waiters \ {t}
        /\ UNCHANGED <<ev_tab, nio>>
     \/ ~OnSet(t) /\ t \notin g_io_waiters /\ UNCHANGED <<ev_tab, nio, g_io_waiters>>
  /\ IF OnSet(t) \/ t \in g_io_waiters
     THEN state' = Set(state, t, "RUNNABLE") /\ rev' = rev \ {t}
     ELSE UNCHANGED <<state, rev>>
  /\ UNCHANGED <<handleVars, data, ndata, disabled, evfd, reg, batch, g_io_polled, pset,
                 mon, pc, io, fd, held, out, todo, calls>>

-----------------------------------------------------------------------------
(* The close, and the poll path.                                           *)

\* io_waiter_ready, of each of them under the scheduler lock.
Ready(ts) ==
  /\ g_io_waiters' = g_io_waiters \ ts
  /\ timer' = timer \ ts
  /\ rev' = rev \cup ts
  /\ state' = [t \in Threads |-> IF t \in ts THEN "RUNNABLE" ELSE state[t]]

\* One thread owns the close, with a use of its own.
sp_io_close_handle(t, h) ==
  /\ Call(t) /\ h \in opened \ closing
  /\ state' = Set(state, t, "RUNNING")
  /\ uses' = [uses EXCEPT ![h] = @ + 1]
  /\ closing' = closing \cup {h}
  /\ io' = Set(io, t, h)
  /\ Goto(t, "flag")
  /\ UNCHANGED <<fileno, opened, closed, data, ndata, disabled, setVars, pollVars,
                 fd, held, waitVars, out, todo>>
CloseFlag(t) ==
  /\ At(t, "flag")
  /\ closed' = closed \cup {io[t]}
  /\ fd' = Set(fd, t, fileno[io[t]])
  /\ todo' = Set(todo, t, Workers)
  /\ Goto(t, "forget")
  /\ UNCHANGED <<fileno, opened, uses, closing, data, ndata, disabled, setVars,
                 pollVars, state, io, held, waitVars, out, calls>>
\* sp_sched_ev_forget, one worker after the other: the same worker again while a
\* visit took as many as it may.
SkipWorker(t) ==
  LET w == Min(todo[t]) IN
  /\ At(t, "forget") /\ todo[t] # {} /\ evfd[w] # "up"
  /\ todo' = Set(todo, t, todo[t] \ {w})
  /\ UNCHANGED <<handleVars, data, ndata, disabled, setVars, pollVars, state, pc, io,
                 fd, held, waitVars, out, calls>>
FullVisit(w, n) == Len(Taken(w, n)) = SP_EV_OUT
ForgetWorker(t) ==
  LET w == Min(todo[t])
      n == fd[t]
  IN
  /\ At(t, "forget") /\ todo[t] # {} /\ evfd[w] = "up" /\ out[t] = <<>>
  /\ sp_ev_dispatch_w(w, n, t)
  /\ IF FullVisit(w, n)
     THEN Rearm(w, n) /\ UNCHANGED todo
     ELSE /\ reg' = [reg EXCEPT ![w][n] = "no"]
          /\ todo' = Set(todo, t, todo[t] \ {w})
  /\ UNCHANGED <<handleVars, data, ndata, disabled, evfd, batch, pollVars, state,
                 pc, io, fd, held, timer, calls>>
\* Then those the monitor polls for, if there ever were any.
ForgetPolled(t) ==
  LET hit == {u \in g_io_waiters : fd[u] = fd[t]} IN
  /\ At(t, "forget") /\ todo[t] = {} /\ out[t] = <<>>
  /\ IF g_io_polled THEN Ready(hit) ELSE UNCHANGED <<g_io_waiters, timer, rev, state>>
  /\ Goto(t, "leave")
  /\ UNCHANGED <<handleVars, data, ndata, disabled, setVars, g_io_polled, pset, mon, io,
                 fd, held, out, todo, calls>>

\* The monitor walks the list only while no worker has a set (g_ev_fd).
MonBuild_Skips == \* Wrong on purpose: the list is walked only once a worker has a set.
  /\ mon = "build" /\ g_io_waiters # {}
  /\ \E w \in Workers : evfd[w] = "up"
  /\ pset' = {<<t, fd[t]>> : t \in g_io_waiters}
  /\ mon' = "poll"
  /\ UNCHANGED <<handleVars, data, ndata, disabled, setVars, g_io_polled, g_io_waiters,
                 state, pc, io, fd, held, waitVars, out, todo, calls>>
MonBuild ==
  /\ mon = "build" /\ g_io_waiters # {}
  /\ \A w \in Workers : evfd[w] # "up"
  /\ pset' = {<<t, fd[t]>> : t \in g_io_waiters}
  /\ mon' = "poll"
  /\ UNCHANGED <<handleVars, data, ndata, disabled, setVars, g_io_polled, g_io_waiters,
                 state, pc, io, fd, held, waitVars, out, todo, calls>>
\* poll(2), without the lock: what is ready, or no number at all.  A new waiter
\* or the timeout ends it with nothing.
MonPoll ==
  /\ mon = "poll"
  /\ pset' = {p \in pset : HasData(p[2]) \/ \A h \in Handles : fileno[h] # p[2]}
  /\ mon' = "ready"
  /\ UNCHANGED <<handleVars, data, ndata, disabled, setVars, g_io_polled, g_io_waiters,
                 state, pc, io, fd, held, waitVars, out, todo, calls>>
\* Whoever is still on the list, whatever it waits for by now.
MonReady ==
  /\ mon = "ready"
  /\ Ready({t \in g_io_waiters : \E p \in pset : p[1] = t})
  /\ pset' = {} /\ mon' = "build"
  /\ UNCHANGED <<handleVars, data, ndata, disabled, setVars, g_io_polled, pc, io, fd,
                 held, out, todo, calls>>

-----------------------------------------------------------------------------
ThreadStep(t) ==
  \/ (pc[t] = "retry" /\ \E h \in Handles : sp_io_use(t, h)) \/ RetryFails(t)
  \/ Read(t) \/ Leave(t) \/ Eagain(t)
  \/ sp_ev_worker_up(t) \/ IoPark(t) \/ PollRaise(t) \/ PollPark(t) \/ WaitBack(t)
  \/ CloseFlag(t) \/ SkipWorker(t) \/ ForgetWorker(t) \/ ForgetPolled(t)
  \/ sp_ev_wake_out(t)
Monitor == MonBuild \/ MonPoll \/ MonReady
Next ==
  \/ \E t \in Threads :
       \/ ThreadStep(t) \/ Run(t) \/ sp_sched_timer_expire(t)
       \/ \E h \in Handles : sp_File_open(t, h) \/ sp_io_use(t, h)
                             \/ sp_io_close_handle(t, h)
  \/ \E w \in Workers : sp_ev_drain(w) \/ sp_ev_handle(w) \/ sp_ev_wake_out(w)
  \/ \E h \in Handles : Arrive(h)
  \/ Monitor
Spec == Init /\ [][Next]_vars
\* A thread inside a call goes on; a worker runs what is queued and looks at its
\* set, at the latest after 16 threads (sp_ev_drain_due); the monitor turns.
FairSpec ==
  /\ Spec
  /\ \A t \in Threads : WF_vars(ThreadStep(t)) /\ SF_vars(Run(t))
  /\ \A w \in Workers : /\ SF_vars(sp_ev_drain(w))
                        /\ WF_vars(sp_ev_handle(w) \/ sp_ev_wake_out(w))
  /\ WF_vars(Monitor)

-----------------------------------------------------------------------------
(* What the waits rest on.                                                 *)

\* Every variable has its type.
TypeOK ==
  /\ fileno \in [Handles -> Fds \cup {NoFd}]
  /\ closed \subseteq closing /\ closing \subseteq opened /\ opened \subseteq Handles
  /\ data \subseteq opened /\ ndata \in 0..MaxData
  /\ uses \in [Handles -> 0..Cardinality(Threads)]
  /\ disabled \in BOOLEAN
  /\ evfd \in [Workers -> {"none", "up", "failed"}]
  /\ reg \in [Workers -> [Fds -> {"no", "off", "on"}]]
  /\ \A w \in Workers, n \in Fds : ToSet(ev_tab[w][n]) \subseteq Threads
  /\ nio \in 0..Cardinality(Threads)
  /\ batch \in [Workers -> SUBSET Fds]
  /\ g_io_polled \in BOOLEAN /\ g_io_waiters \subseteq Threads
  /\ pset \subseteq Threads \X Fds /\ mon \in {"build", "poll", "ready"}
  /\ state \in [Threads -> {"RUNNING", "RUNNABLE", "BLOCKED"}]
  /\ pc \in [Threads -> {"code", "using", "leave", "wait", "poll", "woken", "retry",
                         "flag", "forget"}]
  /\ io \in [Threads -> Handles \cup {NoHandle}] /\ fd \in [Threads -> Fds \cup {NoFd}]
  /\ held \subseteq Threads /\ timer \subseteq Threads /\ rev \subseteq Threads
  /\ todo \in [Threads -> SUBSET Workers]

Listed(t) == OnSet(t) \/ t \in g_io_waiters
\* A thread that waits for a descriptor waits for its own handle's: the number is
\* not let go, and so not given to another handle, before whoever is parked on it
\* was woken, whichever worker's table it is in and whenever that worker's set
\* came up (sp_sched_ev_forget against sp_sched_wait_io_impl).
ParkedIsOwn == \A t \in Threads : Listed(t) => fileno[io[t]] = fd[t]
\* And a thread inside a read, or one that keeps its use across the wait, still
\* has the number it read at the start: the last use lets it go (sp_io_unuse).
UsedIsOpen ==
  \A t \in Threads : pc[t] = "using" \/ t \in held => fileno[io[t]] = fd[t]
\* A one-shot arm is never used up under a waiter: the descriptor of a thread in
\* a worker's table is armed in its set, or an event for it is being handed out.
ParkedIsWatched ==
  \A t \in Threads : OnSet(t) => \/ reg[Home[t]][fd[t]] = "on"
                                 \/ fd[t] \in batch[Home[t]]
\* A thread in an I/O wait is counted until its wake has made it runnable: what
\* the pump's deadlock test reads (NIO_INC in sp_ev_dispatch_w).
WaitersCounted ==
  nio = Cardinality({t \in Threads :
                       OnSet(t) \/ \E a \in DOMAIN out : t \in ToSet(out[a])})
Awaited == \E t \in Threads : Listed(t) /\ io[t] \in data
\* Threads do not wait for good on a descriptor that has data: a reader is woken
\* and has it, or nobody waits for it any more.
ReadyRuns == Awaited ~> ~Awaited
\* A close ends: everyone inside the handle is woken or leaves, an accept that
\* keeps its use too, and the number is let go.
CloseReleases ==
  (\E h \in closing : fileno[h] # NoFd) ~> (\A h \in closing : fileno[h] = NoFd)

\* A handle's number stays its own while anyone waits on it or uses it
\* (sp_io_close_handle, sp_io_unuse).
NumberIsOwn == ParkedIsOwn /\ UsedIsOpen
\* A wait is told alike by the kernel's set, the worker's table and the count of
\* waits: who is parked is watched, and counted until it is queued
\* (sp_ev_arm_fd_w, sp_ev_dispatch_w).
WaitsAgree == TypeOK /\ ParkedIsWatched /\ WaitersCounted
====
