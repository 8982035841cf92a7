---------------------------- MODULE Queue_proofs ----------------------------
(***************************************************************************)
(* The queue is the FIFO it promises to be, and nobody waits on it in      *)
(* vain, for any number of threads and values, any bound and any first     *)
(* capacity of the ring.                                                   *)
(***************************************************************************)
EXTENDS Queue, ListFacts, FiniteSetTheorems, TLAPS

\* A thread is in a call or has its answer, and a push has a value.
CallInv ==
  \A t \in Threads :
    /\ pc[t] = "run" <=> ret[t] # "busy"
    /\ pc[t] \in {"push", "push_timed", "push_parked"} => val[t] \in Values

\* The slots between the head and the tail hold values.
RingInv == \A i \in 0 .. (len - 1) : buf[(head + i) % cap] \in Values

\* Who is on a list is there once, and parked for what the list is of.
ParkInv ==
  /\ IsInjective(pop_waiters) /\ IsInjective(push_waiters)
  /\ \A t \in Threads : /\ t \in Range(pop_waiters) => pc[t] = "pop_parked"
                        /\ t \in Range(push_waiters) => pc[t] = "push_parked"

\* A #close that has not woken all of a list is still at it.
CloseInv ==
  closed => /\ pop_waiters # <<>> => \E t \in Threads : pc[t] = "close_pop"
            /\ push_waiters # <<>> =>
                 \E t \in Threads : pc[t] \in {"close_pop", "close_push"}

\* A #raise that is pending was made.
RaiseInv == \A t \in Threads : inject[t] => nraise > 0

\* A queue a pusher is parked on was full once: its ring needs no more room.
GrownInv == push_waiters # <<>> => cap >= max

IInv ==
  /\ TypeOK /\ CallInv /\ RingInv /\ ParkInv /\ CloseInv /\ RaiseInv
  /\ GrownInv /\ ItemsHaveTakersUnraised /\ SlotsHaveTakers

-----------------------------------------------------------------------------
(* The ring.                                                               *)

\* The k-th slot from h of a ring of n slots.
LEMMA SlotOf ==
  ASSUME NEW n \in Nat \ {0}, NEW h \in 0 .. (n - 1), NEW k \in 0 .. n
  PROVE  /\ (h + k) % n = IF h + k < n THEN h + k ELSE h + k - n
         /\ (h + k) % n \in 0 .. (n - 1)
<1>1. h + k \in Nat /\ h + k < n + n
  OBVIOUS
<1>2. CASE h + k < n
  BY <1>1, <1>2
<1>3. CASE ~ (h + k < n)
  <2>1. (h + k) % n = h + k - n
    BY <1>1, <1>3
  <2> QED BY <2>1, <1>1, <1>3
<1> QED BY <1>2, <1>3

\* The items are a sequence of values.
LEMMA ItemsSeq ==
  ASSUME TypeOK, RingInv
  PROVE  /\ items \in Seq(Values) /\ Len(items) = len
         /\ \A i \in 1 .. len : items[i] = buf[(head + i - 1) % cap]
         /\ items = <<>> <=> len = 0
         /\ len > 0 => Head(items) = buf[head]
<1>1. len \in Nat /\ cap \in Nat \ {0} /\ head \in 0 .. (cap - 1)
  BY DEF TypeOK
<1>2. \A i \in 1 .. len : buf[(head + i - 1) % cap] \in Values
  <2>1. ASSUME NEW i \in 1 .. len PROVE buf[(head + i - 1) % cap] \in Values
    <3>1. i - 1 \in 0 .. (len - 1) /\ head + (i - 1) = head + i - 1
      BY <1>1
    <3> QED BY <3>1 DEF RingInv
  <2> QED BY <2>1
<1>3. items \in [1 .. len -> Values]
  BY <1>2 DEF items
<1>4. items \in Seq(Values)
  BY <1>1, <1>3, SeqDef
<1>5. Len(items) = len
  <2> DEFINE l == Len(items)
  <2>1. l \in Nat /\ 1 .. l = 1 .. len
    BY <1>3, <1>4, LenProperties
  <2> HIDE DEF l
  <2>2. ~ (l < len) /\ ~ (len < l)
    BY <2>1, <1>1
  <2>3. l = len
    BY <2>1, <2>2, <1>1
  <2> QED BY <2>3 DEF l
<1>6. \A i \in 1 .. len : items[i] = buf[(head + i - 1) % cap]
  BY DEF items
<1>7. items = <<>> <=> len = 0
  BY <1>1, <1>4, <1>5, EmptySeq
<1>8. ASSUME len > 0 PROVE Head(items) = buf[head]
  <2>1. Head(items) = items[1] /\ 1 \in 1 .. len
    BY <1>1, <1>4, <1>5, <1>8
  <2>2. (head + 1 - 1) % cap = head
    <3>1. head + 1 - 1 = head /\ head \in Nat /\ head < cap
      BY <1>1
    <3>2. head % cap = head
      BY <3>1, <1>1
    <3> QED BY <3>1, <3>2
  <2> QED BY <2>1, <2>2, <1>6
<1> QED BY <1>4, <1>5, <1>6, <1>7, <1>8

\* What holds of the ring in the next state.
RingOK ==
  /\ cap \in Nat \ {0} /\ head \in 0 .. (cap - 1) /\ len \in 0 .. cap
  /\ buf \in [0 .. (cap - 1) -> Values \cup {NoValue}]
  /\ RingInv

\* A sequence that the next state's ring holds slot by slot is its content.
LEMMA ItemsNext ==
  ASSUME RingOK', NEW q \in Seq(Values), Len(q) = len',
         \A i \in 1 .. len' : q[i] = buf'[(head' + i - 1) % cap']
  PROVE  items' = q
<1>1. DOMAIN q = 1 .. len'
  BY LenProperties
<1>2. q = [i \in 1 .. len' |-> q[i]]
  BY <1>1, LenProperties
<1> QED BY <1>2 DEF items

\* A value goes behind the others, into a ring that is grown if it is full.
LEMMA StoreRing ==
  ASSUME TypeOK, RingInv, NEW v \in Values, Stored(Grown, v)
  PROVE  RingOK' /\ items' = Append(items, v) /\ len' = len + 1 /\ cap' >= cap
<1>1. /\ cap \in Nat \ {0} /\ head \in 0 .. (cap - 1) /\ len \in 0 .. cap
      /\ buf \in [0 .. (cap - 1) -> Values \cup {NoValue}]
  BY DEF TypeOK
<1>2. /\ items \in Seq(Values) /\ Len(items) = len
      /\ \A i \in 1 .. len : items[i] = buf[(head + i - 1) % cap]
  BY ItemsSeq
<1>3. /\ Append(items, v) \in Seq(Values) /\ Len(Append(items, v)) = len + 1
      /\ \A i \in 1 .. len : Append(items, v)[i] = items[i]
      /\ Append(items, v)[len + 1] = v
  BY <1>2, AppendProperties
<1>4. CASE len < cap
  <2>1. /\ buf' = [buf EXCEPT ![(head + len) % cap] = v]
        /\ head' = head /\ len' = len + 1 /\ cap' = cap
    BY <1>4 DEF Stored, Grown, ring
  <2>2. (head + len) % cap \in 0 .. (cap - 1)
    BY <1>1, SlotOf
  <2>3. ASSUME NEW k \in 0 .. (len - 1) PROVE (head + k) % cap # (head + len) % cap
    <3>1. k \in 0 .. cap /\ len \in 0 .. cap
      BY <1>1
    <3>2. /\ (head + k) % cap = IF head + k < cap THEN head + k ELSE head + k - cap
          /\ (head + len) % cap = IF head + len < cap THEN head + len ELSE head + len - cap
      BY <1>1, <3>1, SlotOf
    <3> QED BY <3>1, <3>2, <1>1, <1>4
  <2>4. \A k \in 0 .. (len - 1) : /\ buf'[(head + k) % cap] = buf[(head + k) % cap]
                                  /\ (head + k) % cap \in 0 .. (cap - 1)
    <3>1. \A k \in 0 .. (len - 1) : k \in 0 .. cap
      BY <1>1
    <3>2. \A k \in 0 .. (len - 1) : (head + k) % cap \in 0 .. (cap - 1)
      BY <3>1, <1>1, SlotOf
    <3> QED BY <3>2, <2>1, <2>3, <1>1
  <2>5. buf'[(head + len) % cap] = v
    BY <2>1, <2>2, <1>1
  <2>6. RingInv'
    <3>1. \A k \in 0 .. (len' - 1) : k \in 0 .. (len - 1) \/ k = len
      BY <2>1, <1>1
    <3>2. \A k \in 0 .. (len' - 1) : buf'[(head + k) % cap] \in Values
      BY <3>1, <2>4, <2>5 DEF RingInv
    <3> QED BY <2>1, <3>2 DEF RingInv
  <2>7. RingOK'
    BY <2>1, <2>2, <2>6, <1>1, <1>4 DEF RingOK
  <2>8. \A i \in 1 .. len' : Append(items, v)[i] = buf'[(head' + i - 1) % cap']
    <3>1. ASSUME NEW i \in 1 .. len
          PROVE  Append(items, v)[i] = buf'[(head' + i - 1) % cap']
      <4>1. i - 1 \in 0 .. (len - 1) /\ head + (i - 1) = head + i - 1
        BY <1>1
      <4> QED BY <4>1, <1>2, <1>3, <2>1, <2>4
    <3>2. head + (len + 1) - 1 = head + len
      BY <1>1
    <3>3. Append(items, v)[len + 1] = buf'[(head' + (len + 1) - 1) % cap']
      BY <3>2, <1>3, <2>1, <2>5
    <3>4. \A i \in 1 .. len' : i \in 1 .. len \/ i = len + 1
      BY <2>1, <1>1
    <3> QED BY <3>1, <3>3, <3>4
  <2>9. items' = Append(items, v)
    BY <2>1, <2>7, <2>8, <1>3, ItemsNext
  <2> QED BY <2>1, <2>7, <2>9, <1>1
<1>5. CASE ~ (len < cap)
  <2>1. len = cap
    BY <1>1, <1>5
  <2> DEFINE b == [i \in 0 .. (2 * cap - 1) |->
                     IF i < len THEN buf[(head + i) % cap] ELSE NoValue]
  <2>2. buf' = [b EXCEPT ![(0 + len) % (2 * cap)] = v]
        /\ head' = 0 /\ len' = len + 1 /\ cap' = 2 * cap
    BY <1>5 DEF Stored, Grown, ring
  <2>3. (0 + len) % (2 * cap) = len /\ 0 + len = len
    <3>1. 2 * cap \in Nat \ {0} /\ len \in Nat /\ len < 2 * cap
      BY <2>1, <1>1
    <3> QED BY <3>1
  <2>4. \A k \in 0 .. (len - 1) : buf[(head + k) % cap] \in Values
    BY DEF RingInv
  <2>5. b \in [0 .. (2 * cap - 1) -> Values \cup {NoValue}]
    <3>1. \A i \in 0 .. (2 * cap - 1) : i < len => i \in 0 .. (len - 1)
      BY <1>1
    <3> QED BY <3>1, <2>4
  <2>6. \A k \in 0 .. (len - 1) : k \in 0 .. (2 * cap - 1) /\ b[k] = buf[(head + k) % cap]
    BY <2>1, <1>1
  <2> HIDE DEF b
  <2>7. /\ buf' \in [0 .. (2 * cap - 1) -> Values \cup {NoValue}]
        /\ buf'[len] = v
        /\ \A k \in 0 .. (len - 1) : buf'[k] = buf[(head + k) % cap]
    <3>1. buf' = [b EXCEPT ![len] = v]
      BY <2>2, <2>3
    <3>2. len \in 0 .. (2 * cap - 1)
      BY <2>1, <1>1
    <3>3. \A k \in 0 .. (len - 1) : k # len
      BY <1>1
    <3> QED BY <3>1, <3>2, <3>3, <2>5, <2>6
  <2>8. \A k \in 0 .. len : (head' + k) % cap' = k
    <3>1. 2 * cap \in Nat \ {0} /\ \A k \in 0 .. len : k \in Nat /\ k < 2 * cap /\ 0 + k = k
      BY <2>1, <1>1
    <3>2. \A k \in 0 .. len : k % (2 * cap) = k
      BY <3>1
    <3> QED BY <3>1, <3>2, <2>2
  <2>9. RingInv'
    <3>1. \A k \in 0 .. (len' - 1) : (k \in 0 .. (len - 1) \/ k = len) /\ k \in 0 .. len
      BY <2>2, <1>1
    <3> QED BY <3>1, <2>4, <2>7, <2>8 DEF RingInv
  <2>10. RingOK'
    BY <2>1, <2>2, <2>7, <2>9, <1>1 DEF RingOK
  <2>11. \A i \in 1 .. len' : Append(items, v)[i] = buf'[(head' + i - 1) % cap']
    <3>1. ASSUME NEW i \in 1 .. len
          PROVE  Append(items, v)[i] = buf'[(head' + i - 1) % cap']
      <4>1. /\ i - 1 \in 0 .. (len - 1) /\ i - 1 \in 0 .. len
            /\ head + (i - 1) = head + i - 1 /\ 0 + (i - 1) = 0 + i - 1
        BY <1>1
      <4>2. buf'[(head' + i - 1) % cap'] = buf'[i - 1]
        BY <4>1, <2>2, <2>8
      <4> QED BY <4>1, <4>2, <1>2, <1>3, <2>7
    <3>2. 0 + (len + 1) - 1 = 0 + len /\ len \in 0 .. len
      BY <1>1
    <3>3. Append(items, v)[len + 1] = buf'[(head' + (len + 1) - 1) % cap']
      BY <3>2, <1>3, <2>2, <2>7, <2>8
    <3>4. \A i \in 1 .. len' : i \in 1 .. len \/ i = len + 1
      BY <2>2, <1>1
    <3> QED BY <3>1, <3>3, <3>4
  <2>12. items' = Append(items, v)
    BY <2>2, <2>10, <2>11, <1>3, ItemsNext
  <2> QED BY <2>2, <2>10, <2>12, <1>1
<1> QED BY <1>4, <1>5

\* The head is taken, and what was behind it is in front.
LEMMA TakeRing ==
  ASSUME TypeOK, RingInv, len > 0,
         head' = (head + 1) % cap, len' = len - 1, cap' = cap,
         buf' = [buf EXCEPT ![head] = NoValue]
  PROVE  RingOK' /\ items' = Tail(items)
<1>1. /\ cap \in Nat \ {0} /\ head \in 0 .. (cap - 1) /\ len \in 0 .. cap
      /\ buf \in [0 .. (cap - 1) -> Values \cup {NoValue}]
  BY DEF TypeOK
<1>2. /\ items \in Seq(Values) /\ Len(items) = len /\ items # <<>>
      /\ \A i \in 1 .. len : items[i] = buf[(head + i - 1) % cap]
  BY <1>1, ItemsSeq
<1>3. /\ Tail(items) \in Seq(Values) /\ Len(Tail(items)) = len - 1
      /\ \A i \in 1 .. (len - 1) : Tail(items)[i] = items[i + 1]
  BY <1>2, HeadTailProperties
<1>4. head' \in 0 .. (cap - 1)
      /\ head' = IF head + 1 < cap THEN head + 1 ELSE head + 1 - cap
  <2>1. 1 \in 0 .. cap
    BY <1>1
  <2> QED BY <2>1, <1>1, SlotOf
<1>5. ASSUME NEW k \in 0 .. (len - 2)
      PROVE  /\ (head' + k) % cap = (head + (k + 1)) % cap
             /\ (head' + k) % cap # head
             /\ (head' + k) % cap \in 0 .. (cap - 1)
  <2>1. k \in 0 .. cap /\ k + 1 \in 0 .. cap /\ k + 1 \in Nat
    BY <1>1
  <2>2. /\ (head' + k) % cap = IF head' + k < cap THEN head' + k ELSE head' + k - cap
        /\ (head' + k) % cap \in 0 .. (cap - 1)
    BY <2>1, <1>1, <1>4, SlotOf
  <2>3. (head + (k + 1)) % cap = IF head + (k + 1) < cap THEN head + (k + 1)
                                 ELSE head + (k + 1) - cap
    BY <2>1, <1>1, SlotOf
  <2>4. (head' + k) % cap = (head + (k + 1)) % cap
    BY <2>1, <2>2, <2>3, <1>1, <1>4
  <2>5. (head' + k) % cap # head
    BY <2>1, <2>3, <2>4, <1>1
  <2> QED BY <2>2, <2>4, <2>5
<1>6. \A k \in 0 .. (len - 2) : buf'[(head' + k) % cap] = buf[(head + (k + 1)) % cap]
  BY <1>1, <1>5
<1>7. RingInv'
  <2>1. \A k \in 0 .. (len' - 1) : k \in 0 .. (len - 2) /\ k + 1 \in 0 .. (len - 1)
    BY <1>1
  <2> QED BY <2>1, <1>6 DEF RingInv
<1>8. RingOK'
  <2>1. buf' \in [0 .. (cap' - 1) -> Values \cup {NoValue}]
    BY <1>1
  <2>2. len' \in 0 .. cap'
    BY <1>1
  <2> QED BY <2>1, <2>2, <1>1, <1>4, <1>7 DEF RingOK
<1>9. ASSUME NEW i \in 1 .. len'
      PROVE  Tail(items)[i] = buf'[(head' + i - 1) % cap']
  <2>1. i - 1 \in 0 .. (len - 2) /\ head' + (i - 1) = head' + i - 1
        /\ i \in 1 .. (len - 1) /\ i + 1 \in 1 .. len /\ (i - 1) + 1 = i
        /\ head + i = head + (i + 1) - 1
    BY <1>1, <1>4
  <2>2. buf'[(head' + i - 1) % cap'] = buf[(head + i) % cap]
    BY <2>1, <1>6
  <2>3. Tail(items)[i] = buf[(head + i) % cap]
    BY <2>1, <1>2, <1>3
  <2> QED BY <2>2, <2>3
<1> QED BY <1>3, <1>8, <1>9, ItemsNext

\* A cleared ring holds nothing.
LEMMA ClearRing ==
  ASSUME TypeOK, RingInv, head' = 0, len' = 0, cap' = cap,
         buf' = [i \in DOMAIN buf |-> NoValue]
  PROVE  RingOK' /\ items' = <<>>
<1>1. RingOK'
  BY DEF TypeOK, RingOK, RingInv
<1>2. <<>> \in Seq(Values) /\ Len(<<>>) = 0
  BY EmptySeq
<1>3. items' = <<>>
  <2>1. Len(<<>>) = len' /\ 1 .. len' = {}
    BY <1>2
  <2> QED BY <2>1, <1>1, <1>2, ItemsNext
<1> QED BY <1>1, <1>3

-----------------------------------------------------------------------------
(* The threads' calls.                                                     *)

\* What a thread does in one step.
Step(t) == PushStep(t) \/ PopStep(t) \/ AllStep(t) \/ CallStep(t)

\* The part of the invariant that is about the calls.
CallOK ==
  /\ pc \in [Threads -> Labels]
  /\ how \in [Threads -> {"block", "timed", "nb"}]
  /\ val \in [Threads -> Values \cup {NoValue}]
  /\ late \in [Threads -> BOOLEAN]
  /\ ret \in [Threads -> Values \cup Answers \cup {"busy"}]
  /\ CallInv

\* A call that ends has an answer ...
LEMMA ReturnOK ==
  ASSUME CallOK, NEW t \in Threads, NEW r \in Values \cup Answers, Return(t, r)
  PROVE  CallOK'
<1>1. r # "busy"
  BY ConstAssumption DEF Answers
<1>2. /\ pc' \in [Threads -> Labels]
      /\ how' \in [Threads -> {"block", "timed", "nb"}]
      /\ val' \in [Threads -> Values \cup {NoValue}]
      /\ late' \in [Threads -> BOOLEAN]
      /\ ret' \in [Threads -> Values \cup Answers \cup {"busy"}]
  BY DEF CallOK, Return, Goto, Labels
<1>3. CallInv'
  BY <1>1 DEF CallOK, CallInv, Return, Goto
<1> QED BY <1>2, <1>3 DEF CallOK

\* ... and one that goes on has none.
LEMMA GoOnOK ==
  ASSUME CallOK, NEW t \in Threads, NEW l \in Labels \ {"run"}, pc[t] # "run",
         l \in {"push", "push_timed", "push_parked"} => val[t] \in Values,
         Goto(t, l), late' \in [Threads -> BOOLEAN], UNCHANGED <<how, val, ret>>
  PROVE  CallOK'
BY DEF CallOK, CallInv, Goto

LEMMA CallStepOK ==
  ASSUME TypeOK, CallInv, RingInv, NEW t \in Threads, Step(t)
  PROVE  CallOK' /\ inject' \in [Threads -> BOOLEAN] /\ nraise' \in Nat /\ closed' \in BOOLEAN
<1>a. CallOK
  BY DEF TypeOK, CallOK
<1>b. ASSUME NEW r \in Values \cup Answers, Return(t, r) PROVE CallOK'
  BY <1>a, <1>b, ReturnOK
<1>c. ASSUME NEW l \in Labels \ {"run"}, pc[t] # "run",
             l \in {"push", "push_timed", "push_parked"} => val[t] \in Values,
             Goto(t, l), late' = late \/ late' = [late EXCEPT ![t] = FALSE],
             UNCHANGED <<how, val, ret>>
      PROVE  CallOK'
  <2>1. late' \in [Threads -> BOOLEAN]
    BY <1>a, <1>c DEF CallOK
  <2> QED BY <2>1, <1>a, <1>c, GoOnOK
<1>d. inject \in [Threads -> BOOLEAN] /\ nraise \in Nat /\ closed \in BOOLEAN
  BY DEF TypeOK
<1>e. [inject EXCEPT ![t] = FALSE] \in [Threads -> BOOLEAN]
  BY <1>d
<1> DEFINE Kept == inject' = inject /\ nraise' = nraise /\ closed' = closed
<1>f. ASSUME NEW r \in Answers, Refuse(t, r) PROVE CallOK' /\ Kept
  BY <1>b, <1>f DEF Refuse, raise
<1>g. ASSUME Fire(t)
      PROVE  CallOK' /\ inject' \in [Threads -> BOOLEAN] /\ nraise' = nraise /\ closed' = closed
  <2>1. CallOK'
    BY <1>b, <1>g DEF Fire, Answers
  <2> QED BY <2>1, <1>e, <1>g DEF Fire
<1>h. ASSUME NEW l \in Labels \ {"run"}, pc[t] # "run",
             l \in {"push", "push_timed", "push_parked"} => val[t] \in Values, Continue(t, l)
      PROVE  CallOK' /\ Kept
  BY <1>c, <1>h DEF Continue, raise
<1>i. ASSUME NEW l \in Labels \ {"run"}, pc[t] # "run",
             l \in {"push", "push_timed", "push_parked"} => val[t] \in Values, Park(t, l)
      PROVE  CallOK' /\ Kept
  BY <1>c, <1>i DEF Park, raise, call
<1>j. pc[t] \in {"push", "push_timed", "push_parked"} => val[t] \in Values
  BY DEF CallInv
<1>k. /\ {"ok", "nil", "raised", "ThreadError", "ClosedQueueError", "NoMemoryError"}
           \subseteq Answers
      /\ {"push", "push_timed", "push_parked", "pop", "pop_timed", "pop_parked"}
           \subseteq Labels \ {"run"}
      /\ {"clear", "clearing", "close", "close_pop", "close_push"} \subseteq Labels \ {"run"}
  BY DEF Answers, Labels
<1> HIDE DEF Kept
<1> USE DEF At
<1>1. CASE PushStore(t)
  BY <1>1, <1>b, <1>d, <1>k DEF PushStore, raise
<1>2. CASE PushGrowFails(t)
  BY <1>2, <1>d, <1>f, <1>k DEF PushGrowFails, Kept
<1>3. CASE PushClosed(t)
  BY <1>3, <1>d, <1>f, <1>k DEF PushClosed, Kept
<1>4. CASE PushWait(t)
  BY <1>4, <1>d, <1>f, <1>g, <1>h, <1>i, <1>j, <1>k DEF PushWait, Kept
<1>5. CASE PushTimedWait(t)
  BY <1>5, <1>d, <1>f, <1>g, <1>h, <1>i, <1>j, <1>k DEF PushTimedWait, Kept
<1>6. CASE PushWoken(t)
  BY <1>6, <1>d, <1>f, <1>g, <1>h, <1>j, <1>k DEF PushWoken, Kept
<1>7. CASE sp_queue_take(t)
  <2>1. buf[head] \in Values
    BY <1>7, ItemsSeq, TailList DEF sp_queue_take, TypeOK
  <2> QED BY <1>7, <2>1, <1>b, <1>d DEF sp_queue_take, raise
<1>8. CASE PopWait(t)
  BY <1>8, <1>d, <1>f, <1>g, <1>h, <1>i, <1>k DEF PopWait, Kept
<1>9. CASE PopTimedWait(t)
  BY <1>9, <1>d, <1>f, <1>g, <1>h, <1>i, <1>k DEF PopTimedWait, Kept
<1>10. CASE PopWoken(t)
  BY <1>10, <1>d, <1>f, <1>g, <1>h, <1>k DEF PopWoken, Kept
<1>11. CASE sp_Queue_clear(t)
  BY <1>11, <1>a, <1>d DEF sp_Queue_clear, TakeBatch, CallOK, CallInv, Goto, raise, call,
     Labels, Answers
<1>12. CASE ClearMore(t)
  BY <1>12, <1>a, <1>d DEF ClearMore, TakeBatch, CallOK, CallInv, Goto, raise, call,
     Labels, Answers
<1>13. CASE sp_Queue_close(t)
  BY <1>13, <1>a, <1>d DEF sp_Queue_close, TakeBatch, CallOK, CallInv, Goto, raise, call,
     Labels, Answers
<1>14. CASE CloseMorePoppers(t)
  BY <1>14, <1>a, <1>d DEF CloseMorePoppers, TakeBatch, CallOK, CallInv, Goto, raise,
     call, Labels, Answers
<1>15. CASE ClosePushers(t)
  BY <1>15, <1>a, <1>d DEF ClosePushers, TakeBatch, CallOK, CallInv, Goto, raise, call,
     Labels, Answers
<1>16. CASE CallPush(t)
  BY <1>16, <1>a, <1>d DEF CallPush, CallOK, CallInv, Goto, raise, call, Labels, Answers
<1>17. CASE CallPop(t)
  BY <1>17, <1>a, <1>d DEF CallPop, CallOK, CallInv, Goto, raise, call, Labels, Answers
<1>18. CASE CallClear(t)
  BY <1>18, <1>a, <1>d DEF CallClear, CallOther, CallOK, CallInv, Goto, raise, call,
     Labels, Answers
<1>19. CASE CallClose(t)
  BY <1>19, <1>a, <1>d DEF CallClose, CallOther, CallOK, CallInv, Goto, raise, call,
     Labels, Answers
<1>20. CASE Expire(t)
  BY <1>20, <1>a, <1>d DEF Expire, CallOK, CallInv, Goto, raise, call, Labels, Answers
<1>21. CASE sp_thread_deliver(t)
  BY <1>21, <1>a, <1>d DEF sp_thread_deliver, CallOK, CallInv, Goto, raise, call, Labels,
     Answers
<1>22. CASE FireRunning(t)
  BY <1>22, <1>a, <1>d DEF FireRunning, CallOK, CallInv, Goto, raise, call, Labels,
     Answers
<1> QED BY <1>1, <1>2, <1>3, <1>4, <1>5, <1>6, <1>7, <1>8, <1>9, <1>10, <1>11, <1>12,
           <1>13, <1>14, <1>15, <1>16, <1>17, <1>18, <1>19, <1>20, <1>21, <1>22
     DEF Step, PushStep, PopStep, AllStep, CallStep

-----------------------------------------------------------------------------
(* The lists.                                                              *)

\* The part of the invariant that is about the lists.
ListOK == pop_waiters \in Seq(Threads) /\ push_waiters \in Seq(Threads) /\ ParkInv

\* Taking the first n off.
LEMMA TakeList ==
  ASSUME NEW list \in Seq(Threads), IsInjective(list), NEW n \in Nat
  PROVE  /\ wl_take(list, n) \in Seq(Threads) /\ IsInjective(wl_take(list, n))
         /\ Range(wl_take(list, n)) \subseteq Range(list)
         /\ Len(list) <= n \/ list = <<>> => wl_take(list, n) = <<>>
<1>1. list = <<>> => Len(list) <= n
  BY EmptySeq
<1> QED BY <1>1, SuffixList DEF wl_take

\* Taking one off.
LEMMA TakeFirst ==
  ASSUME NEW list \in Seq(Threads), IsInjective(list)
  PROVE  /\ list = <<>> => wl_take(list, 1) = <<>>
         /\ list # <<>> => /\ wl_take(list, 1) = Tail(list)
                           /\ Head(list) \in Threads /\ Head(list) \in Range(list)
                           /\ Range(wl_take(list, 1)) = Range(list) \ {Head(list)}
<1>1. ASSUME list = <<>> PROVE wl_take(list, 1) = <<>>
  BY <1>1, TakeList
<1>2. ASSUME list # <<>> PROVE wl_take(list, 1) = Tail(list)
  <2>1. wl_take(list, 1) = SubSeq(list, 2, Len(list))
    BY DEF wl_take
  <2> QED BY <2>1, <1>2, TailIsSubSeq
<1>3. ASSUME list # <<>>
      PROVE  /\ Head(list) \in Threads /\ Head(list) \in Range(list)
             /\ Range(Tail(list)) = Range(list) \ {Head(list)}
  <2>1. /\ Head(list) \in Threads /\ Head(list) \in Range(list)
        /\ Range(list) = Range(Tail(list)) \cup {Head(list)}
        /\ Head(list) \notin Range(Tail(list))
    BY <1>3, TailList
  <2> QED BY <2>1
<1> QED BY <1>1, <1>2, <1>3

LEMMA ListedIs ==
  ASSUME pop_waiters \in Seq(Threads), push_waiters \in Seq(Threads), NEW t
  PROVE  Listed(t) <=> t \in Range(pop_waiters) \/ t \in Range(push_waiters)
BY ConcatList DEF Listed

\* A thread that is listed stays where it is parked, until it is taken off.
LEMMA ListStep ==
  ASSUME TypeOK, ParkInv, NEW t \in Threads, Step(t)
  PROVE  ListOK'
<1>a. /\ pop_waiters \in Seq(Threads) /\ push_waiters \in Seq(Threads)
      /\ IsInjective(pop_waiters) /\ IsInjective(push_waiters)
  BY DEF TypeOK, ParkInv
<1>b. pc \in [Threads -> Labels]
  BY DEF TypeOK
<1>c. /\ \A u \in Threads : /\ u \in Range(pop_waiters) => pc[u] = "pop_parked"
                            /\ u \in Range(push_waiters) => pc[u] = "push_parked"
      /\ ~ Listed(t) => t \notin Range(pop_waiters) /\ t \notin Range(push_waiters)
  BY <1>a, ListedIs DEF ParkInv
<1>d. ASSUME UNCHANGED lists, \E l \in Labels : Goto(t, l), t \notin Range(pop_waiters),
             t \notin Range(push_waiters)
      PROVE  ListOK'
  BY <1>a, <1>b, <1>c, <1>d DEF ListOK, ParkInv, lists, Goto
<1>e. ASSUME pop_waiters' = pop_waiters \/ \E n \in Nat : pop_waiters' = wl_take(pop_waiters, n),
             push_waiters' = push_waiters \/ \E n \in Nat : push_waiters' = wl_take(push_waiters, n),
             \E l \in Labels : Goto(t, l), t \notin Range(pop_waiters),
             t \notin Range(push_waiters)
      PROVE  ListOK'
  <2>1. /\ pop_waiters' \in Seq(Threads) /\ IsInjective(pop_waiters')
        /\ Range(pop_waiters') \subseteq Range(pop_waiters)
    <3>1. ASSUME NEW n \in Nat PROVE /\ wl_take(pop_waiters, n) \in Seq(Threads)
                                     /\ IsInjective(wl_take(pop_waiters, n))
                                     /\ Range(wl_take(pop_waiters, n)) \subseteq Range(pop_waiters)
      BY <1>a, TakeList
    <3> QED BY <3>1, <1>a, <1>e
  <2>2. /\ push_waiters' \in Seq(Threads) /\ IsInjective(push_waiters')
        /\ Range(push_waiters') \subseteq Range(push_waiters)
    <3>1. ASSUME NEW n \in Nat PROVE /\ wl_take(push_waiters, n) \in Seq(Threads)
                                     /\ IsInjective(wl_take(push_waiters, n))
                                     /\ Range(wl_take(push_waiters, n)) \subseteq Range(push_waiters)
      BY <1>a, TakeList
    <3> QED BY <3>1, <1>a, <1>e
  <2> QED BY <2>1, <2>2, <1>b, <1>c, <1>e DEF ListOK, ParkInv, Goto
<1> USE DEF At
<1>1. CASE PushStore(t)
  <2>1. /\ (pop_waiters' = pop_waiters \/ \E n \in Nat : pop_waiters' = wl_take(pop_waiters, n))
        /\ (push_waiters' = push_waiters \/ \E n \in Nat : push_waiters' = wl_take(push_waiters, n))
    BY <1>1, ConstAssumption DEF PushStore, lists
  <2>2. (\E l \in Labels : Goto(t, l)) /\ t \notin Range(pop_waiters) /\ t \notin Range(push_waiters)
    BY <1>1, <1>c DEF PushStore, TakeBatch, Return, Labels
  <2> QED BY <2>1, <2>2, <1>e
<1>2. CASE PushGrowFails(t)
  <2>1. UNCHANGED lists /\ (\E l \in Labels : Goto(t, l)) /\ t \notin Range(pop_waiters)
        /\ t \notin Range(push_waiters)
    BY <1>2, <1>c DEF PushGrowFails, Refuse, Return, Labels
  <2> QED BY <2>1, <1>d
<1>3. CASE PushClosed(t)
  <2>1. UNCHANGED lists /\ (\E l \in Labels : Goto(t, l)) /\ t \notin Range(pop_waiters)
        /\ t \notin Range(push_waiters)
    BY <1>3, <1>c DEF PushClosed, Refuse, Return, Labels
  <2> QED BY <2>1, <1>d
<1>4. CASE PushWait(t)
  <2>1. CASE ~ (push_waiters' = Append(push_waiters, t) /\ Park(t, "push_parked"))
    <3>1. UNCHANGED lists /\ (\E l \in Labels : Goto(t, l)) /\ t \notin Range(pop_waiters)
          /\ t \notin Range(push_waiters)
      BY <1>4, <2>1, <1>c DEF PushWait, Refuse, Continue, Fire, Park, Return, Labels
    <3> QED BY <3>1, <1>d
  <2>2. CASE push_waiters' = Append(push_waiters, t) /\ Park(t, "push_parked")
    <3>1. /\ pop_waiters' = pop_waiters /\ Goto(t, "push_parked")
          /\ t \notin Range(pop_waiters) /\ t \notin Range(push_waiters)
      BY <1>4, <2>2, <1>c DEF PushWait, Refuse, Continue, Fire, Park, Return, lists
    <3>2. /\ push_waiters' \in Seq(Threads) /\ IsInjective(push_waiters')
          /\ Range(push_waiters') = Range(push_waiters) \cup {t}
      BY <2>2, <3>1, <1>a, AppendList
    <3> QED BY <3>1, <3>2, <1>a, <1>b, <1>c DEF ListOK, ParkInv, Goto
  <2> QED BY <2>1, <2>2
<1>5. CASE PushTimedWait(t)
  <2>1. CASE ~ (push_waiters' = Append(push_waiters, t) /\ Park(t, "push_parked"))
    <3>1. UNCHANGED lists /\ (\E l \in Labels : Goto(t, l)) /\ t \notin Range(pop_waiters)
          /\ t \notin Range(push_waiters)
      BY <1>5, <2>1, <1>c DEF PushTimedWait, Refuse, Continue, Fire, Park, Return, Labels
    <3> QED BY <3>1, <1>d
  <2>2. CASE push_waiters' = Append(push_waiters, t) /\ Park(t, "push_parked")
    <3>1. /\ pop_waiters' = pop_waiters /\ Goto(t, "push_parked")
          /\ t \notin Range(pop_waiters) /\ t \notin Range(push_waiters)
      BY <1>5, <2>2, <1>c DEF PushTimedWait, Refuse, Continue, Fire, Park, Return, lists
    <3>2. /\ push_waiters' \in Seq(Threads) /\ IsInjective(push_waiters')
          /\ Range(push_waiters') = Range(push_waiters) \cup {t}
      BY <2>2, <3>1, <1>a, AppendList
    <3> QED BY <3>1, <3>2, <1>a, <1>b, <1>c DEF ListOK, ParkInv, Goto
  <2> QED BY <2>1, <2>2
<1>6. CASE PushWoken(t)
  <2>1. UNCHANGED lists /\ (\E l \in Labels : Goto(t, l)) /\ t \notin Range(pop_waiters)
        /\ t \notin Range(push_waiters)
    BY <1>6, <1>c DEF PushWoken, Refuse, Continue, Fire, Return, Labels
  <2> QED BY <2>1, <1>d
<1>7. CASE sp_queue_take(t)
  <2>1. /\ (pop_waiters' = pop_waiters \/ \E n \in Nat : pop_waiters' = wl_take(pop_waiters, n))
        /\ (push_waiters' = push_waiters \/ \E n \in Nat : push_waiters' = wl_take(push_waiters, n))
    BY <1>7, ConstAssumption DEF sp_queue_take, lists
  <2>2. (\E l \in Labels : Goto(t, l)) /\ t \notin Range(pop_waiters) /\ t \notin Range(push_waiters)
    BY <1>7, <1>c DEF sp_queue_take, TakeBatch, Return, Labels
  <2> QED BY <2>1, <2>2, <1>e
<1>8. CASE PopWait(t)
  <2>1. CASE ~ (pop_waiters' = Append(pop_waiters, t) /\ Park(t, "pop_parked"))
    <3>1. UNCHANGED lists /\ (\E l \in Labels : Goto(t, l)) /\ t \notin Range(pop_waiters)
          /\ t \notin Range(push_waiters)
      BY <1>8, <2>1, <1>c DEF PopWait, Refuse, Continue, Fire, Park, Return, Labels
    <3> QED BY <3>1, <1>d
  <2>2. CASE pop_waiters' = Append(pop_waiters, t) /\ Park(t, "pop_parked")
    <3>1. /\ push_waiters' = push_waiters /\ Goto(t, "pop_parked")
          /\ t \notin Range(pop_waiters) /\ t \notin Range(push_waiters)
      BY <1>8, <2>2, <1>c DEF PopWait, Refuse, Continue, Fire, Park, Return, lists
    <3>2. /\ pop_waiters' \in Seq(Threads) /\ IsInjective(pop_waiters')
          /\ Range(pop_waiters') = Range(pop_waiters) \cup {t}
      BY <2>2, <3>1, <1>a, AppendList
    <3> QED BY <3>1, <3>2, <1>a, <1>b, <1>c DEF ListOK, ParkInv, Goto
  <2> QED BY <2>1, <2>2
<1>9. CASE PopTimedWait(t)
  <2>1. CASE ~ (pop_waiters' = Append(pop_waiters, t) /\ Park(t, "pop_parked"))
    <3>1. UNCHANGED lists /\ (\E l \in Labels : Goto(t, l)) /\ t \notin Range(pop_waiters)
          /\ t \notin Range(push_waiters)
      BY <1>9, <2>1, <1>c DEF PopTimedWait, Refuse, Continue, Fire, Park, Return, Labels
    <3> QED BY <3>1, <1>d
  <2>2. CASE pop_waiters' = Append(pop_waiters, t) /\ Park(t, "pop_parked")
    <3>1. /\ push_waiters' = push_waiters /\ Goto(t, "pop_parked")
          /\ t \notin Range(pop_waiters) /\ t \notin Range(push_waiters)
      BY <1>9, <2>2, <1>c DEF PopTimedWait, Refuse, Continue, Fire, Park, Return, lists
    <3>2. /\ pop_waiters' \in Seq(Threads) /\ IsInjective(pop_waiters')
          /\ Range(pop_waiters') = Range(pop_waiters) \cup {t}
      BY <2>2, <3>1, <1>a, AppendList
    <3> QED BY <3>1, <3>2, <1>a, <1>b, <1>c DEF ListOK, ParkInv, Goto
  <2> QED BY <2>1, <2>2
<1>10. CASE PopWoken(t)
  <2>1. UNCHANGED lists /\ (\E l \in Labels : Goto(t, l)) /\ t \notin Range(pop_waiters)
        /\ t \notin Range(push_waiters)
    BY <1>10, <1>c DEF PopWoken, Refuse, Continue, Fire, Return, Labels
  <2> QED BY <2>1, <1>d
<1>11. CASE sp_Queue_clear(t)
  <2>1. /\ (pop_waiters' = pop_waiters \/ \E n \in Nat : pop_waiters' = wl_take(pop_waiters, n))
        /\ (push_waiters' = push_waiters \/ \E n \in Nat : push_waiters' = wl_take(push_waiters, n))
    BY <1>11, ConstAssumption DEF sp_Queue_clear, lists
  <2>2. (\E l \in Labels : Goto(t, l)) /\ t \notin Range(pop_waiters) /\ t \notin Range(push_waiters)
    BY <1>11, <1>c DEF sp_Queue_clear, TakeBatch, Return, Labels
  <2> QED BY <2>1, <2>2, <1>e
<1>12. CASE ClearMore(t)
  <2>1. /\ (pop_waiters' = pop_waiters \/ \E n \in Nat : pop_waiters' = wl_take(pop_waiters, n))
        /\ (push_waiters' = push_waiters \/ \E n \in Nat : push_waiters' = wl_take(push_waiters, n))
    BY <1>12, ConstAssumption DEF ClearMore, lists
  <2>2. (\E l \in Labels : Goto(t, l)) /\ t \notin Range(pop_waiters) /\ t \notin Range(push_waiters)
    BY <1>12, <1>c DEF ClearMore, TakeBatch, Return, Labels
  <2> QED BY <2>1, <2>2, <1>e
<1>13. CASE sp_Queue_close(t)
  <2>1. /\ (pop_waiters' = pop_waiters \/ \E n \in Nat : pop_waiters' = wl_take(pop_waiters, n))
        /\ (push_waiters' = push_waiters \/ \E n \in Nat : push_waiters' = wl_take(push_waiters, n))
    BY <1>13, ConstAssumption DEF sp_Queue_close, lists
  <2>2. (\E l \in Labels : Goto(t, l)) /\ t \notin Range(pop_waiters) /\ t \notin Range(push_waiters)
    BY <1>13, <1>c DEF sp_Queue_close, TakeBatch, Return, Labels
  <2> QED BY <2>1, <2>2, <1>e
<1>14. CASE CloseMorePoppers(t)
  <2>1. /\ (pop_waiters' = pop_waiters \/ \E n \in Nat : pop_waiters' = wl_take(pop_waiters, n))
        /\ (push_waiters' = push_waiters \/ \E n \in Nat : push_waiters' = wl_take(push_waiters, n))
    BY <1>14, ConstAssumption DEF CloseMorePoppers, lists
  <2>2. (\E l \in Labels : Goto(t, l)) /\ t \notin Range(pop_waiters) /\ t \notin Range(push_waiters)
    BY <1>14, <1>c DEF CloseMorePoppers, TakeBatch, Return, Labels
  <2> QED BY <2>1, <2>2, <1>e
<1>15. CASE ClosePushers(t)
  <2>1. /\ (pop_waiters' = pop_waiters \/ \E n \in Nat : pop_waiters' = wl_take(pop_waiters, n))
        /\ (push_waiters' = push_waiters \/ \E n \in Nat : push_waiters' = wl_take(push_waiters, n))
    BY <1>15, ConstAssumption DEF ClosePushers, lists
  <2>2. (\E l \in Labels : Goto(t, l)) /\ t \notin Range(pop_waiters) /\ t \notin Range(push_waiters)
    BY <1>15, <1>c DEF ClosePushers, TakeBatch, Return, Labels
  <2> QED BY <2>1, <2>2, <1>e
<1>16. CASE CallPush(t)
  <2>1. UNCHANGED lists /\ (\E l \in Labels : Goto(t, l)) /\ t \notin Range(pop_waiters)
        /\ t \notin Range(push_waiters)
    BY <1>16, <1>c DEF CallPush, Return, Labels
  <2> QED BY <2>1, <1>d
<1>17. CASE CallPop(t)
  <2>1. UNCHANGED lists /\ (\E l \in Labels : Goto(t, l)) /\ t \notin Range(pop_waiters)
        /\ t \notin Range(push_waiters)
    BY <1>17, <1>c DEF CallPop, Return, Labels
  <2> QED BY <2>1, <1>d
<1>18. CASE CallClear(t)
  <2>1. UNCHANGED lists /\ (\E l \in Labels : Goto(t, l)) /\ t \notin Range(pop_waiters)
        /\ t \notin Range(push_waiters)
    BY <1>18, <1>c DEF CallClear, CallOther, Return, Labels
  <2> QED BY <2>1, <1>d
<1>19. CASE CallClose(t)
  <2>1. UNCHANGED lists /\ (\E l \in Labels : Goto(t, l)) /\ t \notin Range(pop_waiters)
        /\ t \notin Range(push_waiters)
    BY <1>19, <1>c DEF CallClose, CallOther, Return, Labels
  <2> QED BY <2>1, <1>d
<1>20. CASE Expire(t)
  BY <1>20, <1>a, <1>c, RemoveFirstList DEF Expire, ListOK, ParkInv
<1>21. CASE sp_thread_deliver(t)
  BY <1>21, <1>a, <1>c, RemoveFirstList DEF sp_thread_deliver, ListOK, ParkInv
<1>22. CASE FireRunning(t)
  BY <1>22, <1>a, <1>c DEF FireRunning, ListOK, ParkInv, lists
<1> QED BY <1>1, <1>2, <1>3, <1>4, <1>5, <1>6, <1>7, <1>8, <1>9, <1>10, <1>11, <1>12,
           <1>13, <1>14, <1>15, <1>16, <1>17, <1>18, <1>19, <1>20, <1>21, <1>22
     DEF Step, PushStep, PopStep, AllStep, CallStep

-----------------------------------------------------------------------------
(* #close, #raise and the ring's growth.                                   *)

LEMMA RaiseStep ==
  ASSUME TypeOK, RaiseInv, NEW t \in Threads, Step(t)
  PROVE  RaiseInv'
<1>a. inject \in [Threads -> BOOLEAN] /\ nraise \in Nat
  BY DEF TypeOK
<1>b. UNCHANGED raise => RaiseInv'
  BY DEF RaiseInv, raise
<1>c. inject' = [inject EXCEPT ![t] = FALSE] /\ nraise' = nraise => RaiseInv'
  BY <1>a DEF RaiseInv
<1>1. CASE PushStore(t)
  BY <1>1, <1>b, <1>c DEF PushStore
<1>2. CASE PushGrowFails(t)
  BY <1>2, <1>b, <1>c DEF PushGrowFails, Refuse
<1>3. CASE PushClosed(t)
  BY <1>3, <1>b, <1>c DEF PushClosed, Refuse
<1>4. CASE PushWait(t)
  BY <1>4, <1>b, <1>c DEF PushWait, Refuse, Continue, Fire, Park
<1>5. CASE PushTimedWait(t)
  BY <1>5, <1>b, <1>c DEF PushTimedWait, Refuse, Continue, Fire, Park
<1>6. CASE PushWoken(t)
  BY <1>6, <1>b, <1>c DEF PushWoken, Refuse, Continue, Fire
<1>7. CASE sp_queue_take(t)
  BY <1>7, <1>b, <1>c DEF sp_queue_take
<1>8. CASE PopWait(t)
  BY <1>8, <1>b, <1>c DEF PopWait, Refuse, Continue, Fire, Park
<1>9. CASE PopTimedWait(t)
  BY <1>9, <1>b, <1>c DEF PopTimedWait, Refuse, Continue, Fire, Park
<1>10. CASE PopWoken(t)
  BY <1>10, <1>b, <1>c DEF PopWoken, Refuse, Continue, Fire
<1>11. CASE sp_Queue_clear(t)
  BY <1>11, <1>b, <1>c DEF sp_Queue_clear, TakeBatch
<1>12. CASE ClearMore(t)
  BY <1>12, <1>b, <1>c DEF ClearMore, TakeBatch
<1>13. CASE sp_Queue_close(t)
  BY <1>13, <1>b, <1>c DEF sp_Queue_close, TakeBatch
<1>14. CASE CloseMorePoppers(t)
  BY <1>14, <1>b, <1>c DEF CloseMorePoppers, TakeBatch
<1>15. CASE ClosePushers(t)
  BY <1>15, <1>b, <1>c DEF ClosePushers, TakeBatch
<1>16. CASE CallPush(t)
  BY <1>16, <1>b, <1>c DEF CallPush
<1>17. CASE CallPop(t)
  BY <1>17, <1>b, <1>c DEF CallPop
<1>18. CASE CallClear(t)
  BY <1>18, <1>b, <1>c DEF CallClear, CallOther
<1>19. CASE CallClose(t)
  BY <1>19, <1>b, <1>c DEF CallClose, CallOther
<1>20. CASE Expire(t)
  BY <1>20, <1>b, <1>c DEF Expire
<1>21. CASE sp_thread_deliver(t)
  BY <1>21, <1>a DEF sp_thread_deliver, RaiseInv
<1>22. CASE FireRunning(t)
  BY <1>22, <1>b, <1>c DEF FireRunning
<1> QED BY <1>1, <1>2, <1>3, <1>4, <1>5, <1>6, <1>7, <1>8, <1>9, <1>10, <1>11, <1>12,
           <1>13, <1>14, <1>15, <1>16, <1>17, <1>18, <1>19, <1>20, <1>21, <1>22
     DEF Step, PushStep, PopStep, AllStep, CallStep

\* A #close goes on until the lists are empty, and nobody parks after it.
LEMMA CloseStep ==
  ASSUME TypeOK, RingInv, CallInv, ParkInv, CloseInv, GrownInv, NEW t \in Threads, Step(t),
         max' = max
  PROVE  (CloseInv /\ GrownInv)'
<1>a. /\ cap \in Nat /\ len \in 0 .. cap /\ max \in Nat /\ max' = max /\ closed \in BOOLEAN
      /\ pop_waiters \in Seq(Threads) /\ push_waiters \in Seq(Threads)
      /\ IsInjective(pop_waiters) /\ IsInjective(push_waiters)
  BY ConstAssumption DEF TypeOK, ParkInv
<1>b. pc \in [Threads -> Labels]
  BY DEF TypeOK
<1>c. \A n \in Nat : /\ wl_take(pop_waiters, n) # <<>> => pop_waiters # <<>>
                     /\ wl_take(push_waiters, n) # <<>> => push_waiters # <<>>
  BY <1>a, TakeList
<1>d. ASSUME closed' = closed, cap' >= cap, cap' \in Nat,
             pop_waiters' # <<>> => pop_waiters # <<>>,
             push_waiters' # <<>> => push_waiters # <<>>,
             \A u \in Threads : pc[u] \in {"close_pop", "close_push"} => pc'[u] = pc[u]
      PROVE  (CloseInv /\ GrownInv)'
  BY <1>a, <1>d DEF CloseInv, GrownInv
<1>e. /\ Len(pop_waiters) < WakeBatch => wl_take(pop_waiters, WakeBatch) = <<>>
      /\ Len(push_waiters) < WakeBatch => wl_take(push_waiters, WakeBatch) = <<>>
  <2>1. \A n \in Nat : n < WakeBatch => n <= WakeBatch
    BY ConstAssumption
  <2>2. WakeBatch \in Nat /\ Len(pop_waiters) \in Nat /\ Len(push_waiters) \in Nat
    BY <1>a, ConstAssumption, LenProperties
  <2>3. Len(pop_waiters) < WakeBatch => wl_take(pop_waiters, WakeBatch) = <<>>
    BY <2>1, <2>2, <1>a, TakeList
  <2>4. Len(push_waiters) < WakeBatch => wl_take(push_waiters, WakeBatch) = <<>>
    BY <2>1, <2>2, <1>a, TakeList
  <2> QED BY <2>3, <2>4
<1>f. /\ RemoveFirst(pop_waiters, t) # <<>> => pop_waiters # <<>>
      /\ RemoveFirst(push_waiters, t) # <<>> => push_waiters # <<>>
  BY <1>a, RemoveFirstList, EmptyList
<1> USE DEF At
<1>1. CASE PushStore(t)
  <2>1. cap' >= cap /\ cap' \in Nat
    BY <1>1, StoreRing DEF PushStore, CallInv, RingOK
  <2>2. UNCHANGED closed /\ (pop_waiters' # <<>> => pop_waiters # <<>>)
        /\ (push_waiters' # <<>> => push_waiters # <<>>)
    BY <1>1, <1>c DEF PushStore
  <2>3. \A u \in Threads : pc[u] \in {"close_pop", "close_push"} => pc'[u] = pc[u]
    BY <1>1, <1>b DEF PushStore, Return, Goto
  <2> QED BY <2>1, <2>2, <2>3, <1>d
<1>2. CASE PushGrowFails(t)
  <2>1. UNCHANGED <<closed, cap, pop_waiters, push_waiters>>
    BY <1>2 DEF PushGrowFails, Refuse, ring, lists
  <2>2. \A u \in Threads : pc[u] \in {"close_pop", "close_push"} => pc'[u] = pc[u]
    BY <1>2, <1>b DEF PushGrowFails, Refuse, Return, Goto
  <2> QED BY <2>1, <2>2, <1>a, <1>d
<1>3. CASE PushClosed(t)
  <2>1. UNCHANGED <<closed, cap, pop_waiters, push_waiters>>
    BY <1>3 DEF PushClosed, Refuse, ring, lists
  <2>2. \A u \in Threads : pc[u] \in {"close_pop", "close_push"} => pc'[u] = pc[u]
    BY <1>3, <1>b DEF PushClosed, Refuse, Return, Goto
  <2> QED BY <2>1, <2>2, <1>a, <1>d
<1>4. CASE PushWait(t)
  <2>1. CASE UNCHANGED lists
    <3>1. UNCHANGED <<closed, cap>>
      BY <1>4, <2>1 DEF PushWait, Refuse, Continue, Fire, Park, ring
    <3>2. \A u \in Threads : pc[u] \in {"close_pop", "close_push"} => pc'[u] = pc[u]
      BY <1>4, <1>b DEF PushWait, Refuse, Continue, Fire, Park, Return, Goto
    <3> QED BY <2>1, <3>1, <3>2, <1>a, <1>d DEF lists
  <2>2. CASE ~ UNCHANGED lists
    <3>1. /\ ~ closed /\ closed' = closed /\ cap' = cap
          /\ push_waiters' = push_waiters \/ cap >= max
      BY <1>4, <2>2, <1>a DEF PushWait, Refuse, Continue, Fire, Park, sp_queue_has_room,
         sp_queue_has_item, lists, ring
    <3> QED BY <3>1, <1>a DEF CloseInv, GrownInv
  <2> QED BY <2>1, <2>2
<1>5. CASE PushTimedWait(t)
  <2>1. CASE UNCHANGED lists
    <3>1. UNCHANGED <<closed, cap>>
      BY <1>5, <2>1 DEF PushTimedWait, Refuse, Continue, Fire, Park, ring
    <3>2. \A u \in Threads : pc[u] \in {"close_pop", "close_push"} => pc'[u] = pc[u]
      BY <1>5, <1>b DEF PushTimedWait, Refuse, Continue, Fire, Park, Return, Goto
    <3> QED BY <2>1, <3>1, <3>2, <1>a, <1>d DEF lists
  <2>2. CASE ~ UNCHANGED lists
    <3>1. /\ ~ closed /\ closed' = closed /\ cap' = cap
          /\ push_waiters' = push_waiters \/ cap >= max
      BY <1>5, <2>2, <1>a DEF PushTimedWait, Refuse, Continue, Fire, Park,
         sp_queue_has_room, sp_queue_has_item, lists, ring
    <3> QED BY <3>1, <1>a DEF CloseInv, GrownInv
  <2> QED BY <2>1, <2>2
<1>6. CASE PushWoken(t)
  <2>1. UNCHANGED <<closed, cap, pop_waiters, push_waiters>>
    BY <1>6 DEF PushWoken, Refuse, Continue, Fire, ring, lists
  <2>2. \A u \in Threads : pc[u] \in {"close_pop", "close_push"} => pc'[u] = pc[u]
    BY <1>6, <1>b DEF PushWoken, Refuse, Continue, Fire, Return, Goto
  <2> QED BY <2>1, <2>2, <1>a, <1>d
<1>7. CASE sp_queue_take(t)
  <2>1. UNCHANGED closed /\ (pop_waiters' # <<>> => pop_waiters # <<>>)
        /\ (push_waiters' # <<>> => push_waiters # <<>>) /\ cap' = cap
    BY <1>7, <1>c, ConstAssumption DEF sp_queue_take, ring
  <2>2. \A u \in Threads : pc[u] \in {"close_pop", "close_push"} => pc'[u] = pc[u]
    BY <1>7, <1>b DEF sp_queue_take, TakeBatch, Return, Goto
  <2> QED BY <2>1, <2>2, <1>a, <1>d
<1>8. CASE PopWait(t)
  <2>1. CASE UNCHANGED lists
    <3>1. UNCHANGED <<closed, cap>>
      BY <1>8, <2>1 DEF PopWait, Refuse, Continue, Fire, Park, ring
    <3>2. \A u \in Threads : pc[u] \in {"close_pop", "close_push"} => pc'[u] = pc[u]
      BY <1>8, <1>b DEF PopWait, Refuse, Continue, Fire, Park, Return, Goto
    <3> QED BY <2>1, <3>1, <3>2, <1>a, <1>d DEF lists
  <2>2. CASE ~ UNCHANGED lists
    <3>1. /\ ~ closed /\ closed' = closed /\ cap' = cap
          /\ push_waiters' = push_waiters \/ cap >= max
      BY <1>8, <2>2, <1>a DEF PopWait, Refuse, Continue, Fire, Park, sp_queue_has_room,
         sp_queue_has_item, lists, ring
    <3> QED BY <3>1, <1>a DEF CloseInv, GrownInv
  <2> QED BY <2>1, <2>2
<1>9. CASE PopTimedWait(t)
  <2>1. CASE UNCHANGED lists
    <3>1. UNCHANGED <<closed, cap>>
      BY <1>9, <2>1 DEF PopTimedWait, Refuse, Continue, Fire, Park, ring
    <3>2. \A u \in Threads : pc[u] \in {"close_pop", "close_push"} => pc'[u] = pc[u]
      BY <1>9, <1>b DEF PopTimedWait, Refuse, Continue, Fire, Park, Return, Goto
    <3> QED BY <2>1, <3>1, <3>2, <1>a, <1>d DEF lists
  <2>2. CASE ~ UNCHANGED lists
    <3>1. /\ ~ closed /\ closed' = closed /\ cap' = cap
          /\ push_waiters' = push_waiters \/ cap >= max
      BY <1>9, <2>2, <1>a DEF PopTimedWait, Refuse, Continue, Fire, Park,
         sp_queue_has_room, sp_queue_has_item, lists, ring
    <3> QED BY <3>1, <1>a DEF CloseInv, GrownInv
  <2> QED BY <2>1, <2>2
<1>10. CASE PopWoken(t)
  <2>1. UNCHANGED <<closed, cap, pop_waiters, push_waiters>>
    BY <1>10 DEF PopWoken, Refuse, Continue, Fire, ring, lists
  <2>2. \A u \in Threads : pc[u] \in {"close_pop", "close_push"} => pc'[u] = pc[u]
    BY <1>10, <1>b DEF PopWoken, Refuse, Continue, Fire, Return, Goto
  <2> QED BY <2>1, <2>2, <1>a, <1>d
<1>11. CASE sp_Queue_clear(t)
  <2>1. UNCHANGED closed /\ (pop_waiters' # <<>> => pop_waiters # <<>>)
        /\ (push_waiters' # <<>> => push_waiters # <<>>) /\ cap' = cap
    BY <1>11, <1>c, ConstAssumption DEF sp_Queue_clear, ring
  <2>2. \A u \in Threads : pc[u] \in {"close_pop", "close_push"} => pc'[u] = pc[u]
    BY <1>11, <1>b DEF sp_Queue_clear, TakeBatch, Return, Goto
  <2> QED BY <2>1, <2>2, <1>a, <1>d
<1>12. CASE ClearMore(t)
  <2>1. UNCHANGED closed /\ (pop_waiters' # <<>> => pop_waiters # <<>>)
        /\ (push_waiters' # <<>> => push_waiters # <<>>) /\ cap' = cap
    BY <1>12, <1>c, ConstAssumption DEF ClearMore, ring
  <2>2. \A u \in Threads : pc[u] \in {"close_pop", "close_push"} => pc'[u] = pc[u]
    BY <1>12, <1>b DEF ClearMore, TakeBatch, Return, Goto
  <2> QED BY <2>1, <2>2, <1>a, <1>d
<1>13. CASE sp_Queue_close(t)
  BY <1>13, <1>a, <1>b, <1>c, <1>e, ConstAssumption DEF sp_Queue_close, TakeBatch, Goto,
     CloseInv, GrownInv, ring
<1>14. CASE CloseMorePoppers(t)
  BY <1>14, <1>a, <1>b, <1>c, <1>e, ConstAssumption DEF CloseMorePoppers, TakeBatch, Goto,
     CloseInv, GrownInv, ring
<1>15. CASE ClosePushers(t)
  BY <1>15, <1>a, <1>b, <1>c, <1>e, ConstAssumption DEF ClosePushers, TakeBatch, Goto,
     CloseInv, GrownInv, ring
<1>16. CASE CallPush(t)
  <2>1. UNCHANGED <<closed, cap, pop_waiters, push_waiters>>
    BY <1>16 DEF CallPush, ring, lists
  <2>2. \A u \in Threads : pc[u] \in {"close_pop", "close_push"} => pc'[u] = pc[u]
    BY <1>16, <1>b DEF CallPush, Return, Goto
  <2> QED BY <2>1, <2>2, <1>a, <1>d
<1>17. CASE CallPop(t)
  <2>1. UNCHANGED <<closed, cap, pop_waiters, push_waiters>>
    BY <1>17 DEF CallPop, ring, lists
  <2>2. \A u \in Threads : pc[u] \in {"close_pop", "close_push"} => pc'[u] = pc[u]
    BY <1>17, <1>b DEF CallPop, Return, Goto
  <2> QED BY <2>1, <2>2, <1>a, <1>d
<1>18. CASE CallClear(t)
  <2>1. UNCHANGED <<closed, cap, pop_waiters, push_waiters>>
    BY <1>18 DEF CallClear, CallOther, ring, lists
  <2>2. \A u \in Threads : pc[u] \in {"close_pop", "close_push"} => pc'[u] = pc[u]
    BY <1>18, <1>b DEF CallClear, CallOther, Return, Goto
  <2> QED BY <2>1, <2>2, <1>a, <1>d
<1>19. CASE CallClose(t)
  <2>1. UNCHANGED <<closed, cap, pop_waiters, push_waiters>>
    BY <1>19 DEF CallClose, CallOther, ring, lists
  <2>2. \A u \in Threads : pc[u] \in {"close_pop", "close_push"} => pc'[u] = pc[u]
    BY <1>19, <1>b DEF CallClose, CallOther, Return, Goto
  <2> QED BY <2>1, <2>2, <1>a, <1>d
<1>20. CASE Expire(t)
  BY <1>20, <1>a, <1>d, <1>f DEF Expire, ring
<1>21. CASE sp_thread_deliver(t)
  BY <1>21, <1>a, <1>d, <1>f DEF sp_thread_deliver, ring
<1>22. CASE FireRunning(t)
  BY <1>22, <1>a, <1>d DEF FireRunning, ring, lists
<1> QED BY <1>1, <1>2, <1>3, <1>4, <1>5, <1>6, <1>7, <1>8, <1>9, <1>10, <1>11, <1>12,
           <1>13, <1>14, <1>15, <1>16, <1>17, <1>18, <1>19, <1>20, <1>21, <1>22
     DEF Step, PushStep, PopStep, AllStep, CallStep

-----------------------------------------------------------------------------
(* Items and slots have takers.                                            *)

\* Who looks for an item, and who for a slot.
Seeks(t) == pc[t] = "pop" \/ (pc[t] = "pop_parked" /\ t \notin Range(pop_waiters))
Offers(t) == pc[t] = "push" \/ (pc[t] = "push_parked" /\ t \notin Range(push_waiters))

LEMMA TakersNow ==
  ASSUME ListOK
  PROVE  Poppers = {t \in Threads : Seeks(t)} /\ Pushers = {t \in Threads : Offers(t)}
<1>1. \A t \in Threads : Listed(t) <=> t \in Range(pop_waiters) \/ t \in Range(push_waiters)
  BY ListedIs DEF ListOK
<1> QED BY <1>1 DEF ListOK, ParkInv, Poppers, Pushers, Seeks, Offers, At

LEMMA TakersNext ==
  ASSUME ListOK'
  PROVE  Poppers' = {t \in Threads : Seeks(t)'} /\ Pushers' = {t \in Threads : Offers(t)'}
<1>1. \A t \in Threads : Listed(t)' <=> t \in Range(pop_waiters') \/ t \in Range(push_waiters')
  BY ConcatList DEF ListOK, Listed
<1> QED BY <1>1 DEF ListOK, ParkInv, Poppers, Pushers, Seeks, Offers, At

\* A step after which as many look, or one more, or one less.
LEMMA TakersMove ==
  ASSUME NEW S \in SUBSET Threads, NEW T \in SUBSET Threads
  PROVE  /\ Cardinality(S) \in Nat /\ Cardinality(T) \in Nat
         /\ S \subseteq T => Cardinality(S) <= Cardinality(T)
         /\ \A u \in T : S \subseteq T /\ u \notin S => Cardinality(S) < Cardinality(T)
         /\ \A u \in Threads : S \subseteq T \cup {u} => Cardinality(S) <= Cardinality(T) + 1
<1>1. IsFiniteSet(S) /\ IsFiniteSet(T) /\ Cardinality(S) \in Nat /\ Cardinality(T) \in Nat
  BY ConstAssumption, FS_Subset, FS_CardinalityType
<1>2. ASSUME S \subseteq T PROVE Cardinality(S) <= Cardinality(T)
  BY <1>1, <1>2, FS_Subset
<1>3. ASSUME NEW u \in T, S \subseteq T, u \notin S PROVE Cardinality(S) < Cardinality(T)
  BY <1>1, <1>3, FS_Subset
<1>4. ASSUME NEW u \in Threads, S \subseteq T \cup {u}
      PROVE  Cardinality(S) <= Cardinality(T) + 1
  <2>1. IsFiniteSet(T \cup {u})
        /\ (Cardinality(T \cup {u}) = Cardinality(T) \/ Cardinality(T \cup {u}) = Cardinality(T) + 1)
    BY <1>1, FS_AddElement
  <2>2. Cardinality(S) <= Cardinality(T \cup {u}) /\ Cardinality(T \cup {u}) \in Nat
    BY <2>1, <1>4, FS_Subset, FS_CardinalityType
  <2> QED BY <2>1, <2>2, <1>1
<1> QED BY <1>1, <1>2, <1>3, <1>4

\* A queue stays closed, and a #raise stays made.
LEMMA StaysSo ==
  ASSUME TypeOK, NEW t \in Threads, Step(t)
  PROVE  (closed => closed') /\ (nraise' = nraise \/ nraise' = nraise + 1)
<1> USE DEF raise
<1>1. CASE PushStore(t)
  BY <1>1 DEF PushStore
<1>2. CASE PushGrowFails(t)
  BY <1>2 DEF PushGrowFails, Refuse
<1>3. CASE PushClosed(t)
  BY <1>3 DEF PushClosed, Refuse
<1>4. CASE PushWait(t)
  BY <1>4 DEF PushWait, Refuse, Continue, Fire, Park
<1>5. CASE PushTimedWait(t)
  BY <1>5 DEF PushTimedWait, Refuse, Continue, Fire, Park
<1>6. CASE PushWoken(t)
  BY <1>6 DEF PushWoken, Refuse, Continue, Fire
<1>7. CASE sp_queue_take(t)
  BY <1>7 DEF sp_queue_take
<1>8. CASE PopWait(t)
  BY <1>8 DEF PopWait, Refuse, Continue, Fire, Park
<1>9. CASE PopTimedWait(t)
  BY <1>9 DEF PopTimedWait, Refuse, Continue, Fire, Park
<1>10. CASE PopWoken(t)
  BY <1>10 DEF PopWoken, Refuse, Continue, Fire
<1>11. CASE sp_Queue_clear(t)
  BY <1>11 DEF sp_Queue_clear, TakeBatch
<1>12. CASE ClearMore(t)
  BY <1>12 DEF ClearMore, TakeBatch
<1>13. CASE sp_Queue_close(t)
  BY <1>13 DEF sp_Queue_close, TakeBatch
<1>14. CASE CloseMorePoppers(t)
  BY <1>14 DEF CloseMorePoppers, TakeBatch
<1>15. CASE ClosePushers(t)
  BY <1>15 DEF ClosePushers, TakeBatch
<1>16. CASE CallPush(t)
  BY <1>16 DEF CallPush
<1>17. CASE CallPop(t)
  BY <1>17 DEF CallPop
<1>18. CASE CallClear(t)
  BY <1>18 DEF CallClear, CallOther
<1>19. CASE CallClose(t)
  BY <1>19 DEF CallClose, CallOther
<1>20. CASE Expire(t)
  BY <1>20 DEF Expire
<1>21. CASE sp_thread_deliver(t)
  BY <1>21 DEF sp_thread_deliver
<1>22. CASE FireRunning(t)
  BY <1>22 DEF FireRunning
<1> QED BY <1>1, <1>2, <1>3, <1>4, <1>5, <1>6, <1>7, <1>8, <1>9, <1>10, <1>11, <1>12,
           <1>13, <1>14, <1>15, <1>16, <1>17, <1>18, <1>19, <1>20, <1>21, <1>22
     DEF Step, PushStep, PopStep, AllStep, CallStep

\* While a popper is parked, as many look for an item as there are items.
LEMMA ItemsStep ==
  ASSUME TypeOK, CallInv, RingInv, ParkInv, RaiseInv, ItemsHaveTakersUnraised,
         NEW t \in Threads, Step(t), RingOK', ListOK'
  PROVE  ItemsHaveTakersUnraised'
<1>a. /\ len \in Nat /\ len' \in Nat /\ nraise \in Nat /\ closed \in BOOLEAN
      /\ pop_waiters \in Seq(Threads) /\ IsInjective(pop_waiters)
      /\ pop_waiters' \in Seq(Threads) /\ IsInjective(pop_waiters')
  BY DEF TypeOK, ParkInv, RingOK, ListOK
<1>b. pc \in [Threads -> Labels]
  BY DEF TypeOK
<1>c. \A u \in Threads : u \in Range(pop_waiters) => pc[u] = "pop_parked"
  BY DEF ParkInv
<1>d. /\ \A n \in Nat : /\ wl_take(pop_waiters, n) # <<>> => pop_waiters # <<>>
                        /\ Range(wl_take(pop_waiters, n)) \subseteq Range(pop_waiters)
      /\ RemoveFirst(pop_waiters, t) # <<>> => pop_waiters # <<>>
      /\ Range(RemoveFirst(pop_waiters, t)) = Range(pop_waiters) \ {t}
      /\ WakeBatch \in Nat
  <2>1. /\ RemoveFirst(pop_waiters, t) \in Seq(Threads)
        /\ Range(RemoveFirst(pop_waiters, t)) = Range(pop_waiters) \ {t}
    BY <1>a, RemoveFirstList
  <2>2. RemoveFirst(pop_waiters, t) # <<>> => pop_waiters # <<>>
    BY <2>1, <1>a, EmptyList
  <2> QED BY <2>1, <2>2, <1>a, TakeList, ConstAssumption
<1> DEFINE P == {u \in Threads : Seeks(u)}
           Q == {u \in Threads : Seeks(u)'}
<1>e. /\ Poppers = P /\ Poppers' = Q /\ Cardinality(P) \in Nat /\ Cardinality(Q) \in Nat
      /\ P \in SUBSET Threads /\ Q \in SUBSET Threads
  BY TakersNow, TakersNext, TakersMove DEF ListOK, TypeOK
<1>f. SUFFICES ASSUME nraise' = 0, pop_waiters' # <<>>, ~ closed'
               PROVE  len' <= Cardinality(Q)
  BY <1>e DEF ItemsHaveTakersUnraised, ItemsHaveTakers
<1>h. nraise = 0 /\ ~ closed /\ ~ inject[t]
  BY <1>a, <1>f, StaysSo DEF RaiseInv
<1>i. pop_waiters # <<>> => len <= Cardinality(P)
  BY <1>e, <1>h DEF ItemsHaveTakersUnraised, ItemsHaveTakers
<1>g. ASSUME pop_waiters # <<>>, len' <= len, P \subseteq Q
      PROVE  len' <= Cardinality(Q)
  <2>1. Cardinality(P) <= Cardinality(Q)
    BY <1>e, <1>g, TakersMove
  <2> QED BY <2>1, <1>a, <1>e, <1>g, <1>i
<1> USE DEF At
<1>1. CASE PushStore(t)
  <2>1. len' = len + 1 /\ pop_waiters' = wl_take(pop_waiters, 1)
    BY <1>1, StoreRing DEF PushStore, CallInv
  <2>2. pop_waiters # <<>>
    BY <2>1, <1>d, <1>f
  <2>3. /\ Head(pop_waiters) \in Threads /\ Head(pop_waiters) \in Range(pop_waiters)
        /\ Range(pop_waiters') = Range(pop_waiters) \ {Head(pop_waiters)}
    BY <2>1, <2>2, <1>a, TakeFirst
  <2>4. P \subseteq Q /\ Head(pop_waiters) \in Q /\ Head(pop_waiters) \notin P
    BY <1>1, <2>3, <1>b, <1>c DEF PushStore, Return, Goto, Seeks
  <2>5. Cardinality(P) < Cardinality(Q)
    BY <2>4, <1>e, TakersMove
  <2> QED BY <2>1, <2>2, <2>5, <1>a, <1>e, <1>i
<1>2. CASE PushGrowFails(t)
  <2>1. len' = len /\ (pop_waiters' # <<>> => pop_waiters # <<>>)
    BY <1>2, <1>d DEF PushGrowFails, Refuse, ring, lists
  <2>2. \A u \in Threads : Seeks(u) => Seeks(u)'
    BY <1>2, <1>b, <1>c, <1>d DEF PushGrowFails, Refuse, Return, Goto, Seeks, lists, call
  <2> QED BY <2>1, <2>2, <1>f, <1>g, <1>a
<1>3. CASE PushClosed(t)
  <2>1. len' = len /\ (pop_waiters' # <<>> => pop_waiters # <<>>)
    BY <1>3, <1>d DEF PushClosed, Refuse, ring, lists
  <2>2. \A u \in Threads : Seeks(u) => Seeks(u)'
    BY <1>3, <1>b, <1>c, <1>d DEF PushClosed, Refuse, Return, Goto, Seeks, lists, call
  <2> QED BY <2>1, <2>2, <1>f, <1>g, <1>a
<1>4. CASE PushWait(t)
  <2>1. len' = len /\ (pop_waiters' # <<>> => pop_waiters # <<>>)
    BY <1>4, <1>d DEF PushWait, Refuse, Continue, Fire, Park, ring, lists
  <2>2. \A u \in Threads : Seeks(u) => Seeks(u)'
    BY <1>4, <1>b, <1>c, <1>d DEF PushWait, Refuse, Continue, Fire, Park, Return, Goto,
       Seeks, lists, call
  <2> QED BY <2>1, <2>2, <1>f, <1>g, <1>a
<1>5. CASE PushTimedWait(t)
  <2>1. len' = len /\ (pop_waiters' # <<>> => pop_waiters # <<>>)
    BY <1>5, <1>d DEF PushTimedWait, Refuse, Continue, Fire, Park, ring, lists
  <2>2. \A u \in Threads : Seeks(u) => Seeks(u)'
    BY <1>5, <1>b, <1>c, <1>d DEF PushTimedWait, Refuse, Continue, Fire, Park, Return,
       Goto, Seeks, lists, call
  <2> QED BY <2>1, <2>2, <1>f, <1>g, <1>a
<1>6. CASE PushWoken(t)
  <2>1. len' = len /\ (pop_waiters' # <<>> => pop_waiters # <<>>)
    BY <1>6, <1>d DEF PushWoken, Refuse, Continue, Fire, ring, lists
  <2>2. \A u \in Threads : Seeks(u) => Seeks(u)'
    BY <1>6, <1>b, <1>c, <1>d DEF PushWoken, Refuse, Continue, Fire, Return, Goto, Seeks,
       lists, call
  <2> QED BY <2>1, <2>2, <1>f, <1>g, <1>a
<1>7. CASE sp_queue_take(t)
  <2>1. len' = len - 1 /\ pop_waiters' = pop_waiters
    BY <1>7 DEF sp_queue_take
  <2>2. P \subseteq Q \cup {t}
    BY <1>7, <2>1, <1>b DEF sp_queue_take, Return, Goto, Seeks
  <2>3. Cardinality(P) <= Cardinality(Q) + 1
    BY <2>2, <1>e, TakersMove
  <2> QED BY <2>1, <2>3, <1>a, <1>e, <1>f, <1>i
<1>8. CASE PopWait(t)
  <2>1. len' = 0
    BY <1>8, <1>a, <1>h DEF PopWait, Refuse, Continue, Fire, Park, ring, sp_queue_has_item
  <2> QED BY <2>1, <1>e
<1>9. CASE PopTimedWait(t)
  <2>1. CASE ~ Continue(t, "pop")
    <3>1. len' = 0
      BY <1>9, <2>1, <1>a, <1>h DEF PopTimedWait, Refuse, Fire, Park, ring,
         sp_queue_has_item
    <3> QED BY <3>1, <1>e
  <2>2. CASE Continue(t, "pop")
    <3>1. len' = len /\ pop_waiters' = pop_waiters
      BY <2>2 DEF Continue, ring, lists
    <3>2. \A u \in Threads : Seeks(u) => Seeks(u)'
      BY <2>2, <3>1, <1>b DEF Continue, Goto, Seeks
    <3> QED BY <3>1, <3>2, <1>f, <1>g, <1>a
  <2> QED BY <2>1, <2>2
<1>10. CASE PopWoken(t)
  <2>1. CASE ~ Continue(t, "pop")
    <3>1. len' = 0
      BY <1>10, <2>1, <1>a, <1>h DEF PopWoken, Refuse, Fire, Park, ring, sp_queue_has_item
    <3> QED BY <3>1, <1>e
  <2>2. CASE Continue(t, "pop")
    <3>1. len' = len /\ pop_waiters' = pop_waiters
      BY <2>2 DEF Continue, ring, lists
    <3>2. \A u \in Threads : Seeks(u) => Seeks(u)'
      BY <2>2, <3>1, <1>b DEF Continue, Goto, Seeks
    <3> QED BY <3>1, <3>2, <1>f, <1>g, <1>a
  <2> QED BY <2>1, <2>2
<1>11. CASE sp_Queue_clear(t)
  <2>1. len' = 0
    BY <1>11 DEF sp_Queue_clear
  <2> QED BY <2>1, <1>e
<1>12. CASE ClearMore(t)
  <2>1. len' = len /\ (pop_waiters' # <<>> => pop_waiters # <<>>)
    BY <1>12, <1>d DEF ClearMore, TakeBatch, ring, lists
  <2>2. \A u \in Threads : Seeks(u) => Seeks(u)'
    BY <1>12, <1>b, <1>c, <1>d DEF ClearMore, TakeBatch, Return, Goto, Seeks, lists, call
  <2> QED BY <2>1, <2>2, <1>f, <1>g, <1>a
<1>13. CASE sp_Queue_close(t)
  <2>1. len' = len /\ (pop_waiters' # <<>> => pop_waiters # <<>>)
    BY <1>13, <1>d DEF sp_Queue_close, TakeBatch, ring, lists
  <2>2. \A u \in Threads : Seeks(u) => Seeks(u)'
    BY <1>13, <1>b, <1>c, <1>d DEF sp_Queue_close, TakeBatch, Return, Goto, Seeks, lists,
       call
  <2> QED BY <2>1, <2>2, <1>f, <1>g, <1>a
<1>14. CASE CloseMorePoppers(t)
  <2>1. len' = len /\ (pop_waiters' # <<>> => pop_waiters # <<>>)
    BY <1>14, <1>d DEF CloseMorePoppers, TakeBatch, ring, lists
  <2>2. \A u \in Threads : Seeks(u) => Seeks(u)'
    BY <1>14, <1>b, <1>c, <1>d DEF CloseMorePoppers, TakeBatch, Return, Goto, Seeks,
       lists, call
  <2> QED BY <2>1, <2>2, <1>f, <1>g, <1>a
<1>15. CASE ClosePushers(t)
  <2>1. len' = len /\ (pop_waiters' # <<>> => pop_waiters # <<>>)
    BY <1>15, <1>d DEF ClosePushers, TakeBatch, ring, lists
  <2>2. \A u \in Threads : Seeks(u) => Seeks(u)'
    BY <1>15, <1>b, <1>c, <1>d DEF ClosePushers, TakeBatch, Return, Goto, Seeks, lists,
       call
  <2> QED BY <2>1, <2>2, <1>f, <1>g, <1>a
<1>16. CASE CallPush(t)
  <2>1. len' = len /\ (pop_waiters' # <<>> => pop_waiters # <<>>)
    BY <1>16, <1>d DEF CallPush, ring, lists
  <2>2. \A u \in Threads : Seeks(u) => Seeks(u)'
    BY <1>16, <1>b, <1>c, <1>d DEF CallPush, Return, Goto, Seeks, lists, call
  <2> QED BY <2>1, <2>2, <1>f, <1>g, <1>a
<1>17. CASE CallPop(t)
  <2>1. len' = len /\ (pop_waiters' # <<>> => pop_waiters # <<>>)
    BY <1>17, <1>d DEF CallPop, ring, lists
  <2>2. \A u \in Threads : Seeks(u) => Seeks(u)'
    BY <1>17, <1>b, <1>c, <1>d DEF CallPop, Return, Goto, Seeks, lists, call
  <2> QED BY <2>1, <2>2, <1>f, <1>g, <1>a
<1>18. CASE CallClear(t)
  <2>1. len' = len /\ (pop_waiters' # <<>> => pop_waiters # <<>>)
    BY <1>18, <1>d DEF CallClear, CallOther, ring, lists
  <2>2. \A u \in Threads : Seeks(u) => Seeks(u)'
    BY <1>18, <1>b, <1>c, <1>d DEF CallClear, CallOther, Return, Goto, Seeks, lists, call
  <2> QED BY <2>1, <2>2, <1>f, <1>g, <1>a
<1>19. CASE CallClose(t)
  <2>1. len' = len /\ (pop_waiters' # <<>> => pop_waiters # <<>>)
    BY <1>19, <1>d DEF CallClose, CallOther, ring, lists
  <2>2. \A u \in Threads : Seeks(u) => Seeks(u)'
    BY <1>19, <1>b, <1>c, <1>d DEF CallClose, CallOther, Return, Goto, Seeks, lists, call
  <2> QED BY <2>1, <2>2, <1>f, <1>g, <1>a
<1>20. CASE Expire(t)
  <2>1. len' = len /\ (pop_waiters' # <<>> => pop_waiters # <<>>)
    BY <1>20, <1>d DEF Expire, ring, lists
  <2>2. \A u \in Threads : Seeks(u) => Seeks(u)'
    BY <1>20, <1>b, <1>c, <1>d DEF Expire, Return, Goto, Seeks, lists, call
  <2> QED BY <2>1, <2>2, <1>f, <1>g, <1>a
<1>21. CASE sp_thread_deliver(t)
  <2>1. len' = len /\ (pop_waiters' # <<>> => pop_waiters # <<>>)
    BY <1>21, <1>d DEF sp_thread_deliver, ring, lists
  <2>2. \A u \in Threads : Seeks(u) => Seeks(u)'
    BY <1>21, <1>b, <1>c, <1>d DEF sp_thread_deliver, Return, Goto, Seeks, lists, call
  <2> QED BY <2>1, <2>2, <1>f, <1>g, <1>a
<1>22. CASE FireRunning(t)
  <2>1. len' = len /\ (pop_waiters' # <<>> => pop_waiters # <<>>)
    BY <1>22, <1>d DEF FireRunning, ring, lists
  <2>2. \A u \in Threads : Seeks(u) => Seeks(u)'
    BY <1>22, <1>b, <1>c, <1>d DEF FireRunning, Return, Goto, Seeks, lists, call
  <2> QED BY <2>1, <2>2, <1>f, <1>g, <1>a
<1> QED BY <1>1, <1>2, <1>3, <1>4, <1>5, <1>6, <1>7, <1>8, <1>9, <1>10, <1>11, <1>12,
           <1>13, <1>14, <1>15, <1>16, <1>17, <1>18, <1>19, <1>20, <1>21, <1>22
     DEF Step, PushStep, PopStep, AllStep, CallStep

\* While a pusher is parked, as many look for a slot as there are slots, or a
\* #clear is waking the rest.
LEMMA SlotsStep ==
  ASSUME TypeOK, CallInv, RingInv, ParkInv, RaiseInv, GrownInv, SlotsHaveTakers,
         NEW t \in Threads, Step(t), max' = max, RingOK', ListOK'
  PROVE  SlotsHaveTakers'
<1>a. /\ len \in 0 .. cap /\ cap \in Nat /\ len \in Nat /\ len' \in Nat /\ nraise \in Nat
      /\ closed \in BOOLEAN /\ max \in Nat /\ max' = max
      /\ push_waiters \in Seq(Threads) /\ IsInjective(push_waiters)
      /\ push_waiters' \in Seq(Threads) /\ IsInjective(push_waiters')
  BY ConstAssumption DEF TypeOK, ParkInv, RingOK, ListOK
<1>b. pc \in [Threads -> Labels]
  BY DEF TypeOK
<1>c. \A u \in Threads : u \in Range(push_waiters) => pc[u] = "push_parked"
  BY DEF ParkInv
<1>d. /\ \A n \in Nat : /\ wl_take(push_waiters, n) # <<>> => push_waiters # <<>>
                        /\ Range(wl_take(push_waiters, n)) \subseteq Range(push_waiters)
      /\ Len(push_waiters) < WakeBatch => wl_take(push_waiters, WakeBatch) = <<>>
      /\ RemoveFirst(push_waiters, t) # <<>> => push_waiters # <<>>
      /\ Range(RemoveFirst(push_waiters, t)) = Range(push_waiters) \ {t}
      /\ WakeBatch \in Nat
  <2>1. /\ RemoveFirst(push_waiters, t) \in Seq(Threads)
        /\ Range(RemoveFirst(push_waiters, t)) = Range(push_waiters) \ {t}
    BY <1>a, RemoveFirstList
  <2>2. RemoveFirst(push_waiters, t) # <<>> => push_waiters # <<>>
    BY <2>1, <1>a, EmptyList
  <2>3. /\ \A n \in Nat : n < WakeBatch => n <= WakeBatch
        /\ WakeBatch \in Nat /\ Len(push_waiters) \in Nat
    BY <1>a, ConstAssumption, LenProperties
  <2>4. Len(push_waiters) < WakeBatch => wl_take(push_waiters, WakeBatch) = <<>>
    BY <2>3, <1>a, TakeList
  <2> QED BY <2>1, <2>2, <2>3, <2>4, <1>a, TakeList
<1> DEFINE P == {u \in Threads : Offers(u)}
           Q == {u \in Threads : Offers(u)'}
<1>e. /\ Pushers = P /\ Pushers' = Q /\ Cardinality(P) \in Nat /\ Cardinality(Q) \in Nat
      /\ P \in SUBSET Threads /\ Q \in SUBSET Threads
  BY TakersNow, TakersNext, TakersMove DEF ListOK, TypeOK
<1>f. SUFFICES ASSUME nraise' = 0, push_waiters' # <<>>, ~ closed',
                      ~ \E u \in Threads : pc'[u] = "clearing"
               PROVE  max - len' <= Cardinality(Q)
  BY <1>a, <1>e DEF SlotsHaveTakers, Clearing, At
<1>h. nraise = 0 /\ ~ closed /\ ~ inject[t]
  BY <1>a, <1>f, StaysSo DEF RaiseInv
<1>i. push_waiters # <<>> /\ (\A u \in Threads : pc[u] = "clearing" => pc'[u] = "clearing")
        => max - len <= Cardinality(P)
  BY <1>e, <1>f, <1>h DEF SlotsHaveTakers, Clearing, At
<1>g. ASSUME push_waiters # <<>>, len' = len, P \subseteq Q,
             \A u \in Threads : pc[u] = "clearing" => pc'[u] = "clearing"
      PROVE  max - len' <= Cardinality(Q)
  <2>1. Cardinality(P) <= Cardinality(Q)
    BY <1>e, <1>g, TakersMove
  <2> QED BY <2>1, <1>a, <1>e, <1>g, <1>i
<1> USE DEF At
<1>1. CASE PushStore(t)
  <2>1. len' = len + 1 /\ push_waiters' = push_waiters
    BY <1>1, StoreRing DEF PushStore, CallInv
  <2>2. P \subseteq Q \cup {t} /\ \A u \in Threads : pc[u] = "clearing" => pc'[u] = "clearing"
    BY <1>1, <2>1, <1>b DEF PushStore, Return, Goto, Offers
  <2>3. Cardinality(P) <= Cardinality(Q) + 1
    BY <2>2, <1>e, TakersMove
  <2>4. max - len <= Cardinality(P)
    BY <2>1, <2>2, <1>f, <1>i
  <2> QED BY <2>1, <2>3, <2>4, <1>a, <1>e
<1>2. CASE PushGrowFails(t)
  <2>1. len' = len /\ len = cap /\ (max = 0 \/ len < max) /\ push_waiters # <<>>
    BY <1>2, <1>f, <1>h DEF PushGrowFails, Refuse, ring, lists, sp_queue_has_room
  <2>2. cap >= max
    BY <2>1 DEF GrownInv
  <2> QED BY <2>1, <2>2, <1>a, <1>e
<1>3. CASE PushClosed(t)
  BY <1>3, <1>h DEF PushClosed
<1>4. CASE PushWait(t)
  <2>1. len' = len /\ max # 0 /\ ~ (len < max)
    BY <1>4, <1>h DEF PushWait, Refuse, Continue, Fire, Park, ring, sp_queue_has_room
  <2> QED BY <2>1, <1>a, <1>e
<1>5. CASE PushTimedWait(t)
  <2>1. CASE ~ Continue(t, "push")
    <3>1. len' = len /\ max # 0 /\ ~ (len < max)
      BY <1>5, <2>1, <1>h DEF PushTimedWait, Refuse, Fire, Park, Continue, ring,
         sp_queue_has_room
    <3> QED BY <3>1, <1>a, <1>e
  <2>2. CASE Continue(t, "push")
    <3>1. len' = len /\ push_waiters' = push_waiters
      BY <2>2 DEF Continue, ring, lists
    <3>2. \A u \in Threads : /\ Offers(u) => Offers(u)'
                             /\ pc[u] = "clearing" => pc'[u] = "clearing"
      BY <1>5, <2>2, <3>1, <1>b DEF PushTimedWait, Continue, Goto, Offers
    <3> QED BY <3>1, <3>2, <1>f, <1>g
  <2> QED BY <2>1, <2>2
<1>6. CASE PushWoken(t)
  <2>1. CASE ~ Continue(t, "push")
    <3>1. len' = len /\ max # 0 /\ ~ (len < max)
      BY <1>6, <2>1, <1>h DEF PushWoken, Refuse, Fire, Park, Continue, ring,
         sp_queue_has_room
    <3> QED BY <3>1, <1>a, <1>e
  <2>2. CASE Continue(t, "push")
    <3>1. len' = len /\ push_waiters' = push_waiters
      BY <2>2 DEF Continue, ring, lists
    <3>2. \A u \in Threads : /\ Offers(u) => Offers(u)'
                             /\ pc[u] = "clearing" => pc'[u] = "clearing"
      BY <1>6, <2>2, <3>1, <1>b DEF PushWoken, Continue, Goto, Offers
    <3> QED BY <3>1, <3>2, <1>f, <1>g
  <2> QED BY <2>1, <2>2
<1>7. CASE sp_queue_take(t)
  <2>1. CASE max = 0
    BY <2>1, <1>a, <1>e
  <2>2. CASE max > 0
    <3>1. len' = len - 1 /\ push_waiters' = wl_take(push_waiters, 1)
      BY <1>7, <2>2 DEF sp_queue_take
    <3>2. push_waiters # <<>>
      BY <3>1, <1>d, <1>f
    <3>3. /\ Head(push_waiters) \in Threads /\ Head(push_waiters) \in Range(push_waiters)
          /\ Range(push_waiters') = Range(push_waiters) \ {Head(push_waiters)}
      BY <3>1, <3>2, <1>a, TakeFirst
    <3>4. /\ P \subseteq Q /\ Head(push_waiters) \in Q /\ Head(push_waiters) \notin P
          /\ \A u \in Threads : pc[u] = "clearing" => pc'[u] = "clearing"
      BY <1>7, <3>3, <1>b, <1>c DEF sp_queue_take, Return, Goto, Offers
    <3>5. Cardinality(P) < Cardinality(Q)
      BY <3>4, <1>e, TakersMove
    <3>6. max - len <= Cardinality(P)
      BY <3>2, <3>4, <1>i
    <3> QED BY <3>1, <3>5, <3>6, <1>a, <1>e
  <2> QED BY <2>1, <2>2, <1>a
<1>8. CASE PopWait(t)
  <2>1. len' = len /\ (push_waiters' # <<>> => push_waiters # <<>>)
    BY <1>8, <1>d DEF PopWait, Refuse, Continue, Fire, Park, ring, lists
  <2>2. \A u \in Threads : /\ Offers(u) => Offers(u)'
                           /\ pc[u] = "clearing" => pc'[u] = "clearing"
    BY <1>8, <1>b, <1>c, <1>d DEF PopWait, Refuse, Continue, Fire, Park, Return, Goto,
       Offers, lists, call
  <2> QED BY <2>1, <2>2, <1>f, <1>g
<1>9. CASE PopTimedWait(t)
  <2>1. len' = len /\ (push_waiters' # <<>> => push_waiters # <<>>)
    BY <1>9, <1>d DEF PopTimedWait, Refuse, Continue, Fire, Park, ring, lists
  <2>2. \A u \in Threads : /\ Offers(u) => Offers(u)'
                           /\ pc[u] = "clearing" => pc'[u] = "clearing"
    BY <1>9, <1>b, <1>c, <1>d DEF PopTimedWait, Refuse, Continue, Fire, Park, Return,
       Goto, Offers, lists, call
  <2> QED BY <2>1, <2>2, <1>f, <1>g
<1>10. CASE PopWoken(t)
  <2>1. len' = len /\ (push_waiters' # <<>> => push_waiters # <<>>)
    BY <1>10, <1>d DEF PopWoken, Refuse, Continue, Fire, ring, lists
  <2>2. \A u \in Threads : /\ Offers(u) => Offers(u)'
                           /\ pc[u] = "clearing" => pc'[u] = "clearing"
    BY <1>10, <1>b, <1>c, <1>d DEF PopWoken, Refuse, Continue, Fire, Return, Goto, Offers,
       lists, call
  <2> QED BY <2>1, <2>2, <1>f, <1>g
<1>11. CASE sp_Queue_clear(t)
  <2>1. CASE max = 0
    BY <1>11, <2>1, <1>e DEF sp_Queue_clear
  <2>2. CASE max > 0
    BY <1>11, <2>2, <1>b, <1>d, <1>f DEF sp_Queue_clear, TakeBatch, Goto
  <2> QED BY <2>1, <2>2, <1>a
<1>12. CASE ClearMore(t)
  BY <1>12, <1>b, <1>d, <1>f DEF ClearMore, TakeBatch, Goto
<1>13. CASE sp_Queue_close(t)
  <2>1. len' = len /\ (push_waiters' # <<>> => push_waiters # <<>>)
    BY <1>13, <1>d DEF sp_Queue_close, TakeBatch, ring, lists
  <2>2. \A u \in Threads : /\ Offers(u) => Offers(u)'
                           /\ pc[u] = "clearing" => pc'[u] = "clearing"
    BY <1>13, <1>b, <1>c, <1>d DEF sp_Queue_close, TakeBatch, Return, Goto, Offers, lists,
       call
  <2> QED BY <2>1, <2>2, <1>f, <1>g
<1>14. CASE CloseMorePoppers(t)
  <2>1. len' = len /\ (push_waiters' # <<>> => push_waiters # <<>>)
    BY <1>14, <1>d DEF CloseMorePoppers, TakeBatch, ring, lists
  <2>2. \A u \in Threads : /\ Offers(u) => Offers(u)'
                           /\ pc[u] = "clearing" => pc'[u] = "clearing"
    BY <1>14, <1>b, <1>c, <1>d DEF CloseMorePoppers, TakeBatch, Return, Goto, Offers,
       lists, call
  <2> QED BY <2>1, <2>2, <1>f, <1>g
<1>15. CASE ClosePushers(t)
  <2>1. len' = len /\ (push_waiters' # <<>> => push_waiters # <<>>)
    BY <1>15, <1>d DEF ClosePushers, TakeBatch, ring, lists
  <2>2. \A u \in Threads : /\ Offers(u) => Offers(u)'
                           /\ pc[u] = "clearing" => pc'[u] = "clearing"
    BY <1>15, <1>b, <1>c, <1>d DEF ClosePushers, TakeBatch, Return, Goto, Offers, lists,
       call
  <2> QED BY <2>1, <2>2, <1>f, <1>g
<1>16. CASE CallPush(t)
  <2>1. len' = len /\ (push_waiters' # <<>> => push_waiters # <<>>)
    BY <1>16, <1>d DEF CallPush, ring, lists
  <2>2. \A u \in Threads : /\ Offers(u) => Offers(u)'
                           /\ pc[u] = "clearing" => pc'[u] = "clearing"
    BY <1>16, <1>b, <1>c, <1>d DEF CallPush, Return, Goto, Offers, lists, call
  <2> QED BY <2>1, <2>2, <1>f, <1>g
<1>17. CASE CallPop(t)
  <2>1. len' = len /\ (push_waiters' # <<>> => push_waiters # <<>>)
    BY <1>17, <1>d DEF CallPop, ring, lists
  <2>2. \A u \in Threads : /\ Offers(u) => Offers(u)'
                           /\ pc[u] = "clearing" => pc'[u] = "clearing"
    BY <1>17, <1>b, <1>c, <1>d DEF CallPop, Return, Goto, Offers, lists, call
  <2> QED BY <2>1, <2>2, <1>f, <1>g
<1>18. CASE CallClear(t)
  <2>1. len' = len /\ (push_waiters' # <<>> => push_waiters # <<>>)
    BY <1>18, <1>d DEF CallClear, CallOther, ring, lists
  <2>2. \A u \in Threads : /\ Offers(u) => Offers(u)'
                           /\ pc[u] = "clearing" => pc'[u] = "clearing"
    BY <1>18, <1>b, <1>c, <1>d DEF CallClear, CallOther, Return, Goto, Offers, lists, call
  <2> QED BY <2>1, <2>2, <1>f, <1>g
<1>19. CASE CallClose(t)
  <2>1. len' = len /\ (push_waiters' # <<>> => push_waiters # <<>>)
    BY <1>19, <1>d DEF CallClose, CallOther, ring, lists
  <2>2. \A u \in Threads : /\ Offers(u) => Offers(u)'
                           /\ pc[u] = "clearing" => pc'[u] = "clearing"
    BY <1>19, <1>b, <1>c, <1>d DEF CallClose, CallOther, Return, Goto, Offers, lists, call
  <2> QED BY <2>1, <2>2, <1>f, <1>g
<1>20. CASE Expire(t)
  <2>1. len' = len /\ (push_waiters' # <<>> => push_waiters # <<>>)
    BY <1>20, <1>d DEF Expire, ring, lists
  <2>2. \A u \in Threads : /\ Offers(u) => Offers(u)'
                           /\ pc[u] = "clearing" => pc'[u] = "clearing"
    BY <1>20, <1>b, <1>c, <1>d DEF Expire, Return, Goto, Offers, lists, call
  <2> QED BY <2>1, <2>2, <1>f, <1>g
<1>21. CASE sp_thread_deliver(t)
  <2>1. len' = len /\ (push_waiters' # <<>> => push_waiters # <<>>)
    BY <1>21, <1>d DEF sp_thread_deliver, ring, lists
  <2>2. \A u \in Threads : /\ Offers(u) => Offers(u)'
                           /\ pc[u] = "clearing" => pc'[u] = "clearing"
    BY <1>21, <1>b, <1>c, <1>d DEF sp_thread_deliver, Return, Goto, Offers, lists, call
  <2> QED BY <2>1, <2>2, <1>f, <1>g
<1>22. CASE FireRunning(t)
  <2>1. len' = len /\ (push_waiters' # <<>> => push_waiters # <<>>)
    BY <1>22, <1>d DEF FireRunning, ring, lists
  <2>2. \A u \in Threads : /\ Offers(u) => Offers(u)'
                           /\ pc[u] = "clearing" => pc'[u] = "clearing"
    BY <1>22, <1>b, <1>c, <1>d DEF FireRunning, Return, Goto, Offers, lists, call
  <2> QED BY <2>1, <2>2, <1>f, <1>g
<1> QED BY <1>1, <1>2, <1>3, <1>4, <1>5, <1>6, <1>7, <1>8, <1>9, <1>10, <1>11, <1>12,
           <1>13, <1>14, <1>15, <1>16, <1>17, <1>18, <1>19, <1>20, <1>21, <1>22
     DEF Step, PushStep, PopStep, AllStep, CallStep

-----------------------------------------------------------------------------
(* The invariant.                                                          *)

LEMMA RingStep ==
  ASSUME TypeOK, RingInv, CallInv, NEW t \in Threads, Step(t)
  PROVE  RingOK'
<1>a. UNCHANGED ring => RingOK'
  BY DEF RingOK, TypeOK, RingInv, ring
<1>1. CASE PushStore(t)
  BY <1>1, StoreRing DEF PushStore, At, CallInv
<1>2. CASE PushGrowFails(t)
  BY <1>2, <1>a DEF PushGrowFails, Refuse
<1>3. CASE PushClosed(t)
  BY <1>3, <1>a DEF PushClosed, Refuse
<1>4. CASE PushWait(t)
  BY <1>4, <1>a DEF PushWait, Refuse, Continue, Fire, Park
<1>5. CASE PushTimedWait(t)
  BY <1>5, <1>a DEF PushTimedWait, Refuse, Continue, Fire, Park
<1>6. CASE PushWoken(t)
  BY <1>6, <1>a DEF PushWoken, Refuse, Continue, Fire
<1>7. CASE sp_queue_take(t)
  BY <1>7, TakeRing DEF sp_queue_take
<1>8. CASE PopWait(t)
  BY <1>8, <1>a DEF PopWait, Refuse, Continue, Fire, Park
<1>9. CASE PopTimedWait(t)
  BY <1>9, <1>a DEF PopTimedWait, Refuse, Continue, Fire, Park
<1>10. CASE PopWoken(t)
  BY <1>10, <1>a DEF PopWoken, Refuse, Continue, Fire
<1>11. CASE sp_Queue_clear(t)
  BY <1>11, ClearRing DEF sp_Queue_clear
<1>12. CASE ClearMore(t)
  BY <1>12, <1>a DEF ClearMore, TakeBatch
<1>13. CASE sp_Queue_close(t)
  BY <1>13, <1>a DEF sp_Queue_close, TakeBatch
<1>14. CASE CloseMorePoppers(t)
  BY <1>14, <1>a DEF CloseMorePoppers, TakeBatch
<1>15. CASE ClosePushers(t)
  BY <1>15, <1>a DEF ClosePushers, TakeBatch
<1>16. CASE CallPush(t)
  BY <1>16, <1>a DEF CallPush
<1>17. CASE CallPop(t)
  BY <1>17, <1>a DEF CallPop
<1>18. CASE CallClear(t)
  BY <1>18, <1>a DEF CallClear, CallOther
<1>19. CASE CallClose(t)
  BY <1>19, <1>a DEF CallClose, CallOther
<1>20. CASE Expire(t)
  BY <1>20, <1>a DEF Expire
<1>21. CASE sp_thread_deliver(t)
  BY <1>21, <1>a DEF sp_thread_deliver
<1>22. CASE FireRunning(t)
  BY <1>22, <1>a DEF FireRunning
<1> QED BY <1>1, <1>2, <1>3, <1>4, <1>5, <1>6, <1>7, <1>8, <1>9, <1>10, <1>11, <1>12,
           <1>13, <1>14, <1>15, <1>16, <1>17, <1>18, <1>19, <1>20, <1>21, <1>22
     DEF Step, PushStep, PopStep, AllStep, CallStep

LEMMA InitInv == Init => IInv
<1> SUFFICES ASSUME Init PROVE IInv
  OBVIOUS
<1>1. TypeOK
  <2>1. /\ cap \in Nat \ {0} /\ head \in 0 .. (cap - 1) /\ len \in 0 .. cap
        /\ buf \in [0 .. (cap - 1) -> Values \cup {NoValue}]
        /\ max \in Maxes /\ nraise \in Nat
    BY ConstAssumption DEF Init
  <2>2. pop_waiters \in Seq(Threads) /\ push_waiters \in Seq(Threads)
    BY EmptySeq DEF Init
  <2>3. /\ closed \in BOOLEAN
        /\ pc \in [Threads -> Labels]
        /\ how \in [Threads -> {"block", "timed", "nb"}]
        /\ val \in [Threads -> Values \cup {NoValue}]
        /\ late \in [Threads -> BOOLEAN] /\ inject \in [Threads -> BOOLEAN]
        /\ ret \in [Threads -> Values \cup Answers \cup {"busy"}]
    BY DEF Init, Labels, Answers
  <2> QED BY <2>1, <2>2, <2>3 DEF TypeOK
<1>2. CallInv /\ RingInv /\ CloseInv /\ RaiseInv /\ GrownInv
  BY ConstAssumption DEF Init, CallInv, RingInv, CloseInv, RaiseInv, GrownInv
<1>3. Range(<<>>) = {} /\ IsInjective(<<>>)
  BY <1>1, EmptyList DEF TypeOK
<1>4. ParkInv
  BY <1>3 DEF Init, ParkInv
<1>5. ItemsHaveTakersUnraised /\ SlotsHaveTakers
  BY DEF Init, ItemsHaveTakersUnraised, ItemsHaveTakers, SlotsHaveTakers
<1> QED BY <1>1, <1>2, <1>4, <1>5 DEF IInv

LEMMA NextInv == IInv /\ [Next]_vars => IInv'
<1> SUFFICES ASSUME IInv, [Next]_vars PROVE IInv'
  OBVIOUS
<1>1. CASE Next
  <2>1. PICK t \in Threads : Step(t) /\ max' = max
    BY <1>1 DEF Next, Step
  <2>2. CallOK' /\ inject' \in [Threads -> BOOLEAN] /\ nraise' \in Nat /\ closed' \in BOOLEAN
    BY <2>1, CallStepOK DEF IInv
  <2>3. RingOK'
    BY <2>1, RingStep DEF IInv
  <2>4. ListOK'
    BY <2>1, ListStep DEF IInv
  <2>5. RaiseInv'
    BY <2>1, RaiseStep DEF IInv
  <2>6. (CloseInv /\ GrownInv)'
    BY <2>1, CloseStep DEF IInv
  <2>7. ItemsHaveTakersUnraised'
    BY <2>1, <2>3, <2>4, ItemsStep DEF IInv
  <2>8. SlotsHaveTakers'
    BY <2>1, <2>3, <2>4, SlotsStep DEF IInv
  <2>9. max' \in Maxes
    BY <2>1 DEF IInv, TypeOK
  <2>10. TypeOK' /\ CallInv' /\ RingInv' /\ ParkInv'
    BY <2>2, <2>3, <2>4, <2>9 DEF TypeOK, CallOK, RingOK, ListOK
  <2> QED BY <2>5, <2>6, <2>7, <2>8, <2>10 DEF IInv
<1>2. CASE UNCHANGED vars
  BY <1>2 DEF vars, ring, lists, call, raise, IInv, TypeOK, CallInv, RingInv, ParkInv,
     CloseInv, RaiseInv, GrownInv, ItemsHaveTakersUnraised, ItemsHaveTakers,
     SlotsHaveTakers, Poppers, Pushers, Clearing, Listed, At
<1> QED BY <1>1, <1>2

\* The inductive invariant of the queue, its ring and its two lists holds throughout.
THEOREM Invariance == Spec => []IInv
BY InitInv, NextInv, PTL DEF Spec

\* The ring's indices stay inside it, whatever grows, wraps or is cleared.
THEOREM TypeCorrect == Spec => []TypeOK
<1>1. IInv => TypeOK
  BY DEF IInv
<1> QED BY Invariance, <1>1, PTL

\* Nobody is parked beside an item or a free slot that nobody comes for, nor on
\* a queue whose #close has ended.
THEOREM NobodyWaitsInVain == Spec => []NoneWaitsInVain
<1>1. IInv => NoneWaitsInVain
  BY DEF IInv, CloseInv, NoneWaitsInVain, ClosedIsEmptied
<1> QED BY Invariance, <1>1, PTL

-----------------------------------------------------------------------------
(* The queue is a FIFO.                                                    *)

\* A thread whose call has not taken effect.
Open(t) == pc[t] \notin {"run", "clearing", "close_pop", "close_push"}

\* A call that returns answers, ...
LEMMA ReturnAnswers ==
  ASSUME CallOK, NEW t \in Threads, NEW r, Open(t), Return(t, r)
  PROVE  answer[t] = "busy" /\ answer' = [answer EXCEPT ![t] = r]
<1>1. answer[t] = "busy"
  BY DEF CallOK, CallInv, Open, answer
<1>2. /\ pc \in [Threads -> Labels] /\ DOMAIN ret = Threads
      /\ pc' = [pc EXCEPT ![t] = "run"] /\ ret' = [ret EXCEPT ![t] = r]
  BY DEF CallOK, Return, Goto
<1>3. \A u \in Threads : answer'[u] = IF u = t THEN r ELSE answer[u]
  BY <1>2 DEF answer
<1>4. DOMAIN answer = Threads /\ answer' = [u \in Threads |-> answer'[u]]
  BY DEF answer
<1>5. [answer EXCEPT ![t] = r] = [u \in Threads |-> IF u = t THEN r ELSE answer[u]]
  BY <1>4
<1>6. answer' = [u \in Threads |-> IF u = t THEN r ELSE answer[u]]
  BY <1>3, <1>4
<1> QED BY <1>1, <1>5, <1>6

\* ... and one that goes on does not.
LEMMA GoOnSilent ==
  ASSUME CallOK, NEW t \in Threads, NEW l \in {"push", "push_timed", "push_parked", "pop",
                                               "pop_timed", "pop_parked"},
         Open(t), Goto(t, l), ret' = ret
  PROVE  answer' = answer
<1>1. \A u \in Threads : answer'[u] = answer[u]
  BY DEF CallOK, Open, answer, Goto
<1> QED BY <1>1 DEF answer

\* Each step is one of the FIFO's, or changes nothing a caller sees.
LEMMA StepRefines ==
  ASSUME IInv, NEW t \in Threads, Step(t), max' = max
  PROVE  [F!Next]_(F!vars)
<1>a. CallOK
  BY DEF IInv, TypeOK, CallOK
<1>b. max' = max
  OBVIOUS
<1>c. UNCHANGED ring => UNCHANGED items
  BY DEF items, ring
<1>d. /\ items = <<>> <=> len = 0
      /\ sp_queue_has_room /\ ~ closed => F!Room
      /\ ~ sp_queue_has_room => ~ closed /\ ~ F!Room
      /\ ~ sp_queue_has_item => ~ closed /\ items = <<>>
  <2>1. Len(items) = len /\ (items = <<>> <=> len = 0) /\ len \in Nat
    BY ItemsSeq DEF IInv, TypeOK
  <2> QED BY <2>1 DEF F!Room, sp_queue_has_room, sp_queue_has_item
<1>e. ASSUME Open(t), Fire(t) PROVE [F!Next]_(F!vars)
  <2>1. answer[t] = "busy" /\ answer' = [answer EXCEPT ![t] = "raised"]
    BY <1>a, <1>e, ReturnAnswers DEF Fire
  <2>2. UNCHANGED <<items, closed>>
    BY <1>c, <1>e DEF Fire
  <2> QED BY <2>1, <2>2, <1>b DEF F!Next, F!Refused, F!Answer
<1>f. ASSUME Open(t), NEW r, Refuse(t, r),
             \/ closed /\ r = "ClosedQueueError"
             \/ items = <<>> /\ r = "nil"
             \/ ~ closed /\ (items = <<>> \/ ~ F!Room) /\ r = "ThreadError"
             \/ ~ closed /\ ~ F!Room /\ r = "nil"
             \/ r = "NoMemoryError"
      PROVE  [F!Next]_(F!vars)
  <2>1. answer[t] = "busy" /\ answer' = [answer EXCEPT ![t] = r]
    BY <1>a, <1>f, ReturnAnswers DEF Refuse
  <2>2. UNCHANGED <<items, closed>>
    BY <1>c, <1>f DEF Refuse
  <2>3. F!Refused(t)
    BY <2>1, <2>2, <1>f DEF F!Refused, F!Answer
  <2> QED BY <2>3, <1>b DEF F!Next
<1>g. ASSUME Open(t), NEW l \in {"push", "push_timed", "push_parked", "pop", "pop_timed",
                                 "pop_parked"}, Continue(t, l) \/ Park(t, l)
      PROVE  [F!Next]_(F!vars)
  <2>1. answer' = answer
    BY <1>a, <1>g, GoOnSilent DEF Continue, Park
  <2>2. UNCHANGED <<items, closed>>
    BY <1>c, <1>g DEF Continue, Park
  <2> QED BY <2>1, <2>2, <1>b DEF F!vars
<1>h. DOMAIN answer = Threads /\ answer' = [u \in Threads |-> answer'[u]]
  BY DEF answer
<1>i. (\A u \in Threads : answer'[u] = answer[u]) => answer' = answer
  BY DEF answer
<1> USE DEF At
<1>1. CASE PushStore(t)
  <2>1. val[t] \in Values
    BY <1>1 DEF PushStore, IInv, CallInv
  <2>2. items' = Append(items, val[t])
    BY <1>1, <2>1, StoreRing DEF PushStore, IInv
  <2>3. answer[t] = "busy" /\ answer' = [answer EXCEPT ![t] = "ok"]
    BY <1>1, <1>a, ReturnAnswers DEF PushStore, Open
  <2>4. F!Push(t, val[t])
    BY <1>1, <2>2, <2>3, <1>d DEF PushStore, F!Push, F!Answer
  <2> QED BY <2>1, <2>4, <1>b DEF F!Next
<1>2. CASE PushGrowFails(t)
  BY <1>2, <1>f DEF PushGrowFails, Open
<1>3. CASE PushClosed(t)
  BY <1>3, <1>f DEF PushClosed, Open
<1>4. CASE PushWait(t)
  BY <1>4, <1>d, <1>e, <1>f, <1>g DEF PushWait, Open
<1>5. CASE PushTimedWait(t)
  BY <1>5, <1>d, <1>e, <1>f, <1>g DEF PushTimedWait, Open
<1>6. CASE PushWoken(t)
  BY <1>6, <1>d, <1>e, <1>f, <1>g DEF PushWoken, Open
<1>7. CASE sp_queue_take(t)
  <2>1. items' = Tail(items) /\ Head(items) = buf[head] /\ items # <<>>
    BY <1>7, TakeRing, ItemsSeq DEF sp_queue_take, IInv, TypeOK
  <2>2. answer[t] = "busy" /\ answer' = [answer EXCEPT ![t] = buf[head]]
    BY <1>7, <1>a, ReturnAnswers DEF sp_queue_take, Open
  <2>3. F!Pop(t)
    BY <1>7, <2>1, <2>2 DEF sp_queue_take, F!Pop, F!Answer
  <2> QED BY <2>3, <1>b DEF F!Next
<1>8. CASE PopWait(t)
  BY <1>8, <1>d, <1>e, <1>f, <1>g DEF PopWait, Open
<1>9. CASE PopTimedWait(t)
  BY <1>9, <1>d, <1>e, <1>f, <1>g DEF PopTimedWait, Open
<1>10. CASE PopWoken(t)
  BY <1>10, <1>d, <1>e, <1>f, <1>g DEF PopWoken, Open
<1>11. CASE sp_Queue_clear(t)
  <2>1. items' = <<>> /\ closed' = closed
    BY <1>11, ClearRing DEF sp_Queue_clear, IInv
  <2>2. answer[t] = "busy"
    BY <1>11, <1>a DEF sp_Queue_clear, CallOK, CallInv, answer
  <2>3. \A u \in Threads : answer'[u] = IF u = t THEN "ok" ELSE answer[u]
    BY <1>11, <1>a DEF sp_Queue_clear, TakeBatch, Goto, CallOK, answer
  <2>4. answer' = [answer EXCEPT ![t] = "ok"]
    BY <2>3, <1>h
  <2> QED BY <2>1, <2>2, <2>4, <1>b DEF F!Next, F!Clear, F!Answer
<1>12. CASE ClearMore(t)
  <2>1. UNCHANGED <<items, closed>>
    BY <1>12, <1>c DEF ClearMore, TakeBatch
  <2>2. \A u \in Threads : answer'[u] = answer[u]
    BY <1>12, <1>a DEF ClearMore, TakeBatch, Goto, CallOK, answer
  <2> QED BY <2>1, <2>2, <1>b, <1>i DEF F!vars
<1>13. CASE sp_Queue_close(t)
  <2>1. UNCHANGED items /\ closed' = TRUE
    BY <1>13, <1>c DEF sp_Queue_close
  <2>2. answer[t] = "busy"
    BY <1>13, <1>a DEF sp_Queue_close, CallOK, CallInv, answer
  <2>3. \A u \in Threads : answer'[u] = IF u = t THEN "ok" ELSE answer[u]
    BY <1>13, <1>a DEF sp_Queue_close, TakeBatch, Goto, CallOK, answer
  <2>4. answer' = [answer EXCEPT ![t] = "ok"]
    BY <2>3, <1>h
  <2> QED BY <2>1, <2>2, <2>4, <1>b DEF F!Next, F!Close, F!Answer
<1>14. CASE CloseMorePoppers(t)
  <2>1. UNCHANGED <<items, closed>>
    BY <1>14, <1>c DEF CloseMorePoppers, TakeBatch
  <2>2. \A u \in Threads : answer'[u] = answer[u]
    BY <1>14, <1>a DEF CloseMorePoppers, TakeBatch, Goto, CallOK, answer
  <2> QED BY <2>1, <2>2, <1>b, <1>i DEF F!vars
<1>15. CASE ClosePushers(t)
  <2>1. UNCHANGED <<items, closed>>
    BY <1>15, <1>c DEF ClosePushers, TakeBatch
  <2>2. \A u \in Threads : answer'[u] = answer[u]
    BY <1>15, <1>a DEF ClosePushers, TakeBatch, Goto, CallOK, answer
  <2> QED BY <2>1, <2>2, <1>b, <1>i DEF F!vars
<1>16. CASE CallPush(t)
  <2>1. UNCHANGED <<items, closed>>
    BY <1>16, <1>c DEF CallPush
  <2>2. answer[t] # "busy" /\ answer' = [answer EXCEPT ![t] = "busy"]
    BY <1>16, <1>a, <1>h DEF CallPush, Goto, CallOK, CallInv, answer
  <2> QED BY <2>1, <2>2, <1>b DEF F!Next, F!Call
<1>17. CASE CallPop(t)
  <2>1. UNCHANGED <<items, closed>>
    BY <1>17, <1>c DEF CallPop
  <2>2. answer[t] # "busy" /\ answer' = [answer EXCEPT ![t] = "busy"]
    BY <1>17, <1>a, <1>h DEF CallPop, Goto, CallOK, CallInv, answer
  <2> QED BY <2>1, <2>2, <1>b DEF F!Next, F!Call
<1>18. CASE CallClear(t)
  <2>1. UNCHANGED <<items, closed>>
    BY <1>18, <1>c DEF CallClear, CallOther
  <2>2. answer[t] # "busy" /\ answer' = [answer EXCEPT ![t] = "busy"]
    BY <1>18, <1>a, <1>h DEF CallClear, CallOther, Goto, CallOK, CallInv, answer
  <2> QED BY <2>1, <2>2, <1>b DEF F!Next, F!Call
<1>19. CASE CallClose(t)
  <2>1. UNCHANGED <<items, closed>>
    BY <1>19, <1>c DEF CallClose, CallOther
  <2>2. answer[t] # "busy" /\ answer' = [answer EXCEPT ![t] = "busy"]
    BY <1>19, <1>a, <1>h DEF CallClose, CallOther, Goto, CallOK, CallInv, answer
  <2> QED BY <2>1, <2>2, <1>b DEF F!Next, F!Call
<1>20. CASE Expire(t)
  <2>1. UNCHANGED <<items, closed>>
    BY <1>20, <1>c DEF Expire
  <2>2. \A u \in Threads : answer'[u] = answer[u]
    BY <1>20, <1>a DEF Expire, Goto, CallOK, answer
  <2> QED BY <2>1, <2>2, <1>b, <1>i DEF F!vars
<1>21. CASE sp_thread_deliver(t)
  <2>1. UNCHANGED <<items, closed>>
    BY <1>21, <1>c DEF sp_thread_deliver
  <2>2. \A u \in Threads : answer'[u] = answer[u]
    BY <1>21, <1>a DEF sp_thread_deliver, Goto, CallOK, answer
  <2> QED BY <2>1, <2>2, <1>b, <1>i DEF F!vars
<1>22. CASE FireRunning(t)
  <2>1. UNCHANGED <<items, closed>>
    BY <1>22, <1>c DEF FireRunning
  <2>2. \A u \in Threads : answer'[u] = answer[u]
    BY <1>22, <1>a DEF FireRunning, Goto, CallOK, answer
  <2> QED BY <2>1, <2>2, <1>b, <1>i DEF F!vars
<1> QED BY <1>1, <1>2, <1>3, <1>4, <1>5, <1>6, <1>7, <1>8, <1>9, <1>10, <1>11, <1>12,
           <1>13, <1>14, <1>15, <1>16, <1>17, <1>18, <1>19, <1>20, <1>21, <1>22
     DEF Step, PushStep, PopStep, AllStep, CallStep

\* The queue's detailed specification implements the FIFO: whatever pushes, pops,
\* timeouts, clears and closes meet, each takes effect once, at one moment.
THEOREM QueueIsFifo == Spec => IsFifo
<1>1. Init => F!Init
  <2> SUFFICES ASSUME Init PROVE F!Init
    OBVIOUS
  <2>1. items = <<>>
    BY InitInv, ItemsSeq DEF IInv, Init
  <2>2. answer = [t \in Threads |-> "ok"]
    BY DEF Init, answer
  <2> QED BY <2>1, <2>2, ConstAssumption DEF Init, F!Init
<1>2. IInv /\ [Next]_vars => [F!Next]_(F!vars)
  <2> SUFFICES ASSUME IInv, [Next]_vars PROVE [F!Next]_(F!vars)
    OBVIOUS
  <2>1. CASE Next
    <3>1. PICK t \in Threads : Step(t) /\ max' = max
      BY <2>1 DEF Next, Step
    <3> QED BY <3>1, StepRefines
  <2>2. CASE UNCHANGED vars
    BY <2>2 DEF vars, ring, F!vars, items, answer
  <2> QED BY <2>1, <2>2
<1> QED BY Invariance, <1>1, <1>2, PTL DEF Spec, IsFifo, F!Spec
=============================================================================
