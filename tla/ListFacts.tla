------------------------------ MODULE ListFacts ------------------------------
(***************************************************************************)
(* Facts about sequences without repetition.  The scheduler's wait lists   *)
(* and run queues are such sequences: a thread has one link (wait_next,    *)
(* rq_next) and is on a list once.                                         *)
(***************************************************************************)
EXTENDS Integers, Sequences, SequencesExt, SequenceTheorems, TLAPS

\* A list is empty when nobody is on it.
LEMMA EmptyList ==
  ASSUME NEW S, NEW s \in Seq(S)
  PROVE  /\ Range(s) \subseteq S
         /\ s = <<>> <=> Range(s) = {}
         /\ s # <<>> => Head(s) \in Range(s)
         /\ Range(<<>>) = {} /\ IsInjective(<<>>) /\ <<>> \in Seq(S)
<1>1. DOMAIN s = 1 .. Len(s) /\ Len(s) \in Nat /\ \A i \in 1 .. Len(s) : s[i] \in S
  BY LenProperties
<1>2. s # <<>> => Len(s) # 0
  BY <1>1, EmptySeq
<1>3. s # <<>> => 1 \in DOMAIN s /\ Head(s) = s[1]
  BY <1>1, <1>2
<1>4. Range(s) \subseteq S
  BY <1>1 DEF Range
<1>5. s # <<>> => Head(s) \in Range(s)
  BY <1>3 DEF Range
<1>6. Range(<<>>) = {} /\ IsInjective(<<>>) /\ <<>> \in Seq(S)
  BY EmptySeq DEF Range, IsInjective
<1> QED BY <1>4, <1>5, <1>6

\* A thread goes on a list, behind the others ...
LEMMA AppendList ==
  ASSUME NEW S, NEW s \in Seq(S), NEW e \in S
  PROVE  /\ Append(s, e) \in Seq(S)
         /\ Range(Append(s, e)) = Range(s) \cup {e}
         /\ IsInjective(s) /\ e \notin Range(s) => IsInjective(Append(s, e))
<1> DEFINE a == Append(s, e)
<1>1. /\ a \in Seq(S) /\ Len(a) = Len(s) + 1
      /\ \A i \in 1 .. Len(s) : a[i] = s[i]
      /\ a[Len(s) + 1] = e
  BY AppendProperties
<1>2. DOMAIN s = 1 .. Len(s) /\ DOMAIN a = 1 .. (Len(s) + 1) /\ Len(s) \in Nat
  BY <1>1, LenProperties
<1> HIDE DEF a
<1>3. \A i \in DOMAIN a : i \in DOMAIN s \/ i = Len(s) + 1
  BY <1>2
<1>4. Range(a) = Range(s) \cup {e}
  <2>1. Range(a) \subseteq Range(s) \cup {e}
    BY <1>1, <1>2, <1>3 DEF Range
  <2>2. Range(s) \subseteq Range(a)
    BY <1>1, <1>2 DEF Range
  <2>3. e \in Range(a)
    BY <1>1, <1>2 DEF Range
  <2> QED BY <2>1, <2>2, <2>3
<1>5. IsInjective(s) /\ e \notin Range(s) => IsInjective(a)
  BY <1>1, <1>2, <1>3 DEF IsInjective, Range
<1> QED BY <1>1, <1>4, <1>5 DEF a

\* ... or before them.
LEMMA ConsList ==
  ASSUME NEW S, NEW s \in Seq(S), NEW e \in S
  PROVE  /\ <<e>> \o s \in Seq(S)
         /\ Range(<<e>> \o s) = Range(s) \cup {e}
         /\ IsInjective(s) /\ e \notin Range(s) => IsInjective(<<e>> \o s)
<1> DEFINE a == <<e>> \o s
<1>1. <<e>> \in Seq(S) /\ Len(<<e>>) = 1 /\ <<e>>[1] = e
  OBVIOUS
<1>2. DOMAIN s = 1 .. Len(s) /\ Len(s) \in Nat
  BY LenProperties
<1>3. /\ a \in Seq(S) /\ Len(a) = Len(s) + 1
      /\ \A i \in 1 .. (Len(s) + 1) : a[i] = IF i = 1 THEN e ELSE s[i - 1]
  BY <1>1, <1>2, ConcatProperties
<1>4. DOMAIN a = 1 .. (Len(s) + 1)
  BY <1>3, LenProperties
<1> HIDE DEF a
<1>5. Range(a) = Range(s) \cup {e}
  <2>1. Range(a) \subseteq Range(s) \cup {e}
    BY <1>2, <1>3, <1>4 DEF Range
  <2>2. ASSUME NEW i \in DOMAIN s PROVE s[i] \in Range(a)
    <3>1. i + 1 \in DOMAIN a /\ a[i + 1] = s[i]
      BY <1>2, <1>3, <1>4
    <3> QED BY <3>1 DEF Range
  <2>3. e \in Range(a)
    BY <1>2, <1>3, <1>4 DEF Range
  <2> QED BY <2>1, <2>2, <2>3 DEF Range
<1>6. ASSUME IsInjective(s), e \notin Range(s) PROVE IsInjective(a)
  <2>1. ASSUME NEW i \in DOMAIN a, NEW j \in DOMAIN a, a[i] = a[j] PROVE i = j
    <3>1. CASE i = 1 \/ j = 1
      BY <3>1, <2>1, <1>2, <1>3, <1>4, <1>6 DEF Range
    <3>2. CASE i # 1 /\ j # 1
      <4>1. i - 1 \in DOMAIN s /\ j - 1 \in DOMAIN s /\ s[i - 1] = s[j - 1]
        BY <3>2, <2>1, <1>2, <1>3, <1>4
      <4>2. i - 1 = j - 1
        BY <4>1, <1>6 DEF IsInjective
      <4> QED BY <4>2, <1>2, <1>4
    <3> QED BY <3>1, <3>2
  <2> QED BY <2>1 DEF IsInjective
<1> QED BY <1>3, <1>5, <1>6 DEF a

\* Two lists, one behind the other.
LEMMA ConcatList ==
  ASSUME NEW S, NEW s \in Seq(S), NEW u \in Seq(S)
  PROVE  s \o u \in Seq(S) /\ Range(s \o u) = Range(s) \cup Range(u)
<1> DEFINE a == s \o u
<1>1. DOMAIN s = 1 .. Len(s) /\ Len(s) \in Nat /\ DOMAIN u = 1 .. Len(u) /\ Len(u) \in Nat
  BY LenProperties
<1>2. /\ a \in Seq(S) /\ Len(a) = Len(s) + Len(u)
      /\ \A i \in 1 .. (Len(s) + Len(u)) :
           a[i] = IF i <= Len(s) THEN s[i] ELSE u[i - Len(s)]
  BY ConcatProperties
<1>3. DOMAIN a = 1 .. (Len(s) + Len(u))
  BY <1>2, LenProperties
<1> HIDE DEF a
<1>4. ASSUME NEW i \in DOMAIN a PROVE a[i] \in Range(s) \cup Range(u)
  <2>1. CASE i <= Len(s)
    BY <2>1, <1>1, <1>2, <1>3 DEF Range
  <2>2. CASE ~(i <= Len(s))
    <3>1. i - Len(s) \in DOMAIN u /\ a[i] = u[i - Len(s)]
      BY <2>2, <1>1, <1>2, <1>3
    <3> QED BY <3>1 DEF Range
  <2> QED BY <2>1, <2>2
<1>5. Range(s) \subseteq Range(a)
  <2>1. \A i \in DOMAIN s : i \in DOMAIN a /\ a[i] = s[i]
    BY <1>1, <1>2, <1>3
  <2> QED BY <2>1 DEF Range
<1>6. Range(u) \subseteq Range(a)
  <2>1. \A i \in DOMAIN u : i + Len(s) \in DOMAIN a /\ a[i + Len(s)] = u[i]
    BY <1>1, <1>2, <1>3
  <2> QED BY <2>1 DEF Range
<1>7. Range(a) \subseteq Range(s) \cup Range(u)
  BY <1>4 DEF Range
<1> QED BY <1>2, <1>5, <1>6, <1>7 DEF a

\* The first of a list is taken off it.
LEMMA TailList ==
  ASSUME NEW S, NEW s \in Seq(S), s # <<>>
  PROVE  /\ Head(s) \in S /\ Head(s) \in Range(s)
         /\ Tail(s) \in Seq(S)
         /\ Range(s) = Range(Tail(s)) \cup {Head(s)}
         /\ IsInjective(s) => IsInjective(Tail(s)) /\ Head(s) \notin Range(Tail(s))
<1> DEFINE a == Tail(s)
<1>1. DOMAIN s = 1 .. Len(s) /\ Len(s) \in Nat /\ Len(s) # 0 /\ Head(s) = s[1]
  BY LenProperties, EmptySeq
<1>2. /\ a \in Seq(S) /\ Len(a) = Len(s) - 1 /\ Head(s) \in S
      /\ \A i \in 1 .. Len(a) : a[i] = s[i + 1]
  BY HeadTailProperties
<1>3. DOMAIN a = 1 .. (Len(s) - 1)
  BY <1>2, LenProperties
<1> HIDE DEF a
<1>4. \A i \in DOMAIN s : i = 1 \/ (i - 1 \in DOMAIN a /\ a[i - 1] = s[i])
  BY <1>1, <1>2, <1>3
<1>5. \A i \in DOMAIN a : i + 1 \in DOMAIN s /\ s[i + 1] = a[i] /\ i + 1 # 1
  BY <1>1, <1>2, <1>3
<1>6. Head(s) \in Range(s)
  BY <1>1 DEF Range
<1>7. Range(s) \subseteq Range(a) \cup {Head(s)}
  BY <1>1, <1>4 DEF Range
<1>8. Range(a) \subseteq Range(s)
  BY <1>5 DEF Range
<1>9. ASSUME IsInjective(s) PROVE IsInjective(a) /\ Head(s) \notin Range(a)
  <2>1. Head(s) \notin Range(a)
    BY <1>1, <1>5, <1>9 DEF IsInjective, Range
  <2>2. ASSUME NEW i \in DOMAIN a, NEW j \in DOMAIN a, a[i] = a[j] PROVE i = j
    <3>1. i + 1 = j + 1
      BY <2>2, <1>5, <1>9 DEF IsInjective
    <3> QED BY <3>1, <1>1, <1>3
  <2> QED BY <2>1, <2>2 DEF IsInjective
<1> QED BY <1>2, <1>6, <1>7, <1>8, <1>9 DEF a

\* The first n are taken off a list.
LEMMA SuffixList ==
  ASSUME NEW S, NEW s \in Seq(S), NEW n \in Nat
  PROVE  /\ SubSeq(s, n + 1, Len(s)) \in Seq(S)
         /\ Range(SubSeq(s, n + 1, Len(s))) \subseteq Range(s)
         /\ IsInjective(s) => IsInjective(SubSeq(s, n + 1, Len(s)))
         /\ Len(s) <= n => SubSeq(s, n + 1, Len(s)) = <<>>
<1> DEFINE a == SubSeq(s, n + 1, Len(s))
<1>1. DOMAIN s = 1 .. Len(s) /\ Len(s) \in Nat /\ \A i \in 1 .. Len(s) : s[i] \in S
  BY LenProperties
<1>2. n + 1 \in Int /\ Len(s) \in Int /\ \A i \in (n + 1) .. Len(s) : s[i] \in S
  BY <1>1
<1>3. /\ a \in Seq(S) /\ Len(a) = IF n + 1 <= Len(s) THEN Len(s) - (n + 1) + 1 ELSE 0
      /\ \A i \in 1 .. (Len(s) - (n + 1) + 1) : a[i] = s[(n + 1) + i - 1]
  BY <1>2, SubSeqProperties
<1>4. DOMAIN a = 1 .. Len(a)
  BY <1>3, LenProperties
<1>5. ASSUME Len(s) <= n PROVE a = <<>>
  <2>1. Len(s) < n + 1
    BY <1>1, <1>5
  <2> QED BY <2>1, <1>2, SubSeqEmpty
<1> HIDE DEF a
<1>6. \A i \in DOMAIN a : n + i \in DOMAIN s /\ a[i] = s[n + i]
  <2> DEFINE m == Len(s)
             l == Len(a)
  <2>1. /\ m \in Nat /\ DOMAIN s = 1 .. m /\ DOMAIN a = 1 .. l
        /\ l = IF n + 1 <= m THEN m - (n + 1) + 1 ELSE 0
        /\ \A i \in 1 .. (m - (n + 1) + 1) : a[i] = s[(n + 1) + i - 1]
    BY <1>1, <1>3, <1>4
  <2> HIDE DEF m, l
  <2>2. ASSUME NEW i \in 1 .. l
        PROVE  /\ n + i \in 1 .. m /\ i \in 1 .. (m - (n + 1) + 1)
               /\ (n + 1) + i - 1 = n + i
    BY <2>1
  <2> QED BY <2>1, <2>2
<1>7. Range(a) \subseteq Range(s)
  BY <1>6 DEF Range
<1>8. ASSUME IsInjective(s) PROVE IsInjective(a)
  <2>1. ASSUME NEW i \in DOMAIN a, NEW j \in DOMAIN a, a[i] = a[j] PROVE i = j
    <3>1. n + i = n + j
      BY <2>1, <1>6, <1>8 DEF IsInjective
    <3> QED BY <3>1, <1>4
  <2> QED BY <2>1 DEF IsInjective
<1> QED BY <1>3, <1>5, <1>7, <1>8 DEF a

\* One is taken off wherever it stands.
LEMMA RemoveAtList ==
  ASSUME NEW S, NEW s \in Seq(S), NEW k \in DOMAIN s
  PROVE  /\ RemoveAt(s, k) \in Seq(S)
         /\ Range(s) = Range(RemoveAt(s, k)) \cup {s[k]}
         /\ IsInjective(s) => /\ IsInjective(RemoveAt(s, k))
                              /\ s[k] \notin Range(RemoveAt(s, k))
<1> DEFINE b == SubSeq(s, 1, k - 1)
           c == SubSeq(s, k + 1, Len(s))
           a == b \o c
<1>1. DOMAIN s = 1 .. Len(s) /\ Len(s) \in Nat /\ \A i \in 1 .. Len(s) : s[i] \in S
  BY LenProperties
<1>2. k \in Int /\ k - 1 \in Int /\ k + 1 \in Int /\ Len(s) \in Int
  BY <1>1
<1>3. /\ b \in Seq(S) /\ Len(b) = k - 1
      /\ \A i \in 1 .. (k - 1) : b[i] = s[i]
  <2>1. \A i \in 1 .. (k - 1) : s[i] \in S
    BY <1>1
  <2>2. /\ b \in Seq(S) /\ Len(b) = (IF 1 <= k - 1 THEN (k - 1) - 1 + 1 ELSE 0)
        /\ \A i \in 1 .. ((k - 1) - 1 + 1) : b[i] = s[1 + i - 1]
    BY <2>1, <1>2, SubSeqProperties
  <2> HIDE DEF b
  <2> QED BY <2>2, <1>1
<1>4. /\ c \in Seq(S) /\ Len(c) = Len(s) - k
      /\ \A i \in 1 .. (Len(s) - k) : c[i] = s[k + i]
  <2>1. \A i \in (k + 1) .. Len(s) : s[i] \in S
    BY <1>1
  <2>2. /\ c \in Seq(S) /\ Len(c) = (IF k + 1 <= Len(s) THEN Len(s) - (k + 1) + 1 ELSE 0)
        /\ \A i \in 1 .. (Len(s) - (k + 1) + 1) : c[i] = s[(k + 1) + i - 1]
    BY <2>1, <1>2, SubSeqProperties
  <2> DEFINE n == Len(s)
  <2> HIDE DEF c, n
  <2>3. n \in Nat /\ k \in 1 .. n
    BY <1>1 DEF n
  <2>4. Len(c) = n - k /\ \A i \in 1 .. (n - k) : c[i] = s[k + i]
    <3>1. /\ Len(c) = (IF k + 1 <= n THEN n - (k + 1) + 1 ELSE 0)
          /\ \A i \in 1 .. (n - (k + 1) + 1) : c[i] = s[(k + 1) + i - 1]
      BY <2>2 DEF n
    <3>2. n - (k + 1) + 1 = n - k
      BY <2>3
    <3>3. ASSUME NEW i \in 1 .. (n - k) PROVE c[i] = s[k + i]
      <4>1. c[i] = s[(k + 1) + i - 1] /\ (k + 1) + i - 1 = k + i
        BY <2>3, <3>1, <3>2
      <4> QED BY <4>1
    <3> QED BY <2>3, <3>1, <3>3
  <2> QED BY <2>2, <2>4 DEF n
<1> HIDE DEF b, c
<1>5. /\ a \in Seq(S) /\ Len(a) = Len(b) + Len(c)
      /\ \A i \in 1 .. (Len(b) + Len(c)) :
           a[i] = IF i <= Len(b) THEN b[i] ELSE c[i - Len(b)]
  BY <1>3, <1>4, ConcatProperties
<1> HIDE DEF a
<1>6. DOMAIN a = 1 .. (Len(s) - 1)
  <2>1. Len(a) = Len(s) - 1
    BY <1>1, <1>3, <1>4, <1>5
  <2>2. DOMAIN a = 1 .. Len(a)
    BY <1>5, LenProperties
  <2> QED BY <2>1, <2>2
<1>7. ASSUME NEW i \in DOMAIN a
      PROVE  a[i] = IF i < k THEN s[i] ELSE s[i + 1]
  <2>1. i \in 1 .. (Len(b) + Len(c)) /\ i \in Int
    BY <1>1, <1>3, <1>4, <1>6
  <2>2. CASE i < k
    BY <2>1, <2>2, <1>1, <1>3, <1>5
  <2>3. CASE ~(i < k)
    <3>1. a[i] = c[i - (k - 1)]
      BY <2>1, <2>3, <1>1, <1>3, <1>5
    <3>2. i - (k - 1) \in 1 .. (Len(s) - k)
      BY <2>1, <2>3, <1>1, <1>3, <1>4
    <3>3. c[i - (k - 1)] = s[k + (i - (k - 1))]
      BY <3>2, <1>4
    <3>4. k + (i - (k - 1)) = i + 1
      BY <2>1, <1>1
    <3> QED BY <2>3, <3>1, <3>3, <3>4
  <2> QED BY <2>2, <2>3
<1>8. Range(a) \subseteq Range(s)
  BY <1>1, <1>6, <1>7 DEF Range
<1>9. ASSUME NEW i \in DOMAIN s, i # k PROVE s[i] \in Range(a)
  <2>1. CASE i < k
    BY <2>1, <1>1, <1>6, <1>7 DEF Range
  <2>2. CASE i > k
    <3>1. i - 1 \in DOMAIN a /\ a[i - 1] = s[i]
      BY <2>2, <1>1, <1>6, <1>7
    <3> QED BY <3>1 DEF Range
  <2> QED BY <2>1, <2>2, <1>1, <1>9
<1>10. Range(s) = Range(a) \cup {s[k]}
  BY <1>8, <1>9 DEF Range
<1>11. ASSUME IsInjective(s) PROVE IsInjective(a) /\ s[k] \notin Range(a)
  <2> DEFINE p(i) == IF i < k THEN i ELSE i + 1
  <2>1. \A i \in DOMAIN a : p(i) \in DOMAIN s /\ a[i] = s[p(i)] /\ p(i) # k
    BY <1>1, <1>6, <1>7
  <2>2. \A i, j \in DOMAIN a : p(i) = p(j) => i = j
    BY <1>1, <1>6
  <2> HIDE DEF p
  <2> QED BY <2>1, <2>2, <1>11 DEF IsInjective, Range
<1>12. RemoveAt(s, k) = a
  BY DEF RemoveAt, a, b, c
<1> QED BY <1>5, <1>10, <1>11, <1>12

\* A thread is taken off a list, if it is there.
LEMMA RemoveFirstList ==
  ASSUME NEW S, NEW s \in Seq(S), IsInjective(s), NEW e
  PROVE  /\ RemoveFirst(s, e) \in Seq(S)
         /\ Range(RemoveFirst(s, e)) = Range(s) \ {e}
         /\ IsInjective(RemoveFirst(s, e))
<1>1. DOMAIN s = 1 .. Len(s) /\ Len(s) \in Nat
  BY LenProperties
<1>2. ASSUME NEW k \in DOMAIN s, s[k] = e
      PROVE  RemoveFirst(s, e) = RemoveAt(s, k)
  <2> DEFINE I == {i \in 1 .. Len(s) : s[i] = e}
  <2>1. I = {k}
    BY <1>1, <1>2 DEF IsInjective
  <2>2. Min(I) = k
    BY <2>1, <1>1 DEF Min
  <2>3. SelectInSeq(s, LAMBDA v : v = e) = k
    BY <2>1, <2>2 DEF SelectInSeq
  <2> QED BY <2>3, <1>1, <1>2 DEF RemoveFirst
<1>3. CASE \E k \in DOMAIN s : s[k] = e
  <2>1. PICK k \in DOMAIN s : s[k] = e
    BY <1>3
  <2>2. RemoveFirst(s, e) = RemoveAt(s, k)
    BY <2>1, <1>2
  <2> QED BY <2>1, <2>2, RemoveAtList
<1>4. CASE ~ \E k \in DOMAIN s : s[k] = e
  <2>1. RemoveFirst(s, e) = s
    BY <1>4, <1>1 DEF RemoveFirst
  <2> QED BY <2>1, <1>4 DEF Range
<1> QED BY <1>3, <1>4
=============================================================================
