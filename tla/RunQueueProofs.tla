---------------------------- MODULE RunQueueProofs ----------------------------
(***************************************************************************)
(* Proofs about RunQueue, for every set of goroutines, every size of the   *)
(* local queue and every way a process is built and started.               *)
(***************************************************************************)
EXTENDS RunQueue, FiniteSetTheorems, SequenceTheorems, TLAPS

-----------------------------------------------------------------------------
\* Queues.

\* Queue s holds the goroutines of X, each of them once.
Lists(s, X) ==
    /\ s \in Seq(G)
    /\ \A i, j \in DOMAIN s : s[i] = s[j] => i = j
    /\ \A x : x \in X <=> \E i \in DOMAIN s : s[i] = x

\* A queue lists what is in it.
LEMMA ListsItself ==
    ASSUME NEW s \in Seq(G)
    PROVE  /\ IsInjective(s) <=> Lists(s, ToSet(s))
           /\ \A X : Lists(s, X) => X = ToSet(s) /\ X \subseteq G /\ IsInjective(s)
  BY DEF Lists, IsInjective, ToSet

\* The empty queue, and a queue of one.
LEMMA ListsFew ==
    /\ Lists(<<>>, {})
    /\ \A g \in G : Lists(<<g>>, {g})
  BY DEF Lists

\* Two queues, one after the other.
LEMMA ListsConcat ==
    ASSUME NEW s, NEW X, Lists(s, X), NEW t, NEW T, Lists(t, T), X \intersect T = {}
    PROVE  Lists(s \o t, X \union T)
<1> DEFINE u == s \o t
<1>1. /\ s \in Seq(G) /\ t \in Seq(G) /\ Len(s) \in Nat /\ Len(t) \in Nat
      /\ DOMAIN s = 1..Len(s) /\ DOMAIN t = 1..Len(t)
  BY DEF Lists
<1>2. /\ u \in Seq(G) /\ DOMAIN u = 1..(Len(s) + Len(t))
      /\ \A i \in DOMAIN s : u[i] = s[i]
      /\ \A i \in DOMAIN t : u[Len(s) + i] = t[i]
  BY <1>1
<1> HIDE DEF u
<1>3. \A i \in DOMAIN u : \/ i \in DOMAIN s /\ u[i] = s[i]
                          \/ i - Len(s) \in DOMAIN t /\ u[i] = t[i - Len(s)]
  <2> SUFFICES ASSUME NEW i \in DOMAIN u, i \notin DOMAIN s
               PROVE  i - Len(s) \in DOMAIN t /\ u[i] = t[i - Len(s)]
    BY <1>2
  <2>1. i - Len(s) \in DOMAIN t /\ Len(s) + (i - Len(s)) = i
    BY <1>1, <1>2
  <2> QED
    BY <1>2, <2>1
<1>4. \A i, j \in DOMAIN u : u[i] = u[j] => i = j
  <2> SUFFICES ASSUME NEW i \in DOMAIN u, NEW j \in DOMAIN u, u[i] = u[j]
               PROVE  i = j
    OBVIOUS
  <2>1. i \in Int /\ j \in Int
    BY <1>2
  <2>2. CASE i \in DOMAIN s /\ u[i] = s[i] /\ j \in DOMAIN s /\ u[j] = s[j]
    BY <2>2 DEF Lists
  <2>3. CASE /\ i - Len(s) \in DOMAIN t /\ u[i] = t[i - Len(s)]
             /\ j - Len(s) \in DOMAIN t /\ u[j] = t[j - Len(s)]
    <3>1. i - Len(s) = j - Len(s)
      BY <2>3 DEF Lists
    <3> QED
      BY <1>1, <2>1, <3>1
  <2>4. CASE u[i] \in X /\ u[j] \in T
    BY <2>4
  <2>5. CASE u[i] \in T /\ u[j] \in X
    BY <2>5
  <2> QED
    BY <1>3, <2>2, <2>3, <2>4, <2>5 DEF Lists
<1>5. \A x : x \in X \union T <=> \E i \in DOMAIN u : u[i] = x
  <2> SUFFICES ASSUME NEW x PROVE x \in X \union T <=> \E i \in DOMAIN u : u[i] = x
    OBVIOUS
  <2>1. ASSUME x \in X PROVE \E i \in DOMAIN u : u[i] = x
    <3>1. PICK i \in DOMAIN s : s[i] = x
      BY <2>1 DEF Lists
    <3>2. i \in DOMAIN u /\ u[i] = x
      BY <1>1, <1>2, <3>1
    <3> QED
      BY <3>2
  <2>2. ASSUME x \in T PROVE \E i \in DOMAIN u : u[i] = x
    <3>1. PICK i \in DOMAIN t : t[i] = x
      BY <2>2 DEF Lists
    <3>2. Len(s) + i \in DOMAIN u /\ u[Len(s) + i] = x
      BY <1>1, <1>2, <3>1
    <3> QED
      BY <3>2
  <2>3. ASSUME NEW i \in DOMAIN u, u[i] = x PROVE x \in X \union T
    BY <1>3, <2>3 DEF Lists
  <2> QED
    BY <2>1, <2>2, <2>3
<1> QED
  BY <1>2, <1>4, <1>5 DEF Lists, u

\* One goroutine more, at the tail.
LEMMA ListsAppend ==
    ASSUME NEW s, NEW X, Lists(s, X), NEW g \in G, g \notin X
    PROVE  Lists(Append(s, g), X \union {g})
<1>1. s \in Seq(G) /\ Append(s, g) = s \o <<g>>
  BY AppendIsConcat DEF Lists
<1>2. Lists(<<g>>, {g}) /\ X \intersect {g} = {}
  BY ListsFew
<1>3. Lists(s \o <<g>>, X \union {g})
  BY <1>2, ListsConcat
<1> QED
  BY <1>1, <1>3

\* Queue s splits after its first k goroutines into two queues.
Splits(s, k, X) ==
    \E A, B : /\ Lists(SubSeq(s, 1, k), A)
              /\ Lists(SubSeq(s, k + 1, Len(s)), B)
              /\ A \union B = X /\ A \intersect B = {}

\* A queue cut in two lists two disjoint sets.
LEMMA ListsCut ==
    ASSUME NEW s, NEW X, Lists(s, X), NEW k \in Nat, k <= Len(s)
    PROVE  Splits(s, k, X)
<1> DEFINE a == SubSeq(s, 1, k)
           b == SubSeq(s, k + 1, Len(s))
           A == ToSet(a)
           B == ToSet(b)
<1>1. s \in Seq(G) /\ Len(s) \in Nat /\ DOMAIN s = 1..Len(s)
  BY DEF Lists
<1>2. /\ a \in Seq(G) /\ DOMAIN a = 1..k /\ \A i \in 1..k : a[i] = s[i]
      /\ b \in Seq(G) /\ DOMAIN b = 1..(Len(s) - k) /\ \A i \in 1..(Len(s) - k) : b[i] = s[k + i]
  BY <1>1
<1>3. /\ \A i \in DOMAIN a : i \in DOMAIN s /\ a[i] = s[i]
      /\ \A i \in DOMAIN b : k + i \in DOMAIN s /\ b[i] = s[k + i]
      /\ \A i \in DOMAIN s : i \in DOMAIN a \/ (i - k \in DOMAIN b /\ b[i - k] = s[i])
  <2>1. \A i \in DOMAIN s : i \notin DOMAIN a => i - k \in DOMAIN b /\ k + (i - k) = i
    BY <1>1, <1>2
  <2>2. \A i \in DOMAIN b : k + i \in DOMAIN s
    BY <1>1, <1>2
  <2>3. \A i \in DOMAIN a : i \in DOMAIN s
    BY <1>1, <1>2
  <2> QED
    BY <1>2, <2>1, <2>2, <2>3
<1> HIDE DEF a, b
<1>4. Lists(a, A)
  BY <1>2, <1>3 DEF Lists, ToSet
<1>5. Lists(b, B)
  <2>1. \A i, j \in DOMAIN b : b[i] = b[j] => k + i = k + j
    BY <1>3 DEF Lists
  <2>2. \A i, j \in DOMAIN b : k + i = k + j => i = j
    BY <1>1, <1>2
  <2> QED
    BY <1>2, <2>1, <2>2 DEF Lists, ToSet
<1>6. A \union B = X
  BY <1>3 DEF Lists, ToSet
<1>7. A \intersect B = {}
  <2> SUFFICES ASSUME NEW i \in DOMAIN a, NEW j \in DOMAIN b, a[i] = b[j] PROVE FALSE
    BY DEF ToSet
  <2>1. i = k + j
    BY <1>3 DEF Lists
  <2> QED
    BY <1>1, <1>2, <2>1
<1> QED
  BY <1>4, <1>5, <1>6, <1>7 DEF a, b, Splits

\* The head and the tail of a queue.
LEMMA ListsHead ==
    ASSUME NEW s, NEW X, Lists(s, X), s # <<>>
    PROVE  Head(s) \in X /\ Head(s) \in G /\ Lists(Tail(s), X \ {Head(s)})
<1> DEFINE b == Tail(s)
<1>1. /\ s \in Seq(G) /\ Len(s) \in Nat /\ DOMAIN s = 1..Len(s) /\ 1 \in DOMAIN s
      /\ Head(s) = s[1] /\ Head(s) \in G
  BY DEF Lists
<1>2. /\ b \in Seq(G) /\ DOMAIN b = 1..(Len(s) - 1)
      /\ \A i \in DOMAIN b : i + 1 \in DOMAIN s /\ i + 1 # 1 /\ b[i] = s[i + 1]
  BY <1>1, HeadTailProperties
<1> HIDE DEF b
<1>3. \A j \in DOMAIN s : j = 1 \/ (j - 1 \in DOMAIN b /\ (j - 1) + 1 = j)
  BY <1>1, <1>2
<1>4. \A i, j \in DOMAIN b : b[i] = b[j] => i = j
  <2>1. \A i, j \in DOMAIN b : b[i] = b[j] => i + 1 = j + 1
    BY <1>2 DEF Lists
  <2> QED
    BY <1>1, <1>2, <2>1
<1>5. \A i \in DOMAIN b : b[i] \in X /\ b[i] # Head(s)
  BY <1>1, <1>2 DEF Lists
<1>6. ASSUME NEW x \in X, x # Head(s) PROVE \E i \in DOMAIN b : b[i] = x
  <2>1. PICK j \in DOMAIN s : s[j] = x
    BY DEF Lists
  <2>2. j - 1 \in DOMAIN b /\ (j - 1) + 1 = j
    BY <1>1, <1>3, <1>6, <2>1
  <2> QED
    BY <1>2, <2>1, <2>2
<1>7. Head(s) \in X
  BY <1>1 DEF Lists
<1> QED
  BY <1>1, <1>2, <1>4, <1>5, <1>6, <1>7 DEF Lists, b

\* A permutation of the positions of a queue visits each of them.
LEMMA Positions ==
    ASSUME NEW X, IsFiniteSet(X), NEW p \in SetToSeqs(X)
    PROVE  /\ p \in [1..Cardinality(X) -> X] /\ Cardinality(X) \in Nat
           /\ \A i, j \in 1..Cardinality(X) : p[i] = p[j] => i = j
           /\ \A x \in X : \E i \in 1..Cardinality(X) : p[i] = x
<1>1. /\ p \in [1..Cardinality(X) -> X]
      /\ \A i, j \in 1..Cardinality(X) : p[i] = p[j] => i = j
  BY DEF SetToSeqs
<1>2. Cardinality(X) \in Nat
  BY FS_CardinalityType
<1>3. Cardinality(1..Cardinality(X)) = Cardinality(X)
  BY <1>2, FS_Interval
<1>4. p \in Injection(1..Cardinality(X), X)
  BY <1>1 DEF Injection, IsInjective
<1>5. p \in Surjection(1..Cardinality(X), X)
  BY <1>3, <1>4, FS_Injection
<1> QED
  BY <1>1, <1>2, <1>5 DEF Surjection

\* A shuffle moves goroutines within a queue and does nothing else to it.
LEMMA ListsShuffle ==
    ASSUME NEW s, NEW X, Lists(s, X), NEW b \in Shuffles(s)
    PROVE  Lists(b, X) /\ Len(b) = Len(s)
<1>1. s \in Seq(G) /\ Len(s) \in Nat /\ DOMAIN s = 1..Len(s)
  BY DEF Lists
<1>2. CASE ~SchedulerRandomized
  BY <1>2 DEF Shuffles
<1>3. CASE SchedulerRandomized
  <2>1. PICK p \in SetToSeqs(DOMAIN s) : b = [i \in DOMAIN s |-> s[p[i]]]
    BY <1>3 DEF Shuffles
  <2>2. IsFiniteSet(DOMAIN s) /\ Cardinality(DOMAIN s) = Len(s)
    BY <1>1, FS_Interval
  <2>3. /\ p \in [DOMAIN s -> DOMAIN s]
        /\ \A i, j \in DOMAIN s : p[i] = p[j] => i = j
        /\ \A x \in DOMAIN s : \E i \in DOMAIN s : p[i] = x
    <3> DEFINE D == DOMAIN s
               n == Cardinality(D)
    <3>1. IsFiniteSet(D) /\ p \in SetToSeqs(D)
      BY <2>2
    <3>2. D = 1..n
      BY <1>1, <2>2
    <3> HIDE DEF D
    <3>3. /\ p \in [1..n -> D]
          /\ \A i, j \in 1..n : p[i] = p[j] => i = j
          /\ \A x \in D : \E i \in 1..n : p[i] = x
      BY <3>1, Positions
    <3> QED
      BY <3>2, <3>3 DEF D
  <2>4. b \in [1..Len(s) -> G]
    BY <1>1, <2>1, <2>3
  <2>5. b \in Seq(G) /\ Len(b) = Len(s) /\ DOMAIN b = DOMAIN s
    BY <1>1, <2>4
  <2>6. \A i, j \in DOMAIN b : b[i] = b[j] => i = j
    BY <2>1, <2>3, <2>5 DEF Lists
  <2>7. \A x : x \in X <=> \E i \in DOMAIN b : b[i] = x
    <3>1. ASSUME NEW x \in X PROVE \E i \in DOMAIN b : b[i] = x
      <4>1. PICK j \in DOMAIN s : s[j] = x
        BY DEF Lists
      <4>2. PICK i \in DOMAIN s : p[i] = j
        BY <2>3
      <4> QED
        BY <2>1, <2>5, <4>1, <4>2
    <3>2. ASSUME NEW i \in DOMAIN b PROVE b[i] \in X
      BY <2>1, <2>3, <2>5 DEF Lists
    <3> QED
      BY <3>1, <3>2
  <2> QED
    BY <2>5, <2>6, <2>7 DEF Lists
<1> QED
  BY <1>2, <1>3

-----------------------------------------------------------------------------
\* What the patched functions do to the queues.

\* runnext n, local queue s and global queue t hold the goroutines of X, each in
\* one place and once, and s fits into its array.
Holds(n, s, t, X) ==
    /\ n \in G \union {NoG}
    /\ Len(s) <= RunqSize
    /\ \E L, M : /\ Lists(s, L) /\ Lists(t, M)
                 /\ L \intersect M = {} /\ n \notin L \union M
                 /\ X = ({n} \ {NoG}) \union L \union M

\* The two queues alone.
InQueues(s, t, X) ==
    /\ Len(s) <= RunqSize
    /\ \E L, M : Lists(s, L) /\ Lists(t, M) /\ L \intersect M = {} /\ L \union M = X

\* What the three places together hold is their union, each member in one of them.
LEMMA HoldsWhat ==
    ASSUME NEW n, NEW s, NEW t, NEW X, Holds(n, s, t, X)
    PROVE  /\ X = ({n} \ {NoG}) \union ToSet(s) \union ToSet(t) /\ X \subseteq G
           /\ s \in Seq(G) /\ t \in Seq(G) /\ IsInjective(s) /\ IsInjective(t)
           /\ ToSet(s) \intersect ToSet(t) = {} /\ n \notin ToSet(s) \union ToSet(t)
           /\ Lists(s, ToSet(s)) /\ Lists(t, ToSet(t))
<1>1. PICK L, M : /\ Lists(s, L) /\ Lists(t, M)
                  /\ L \intersect M = {} /\ n \notin L \union M
                  /\ X = ({n} \ {NoG}) \union L \union M
  BY DEF Holds
<1>2. s \in Seq(G) /\ t \in Seq(G)
  BY <1>1 DEF Lists
<1>3. L = ToSet(s) /\ M = ToSet(t) /\ L \subseteq G /\ M \subseteq G /\ IsInjective(s) /\ IsInjective(t)
  BY <1>1, <1>2, ListsItself
<1> QED
  BY <1>1, <1>2, <1>3 DEF Holds

\* Half of the local queue and g make up a batch of the global queue.
LEMMA PutSlow ==
    ASSUME NEW L, Lists(runq, L), NEW M, Lists(global, M), L \intersect M = {},
           NEW g \in G, g \notin L \union M, Len(runq) = RunqSize, RunqPutSlow(g)
    PROVE  InQueues(runq', global', L \union M \union {g})
<1> DEFINE half == RunqSize \div 2
           a == SubSeq(runq, 1, half)
<1>1. half \in Nat /\ half <= Len(runq) /\ runq \in Seq(G) /\ Len(runq) \in Nat
  BY SizeAssumption DEF Lists
<1>2. PICK b \in Shuffles(Append(a, g)) : global' = global \o b
  BY DEF RunqPutSlow
<1>3. runq' = SubSeq(runq, half + 1, Len(runq))
  BY DEF RunqPutSlow
<1>4. Len(runq') <= RunqSize
  BY <1>1, <1>3
<1> HIDE DEF half
<1>5. PICK A, B : /\ Lists(a, A) /\ Lists(SubSeq(runq, half + 1, Len(runq)), B)
                  /\ A \union B = L /\ A \intersect B = {}
  <2>1. Splits(runq, half, L)
    BY <1>1, ListsCut
  <2> QED
    BY <2>1 DEF Splits
<1> HIDE DEF a
<1>6. Lists(Append(a, g), A \union {g})
  BY <1>5, ListsAppend
<1>7. Lists(b, A \union {g})
  BY <1>6, ListsShuffle
<1>8. Lists(global \o b, M \union (A \union {g}))
  BY <1>5, <1>7, ListsConcat
<1>9. /\ Lists(runq', B) /\ Lists(global', M \union (A \union {g}))
      /\ B \intersect (M \union (A \union {g})) = {}
      /\ B \union (M \union (A \union {g})) = L \union M \union {g}
  BY <1>2, <1>3, <1>5, <1>8
<1> QED
  BY <1>4, <1>9 DEF InQueues

\* runqput adds its goroutine to the queues, in the array or, if that is full, through runqputslow.
LEMMA PutTail ==
    ASSUME NEW L, Lists(runq, L), NEW M, Lists(global, M), L \intersect M = {},
           NEW g \in G, g \notin L \union M, Len(runq) <= RunqSize, RunqPutTail(g)
    PROVE  InQueues(runq', global', L \union M \union {g})
<1>1. CASE Len(runq) < RunqSize /\ runq' = Append(runq, g) /\ UNCHANGED global
  <2>1. Len(runq') <= RunqSize
    BY <1>1, SizeAssumption DEF Lists
  <2>2. Lists(runq', L \union {g}) /\ Lists(global', M)
    BY <1>1, ListsAppend
  <2> QED
    BY <2>1, <2>2 DEF InQueues
<1>2. CASE Len(runq) = RunqSize /\ RunqPutSlow(g)
  BY <1>2, PutSlow
<1> QED
  BY <1>1, <1>2 DEF RunqPutTail

\* runqput adds its goroutine to the queues, whoever it kicks out of runnext.
LEMMA Put ==
    ASSUME NEW X, Holds(runnext, runq, global, X), NEW g \in G, g \notin X,
           NEW next, RunqPut(g, next)
    PROVE  Holds(runnext', runq', global', X \union {g})
<1>1. PICK L, M : /\ Lists(runq, L) /\ Lists(global, M)
                  /\ L \intersect M = {} /\ runnext \notin L \union M
                  /\ X = ({runnext} \ {NoG}) \union L \union M
  BY DEF Holds
<1>2. Len(runq) <= RunqSize /\ runnext \in G \union {NoG} /\ g # NoG
  BY GAssumption DEF Holds
<1>3. CASE runnext' = g /\ runnext = NoG /\ UNCHANGED <<runq, global>>
  BY <1>1, <1>2, <1>3 DEF Holds
<1>4. CASE runnext' = g /\ runnext # NoG /\ RunqPutTail(runnext)
  <2>1. InQueues(runq', global', L \union M \union {runnext})
    BY <1>1, <1>2, <1>4, PutTail
  <2>2. PICK L2, M2 : /\ Lists(runq', L2) /\ Lists(global', M2)
                      /\ L2 \intersect M2 = {} /\ L2 \union M2 = L \union M \union {runnext}
    BY <2>1 DEF InQueues
  <2>3. g \notin L2 \union M2 /\ X \union {g} = ({g} \ {NoG}) \union L2 \union M2
    BY <1>1, <1>2, <1>4, <2>2
  <2> QED
    BY <1>4, <2>1, <2>2, <2>3 DEF Holds, InQueues
<1>5. CASE RunqPutTail(g) /\ UNCHANGED runnext
  <2>1. InQueues(runq', global', L \union M \union {g})
    BY <1>1, <1>2, <1>5, PutTail
  <2>2. PICK L2, M2 : /\ Lists(runq', L2) /\ Lists(global', M2)
                      /\ L2 \intersect M2 = {} /\ L2 \union M2 = L \union M \union {g}
    BY <2>1 DEF InQueues
  <2>3. runnext \notin L2 \union M2 /\ X \union {g} = ({runnext} \ {NoG}) \union L2 \union M2
    <3>1. runnext = NoG \/ runnext \in X
      BY <1>1
    <3> QED
      BY <1>1, <1>2, <2>2, <3>1
  <2> QED
    BY <1>2, <1>5, <2>1, <2>2, <2>3 DEF Holds, InQueues
<1> QED
  BY <1>3, <1>4, <1>5 DEF RunqPut

\* The lesser of two numbers is one of them.
LEMMA MinOfTwo ==
    ASSUME NEW a \in Nat, NEW b \in Nat
    PROVE  Min({a, b}) \in {a, b} /\ Min({a, b}) <= a /\ Min({a, b}) <= b
<1>1. \E x \in {a, b} : \A y \in {a, b} : x <= y
  OBVIOUS
<1> QED
  BY <1>1 DEF Min

\* runqputbatch adds its batch to the queues.
LEMMA PutBatch ==
    ASSUME NEW q, NEW L, Lists(q, L), NEW t, NEW M, Lists(t, M), NEW gs, NEW K, Lists(gs, K),
           L \intersect M = {}, L \intersect K = {}, M \intersect K = {},
           Len(q) <= RunqSize, RunqPutBatch(q, t, gs)
    PROVE  InQueues(runq', global', L \union M \union K)
<1> DEFINE room == RunqSize - Len(q)
           n == Min({Len(gs), room})
           a == SubSeq(gs, 1, n)
<1>1. q \in Seq(G) /\ Len(q) \in Nat /\ gs \in Seq(G) /\ Len(gs) \in Nat /\ room \in Nat
  BY SizeAssumption DEF Lists
<1>2. n \in Nat /\ n <= Len(gs) /\ n <= room
  <2> HIDE DEF room
  <2> QED
    BY <1>1, MinOfTwo
<1>3. PICK b \in Shuffles(a) : runq' = q \o b
  BY DEF RunqPutBatch
<1>4. global' = t \o SubSeq(gs, n + 1, Len(gs))
  BY DEF RunqPutBatch
<1> HIDE DEF n
<1>5. PICK A, B : /\ Lists(a, A) /\ Lists(SubSeq(gs, n + 1, Len(gs)), B)
                  /\ A \union B = K /\ A \intersect B = {}
  <2>1. Splits(gs, n, K)
    BY <1>1, <1>2, ListsCut
  <2> QED
    BY <2>1 DEF Splits
<1>6. Len(a) = n
  BY <1>1, <1>2
<1> HIDE DEF a
<1>7. Lists(b, A) /\ Len(b) = n
  BY <1>5, <1>6, ListsShuffle
<1>8. Len(runq') <= RunqSize
  BY <1>1, <1>2, <1>3, <1>7, SizeAssumption DEF Lists
<1>9. Lists(q \o b, L \union A)
  BY <1>5, <1>7, ListsConcat
<1>10. Lists(t \o SubSeq(gs, n + 1, Len(gs)), M \union B)
  BY <1>5, ListsConcat
<1>11. /\ Lists(runq', L \union A) /\ Lists(global', M \union B)
       /\ (L \union A) \intersect (M \union B) = {}
       /\ (L \union A) \union (M \union B) = L \union M \union K
  BY <1>3, <1>4, <1>5, <1>9, <1>10
<1> QED
  BY <1>8, <1>11 DEF InQueues

-----------------------------------------------------------------------------
\* What the steps of the runtime do to the goroutines.

\* The invariant: every goroutine waits, runs or is in one queue.
IInv ==
    /\ waiting \subseteq G
    /\ running \in G \union {NoG}
    /\ tick \in 0..(GlobalEvery - 1)
    /\ mode \in Modes
    /\ Holds(runnext, runq, global, Runnable)
    /\ waiting \union Runnable \union ({running} \ {NoG}) = G
    /\ waiting \intersect Runnable = {}
    /\ running \notin waiting \union Runnable

\* The P takes a goroutine off the queues.
LEMMA Takes ==
    ASSUME IInv, RunGlobal \/ RunNext \/ RunLocal \/ RunBatch
    PROVE  /\ running = NoG /\ running' \in Runnable /\ waiting' = waiting
           /\ Holds(runnext', runq', global', Runnable \ {running'})
<1> DEFINE L == ToSet(runq)
           M == ToSet(global)
<1>1. /\ Lists(runq, L) /\ Lists(global, M) /\ L \intersect M = {} /\ runnext \notin L \union M
      /\ L \subseteq G /\ M \subseteq G /\ NoG \notin G
      /\ runnext \in G \union {NoG} /\ Len(runq) <= RunqSize
      /\ Runnable = ({runnext} \ {NoG}) \union L \union M
      /\ runq \in Seq(G) /\ global \in Seq(G)
  <2>1. Runnable \subseteq G /\ Runnable = ({runnext} \ {NoG}) \union L \union M
    BY HoldsWhat DEF IInv
  <2>2. /\ Lists(runq, L) /\ Lists(global, M) /\ L \intersect M = {} /\ runnext \notin L \union M
        /\ runq \in Seq(G) /\ global \in Seq(G)
    BY HoldsWhat DEF IInv
  <2> QED
    BY <2>1, <2>2, GAssumption DEF IInv, Holds
<1> HIDE DEF L, M
<1>2. CASE RunGlobal
  <2>1. /\ running = NoG /\ global # <<>> /\ running' = Head(global) /\ global' = Tail(global)
        /\ UNCHANGED <<waiting, runnext, runq>>
    BY <1>2 DEF RunGlobal, TakesGlobal, Execute
  <2>2. Head(global) \in M /\ Lists(Tail(global), M \ {Head(global)})
    BY <1>1, <2>1, ListsHead
  <2>3. Runnable \ {Head(global)} = ({runnext} \ {NoG}) \union L \union (M \ {Head(global)})
    BY <1>1, <2>2
  <2> QED
    BY <1>1, <2>1, <2>2, <2>3 DEF Holds
<1>3. CASE RunNext
  <2>1. /\ running = NoG /\ runnext # NoG /\ running' = runnext /\ runnext' = NoG
        /\ UNCHANGED <<waiting, runq, global>>
    BY <1>3 DEF RunNext, Execute
  <2>2. Runnable \ {runnext} = ({NoG} \ {NoG}) \union L \union M
    BY <1>1
  <2> QED
    BY <1>1, <2>1, <2>2 DEF Holds
<1>4. CASE RunLocal
  <2>1. /\ running = NoG /\ runq # <<>> /\ running' = Head(runq) /\ runq' = Tail(runq)
        /\ UNCHANGED <<waiting, runnext, global>>
    BY <1>4 DEF RunLocal, Execute
  <2>2. Head(runq) \in L /\ Lists(Tail(runq), L \ {Head(runq)})
    BY <1>1, <2>1, ListsHead
  <2>3. Runnable \ {Head(runq)} = ({runnext} \ {NoG}) \union (L \ {Head(runq)}) \union M
    BY <1>1, <2>2
  <2>4. Len(Tail(runq)) <= RunqSize
    BY <1>1, <2>1, SizeAssumption
  <2> QED
    BY <1>1, <2>1, <2>2, <2>3, <2>4 DEF Holds
<1>5. CASE RunBatch
  <2> DEFINE n == Min({Len(global), RunqSize \div 2})
             a == SubSeq(global, 1, n)
             t == SubSeq(global, n + 1, Len(global))
             gs == SubSeq(global, 2, n)
  <2>1. /\ running = NoG /\ runnext = NoG /\ runq = <<>> /\ global # <<>>
        /\ running' = Head(global) /\ RunqPutBatch(runq, t, gs)
        /\ UNCHANGED <<waiting, runnext>>
    BY <1>5 DEF RunBatch, Execute
  <2>2. n \in Nat /\ n <= Len(global) /\ n >= 1
    <3>1. Len(global) \in Nat /\ Len(global) >= 1 /\ RunqSize \div 2 \in Nat /\ RunqSize \div 2 >= 1
      BY <1>1, <2>1, SizeAssumption
    <3> QED
      BY <3>1, MinOfTwo
  <2> HIDE DEF n
  <2>3. PICK A, B : /\ Lists(a, A) /\ Lists(t, B) /\ A \union B = M /\ A \intersect B = {}
    <3>1. Splits(global, n, M)
      BY <1>1, <2>2, ListsCut
    <3> QED
      BY <3>1 DEF Splits
  <2>4. a # <<>> /\ Head(a) = Head(global) /\ Tail(a) = gs
    <3>1. 1 \in 1..Len(global) /\ n \in 1..Len(global)
      BY <1>1, <2>2
    <3>2. Head(a) = global[1] /\ Tail(a) = SubSeq(global, 1 + 1, n)
      BY <1>1, <3>1, HeadTailOfSubSeq
    <3> QED
      BY <1>1, <2>1, <2>2, <3>2
  <2> HIDE DEF a, t, gs
  <2>5. Head(global) \in A /\ Lists(gs, A \ {Head(global)})
    BY <2>3, <2>4, ListsHead
  <2>6. L = {} /\ Lists(runq, {})
    BY <2>1, ListsFew DEF L, ToSet
  <2>7. InQueues(runq', global', {} \union B \union (A \ {Head(global)}))
    <3>1. {} \intersect B = {} /\ B \intersect (A \ {Head(global)}) = {} /\ Len(runq) <= RunqSize
      BY <1>1, <2>3
    <3> QED
      BY <2>1, <2>3, <2>5, <2>6, <3>1, PutBatch
  <2>8. Runnable \ {Head(global)} = B \union (A \ {Head(global)}) /\ Head(global) \in Runnable
    BY <1>1, <2>1, <2>3, <2>5, <2>6
  <2>9. NoG \notin M
    BY <1>1
  <2> QED
    BY <2>1, <2>3, <2>7, <2>8, <2>9 DEF Holds, InQueues
<1> QED
  BY <1>2, <1>3, <1>4, <1>5

\* The poller hands over some of the waiting goroutines when no queue holds any.
LEMMA Polls ==
    ASSUME IInv, RunPolled
    PROVE  /\ running = NoG /\ Runnable = {}
           /\ running' \in waiting \ waiting' /\ waiting' \subseteq waiting
           /\ Holds(runnext', runq', global', (waiting \ waiting') \ {running'})
<1>1. PICK list \in SetToAllKPermutations(waiting) \ {<<>>} :
         /\ waiting' = waiting \ ToSet(list) /\ running' = Head(list)
         /\ RunqPutBatch(runq, global, Tail(list))
  BY DEF RunPolled, Execute
<1>2. running = NoG /\ Runnable = {} /\ runnext' = runnext
  BY DEF RunPolled
<1>3. PICK W \in SUBSET waiting : list \in SetToSeqs(W)
  BY <1>1 DEF SetToAllKPermutations
<1>4. Lists(list, W) /\ W = ToSet(list)
  <2>1. IsFiniteSet(W) /\ W \subseteq G
    BY <1>3, FS_Subset, GAssumption DEF IInv
  <2> DEFINE n == Cardinality(W)
  <2>2. /\ list \in [1..n -> W] /\ n \in Nat
        /\ \A i, j \in 1..n : list[i] = list[j] => i = j
        /\ \A x \in W : \E i \in 1..n : list[i] = x
    BY <1>3, <2>1, Positions
  <2> HIDE DEF n
  <2>3. list \in Seq(G) /\ DOMAIN list = 1..n
    BY <2>1, <2>2
  <2>4. Lists(list, W)
    BY <2>2, <2>3 DEF Lists
  <2> QED
    BY <2>3, <2>4, ListsItself
<1>5. Head(list) \in W /\ Lists(Tail(list), W \ {Head(list)})
  BY <1>1, <1>4, ListsHead
<1>6. /\ Lists(runq, {}) /\ Lists(global, {}) /\ Len(runq) <= RunqSize
      /\ runnext = NoG
  <2>1. /\ Lists(runq, ToSet(runq)) /\ Lists(global, ToSet(global))
        /\ runnext \in G \union {NoG} /\ Len(runq) <= RunqSize
    <3>1. Holds(runnext, runq, global, Runnable)
      BY DEF IInv
    <3>2. runnext \in G \union {NoG} /\ Len(runq) <= RunqSize
      BY <3>1 DEF Holds
    <3> QED
      BY <3>1, <3>2, HoldsWhat
  <2>2. ({runnext} \ {NoG}) \union ToSet(runq) \union ToSet(global) = {}
    BY <1>2 DEF Runnable
  <2> QED
    BY <2>1, <2>2
<1>7. InQueues(runq', global', {} \union {} \union (W \ {Head(list)}))
  BY <1>1, <1>5, <1>6, PutBatch
<1>8. waiting \ waiting' = W /\ NoG \notin G
  BY <1>1, <1>3, <1>4, GAssumption
<1>9. runnext' \in G \union {NoG} /\ \A L \in SUBSET G : runnext' \notin L
  BY <1>2, <1>6, <1>8
<1>10. W \subseteq G
  BY <1>3 DEF IInv
<1> QED
  BY <1>1, <1>2, <1>3, <1>5, <1>6, <1>7, <1>8, <1>10 DEF Holds, InQueues

\* A goroutine that is readied goes from the waiters to the queues.
LEMMA Wakes ==
    ASSUME IInv, NEW w \in G, Ready(w)
    PROVE  /\ w \in waiting /\ waiting' = waiting \ {w} /\ running' = running
           /\ Holds(runnext', runq', global', Runnable \union {w})
<1>1. /\ w \in waiting /\ waiting' = waiting \ {w} /\ running' = running
      /\ RunqPut(w, TRUE)
  BY DEF Ready
<1>2. w \notin Runnable /\ Holds(runnext, runq, global, Runnable)
  BY <1>1 DEF IInv
<1> QED
  BY <1>1, <1>2, Put

\* The running goroutine goes to the waiters or to the queues.
LEMMA Stops ==
    ASSUME IInv, Stop
    PROVE  /\ running \in G /\ running' = NoG
           /\ \/ /\ waiting' = waiting \union {running}
                 /\ Holds(runnext', runq', global', Runnable)
              \/ /\ waiting' = waiting
                 /\ Holds(runnext', runq', global', Runnable \union {running})
<1>1. running \in G /\ running' = NoG /\ running \notin Runnable /\ Holds(runnext, runq, global, Runnable)
  BY DEF Stop, Block, Gosched, Goyield, IInv
<1>2. CASE Block
  BY <1>1, <1>2 DEF Block
<1>3. CASE Gosched
  <2> DEFINE L == ToSet(runq)
             M == ToSet(global)
  <2>1. /\ Lists(runq, L) /\ Lists(global, M) /\ L \intersect M = {} /\ runnext \notin L \union M
        /\ Runnable = ({runnext} \ {NoG}) \union L \union M
    BY <1>1, HoldsWhat
  <2> HIDE DEF L, M
  <2>2. waiting' = waiting /\ runnext' = runnext /\ runq' = runq /\ global' = Append(global, running)
    BY <1>3 DEF Gosched
  <2>3. Lists(global', M \union {running})
    BY <1>1, <2>1, <2>2, ListsAppend
  <2>4. runnext # running /\ running \notin L
    BY <1>1, <2>1, GAssumption
  <2>5. /\ L \intersect (M \union {running}) = {} /\ runnext' \notin L \union (M \union {running})
        /\ Runnable \union {running} = ({runnext'} \ {NoG}) \union L \union (M \union {running})
    BY <2>1, <2>2, <2>4
  <2>6. Lists(runq', L) /\ Len(runq') <= RunqSize /\ runnext' \in G \union {NoG}
    BY <1>1, <2>1, <2>2 DEF Holds
  <2>7. Holds(runnext', runq', global', Runnable \union {running})
    BY <2>3, <2>5, <2>6 DEF Holds
  <2> QED
    BY <1>1, <2>2, <2>7
<1>4. CASE Goyield
  BY <1>1, <1>4, Put DEF Goyield
<1> QED
  BY <1>1, <1>2, <1>3, <1>4 DEF Stop

\* The inductive invariant holds in every reachable state.
LEMMA Inductive == Spec => []IInv
<1>1. Init => IInv
  <2> SUFFICES ASSUME Init PROVE IInv
    OBVIOUS
  <2>1. Lists(runq, {}) /\ Lists(global, {})
    BY ListsFew DEF Init
  <2>2. Len(runq) = 0 /\ Runnable = {}
    BY DEF Init, Runnable, ToSet
  <2>3. Holds(runnext, runq, global, {})
    BY <2>1, <2>2, SizeAssumption DEF Init, Holds
  <2> QED
    BY <2>2, <2>3, SizeAssumption, GAssumption DEF Init, IInv
<1>2. IInv /\ [Next]_vars => IInv'
  <2> SUFFICES ASSUME IInv, [Next]_vars PROVE IInv'
    OBVIOUS
  <2>1. \A X : Holds(runnext', runq', global', X) => X = Runnable'
    BY HoldsWhat DEF Runnable
  <2>2. CASE UNCHANGED vars
    BY <2>2 DEF vars, queues, IInv, Runnable
  <2>3. CASE Next
    <3>1. mode' \in Modes
      BY <2>3 DEF Next, IInv
    <3>2. tick' \in 0..(GlobalEvery - 1)
      <4>1. (tick + 1) % GlobalEvery \in 0..(GlobalEvery - 1)
        BY SizeAssumption DEF IInv
      <4> QED
        BY <2>3, <4>1 DEF Next, IInv, Schedule, Stop, RunGlobal, RunNext, RunLocal, RunBatch, RunPolled,
           Ready, Block, Gosched, Goyield, Execute
    <3>3. CASE RunGlobal \/ RunNext \/ RunLocal \/ RunBatch
      <4>1. /\ running = NoG /\ running' \in Runnable /\ waiting' = waiting
            /\ Holds(runnext', runq', global', Runnable \ {running'})
        BY <3>3, Takes
      <4>2. Runnable' = Runnable \ {running'} /\ Runnable \subseteq G
        BY <2>1, <4>1, HoldsWhat DEF IInv
      <4> QED
        BY <3>1, <3>2, <4>1, <4>2 DEF IInv
    <3>4. CASE RunPolled
      <4>1. /\ running = NoG /\ Runnable = {}
            /\ running' \in waiting \ waiting' /\ waiting' \subseteq waiting
            /\ Holds(runnext', runq', global', (waiting \ waiting') \ {running'})
        BY <3>4, Polls
      <4>2. Runnable' = (waiting \ waiting') \ {running'}
        BY <2>1, <4>1
      <4> QED
        BY <3>1, <3>2, <4>1, <4>2, GAssumption DEF IInv
    <3>5. ASSUME NEW w \in G, Ready(w) PROVE IInv'
      <4>1. /\ w \in waiting /\ waiting' = waiting \ {w} /\ running' = running
            /\ Holds(runnext', runq', global', Runnable \union {w})
        BY <3>5, Wakes
      <4>2. Runnable' = Runnable \union {w}
        BY <2>1, <4>1
      <4> QED
        BY <3>1, <3>2, <4>1, <4>2 DEF IInv
    <3>6. CASE Stop
      <4>1. /\ running \in G /\ running' = NoG
            /\ \/ /\ waiting' = waiting \union {running}
                  /\ Holds(runnext', runq', global', Runnable)
               \/ /\ waiting' = waiting
                  /\ Holds(runnext', runq', global', Runnable \union {running})
        BY <3>6, Stops
      <4>2. Runnable \subseteq G /\ NoG \notin G
        BY HoldsWhat, GAssumption DEF IInv
      <4>3. CASE waiting' = waiting \union {running} /\ Holds(runnext', runq', global', Runnable)
        <5>1. Runnable' = Runnable
          BY <2>1, <4>3
        <5> QED
          BY <3>1, <3>2, <4>1, <4>2, <4>3, <5>1 DEF IInv
      <4>4. CASE waiting' = waiting /\ Holds(runnext', runq', global', Runnable \union {running})
        <5>1. Runnable' = Runnable \union {running}
          BY <2>1, <4>4
        <5> QED
          BY <3>1, <3>2, <4>1, <4>2, <4>4, <5>1 DEF IInv
      <4> QED
        BY <4>1, <4>3, <4>4
    <3> QED
      BY <2>3, <3>3, <3>4, <3>5, <3>6 DEF Next, Schedule
  <2> QED
    BY <2>2, <2>3
<1> QED
  BY <1>1, <1>2, PTL DEF Spec

\* The queues hold goroutines, and the local one fits into its array: what
\* runqput, runqputslow and runqputbatch may do to them.
THEOREM TypeCorrect == Spec => []TypeOK
<1>1. IInv => TypeOK
  <2> SUFFICES ASSUME IInv PROVE TypeOK
    OBVIOUS
  <2>1. runq \in Seq(G) /\ global \in Seq(G)
    BY HoldsWhat DEF IInv
  <2> QED
    BY <2>1 DEF IInv, TypeOK, Holds
<1> QED
  BY <1>1, Inductive, PTL

\* runqput, runqputslow, runqputbatch and findRunnable neither lose a goroutine
\* nor queue one twice, whatever overflows and whatever the shuffles do.
THEOREM AlwaysAccounted == Spec => []Accounted
<1>1. IInv => Accounted
  <2> SUFFICES ASSUME IInv PROVE Accounted
    OBVIOUS
  <2>1. NoDuplicate
    BY HoldsWhat DEF IInv, NoDuplicate
  <2> QED
    BY <2>1 DEF IInv, Accounted
<1> QED
  BY <1>1, Inductive, PTL

\* Every step of findRunnable, of ready and of a goroutine that blocks or yields
\* is a step of GoSched: the patched queues are invisible to the program but
\* for the order in which its goroutines run.
THEOREM StepsOfGoSched == Spec => S!Init /\ [][S!Next]_Seen
<1>1. Init => S!Init
  <2>1. Init => Runnable = {}
    BY DEF Init, Runnable, ToSet
  <2> QED
    BY <2>1, GAssumption DEF Init, S!Init, Seen
<1>2. IInv /\ IInv' /\ [Next]_vars => [S!Next]_Seen
  <2> SUFFICES ASSUME IInv, IInv', [Next]_vars PROVE [S!Next]_Seen
    OBVIOUS
  <2>1. \A R : Holds(runnext', runq', global', R) => R = Runnable'
    BY HoldsWhat DEF Runnable
  <2>2. /\ Runnable \subseteq G /\ waiting \subseteq G /\ NoG \notin G
        /\ waiting \intersect Runnable = {} /\ running \notin waiting \union Runnable
        /\ waiting \union Runnable \union ({running} \ {NoG}) = G
    BY HoldsWhat, GAssumption DEF IInv
  <2>3. /\ Seen = [g \in G |-> IF g = running THEN "running"
                               ELSE IF g \in Runnable THEN "runnable" ELSE "waiting"]
        /\ Seen' = [g \in G |-> IF g = running' THEN "running"
                                ELSE IF g \in Runnable' THEN "runnable" ELSE "waiting"]
    BY DEF Seen
  <2>4. CASE UNCHANGED vars
    BY <2>4 DEF vars, queues, Seen, Runnable
  <2>5. CASE RunGlobal \/ RunNext \/ RunLocal \/ RunBatch
    <3>1. /\ running = NoG /\ running' \in Runnable /\ waiting' = waiting
          /\ Holds(runnext', runq', global', Runnable \ {running'})
      BY <2>5, Takes
    <3>2. Runnable' = Runnable \ {running'} /\ running' \in G
      BY <2>1, <2>2, <3>1
    <3>3. S!Idle /\ Seen[running'] = "runnable"
      BY <2>2, <2>3, <3>1, <3>2 DEF S!Idle
    <3>4. Seen' = [Seen EXCEPT ![running'] = "running"]
      BY <2>2, <2>3, <3>1, <3>2
    <3>5. S!Run(running')
      BY <3>3, <3>4 DEF S!Run
    <3> QED
      BY <3>2, <3>5 DEF S!Next
  <2>6. CASE RunPolled
    <3>1. /\ running = NoG /\ Runnable = {}
          /\ running' \in waiting \ waiting' /\ waiting' \subseteq waiting
          /\ Holds(runnext', runq', global', (waiting \ waiting') \ {running'})
      BY <2>6, Polls
    <3>2. \A g \in G : Seen[g] = "waiting"
      BY <2>2, <2>3, <3>1
    <3>3. Seen' \in [G -> S!Status] /\ running' \in G /\ Seen'[running'] = "running"
      BY <2>2, <2>3, <3>1 DEF S!Status
    <3>4. \A h \in G \ {running'} : Seen'[h] # "running"
      BY <2>3
    <3> QED
      BY <3>2, <3>3, <3>4 DEF S!Next, S!Poll
  <2>7. ASSUME NEW w \in G, Ready(w) PROVE S!Next
    <3>1. /\ w \in waiting /\ waiting' = waiting \ {w} /\ running' = running
          /\ Holds(runnext', runq', global', Runnable \union {w})
      BY <2>7, Wakes
    <3>2. Runnable' = Runnable \union {w} /\ w # running
      BY <2>1, <2>2, <3>1
    <3>3. Seen[w] = "waiting" /\ Seen' = [Seen EXCEPT ![w] = "runnable"]
      BY <2>2, <2>3, <3>1, <3>2
    <3> QED
      BY <3>3 DEF S!Next, S!Wake
  <2>8. CASE Stop
    <3>1. /\ running \in G /\ running' = NoG
          /\ \/ /\ waiting' = waiting \union {running}
                /\ Holds(runnext', runq', global', Runnable)
             \/ /\ waiting' = waiting
                /\ Holds(runnext', runq', global', Runnable \union {running})
      BY <2>8, Stops
    <3>2. Seen[running] = "running"
      BY <2>3, <3>1
    <3>3. Runnable' = Runnable \/ Runnable' = Runnable \union {running}
      BY <2>1, <3>1
    <3>4. CASE Runnable' = Runnable
      <4>1. Seen' = [Seen EXCEPT ![running] = "waiting"]
        BY <2>2, <2>3, <3>1, <3>4
      <4> QED
        BY <3>1, <3>2, <4>1 DEF S!Next, S!GiveWay, S!Status
    <3>5. CASE Runnable' = Runnable \union {running}
      <4>1. Seen' = [Seen EXCEPT ![running] = "runnable"]
        BY <2>2, <2>3, <3>1, <3>5
      <4> QED
        BY <3>1, <3>2, <4>1 DEF S!Next, S!GiveWay, S!Status
    <3> QED
      BY <3>3, <3>4, <3>5
  <2> QED
    BY <2>4, <2>5, <2>6, <2>7, <2>8 DEF Next, Schedule
<1>3. Spec => [][Next]_vars
  BY DEF Spec
<1> QED
  BY <1>1, <1>2, <1>3, Inductive, PTL DEF Spec
=============================================================================
