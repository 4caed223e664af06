------------------------------ MODULE RunqRing ------------------------------
(***************************************************************************)
(* The array under the local queue of RunQueue: pp.runq with its counters  *)
(* runqhead and runqtail, and the swaps by which the patched runqputslow   *)
(* and runqputbatch shuffle it. RunQueue says that a shuffle is some       *)
(* permutation and a queue some sequence; here are the loops of the patch  *)
(* and the indexes they compute, for a queue at any place of its array. A  *)
(* slot outside the queue holds NoG, so that a swap that reaches one shows.*)
(***************************************************************************)
EXTENDS RunQueue

CONSTANT Word    \* the counters are in 0..Word-1: 2^32 in the runtime

ASSUME WordAssumption == Word \in Nat /\ Word > RunqSize /\ Word % RunqSize = 0

Slots == 0..(RunqSize - 1)
Counter == 0..(Word - 1)

\* The queue, from runqhead = h on, and the array as a queue again.
TailAt(h) == (h + Len(runq)) % Word
RingAt(h) == [s \in Slots |->
                LET k == ((s - h) % RunqSize) + 1 IN IF k <= Len(runq) THEN runq[k] ELSE NoG]
Contents(ring, h, t) == [k \in 1..((t - h) % Word) |-> ring[(h + k - 1) % RunqSize]]

-----------------------------------------------------------------------------
\* The shuffles.

Swap(a, x, y) == [a EXCEPT ![x] = a[y], ![y] = a[x]]

\* schedulerRandnFrom(i+1, ...) for i = 1..n
Picks(n) == {j \in [1..n -> 0..n] : \A i \in 1..n : j[i] <= i}

\* for i := 1; i <= n; i++, of an array whose offset o is at at[o]
Swapped(a, at, n) ==
    {FoldLeft(LAMBDA b, i : Swap(b, at[i], at[j[i]]), a, [i \in 1..n |-> i]) : j \in Picks(n)}

\* The loop under schedulerRandomized, and the one under detschedFuzzEnabled
\* after it.
Outcomes(a, at, n) ==
    IF ~SchedulerRandomized THEN {a}
    ELSE LET once == Swapped(a, at, n)
         IN IF Enabled THEN once \union UNION {Swapped(b, at, n) : b \in once} ELSE once

-----------------------------------------------------------------------------
\* What is left in the local queue, and what goes to the global one.

\* runqputslow: the first half and g, in an array of their own.
RingPutSlow(h, g) ==
    LET n == ((TailAt(h) - h) % Word) \div 2
        batch == [i \in 0..n |-> IF i < n THEN RingAt(h)[(h + i) % RunqSize] ELSE g]
        left == Contents(RingAt(h), (h + n) % Word, TailAt(h))
    IN {<<left, [k \in 1..(n + 1) |-> b[k - 1]]>> : b \in Outcomes(batch, [o \in 0..n |-> o], n)}

\* Mutant: the bound of runqputslow's loop.
MutBatchSwaps(n) == n
\* for i := 1; i < n; i++
BatchSwaps(n) == n - 1

\* off, in runqputbatch: runqtail has not moved yet.
Off(h) == [o \in 0..RunqSize |-> ((TailAt(h) + o) % Word) % RunqSize]

\* runqputbatch: what fits is in the ring, behind the tail, when it is shuffled.
RingPutBatch(h, gs) ==
    LET n == Min({Len(gs), RunqSize - Len(runq)})
        filled == FoldLeft(LAMBDA a, k : [a EXCEPT ![Off(h)[k - 1]] = gs[k]],
                           RingAt(h), [k \in 1..n |-> k])
    IN {<<Contents(a, h, (TailAt(h) + n) % Word), SubSeq(gs, n + 1, Len(gs))>> :
           a \in Outcomes(filled, Off(h), BatchSwaps(n))}

-----------------------------------------------------------------------------

\* The order in a batch plays no part: one batch of each length will do.
Batches == {SubSeq(SetToSeq(waiting), 1, k) : k \in 1..Cardinality(waiting)}

\* Whenever nobody runs, wherever the queue sits in its array, and whichever
\* indexes the swaps draw: an overflow hands over the first half and the
\* newcomer, a batch goes behind the queue, each in any order that RunQueue
\* allows and in no other, and the shuffle of a batch that runqputbatch puts into
\* the ring before runqtail moves reaches nobody outside it.
RingIsQueue ==
    running = NoG => \A h \in Counter :
        /\ LET half == RunqSize \div 2
           IN Len(runq) = RunqSize => \A g \in waiting :
                RingPutSlow(h, g) =
                    {<<SubSeq(runq, half + 1, RunqSize), b>> :
                        b \in Shuffles(Append(SubSeq(runq, 1, half), g))}
        /\ \A gs \in Batches :
              LET n == Min({Len(gs), RunqSize - Len(runq)})
              IN RingPutBatch(h, gs) =
                    {<<runq \o b, SubSeq(gs, n + 1, Len(gs))>> : b \in Shuffles(SubSeq(gs, 1, n))}
=============================================================================
