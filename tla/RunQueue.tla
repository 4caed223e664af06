------------------------------ MODULE RunQueue ------------------------------
(***************************************************************************)
(* The run queues of the Go scheduler on one P, with the changes that      *)
(* patches/detsched.inline.patch makes to runtime/proc.go.                 *)
(*                                                                         *)
(* runqput, runqputslow and runqputbatch are the patched functions;        *)
(* findRunnable, the global queue and what a goroutine does while it runs  *)
(* are the runtime around them. The process has one P, as deterministic    *)
(* mode gives it unless the program asks for more; sysmon and              *)
(* asynchronous preemption are off in the mode, so every step below is     *)
(* one uninterrupted stretch of runtime code. A shuffle is a fixed         *)
(* function of the seed and the goroutine IDs; here it is any              *)
(* permutation, and RunqRing has the swaps.                                *)
(***************************************************************************)
EXTENDS Integers, Sequences, FiniteSets, SequencesExt

CONSTANTS
    G,             \* goroutines
    NoG,           \* the nil goroutine
    RunqSize,      \* len(pp.runq): 256 in the runtime
    GlobalEvery,   \* schedtick % 61 == 0 looks at the global queue first
    Modes,         \* how the process was built and started
    HaveSysmon     \* the platform has a sysmon thread

ASSUME GAssumption == IsFiniteSet(G) /\ NoG \notin G
ASSUME SizeAssumption ==
    /\ RunqSize \in Nat /\ RunqSize > 0 /\ RunqSize % 2 = 0
    /\ GlobalEvery \in Nat /\ GlobalEvery > 0
ASSUME ModeAssumption == Modes \subseteq {"detsched", "race", "plain"} /\ HaveSysmon \in BOOLEAN

VARIABLES
    waiting,    \* goroutines blocked in a channel operation, a timer or the poller
    running,    \* the goroutine on the P
    runnext,    \* pp.runnext
    runq,       \* pp.runq, from head to tail
    global,     \* sched.runq
    tick,       \* pp.schedtick, modulo GlobalEvery
    mode        \* what does not change while the process runs

queues == <<waiting, running, runnext, runq, global, tick>>
vars == <<queues, mode>>

Init ==
    /\ waiting = G
    /\ running = NoG /\ runnext = NoG
    /\ runq = <<>> /\ global = <<>>
    /\ tick = 0
    /\ mode \in Modes

Enabled == mode = "detsched"       \* detschedEnabled()
Race == mode = "race"              \* raceenabled

Runnable == ({runnext} \ {NoG}) \union ToSet(runq) \union ToSet(global)

\* sysmonEnabled, schedulerRandomized
MutHaveSysmon == HaveSysmon              \* mutant: the guard before the patch
SysmonEnabled == HaveSysmon /\ ~Enabled
SchedulerRandomized == Race \/ Enabled

\* What the swaps of a shuffle, and of the fuzz shuffle after it, can make of s.
Shuffles(s) ==
    IF SchedulerRandomized
    THEN {[i \in DOMAIN s |-> s[p[i]]] : p \in SetToSeqs(DOMAIN s)}
    ELSE {s}

-----------------------------------------------------------------------------
\* The patched functions.

\* Mutant: the goroutine that does not fit is not part of the batch.
MutDropsLast(g) ==
    LET half == RunqSize \div 2
    IN /\ \E b \in Shuffles(SubSeq(runq, 1, half)) : global' = global \o b
       /\ runq' = SubSeq(runq, half + 1, RunqSize)

\* runqputslow: half of the full local queue, from its head, and g go to the
\* tail of the global queue, shuffled.
RunqPutSlow(g) ==
    LET half == RunqSize \div 2
    IN /\ \E b \in Shuffles(Append(SubSeq(runq, 1, half), g)) : global' = global \o b
       /\ runq' = SubSeq(runq, half + 1, RunqSize)

\* Mutant: one goroutine too many fits.
MutOneMore(g) ==
    \/ /\ Len(runq) <= RunqSize
       /\ runq' = Append(runq, g)
       /\ UNCHANGED global
    \/ /\ Len(runq) > RunqSize
       /\ RunqPutSlow(g)

RunqPutTail(g) ==
    \/ /\ Len(runq) < RunqSize
       /\ runq' = Append(runq, g)
       /\ UNCHANGED global
    \/ /\ Len(runq) = RunqSize
       /\ RunqPutSlow(g)

\* Mutant: the new goroutine is kicked out in place of the old one.
MutKicksNew(g, next) ==
    \/ /\ next /\ SysmonEnabled
       /\ runnext' = g
       /\ IF runnext = NoG THEN UNCHANGED <<runq, global>> ELSE RunqPutTail(g)
    \/ /\ next => ~SysmonEnabled \/ SchedulerRandomized
       /\ RunqPutTail(g)
       /\ UNCHANGED runnext

\* runqput(pp, g, next): a new runnext kicks the old one out to the tail.
\* Without sysmon nothing goes to runnext, and a randomized scheduler keeps some
\* goroutines out of it (schedulerDropRunNext).
RunqPut(g, next) ==
    \/ /\ next /\ SysmonEnabled
       /\ runnext' = g
       /\ IF runnext = NoG THEN UNCHANGED <<runq, global>> ELSE RunqPutTail(runnext)
    \/ /\ next => ~SysmonEnabled \/ SchedulerRandomized
       /\ RunqPutTail(g)
       /\ UNCHANGED runnext

\* runqputbatch(pp, gs): what fits goes to the tail of the local queue q,
\* shuffled, the rest to the tail of the global queue.
RunqPutBatch(q, glob, gs) ==
    LET n == Min({Len(gs), RunqSize - Len(q)})
    IN /\ \E b \in Shuffles(SubSeq(gs, 1, n)) : runq' = q \o b
       /\ global' = glob \o SubSeq(gs, n + 1, Len(gs))

-----------------------------------------------------------------------------
\* The runtime around them.

\* execute: the goroutine starts a time slice, or inherits the current one.
Execute(g, inherit) ==
    /\ running' = g
    /\ tick' = IF inherit THEN tick ELSE (tick + 1) % GlobalEvery

TakesGlobal == tick = 0 /\ global # <<>>

\* findRunnable: once in a while the head of the global queue, ...
RunGlobal ==
    /\ running = NoG /\ TakesGlobal
    /\ Execute(Head(global), FALSE)
    /\ global' = Tail(global)
    /\ UNCHANGED <<waiting, runnext, runq>>

\* ... else runnext, in the same time slice, ...
RunNext ==
    /\ running = NoG /\ ~TakesGlobal
    /\ runnext # NoG
    /\ Execute(runnext, TRUE)
    /\ runnext' = NoG
    /\ UNCHANGED <<waiting, runq, global>>

\* ... else the head of the local queue, ...
RunLocal ==
    /\ running = NoG /\ ~TakesGlobal
    /\ runnext = NoG /\ runq # <<>>
    /\ Execute(Head(runq), FALSE)
    /\ runq' = Tail(runq)
    /\ UNCHANGED <<waiting, runnext, global>>

\* ... else a batch of the global queue, the first of which runs, ...
RunBatch ==
    LET n == Min({Len(global), RunqSize \div 2})
    IN /\ running = NoG /\ ~TakesGlobal
       /\ runnext = NoG /\ runq = <<>> /\ global # <<>>
       /\ Execute(Head(global), FALSE)
       /\ RunqPutBatch(runq, SubSeq(global, n + 1, Len(global)), SubSeq(global, 2, n))
       /\ UNCHANGED <<waiting, runnext>>

\* ... else what the network poller has found ready, in the poller's order.
RunPolled ==
    /\ running = NoG /\ Runnable = {}
    /\ \E list \in SetToAllKPermutations(waiting) \ {<<>>} :
          /\ waiting' = waiting \ ToSet(list)
          /\ Execute(Head(list), FALSE)
          /\ RunqPutBatch(runq, global, Tail(list))
    /\ UNCHANGED runnext

\* A channel operation of the running goroutine, or a timer, makes w runnable.
Ready(w) ==
    /\ w \in waiting
    /\ waiting' = waiting \ {w}
    /\ RunqPut(w, TRUE)
    /\ UNCHANGED <<running, tick>>

\* The running goroutine blocks, ...
Block ==
    /\ running # NoG
    /\ running' = NoG
    /\ waiting' = waiting \union {running}
    /\ UNCHANGED <<runnext, runq, global, tick>>

\* ... calls Gosched (or is preempted, where there is a sysmon to do it), ...
Gosched ==
    /\ running # NoG
    /\ running' = NoG
    /\ global' = Append(global, running)
    /\ UNCHANGED <<waiting, runnext, runq, tick>>

\* ... or hands a semaphore over to the goroutine it has just readied (goyield).
Goyield ==
    /\ running # NoG
    /\ running' = NoG
    /\ RunqPut(running, FALSE)
    /\ UNCHANGED <<waiting, tick>>

Schedule == RunGlobal \/ RunNext \/ RunLocal \/ RunBatch \/ RunPolled
Stop == Block \/ Gosched \/ Goyield
Next ==
    /\ Schedule \/ Stop \/ \E w \in G : Ready(w)
    /\ UNCHANGED mode

Spec == Init /\ [][Next]_vars

\* The P looks for work while there is some. Nothing preempts a goroutine in
\* deterministic mode: that each one blocks or yields at last is assumed.
FairSpec == /\ Spec
            /\ WF_vars((RunGlobal \/ RunNext \/ RunLocal \/ RunBatch) /\ UNCHANGED mode)
            /\ WF_vars(Stop /\ UNCHANGED mode)

-----------------------------------------------------------------------------

\* The queues hold goroutines, and the local one is never longer than its array.
TypeOK ==
    /\ waiting \subseteq G
    /\ running \in G \union {NoG} /\ runnext \in G \union {NoG}
    /\ runq \in Seq(G) /\ Len(runq) <= RunqSize
    /\ global \in Seq(G)
    /\ tick \in 0..(GlobalEvery - 1)
    /\ mode \in Modes

\* No goroutine is twice in the queues: it would run on two stacks.
NoDuplicate ==
    /\ IsInjective(runq) /\ IsInjective(global)
    /\ ToSet(runq) \intersect ToSet(global) = {}
    /\ runnext \notin ToSet(runq) \union ToSet(global)

\* Every goroutine waits, runs or is in one queue: no way through runqput, a
\* full queue, a batch or a shuffle loses one, and none stays behind in the
\* array or among the waiters when it runs.
Accounted ==
    /\ NoDuplicate
    /\ waiting \union Runnable \union ({running} \ {NoG}) = G
    /\ waiting \intersect Runnable = {}
    /\ running \notin waiting \union Runnable

\* Whatever overflows, is kicked out, moves in a batch or is shuffled, the queues
\* implement GoSched: a step of the runtime wakes, runs or stops the goroutines it
\* means to and no other, and the P finds work as long as a queue holds any.
Seen ==
    [g \in G |-> IF g = running THEN "running"
                 ELSE IF g \in Runnable THEN "runnable" ELSE "waiting"]
S == INSTANCE GoSched WITH status <- Seen
ImplementsGoSched == S!Spec

\* In deterministic mode every runnable goroutine runs at last, though nothing
\* preempts and two others wake each other for ever, unless the local queue fills
\* up time and again: runqputslow takes the oldest goroutines of a full queue back to the global
\* one, and can do so to the same goroutine each time. Without sysmon this needs
\* the guard of runqput ("risk starvation") to know that deterministic mode has
\* turned sysmon off.
NoStarvation ==
    Enabled /\ <>[](Len(runq) < RunqSize) => \A g \in G : g \in Runnable ~> running = g
=============================================================================
