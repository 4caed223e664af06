------------------------------ MODULE Detsched ------------------------------
(***************************************************************************)
(* The policy of new-files/src/runtime/detsched.go, the places where         *)
(* patches/detsched.inline.patch calls it while a process starts, and the    *)
(* decisions it makes for the process afterwards.                            *)
(*                                                                         *)
(* What is promised ("same seed => stable outcomes") relates two runs, so    *)
(* the module has several processes side by side that share nothing. The     *)
(* mixing function is left uninterpreted: a deterministic value is the pair  *)
(* of the seed and the salt it was made from.                                *)
(***************************************************************************)
EXTENDS Integers, Sequences

CONSTANTS
    Proc,            \* processes that run the same binary
    Godebug,         \* the GODEBUG settings they may be started with, a function of Proc each
    EarlyGodebug,    \* the platform hands over GODEBUG before schedinit needs it
    HaveSysmon,      \* the platform has a sysmon thread
    Race,            \* raceenabled
    IntLimit,        \* debug.detschedseed is in -IntLimit..IntLimit-1: 2^31 in the runtime
    WordSize,        \* detsched.seed is in 0..WordSize-1: 2^64 in the runtime
    MaxProcs,        \* bound: Ps that the environment, the machine or the program asks for
    Selects,         \* arguments (i, norder) of selectgo's permutation
    Shuffles,        \* arguments (i, goid) of the run queue shuffles
    Maps,            \* salts of map seeds and iterators
    Random,          \* values that the operating system's randomness may lead to
    MaxDraws         \* bound: decisions looked at in one process

Setting == [detsched : BOOLEAN, fuzz : BOOLEAN, seed : Int, timer : {0, 1}]
IntMin == -IntLimit
IntMax == IntLimit - 1

\* The word is at least as wide as the int.
ASSUME WidthAssumption ==
    IntLimit \in Nat \ {0} /\ WordSize \in Nat /\ WordSize >= 2 * IntLimit
ASSUME SettingAssumption == Godebug \subseteq [Proc -> Setting]
ASSUME ModeAssumption ==
    /\ EarlyGodebug \in BOOLEAN /\ HaveSysmon \in BOOLEAN /\ Race \in BOOLEAN
    /\ MaxProcs \in Nat \ {0} /\ MaxDraws \in Nat
\* An argument names the function that decides.
ASSUME SiteAssumption ==
    /\ Selects \intersect Shuffles = {}
    /\ Maps \intersect (Selects \union Shuffles) = {}

VARIABLE rt      \* what the runtime of each process holds
vars == <<rt>>

Seed == 0..(WordSize - 1)
Site == Selects \union Shuffles \union Maps
\* A salt is its site and, in fuzz mode, the number of the draw.
Fixed == Seed \X (Site \union {"rand", "hash"}) \X Nat
Drawn == Fixed \union Random

\* Mutant: the hook sits after the hash keys are drawn.
MutInitLate == <<"parse", "rand", "hash", "init", "late parse", "procs", "main", "user">>
\* schedinit and runtime.main, as far as they matter here.
BootOrder == <<"parse", "init", "rand", "hash", "late parse", "procs", "main", "user">>

At(p, stage) == BootOrder[rt[p].stage] = stage

Unset == [detsched |-> FALSE, fuzz |-> FALSE, seed |-> 0, timer |-> 0]

\* godebug is the environment; dbg, enabled, seed and fuzzSeq are debug.* and
\* detsched.*; forced tells that detschedInit has set its other debug.* knobs;
\* asked is the last argument of runtime.GOMAXPROCS, 0 before the first call.
Init ==
    \E g \in Godebug :
        rt = [p \in Proc |->
                [stage |-> 1, godebug |-> g[p], dbg |-> Unset,
                 enabled |-> FALSE, seed |-> 0, fuzzSeq |-> 0, forced |-> FALSE,
                 roots |-> <<>>, procs |-> 0, asked |-> 0, sysmon |-> FALSE,
                 tracing |-> FALSE, profiling |-> FALSE, draws |-> <<>>]]

-----------------------------------------------------------------------------
\* The helpers of detsched.go.

\* The condition of detschedInit. Mutant: fuzzing alone does not count.
MutNoFuzz(d) == d.detsched \/ d.seed # 0
Asked(d) == d.detsched \/ d.fuzz \/ d.seed # 0
Requested(r) == r.enabled \/ r.dbg.detsched \/ r.dbg.fuzz \/ r.dbg.seed # 0
FuzzEnabled(r) == r.enabled /\ r.dbg.fuzz
MutHaveSysmon(r) == HaveSysmon          \* mutant: the platform alone decides
SysmonEnabled(r) == HaveSysmon /\ ~r.enabled
SchedulerRandomized(r) == Race \/ r.enabled
TraceAllowed(r) == ~r.enabled
CPUProfileAllowed(r, hz) == ~r.enabled \/ hz = 0

\* Mutant: the sign is lost.
MutAbs(s) == IF s = 0 THEN 1 ELSE IF s < 0 THEN -s ELSE s
\* Mutant: the conversion to an unsigned word is left out.
MutNoWidth(s) == IF s = 0 THEN 1 ELSE s
\* uint64(debug.detschedseed), with 0 replaced by 1.
SeedOf(s) == IF s = 0 THEN 1 ELSE s % WordSize

\* schedulerRandnFrom, detschedRand64: the value for a salt.
Rand(r, site, seq) == IF r.enabled THEN {<<r.seed, site, seq>>} ELSE Random

\* detschedForceTimerChanSync, after every parse of GODEBUG.
MutAsGiven(r, timer) == timer           \* mutant: the last assignment wins
TimerChan(r, timer) == IF Requested(r) THEN 0 ELSE timer

-----------------------------------------------------------------------------
\* Startup.

Goes(p, r) == rt' = [rt EXCEPT ![p] = [r EXCEPT !.stage = @ + 1]]

\* parsegodebug: a number that an int32 does not hold is ignored.
Parsed(r) ==
    LET g == r.godebug
        d == [g EXCEPT !.seed = IF @ \in IntMin..IntMax THEN @ ELSE 0]
    IN [r EXCEPT !.dbg = [d EXCEPT !.timer = TimerChan([r EXCEPT !.dbg = d], d.timer)]]

ParseGodebug(p) ==
    \/ At(p, "parse") /\ Goes(p, IF EarlyGodebug THEN Parsed(rt[p]) ELSE rt[p])
    \/ At(p, "late parse") /\ Goes(p, IF EarlyGodebug THEN rt[p] ELSE Parsed(rt[p]))

DetschedInit(p) ==
    /\ At(p, "init")
    /\ Goes(p, IF Asked(rt[p].dbg)
               THEN [rt[p] EXCEPT !.enabled = TRUE, !.forced = TRUE, !.dbg.timer = 0,
                                  !.seed = SeedOf(rt[p].dbg.seed)]
               ELSE rt[p])

\* randinit, alginit
Randomize(p) ==
    \E root \in {"rand", "hash"} :
        /\ At(p, root)
        /\ \E v \in Rand(rt[p], root, 0) :
              Goes(p, [rt[p] EXCEPT !.roots = Append(@, v)])

\* The environment or the number of CPUs asks for n; detschedForceStartupProcs.
StartupProcs(p) ==
    /\ At(p, "procs")
    /\ \E n \in 1..MaxProcs : Goes(p, [rt[p] EXCEPT !.procs = IF rt[p].enabled THEN 1 ELSE n])

StartMain(p) ==
    /\ At(p, "main")
    /\ Goes(p, [rt[p] EXCEPT !.sysmon = SysmonEnabled(rt[p])])

-----------------------------------------------------------------------------
\* What a running program may ask of the runtime.

\* os.Setenv("GODEBUG", ...) parses again, for the atomic settings alone.
Setenv(p, timer) ==
    /\ At(p, "user")
    /\ rt' = [rt EXCEPT ![p].dbg.timer = TimerChan(rt[p], timer)]

\* runtime.GOMAXPROCS(n): the mode does not look at it.
GOMAXPROCS(p, n) ==
    /\ At(p, "user")
    /\ rt' = [rt EXCEPT ![p] = [@ EXCEPT !.procs = n, !.asked = n]]

\* sysmon finds that the process may use another number of CPUs, unless
\* debug.updatemaxprocs is 0 or the program has chosen a number itself.
UpdateMaxProcs(p, n) ==
    /\ At(p, "user") /\ rt[p].sysmon /\ ~rt[p].forced /\ rt[p].asked = 0
    /\ rt' = [rt EXCEPT ![p].procs = n]

StartTrace(p) ==
    /\ At(p, "user") /\ TraceAllowed(rt[p])
    /\ rt' = [rt EXCEPT ![p].tracing = TRUE]

SetCPUProfileRate(p, hz) ==
    /\ At(p, "user") /\ CPUProfileAllowed(rt[p], hz)
    /\ rt' = [rt EXCEPT ![p].profiling = hz > 0]

\* A decision is on record with its site and the values that led to it.
Draw(p, site, vs, fuzzed) ==
    /\ At(p, "user")
    /\ Len(rt[p].draws) < MaxDraws
    /\ rt' = [rt EXCEPT ![p].draws = Append(@, [site |-> site, values |-> vs]),
                        ![p].fuzzSeq = IF fuzzed THEN @ + 1 ELSE @]

\* Mutant: the salt of a select always has a number in it.
MutAlwaysNumbered(p, s) ==
    \E v \in Rand(rt[p], s, rt[p].fuzzSeq + 1) : Draw(p, s, <<v>>, TRUE)

\* schedulerSelectPermuteIndex
Select(p, s) ==
    LET fuzz == FuzzEnabled(rt[p])
    IN \E v \in Rand(rt[p], s, IF fuzz THEN rt[p].fuzzSeq + 1 ELSE 0) : Draw(p, s, <<v>>, fuzz)

\* A swap of runqputslow or runqputbatch, and the one fuzzing adds.
Shuffle(p, s) ==
    /\ SchedulerRandomized(rt[p])
    /\ \E v \in Rand(rt[p], s, 0) :
          IF FuzzEnabled(rt[p])
          THEN \E w \in Rand(rt[p], s, rt[p].fuzzSeq + 1) : Draw(p, s, <<v, w>>, TRUE)
          ELSE Draw(p, s, <<v>>, FALSE)

\* detschedMapRand
MapRand(p, s) == \E v \in Rand(rt[p], s, 0) : Draw(p, s, <<v>>, FALSE)

Boot(p) ==
    ParseGodebug(p) \/ DetschedInit(p) \/ Randomize(p) \/ StartupProcs(p) \/ StartMain(p)

Next ==
    \E p \in Proc :
        \/ Boot(p)
        \/ StartTrace(p)
        \/ \E n \in 1..MaxProcs : GOMAXPROCS(p, n) \/ UpdateMaxProcs(p, n)
        \/ \E timer \in {0, 1} : Setenv(p, timer)
        \/ \E hz \in {0, 100} : SetCPUProfileRate(p, hz)
        \/ \E s \in Selects : Select(p, s)
        \/ \E s \in Shuffles : Shuffle(p, s)
        \/ \E s \in Maps : MapRand(p, s)

Spec == Init /\ [][Next]_vars

-----------------------------------------------------------------------------

\* The seed fits its word whatever number GODEBUG holds, and the other fields
\* hold what detsched.go declares.
TypeOK ==
    \A p \in Proc :
        LET r == rt[p]
        IN /\ r.stage \in DOMAIN BootOrder
           /\ r.godebug \in Setting /\ r.dbg \in Setting
           /\ r.enabled \in BOOLEAN /\ r.seed \in Seed /\ r.fuzzSeq \in Nat
           /\ r.forced \in BOOLEAN /\ {r.procs, r.asked} \subseteq 0..MaxProcs
           /\ {r.sysmon, r.tracing, r.profiling} \subseteq BOOLEAN
           /\ r.roots \in Seq(Drawn)
           /\ \A i \in DOMAIN r.draws :
                 r.draws[i].site \in Site /\ r.draws[i].values \in Seq(Drawn)

Running(p) == At(p, "user")
Twins(p, q) ==
    /\ Running(p) /\ Running(q) /\ rt[p].enabled /\ rt[q].enabled
    /\ rt[p].seed = rt[q].seed /\ rt[p].dbg.fuzz = rt[q].dbg.fuzz

\* README: "same seed => stable outcomes". Two processes with one seed have the
\* same random roots (randinit, alginit), and as long as they take the same
\* decisions in the same order, these come out the same, fuzzed or not.
Replay ==
    \A p, q \in Proc : Twins(p, q) =>
        /\ rt[p].roots = rt[q].roots
        /\ \A k \in DOMAIN rt[p].draws \intersect DOMAIN rt[q].draws :
              (\A i \in 1..k : rt[p].draws[i].site = rt[q].draws[i].site)
                => rt[p].draws[k] = rt[q].draws[k]

\* Without fuzzing a decision depends on its own arguments alone: a process
\* that was perturbed (a late packet, another goroutine first) still decides
\* each select, shuffle and map seed as its twin does.
OrderFree ==
    \A p, q \in Proc : Twins(p, q) /\ ~rt[p].dbg.fuzz =>
        \A i \in DOMAIN rt[p].draws, j \in DOMAIN rt[q].draws :
            rt[p].draws[i].site = rt[q].draws[j].site => rt[p].draws[i] = rt[q].draws[j]

\* Two processes that ask for different seeds get different ones, except that
\* 0 means 1: the conversion from int32 to uint64 (detschedInit) keeps negative
\* seeds apart from positive ones.
SeedsApart ==
    \A p, q \in Proc :
        /\ rt[p].enabled /\ rt[q].enabled
        /\ rt[p].dbg.seed # rt[q].dbg.seed /\ 0 \notin {rt[p].dbg.seed, rt[q].dbg.seed}
        => rt[p].seed # rt[q].seed

\* README: "timer channels forced to synchronous mode": a process that has asked
\* for the mode has them, also after it has changed GODEBUG itself.
TimerChansSync ==
    \A p \in Proc : Requested(rt[p]) => rt[p].dbg.timer = 0

\* Where GODEBUG is known early, asking for the mode in any of its three ways
\* and running in it are the same, before the first root is drawn and after.
RequestedIsEnabled ==
    EarlyGodebug => \A p \in Proc : rt[p].roots # <<>> => (Requested(rt[p]) <=> rt[p].enabled)

\* What the mode switches off stays off: no sysmon, no trace, no CPU profile, no
\* other number of CPUs that changes the number of Ps (README, "Deterministic-mode
\* defaults"). There is the one P that start-up forces, or as many as the program
\* has last asked for itself: runtime.GOMAXPROCS stays open to it.
Quiet ==
    \A p \in Proc : Running(p) /\ rt[p].enabled =>
        /\ rt[p].procs = IF rt[p].asked = 0 THEN 1 ELSE rt[p].asked
        /\ rt[p].forced
        /\ ~rt[p].sysmon /\ ~rt[p].tracing /\ ~rt[p].profiling
=============================================================================
