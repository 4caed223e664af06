---------------------------- MODULE DetschedProofs ----------------------------
(***************************************************************************)
(* Proofs about Detsched, for every set of processes and settings, every   *)
(* width of seeds and every number of decisions. Each part of the invariant*)
(* is about one process: what relates two of them follows from it, as all  *)
(* that a process decides is a function of its seed and its sites.         *)
(***************************************************************************)
EXTENDS Detsched, FiniteSetTheorems, TLAPS

-----------------------------------------------------------------------------
\* The invariant.

Decision == [site : Site, values : Seq(Drawn)]
Process ==
    [stage : 1..8, godebug : Setting, dbg : Setting, enabled : BOOLEAN, seed : Seed,
     fuzzSeq : Nat, forced : BOOLEAN, roots : Seq(Drawn), procs : 0..MaxProcs, asked : 0..MaxProcs,
     sysmon : BOOLEAN, tracing : BOOLEAN, profiling : BOOLEAN, draws : Seq(Decision)]

\* What start-up has fixed by each stage.
Booted(r) ==
    /\ r.stage <= 2 \/ ~EarlyGodebug => ~r.enabled
    /\ r.stage = 1 \/ (r.stage <= 5 /\ ~EarlyGodebug) => r.dbg = Unset
    /\ r.enabled => r.forced
    /\ r.stage < 8 => r.asked = 0
    /\ r.enabled /\ r.stage > 6 => r.procs = IF r.asked = 0 THEN 1 ELSE r.asked
    /\ r.enabled /\ r.stage > 7 => ~r.sysmon
    /\ r.enabled \/ r.stage < 8 => ~r.tracing /\ ~r.profiling
    /\ EarlyGodebug /\ r.stage > 2 => (Requested(r) <=> r.enabled)
    /\ Requested(r) => r.dbg.timer = 0

Rooted(r) ==
    /\ Len(r.roots) = IF r.stage <= 3 THEN 0 ELSE IF r.stage = 4 THEN 1 ELSE 2
    /\ r.enabled /\ r.stage > 3 => r.roots[1] = <<r.seed, "rand", 0>>
    /\ r.enabled /\ r.stage > 4 => r.roots[2] = <<r.seed, "hash", 0>>

\* debug.detschedseed holds an int, from which detsched.seed was made.
Seeded(r) ==
    /\ r.dbg.seed \in IntMin..IntMax
    /\ r.enabled => r.seed = SeedOf(r.dbg.seed)

\* How many of the first k decisions have a number.
Numbered(draws, k) == {i \in 1..k : draws[i].site \notin Maps}

\* The n-th decision with a number, at site s.
Values(seed, fuzz, s, n) ==
    IF s \in Selects THEN << <<seed, s, IF fuzz THEN n ELSE 0>> >>
    ELSE IF s \in Shuffles /\ fuzz THEN << <<seed, s, 0>>, <<seed, s, n>> >>
    ELSE << <<seed, s, 0>> >>

Decided(r) ==
    /\ r.stage < 8 => r.draws = <<>> /\ r.fuzzSeq = 0
    /\ r.enabled =>
          /\ r.dbg.fuzz => r.fuzzSeq = Cardinality(Numbered(r.draws, Len(r.draws)))
          /\ \A k \in DOMAIN r.draws :
                r.draws[k].values = Values(r.seed, r.dbg.fuzz, r.draws[k].site,
                                           Cardinality(Numbered(r.draws, k)))

Good(r) == r \in Process /\ Booted(r) /\ Seeded(r) /\ Rooted(r) /\ Decided(r)
IInv == rt \in [Proc -> Process] /\ \A p \in Proc : Good(rt[p])

-----------------------------------------------------------------------------
\* The steps, one process at a time.

\* uint64 of an int: a negative one goes to the far end of the words, so that
\* no two meet, except that 0 stands for 1.
LEMMA SeedMade ==
    ASSUME NEW s \in IntMin..IntMax
    PROVE  SeedOf(s) \in Seed /\ SeedOf(s) = IF s = 0 THEN 1 ELSE IF s < 0 THEN s + WordSize ELSE s
<1>1. ASSUME s < 0 PROVE s % WordSize = s + WordSize
  BY <1>1, WidthAssumption DEF IntMin, IntMax
<1>2. ASSUME s > 0 PROVE s % WordSize = s
  BY <1>2, WidthAssumption DEF IntMin, IntMax
<1>3. SeedOf(s) = IF s = 0 THEN 1 ELSE IF s < 0 THEN s + WordSize ELSE s
  BY <1>1, <1>2 DEF SeedOf, IntMin, IntMax
<1> QED
  BY <1>3, WidthAssumption DEF IntMin, IntMax, Seed

\* The number of each statement of start-up, and of the user code after them.
LEMMA Stages ==
    ASSUME NEW i \in 1..8
    PROVE  /\ BootOrder[i] = "parse" <=> i = 1
           /\ BootOrder[i] = "init" <=> i = 2
           /\ BootOrder[i] = "rand" <=> i = 3
           /\ BootOrder[i] = "hash" <=> i = 4
           /\ BootOrder[i] = "late parse" <=> i = 5
           /\ BootOrder[i] = "procs" <=> i = 6
           /\ BootOrder[i] = "main" <=> i = 7
           /\ BootOrder[i] = "user" <=> i = 8
<1>1. /\ BootOrder[1] = "parse" /\ BootOrder[2] = "init"
      /\ BootOrder[3] = "rand" /\ BootOrder[4] = "hash"
      /\ BootOrder[5] = "late parse" /\ BootOrder[6] = "procs"
      /\ BootOrder[7] = "main" /\ BootOrder[8] = "user"
  BY DEF BootOrder
<1>2. i = 1 \/ i = 2 \/ i = 3 \/ i = 4 \/ i = 5 \/ i = 6 \/ i = 7 \/ i = 8
  OBVIOUS
<1> QED
  BY <1>1, <1>2

\* A step of one process keeps the others as they are.
LEMMA Lift ==
    ASSUME IInv, NEW p \in Proc, NEW r, Good(r), rt' = [rt EXCEPT ![p] = r]
    PROVE  IInv'
<1>1. r \in Process
  BY DEF Good
<1>2. rt' \in [Proc -> Process]
  BY <1>1 DEF IInv
<1>3. \A q \in Proc : rt'[q] = IF q = p THEN r ELSE rt[q]
  BY DEF IInv
<1>4. \A q \in Proc : Good(rt'[q])
  BY <1>3 DEF IInv
<1> QED
  BY <1>2, <1>4 DEF IInv

\* A process that begins, with any settings, is good.
LEMMA InitGood == Init => IInv
<1> SUFFICES ASSUME Init PROVE IInv
  OBVIOUS
<1>1. PICK g \in Godebug :
        rt = [p \in Proc |->
                [stage |-> 1, godebug |-> g[p], dbg |-> Unset,
                 enabled |-> FALSE, seed |-> 0, fuzzSeq |-> 0, forced |-> FALSE,
                 roots |-> <<>>, procs |-> 0, asked |-> 0, sysmon |-> FALSE,
                 tracing |-> FALSE, profiling |-> FALSE, draws |-> <<>>]]
  BY DEF Init
<1>2. g \in [Proc -> Setting] /\ Unset \in Setting
  BY SettingAssumption DEF Setting, Unset
<1>3. <<>> \in Seq(Drawn) /\ <<>> \in Seq(Decision) /\ 0 \in Seed /\ 0 \in 0..MaxProcs
  BY WidthAssumption, ModeAssumption DEF Seed
<1>4. rt \in [Proc -> Process]
  BY <1>1, <1>2, <1>3 DEF Process
<1>5. ASSUME NEW p \in Proc PROVE Good(rt[p])
  <2> DEFINE r == rt[p]
  <2>1. /\ r.stage = 1 /\ r.dbg = Unset /\ ~r.enabled /\ r.fuzzSeq = 0 /\ r.asked = 0
        /\ r.roots = <<>> /\ ~r.tracing /\ ~r.profiling /\ r.draws = <<>>
        /\ ~Unset.detsched /\ ~Unset.fuzz /\ Unset.seed = 0
    BY <1>1 DEF Unset
  <2> HIDE DEF r
  <2>2. Booted(r) /\ Rooted(r) /\ Decided(r)
    BY <2>1 DEF Booted, Rooted, Decided, Requested
  <2>3. Seeded(r)
    BY <2>1, WidthAssumption DEF Seeded, IntMin, IntMax
  <2> QED
    BY <1>4, <2>2, <2>3 DEF Good, r
<1> QED
  BY <1>4, <1>5 DEF IInv

\* A late or an early parse.
LEMMA ParseGood ==
    ASSUME NEW r, Good(r), (r.stage = 1 /\ EarlyGodebug) \/ (r.stage = 5 /\ ~EarlyGodebug)
    PROVE  Good([Parsed(r) EXCEPT !.stage = @ + 1])
<1> DEFINE d == [r.godebug EXCEPT !.seed = IF @ \in IntMin..IntMax THEN @ ELSE 0]
           e == [d EXCEPT !.timer = TimerChan([r EXCEPT !.dbg = d], d.timer)]
           n == [r EXCEPT !.dbg = e, !.stage = @ + 1]
<1>1. r \in Process /\ Booted(r) /\ Seeded(r) /\ Rooted(r) /\ Decided(r) /\ ~r.enabled
  BY DEF Good, Booted
<1>2. d \in Setting /\ d.seed \in IntMin..IntMax
  <2>1. r.godebug \in Setting
    BY <1>1 DEF Process
  <2> QED
    BY <2>1, WidthAssumption DEF Setting, IntMin, IntMax
<1> HIDE DEF d
<1>3. /\ e \in Setting /\ e.seed = d.seed
      /\ Requested([r EXCEPT !.dbg = e]) => e.timer = 0
  BY <1>1, <1>2 DEF Process, Setting, TimerChan, Requested
<1> HIDE DEF e
<1>4. n \in Process
  <2>1. r.stage + 1 \in 1..8
    BY <1>1
  <2> QED
    BY <1>1, <1>3, <2>1 DEF Process
<1>5. Booted(n) /\ Seeded(n) /\ Rooted(n) /\ Decided(n)
  BY <1>1, <1>2, <1>3 DEF Process, Booted, Seeded, Rooted, Decided, Requested
<1>6. [Parsed(r) EXCEPT !.stage = @ + 1] = n
  BY <1>1 DEF Parsed, Process, d, e
<1> QED
  BY <1>4, <1>5, <1>6 DEF Good

\* A statement that does nothing for this process leaves it good.
LEMMA StageGood ==
    ASSUME NEW r, Good(r), r.stage # 8,
           r.stage = 2 => ~Asked(r.dbg), r.stage \notin {3, 4, 6, 7}, r.stage = 1 => ~EarlyGodebug,
           r.stage = 5 => EarlyGodebug
    PROVE  Good([r EXCEPT !.stage = @ + 1])
<1> DEFINE n == [r EXCEPT !.stage = @ + 1]
<1>1. r \in Process /\ Booted(r) /\ Seeded(r) /\ Rooted(r) /\ Decided(r)
  BY DEF Good
<1>2. r.stage \in 1..8 /\ n \in Process
  <2>1. r.stage + 1 \in 1..8
    BY <1>1 DEF Process
  <2> QED
    BY <1>1, <2>1 DEF Process
<1>3. /\ n.stage = r.stage + 1
      /\ n.godebug = r.godebug /\ n.dbg = r.dbg /\ n.enabled = r.enabled /\ n.seed = r.seed
      /\ n.fuzzSeq = r.fuzzSeq /\ n.forced = r.forced /\ n.roots = r.roots /\ n.procs = r.procs /\ n.asked = r.asked
      /\ n.sysmon = r.sysmon /\ n.tracing = r.tracing /\ n.profiling = r.profiling
      /\ n.draws = r.draws
  BY <1>1 DEF Process
<1>4. r.stage = 1 \/ r.stage = 2 \/ r.stage = 5
  BY <1>2
<1> HIDE DEF n
<1>5. Booted(n)
  <2>1. r.stage = 1 => ~EarlyGodebug /\ ~n.enabled /\ n.dbg = Unset /\ n.stage = 2
    BY <1>1, <1>3 DEF Booted
  <2>2. r.stage = 2 => /\ ~n.enabled /\ n.stage = 3 /\ ~Requested(n)
                       /\ (~EarlyGodebug => n.dbg = Unset)
    BY <1>1, <1>3 DEF Booted, Asked, Requested
  <2>3. r.stage = 5 => EarlyGodebug /\ n.stage = 6 /\ (Requested(n) <=> n.enabled)
    BY <1>1, <1>3 DEF Booted, Requested
  <2>4. /\ (n.enabled => n.forced) /\ n.asked = 0 /\ ~n.tracing /\ ~n.profiling
        /\ (Requested(n) => n.dbg.timer = 0)
    BY <1>1, <1>3, <1>4 DEF Booted, Requested
  <2> QED
    BY <1>4, <2>1, <2>2, <2>3, <2>4 DEF Booted
<1>6. Rooted(n)
  BY <1>1, <1>3, <1>4 DEF Rooted, Booted
<1>7. Decided(n)
  <2>1. r.stage < 8 /\ n.stage < 8
    BY <1>3, <1>4
  <2>2. /\ n.draws = <<>> /\ n.fuzzSeq = 0
        /\ n.enabled /\ n.dbg.fuzz => n.fuzzSeq = Cardinality(Numbered(n.draws, Len(n.draws)))
    BY <1>1, <1>3, <2>1 DEF Decided
  <2>3. DOMAIN n.draws = {}
    BY <2>2
  <2> QED
    BY <2>2, <2>3 DEF Decided
<1>8. Seeded(n)
  BY <1>1, <1>3 DEF Seeded
<1> QED
  BY <1>2, <1>5, <1>6, <1>7, <1>8 DEF Good, n

\* detschedInit: a process that asked for the mode enters it with the seed of its setting.
LEMMA EnterGood ==
    ASSUME NEW r, Good(r), r.stage = 2, Asked(r.dbg),
           NEW d, d = [r.dbg EXCEPT !.timer = 0], NEW w \in Seed, w = SeedOf(r.dbg.seed)
    PROVE  Good([r EXCEPT !.enabled = TRUE, !.forced = TRUE, !.dbg = d, !.seed = w, !.stage = @ + 1])
<1> DEFINE n == [r EXCEPT !.enabled = TRUE, !.forced = TRUE, !.dbg = d, !.seed = w, !.stage = @ + 1]
<1>1. r \in Process /\ Booted(r) /\ Seeded(r) /\ Rooted(r) /\ Decided(r)
  BY DEF Good
<1>2. n \in Process
  <2>1. d \in Setting /\ r.stage + 1 \in 1..8
    BY <1>1 DEF Process, Setting
  <2> QED
    BY <1>1, <2>1 DEF Process
<1>3. EarlyGodebug
  BY <1>1 DEF Booted, Asked, Unset
<1>4. /\ n.enabled /\ n.forced /\ n.dbg.timer = 0 /\ n.stage = 3 /\ n.seed = w
      /\ n.dbg.detsched = r.dbg.detsched /\ n.dbg.fuzz = r.dbg.fuzz /\ n.dbg.seed = r.dbg.seed
      /\ n.godebug = r.godebug /\ n.fuzzSeq = r.fuzzSeq /\ n.roots = r.roots /\ n.procs = r.procs /\ n.asked = r.asked
      /\ n.sysmon = r.sysmon /\ n.tracing = r.tracing /\ n.profiling = r.profiling
      /\ n.draws = r.draws
  BY <1>1 DEF Process, Setting
<1> HIDE DEF n
<1>5. Booted(n) /\ Rooted(n) /\ Seeded(n)
  <2>1. Booted(n) /\ Rooted(n)
    BY <1>1, <1>3, <1>4 DEF Booted, Rooted, Requested, Asked
  <2> QED
    BY <1>1, <1>4, <2>1 DEF Seeded
<1>6. Decided(n)
  <2>1. n.draws = <<>> /\ n.fuzzSeq = 0
    BY <1>1, <1>4 DEF Decided
  <2>2. DOMAIN <<>> = {} /\ Cardinality(Numbered(<<>>, Len(<<>>))) = 0
    BY FS_EmptySet DEF Numbered
  <2>3. n.fuzzSeq = Cardinality(Numbered(n.draws, Len(n.draws))) /\ DOMAIN n.draws = {}
    BY <2>1, <2>2
  <2> QED
    BY <2>1, <2>3 DEF Decided
<1>7. Good(n)
  BY <1>2, <1>5, <1>6 DEF Good
<1> QED
  BY <1>7 DEF n

\* A random value is of its kind, and in the mode it is the mixing of its three inputs.
LEMMA RandType ==
    ASSUME NEW r \in Process, NEW s \in Site \union {"rand", "hash"}, NEW k \in Nat,
           NEW v \in Rand(r, s, k)
    PROVE  v \in Drawn /\ (r.enabled => v = <<r.seed, s, k>>)
  BY DEF Rand, Drawn, Fixed, Process

\* randinit and alginit: the next root is drawn.
LEMMA RootGood ==
    ASSUME NEW r, Good(r), NEW root, (r.stage = 3 /\ root = "rand") \/ (r.stage = 4 /\ root = "hash"),
           NEW v \in Rand(r, root, 0)
    PROVE  Good([r EXCEPT !.roots = Append(@, v), !.stage = @ + 1])
<1> DEFINE n == [r EXCEPT !.roots = Append(@, v), !.stage = @ + 1]
<1>1. r \in Process /\ Booted(r) /\ Seeded(r) /\ Rooted(r) /\ Decided(r)
  BY DEF Good
<1>2. v \in Drawn /\ (r.enabled => v = <<r.seed, root, 0>>)
  BY <1>1, RandType
<1>3. n \in Process
  <2>1. r.stage + 1 \in 1..8 /\ Append(r.roots, v) \in Seq(Drawn)
    <3>1. r.roots \in Seq(Drawn) /\ r.stage \in 1..8
      BY <1>1 DEF Process
    <3> QED
      BY <1>2, <3>1
  <2> QED
    BY <1>1, <2>1 DEF Process
<1>4. /\ n.stage = r.stage + 1 /\ n.roots = Append(r.roots, v)
      /\ n.godebug = r.godebug /\ n.dbg = r.dbg /\ n.enabled = r.enabled /\ n.seed = r.seed
      /\ n.fuzzSeq = r.fuzzSeq /\ n.forced = r.forced /\ n.procs = r.procs /\ n.asked = r.asked /\ n.sysmon = r.sysmon
      /\ n.tracing = r.tracing /\ n.profiling = r.profiling /\ n.draws = r.draws
  BY <1>1 DEF Process
<1> HIDE DEF n
<1>5. Booted(n) /\ Seeded(n) /\ Decided(n)
  BY <1>1, <1>4 DEF Booted, Seeded, Decided, Requested
<1>6. Rooted(n)
  <2>1. r.roots \in Seq(Drawn) /\ v \in Drawn /\ Len(r.roots) = IF r.stage = 3 THEN 0 ELSE 1
    BY <1>1, <1>2 DEF Process, Rooted
  <2>2. /\ Len(n.roots) = Len(r.roots) + 1 /\ n.roots[Len(r.roots) + 1] = v
        /\ Len(r.roots) = 1 => n.roots[1] = r.roots[1]
    BY <1>4, <2>1
  <2> QED
    BY <1>1, <1>2, <1>4, <2>1, <2>2 DEF Rooted
<1>7. Good(n)
  BY <1>3, <1>5, <1>6 DEF Good
<1> QED
  BY <1>7 DEF n

\* detschedForceStartupProcs: the number of Ps is set.
LEMMA ProcsGood ==
    ASSUME NEW r, Good(r), r.stage = 6, NEW m \in 1..MaxProcs
    PROVE  Good([r EXCEPT !.procs = IF r.enabled THEN 1 ELSE m, !.stage = @ + 1])
<1> DEFINE n == [r EXCEPT !.procs = IF r.enabled THEN 1 ELSE m, !.stage = @ + 1]
<1>1. r \in Process /\ Booted(r) /\ Seeded(r) /\ Rooted(r) /\ Decided(r)
  BY DEF Good
<1>2. n \in Process
  <2>1. r.stage + 1 \in 1..8 /\ (IF r.enabled THEN 1 ELSE m) \in 0..MaxProcs
    BY ModeAssumption
  <2> QED
    BY <1>1, <2>1 DEF Process
<1>3. /\ n.stage = 7 /\ (r.enabled => n.procs = 1) /\ n.asked = r.asked
      /\ n.godebug = r.godebug /\ n.dbg = r.dbg /\ n.enabled = r.enabled /\ n.seed = r.seed
      /\ n.fuzzSeq = r.fuzzSeq /\ n.forced = r.forced /\ n.roots = r.roots /\ n.sysmon = r.sysmon
      /\ n.tracing = r.tracing /\ n.profiling = r.profiling /\ n.draws = r.draws
  BY <1>1 DEF Process
<1> HIDE DEF n
<1>4. Booted(n) /\ Seeded(n) /\ Rooted(n) /\ Decided(n)
  BY <1>1, <1>3 DEF Booted, Seeded, Rooted, Decided, Requested
<1>5. Good(n)
  BY <1>2, <1>4 DEF Good
<1> QED
  BY <1>5 DEF n

\* runtime.main: sysmon is started or not.
LEMMA MainGood ==
    ASSUME NEW r, Good(r), r.stage = 7, NEW b \in BOOLEAN, r.enabled => b = FALSE
    PROVE  Good([r EXCEPT !.sysmon = b, !.stage = @ + 1])
<1> DEFINE n == [r EXCEPT !.sysmon = b, !.stage = @ + 1]
<1>1. r \in Process /\ Booted(r) /\ Seeded(r) /\ Rooted(r) /\ Decided(r)
  BY DEF Good
<1>2. n \in Process
  <2>1. r.stage + 1 \in 1..8
    OBVIOUS
  <2> QED
    BY <1>1, <2>1 DEF Process
<1>3. /\ n.stage = 8 /\ (r.enabled => ~n.sysmon)
      /\ n.godebug = r.godebug /\ n.dbg = r.dbg /\ n.enabled = r.enabled /\ n.seed = r.seed
      /\ n.fuzzSeq = r.fuzzSeq /\ n.forced = r.forced /\ n.roots = r.roots /\ n.procs = r.procs /\ n.asked = r.asked
      /\ n.tracing = r.tracing /\ n.profiling = r.profiling /\ n.draws = r.draws
  BY <1>1 DEF Process
<1> HIDE DEF n
<1>4. Booted(n) /\ Seeded(n) /\ Rooted(n) /\ Decided(n)
  BY <1>1, <1>3 DEF Booted, Seeded, Rooted, Decided, Requested
<1>5. Good(n)
  BY <1>2, <1>4 DEF Good
<1> QED
  BY <1>5 DEF n

\* What a running program asks for.
LEMMA UserGood ==
    ASSUME NEW r, Good(r), r.stage = 8
    PROVE  /\ \A timer \in {0, 1} : Good([r EXCEPT !.dbg.timer = TimerChan(r, timer)])
           /\ TraceAllowed(r) => Good([r EXCEPT !.tracing = TRUE])
           /\ \A b \in BOOLEAN : (r.enabled => b = FALSE) => Good([r EXCEPT !.profiling = b])
           /\ \A m \in 1..MaxProcs : Good([r EXCEPT !.procs = m, !.asked = m])
           /\ ~r.forced => \A m \in 1..MaxProcs : Good([r EXCEPT !.procs = m])
<1>1. r \in Process /\ Booted(r) /\ Seeded(r) /\ Rooted(r) /\ Decided(r)
  BY DEF Good
<1>2. ASSUME NEW timer \in {0, 1} PROVE Good([r EXCEPT !.dbg.timer = TimerChan(r, timer)])
  <2> DEFINE n == [r EXCEPT !.dbg.timer = TimerChan(r, timer)]
  <2>1. TimerChan(r, timer) \in {0, 1} /\ (Requested(r) => TimerChan(r, timer) = 0)
    BY DEF TimerChan
  <2> HIDE DEF TimerChan
  <2>2. n \in Process
    <3>1. [r.dbg EXCEPT !.timer = TimerChan(r, timer)] \in Setting
      BY <1>1, <2>1 DEF Process, Setting
    <3> QED
      BY <1>1, <3>1 DEF Process
  <2>3. /\ n.stage = r.stage /\ n.godebug = r.godebug /\ n.enabled = r.enabled
        /\ n.seed = r.seed /\ n.fuzzSeq = r.fuzzSeq /\ n.forced = r.forced /\ n.roots = r.roots
        /\ n.procs = r.procs /\ n.asked = r.asked /\ n.sysmon = r.sysmon /\ n.tracing = r.tracing
        /\ n.profiling = r.profiling /\ n.draws = r.draws
        /\ n.dbg = [r.dbg EXCEPT !.timer = TimerChan(r, timer)]
    BY <1>1 DEF Process
  <2>4. /\ n.dbg.detsched = r.dbg.detsched /\ n.dbg.fuzz = r.dbg.fuzz
        /\ n.dbg.seed = r.dbg.seed /\ n.dbg.timer = TimerChan(r, timer)
    BY <1>1, <2>3 DEF Process, Setting
  <2> HIDE DEF n
  <2>5. Booted(n)
    BY <1>1, <2>1, <2>3, <2>4 DEF Booted, Requested
  <2>6. Seeded(n) /\ Rooted(n) /\ Decided(n)
    BY <1>1, <2>3, <2>4 DEF Seeded, Rooted, Decided
  <2> QED
    BY <2>2, <2>5, <2>6 DEF Good, n
<1>3. ASSUME TraceAllowed(r) PROVE Good([r EXCEPT !.tracing = TRUE])
  <2> DEFINE n == [r EXCEPT !.tracing = TRUE]
  <2>1. n \in Process
    BY <1>1 DEF Process
  <2>2. /\ ~r.enabled
        /\ n.stage = r.stage /\ n.godebug = r.godebug /\ n.dbg = r.dbg /\ n.enabled = r.enabled
        /\ n.seed = r.seed /\ n.fuzzSeq = r.fuzzSeq /\ n.forced = r.forced /\ n.roots = r.roots
        /\ n.procs = r.procs /\ n.asked = r.asked /\ n.sysmon = r.sysmon /\ n.profiling = r.profiling
        /\ n.draws = r.draws
    BY <1>1, <1>3 DEF Process, TraceAllowed
  <2> HIDE DEF n
  <2>3. Booted(n) /\ Seeded(n) /\ Rooted(n) /\ Decided(n)
    BY <1>1, <2>2 DEF Booted, Seeded, Rooted, Decided, Requested
  <2>4. Good(n)
    BY <2>1, <2>3 DEF Good
  <2> QED
    BY <2>4 DEF n
<1>4. ASSUME NEW b \in BOOLEAN, r.enabled => b = FALSE PROVE Good([r EXCEPT !.profiling = b])
  <2> DEFINE n == [r EXCEPT !.profiling = b]
  <2>1. n \in Process
    BY <1>1 DEF Process
  <2>2. /\ r.enabled => ~n.profiling
        /\ n.stage = r.stage /\ n.godebug = r.godebug /\ n.dbg = r.dbg /\ n.enabled = r.enabled
        /\ n.seed = r.seed /\ n.fuzzSeq = r.fuzzSeq /\ n.forced = r.forced /\ n.roots = r.roots
        /\ n.procs = r.procs /\ n.asked = r.asked /\ n.sysmon = r.sysmon /\ n.tracing = r.tracing /\ n.draws = r.draws
    BY <1>1, <1>4 DEF Process
  <2> HIDE DEF n
  <2>3. Booted(n) /\ Seeded(n) /\ Rooted(n) /\ Decided(n)
    BY <1>1, <2>2 DEF Booted, Seeded, Rooted, Decided, Requested
  <2>4. Good(n)
    BY <2>1, <2>3 DEF Good
  <2> QED
    BY <2>4 DEF n
<1>5. ASSUME NEW m \in 1..MaxProcs PROVE Good([r EXCEPT !.procs = m, !.asked = m])
  <2> DEFINE n == [r EXCEPT !.procs = m, !.asked = m]
  <2>1. n \in Process
    <3>1. m \in 0..MaxProcs
      BY ModeAssumption
    <3> QED
      BY <1>1, <3>1 DEF Process
  <2>2. /\ n.procs = m /\ n.asked = m /\ m # 0
        /\ n.stage = r.stage /\ n.godebug = r.godebug /\ n.dbg = r.dbg /\ n.enabled = r.enabled
        /\ n.seed = r.seed /\ n.fuzzSeq = r.fuzzSeq /\ n.forced = r.forced /\ n.roots = r.roots
        /\ n.sysmon = r.sysmon /\ n.tracing = r.tracing /\ n.profiling = r.profiling
        /\ n.draws = r.draws
    BY <1>1, <1>5 DEF Process
  <2> HIDE DEF n
  <2>3. Booted(n) /\ Seeded(n) /\ Rooted(n) /\ Decided(n)
    BY <1>1, <2>2 DEF Booted, Seeded, Rooted, Decided, Requested
  <2>4. Good(n)
    BY <2>1, <2>3 DEF Good
  <2> QED
    BY <2>4 DEF n
<1>6. ASSUME ~r.forced, NEW m \in 1..MaxProcs PROVE Good([r EXCEPT !.procs = m])
  <2> DEFINE n == [r EXCEPT !.procs = m]
  <2>1. n \in Process
    <3>1. m \in 0..MaxProcs
      BY ModeAssumption
    <3> QED
      BY <1>1, <3>1 DEF Process
  <2>2. /\ ~r.enabled /\ n.asked = r.asked
        /\ n.stage = r.stage /\ n.godebug = r.godebug /\ n.dbg = r.dbg /\ n.enabled = r.enabled
        /\ n.seed = r.seed /\ n.fuzzSeq = r.fuzzSeq /\ n.forced = r.forced /\ n.roots = r.roots
        /\ n.sysmon = r.sysmon /\ n.tracing = r.tracing /\ n.profiling = r.profiling
        /\ n.draws = r.draws
    BY <1>1, <1>6 DEF Process, Booted
  <2> HIDE DEF n
  <2>3. Booted(n) /\ Seeded(n) /\ Rooted(n) /\ Decided(n)
    BY <1>1, <2>2 DEF Booted, Seeded, Rooted, Decided, Requested
  <2>4. Good(n)
    BY <2>1, <2>3 DEF Good
  <2> QED
    BY <2>4 DEF n
<1> QED
  BY <1>2, <1>3, <1>4, <1>5, <1>6

\* A decision that is the function Values of the seed, its site and its number.
LEMMA DrawGood ==
    ASSUME NEW r, Good(r), r.stage = 8, NEW s \in Site, NEW vs \in Seq(Drawn), NEW c \in Nat,
           r.enabled /\ r.dbg.fuzz => c = IF s \in Maps THEN r.fuzzSeq ELSE r.fuzzSeq + 1,
           r.enabled => vs = Values(r.seed, r.dbg.fuzz, s, r.fuzzSeq + 1)
    PROVE  Good([r EXCEPT !.draws = Append(@, [site |-> s, values |-> vs]), !.fuzzSeq = c])
<1> DEFINE d == [site |-> s, values |-> vs]
           D == r.draws
           E == Append(D, d)
           len == Len(D)
           n == [r EXCEPT !.draws = E, !.fuzzSeq = c]
<1>1. r \in Process /\ Booted(r) /\ Seeded(r) /\ Rooted(r) /\ Decided(r)
  BY DEF Good
<1>2. d \in Decision /\ d.site = s /\ d.values = vs
  BY DEF Decision
<1> HIDE DEF d
<1>3. /\ D \in Seq(Decision) /\ len \in Nat /\ E \in Seq(Decision) /\ Len(E) = len + 1
      /\ \A i \in 1..len : E[i] = D[i]
      /\ E[len + 1] = d /\ DOMAIN D = 1..len /\ DOMAIN E = 1..(len + 1)
  BY <1>1, <1>2 DEF Process
<1> HIDE DEF E
<1>4. n \in Process
  BY <1>1, <1>3 DEF Process
<1>5. /\ n.draws = E /\ n.fuzzSeq = c /\ n.stage = 8
      /\ n.stage = r.stage /\ n.godebug = r.godebug /\ n.dbg = r.dbg /\ n.enabled = r.enabled
      /\ n.seed = r.seed /\ n.forced = r.forced /\ n.roots = r.roots /\ n.procs = r.procs /\ n.asked = r.asked
      /\ n.sysmon = r.sysmon /\ n.tracing = r.tracing /\ n.profiling = r.profiling
  BY <1>1 DEF Process
<1> HIDE DEF n
<1>6. Booted(n) /\ Seeded(n) /\ Rooted(n)
  BY <1>1, <1>5 DEF Booted, Seeded, Rooted, Requested
<1>7. \A k \in 1..len : Numbered(E, k) = Numbered(D, k)
  BY <1>3 DEF Numbered
<1>8. /\ s \in Maps => Numbered(E, len + 1) = Numbered(D, len)
      /\ s \notin Maps => Numbered(E, len + 1) = Numbered(D, len) \union {len + 1}
  <2>1. \A i \in 1..(len + 1) : i \in 1..len \/ i = len + 1
    BY <1>3
  <2> QED
    BY <1>2, <1>3, <2>1 DEF Numbered
<1>9. /\ IsFiniteSet(Numbered(D, len)) /\ len + 1 \notin Numbered(D, len)
      /\ Cardinality(Numbered(D, len)) \in Nat
  <2>1. IsFiniteSet(1..len) /\ Numbered(D, len) \subseteq 1..len
    BY <1>3, FS_Interval DEF Numbered
  <2>2. len + 1 \notin 1..len
    BY <1>3
  <2> QED
    BY <2>1, <2>2, FS_Subset, FS_CardinalityType
<1>10. Cardinality(Numbered(E, len + 1)) =
          IF s \in Maps THEN Cardinality(Numbered(D, len)) ELSE Cardinality(Numbered(D, len)) + 1
  BY <1>8, <1>9, FS_AddElement
<1>11. ASSUME r.enabled, r.dbg.fuzz PROVE c = Cardinality(Numbered(E, len + 1))
  BY <1>1, <1>10, <1>11 DEF Decided
<1>12. ASSUME r.enabled
       PROVE  vs = Values(r.seed, r.dbg.fuzz, s, Cardinality(Numbered(E, len + 1)))
  <2>1. CASE s \in Maps
    BY <1>12, <2>1, SiteAssumption DEF Values
  <2>2. CASE s \notin Maps /\ r.dbg.fuzz
    BY <1>1, <1>10, <1>12, <2>2 DEF Decided
  <2>3. CASE ~r.dbg.fuzz
    BY <1>12, <2>3 DEF Values
  <2> QED
    BY <2>1, <2>2, <2>3
<1>13. ASSUME r.enabled, NEW k \in 1..(len + 1)
       PROVE  E[k].values = Values(r.seed, r.dbg.fuzz, E[k].site, Cardinality(Numbered(E, k)))
  <2>1. CASE k = len + 1
    BY <1>2, <1>3, <1>12, <1>13, <2>1
  <2>2. CASE k \in 1..len
    BY <1>1, <1>3, <1>7, <1>13, <2>2 DEF Decided
  <2> QED
    BY <1>3, <2>1, <2>2
<1>14. Decided(n)
  BY <1>3, <1>5, <1>11, <1>13 DEF Decided
<1>15. Good(n)
  BY <1>4, <1>6, <1>14 DEF Good
<1> QED
  BY <1>15 DEF n, E, d

\* A decision with the values of its site and number is added to the draws of its process.
LEMMA DrawStep ==
    ASSUME IInv, NEW p \in Proc, NEW s \in Site, NEW vs \in Seq(Drawn), NEW fuzzed \in BOOLEAN,
           rt[p].enabled /\ rt[p].dbg.fuzz => (fuzzed <=> s \notin Maps),
           rt[p].enabled => vs = Values(rt[p].seed, rt[p].dbg.fuzz, s, rt[p].fuzzSeq + 1),
           Draw(p, s, vs, fuzzed)
    PROVE  IInv'
<1> DEFINE r == rt[p]
           c == IF fuzzed THEN r.fuzzSeq + 1 ELSE r.fuzzSeq
           n == [r EXCEPT !.draws = Append(@, [site |-> s, values |-> vs]), !.fuzzSeq = c]
<1>1. Good(r) /\ r.stage = 8 /\ r.fuzzSeq \in Nat
  BY Stages DEF IInv, Good, Process, Draw, At
<1>2. c \in Nat /\ (r.enabled /\ r.dbg.fuzz => c = IF s \in Maps THEN r.fuzzSeq ELSE r.fuzzSeq + 1)
  BY <1>1
<1>3. rt' = [rt EXCEPT ![p] = n]
  BY DEF IInv, Draw
<1> HIDE DEF c
<1>4. Good(n)
  <2> HIDE DEF r
  <2> QED
    BY <1>1, <1>2, DrawGood DEF r
<1> QED
  BY <1>3, <1>4, Lift

\* Each decision draws its values from its own site.
LEMMA DecisionSteps ==
    ASSUME IInv, NEW p \in Proc, NEW s,
           (s \in Selects /\ Select(p, s)) \/ (s \in Shuffles /\ Shuffle(p, s)) \/ (s \in Maps /\ MapRand(p, s))
    PROVE  IInv'
<1> DEFINE r == rt[p]
           fuzz == FuzzEnabled(r)
           next == r.fuzzSeq + 1
<1>1. r \in Process /\ r.fuzzSeq \in Nat /\ next \in Nat /\ fuzz \in BOOLEAN /\ s \in Site
  BY DEF IInv, Process, FuzzEnabled, Site
<1>2. r.enabled => (fuzz <=> r.dbg.fuzz)
  BY DEF FuzzEnabled
<1> HIDE DEF r, fuzz, next
<1>3. CASE s \in Selects /\ Select(p, s)
  <2>1. PICK v \in Rand(r, s, IF fuzz THEN next ELSE 0) : Draw(p, s, <<v>>, fuzz)
    BY <1>3 DEF Select, r, fuzz, next
  <2>2. v \in Drawn /\ (r.enabled => v = <<r.seed, s, IF fuzz THEN next ELSE 0>>)
    <3>1. (IF fuzz THEN next ELSE 0) \in Nat
      BY <1>1
    <3> QED
      BY <1>1, <3>1, RandType
  <2>3. <<v>> \in Seq(Drawn) /\ (r.enabled => <<v>> = Values(r.seed, r.dbg.fuzz, s, next))
    BY <1>2, <1>3, <2>2 DEF Values
  <2>4. s \notin Maps
    BY <1>3, SiteAssumption
  <2> QED
    BY <1>1, <1>2, <2>1, <2>3, <2>4, DrawStep DEF r, next
<1>4. CASE s \in Shuffles /\ Shuffle(p, s)
  <2>1. s \notin Maps /\ s \notin Selects
    BY <1>4, SiteAssumption
  <2>2. PICK v \in Rand(r, s, 0) :
           \/ fuzz /\ \E w \in Rand(r, s, next) : Draw(p, s, <<v, w>>, TRUE)
           \/ ~fuzz /\ Draw(p, s, <<v>>, FALSE)
    BY <1>4 DEF Shuffle, r, fuzz, next
  <2>3. v \in Drawn /\ (r.enabled => v = <<r.seed, s, 0>>)
    BY <1>1, RandType
  <2>4. ASSUME fuzz, NEW w \in Rand(r, s, next), Draw(p, s, <<v, w>>, TRUE) PROVE IInv'
    <3>1. w \in Drawn /\ (r.enabled => w = <<r.seed, s, next>>)
      BY <1>1, RandType
    <3>2. <<v, w>> \in Seq(Drawn) /\ (r.enabled => <<v, w>> = Values(r.seed, r.dbg.fuzz, s, next))
      BY <1>2, <1>4, <2>1, <2>3, <2>4, <3>1 DEF Values
    <3> QED
      BY <1>1, <2>1, <2>4, <3>2, DrawStep DEF r, next
  <2>5. ASSUME ~fuzz, Draw(p, s, <<v>>, FALSE) PROVE IInv'
    <3>1. <<v>> \in Seq(Drawn) /\ (r.enabled => <<v>> = Values(r.seed, r.dbg.fuzz, s, next))
      BY <1>2, <2>1, <2>3, <2>5 DEF Values
    <3> QED
      BY <1>1, <1>2, <2>1, <2>5, <3>1, DrawStep DEF r, next
  <2> QED
    BY <2>2, <2>4, <2>5
<1>5. CASE s \in Maps /\ MapRand(p, s)
  <2>1. s \notin Shuffles /\ s \notin Selects
    BY <1>5, SiteAssumption
  <2>2. PICK v \in Rand(r, s, 0) : Draw(p, s, <<v>>, FALSE)
    BY <1>5 DEF MapRand, r
  <2>3. v \in Drawn /\ (r.enabled => v = <<r.seed, s, 0>>)
    BY <1>1, RandType
  <2>4. <<v>> \in Seq(Drawn) /\ (r.enabled => <<v>> = Values(r.seed, r.dbg.fuzz, s, next))
    BY <2>1, <2>3 DEF Values
  <2> QED
    BY <1>1, <1>5, <2>2, <2>4, DrawStep DEF r, next
<1> QED
  BY <1>3, <1>4, <1>5

\* Each statement of start-up preserves the invariant.
LEMMA BootSteps ==
    ASSUME IInv, NEW p \in Proc, Boot(p)
    PROVE  IInv'
<1> DEFINE r == rt[p]
<1>1. Good(r) /\ r \in Process /\ r.stage \in 1..8
  BY DEF IInv, Process
<1>2. \A x : At(p, x) <=> BootOrder[r.stage] = x
  BY DEF At
<1>3. \A n : Goes(p, n) => rt' = [rt EXCEPT ![p] = [n EXCEPT !.stage = @ + 1]]
  BY DEF Goes
<1> SUFFICES \E n : Good(n) /\ rt' = [rt EXCEPT ![p] = n]
  BY Lift
<1>4. CASE ParseGodebug(p)
  <2>1. \/ r.stage = 1 /\ Goes(p, IF EarlyGodebug THEN Parsed(r) ELSE r)
        \/ r.stage = 5 /\ Goes(p, IF EarlyGodebug THEN r ELSE Parsed(r))
    BY <1>1, <1>2, <1>4, Stages DEF ParseGodebug
  <2>2. CASE (r.stage = 1 /\ EarlyGodebug) \/ (r.stage = 5 /\ ~EarlyGodebug)
    <3>1. Goes(p, Parsed(r))
      BY <2>1, <2>2
    <3> HIDE DEF r
    <3>2. Good([Parsed(r) EXCEPT !.stage = @ + 1])
      BY <1>1, <2>2, ParseGood
    <3> QED
      BY <1>3, <3>1, <3>2
  <2>3. CASE (r.stage = 1 /\ ~EarlyGodebug) \/ (r.stage = 5 /\ EarlyGodebug)
    <3>1. Goes(p, r)
      BY <2>1, <2>3
    <3> HIDE DEF r
    <3>2. Good([r EXCEPT !.stage = @ + 1])
      BY <1>1, <2>3, StageGood
    <3> QED
      BY <1>3, <3>1, <3>2
  <2> QED
    BY <2>1, <2>2, <2>3, ModeAssumption
<1>5. CASE DetschedInit(p)
  <2>1. r.stage = 2
    BY <1>1, <1>2, <1>5, Stages DEF DetschedInit
  <2>2. CASE ~Asked(r.dbg)
    <3>1. Goes(p, r)
      BY <1>5, <2>2 DEF DetschedInit
    <3> HIDE DEF r
    <3>2. Good([r EXCEPT !.stage = @ + 1])
      BY <1>1, <2>1, <2>2, StageGood
    <3> QED
      BY <1>3, <3>1, <3>2
  <2>3. CASE Asked(r.dbg)
    <3> DEFINE d == [r.dbg EXCEPT !.timer = 0]
               w == SeedOf(r.dbg.seed)
               n == [r EXCEPT !.enabled = TRUE, !.forced = TRUE, !.dbg.timer = 0, !.seed = w]
               m == [r EXCEPT !.enabled = TRUE, !.forced = TRUE, !.dbg = d, !.seed = w, !.stage = @ + 1]
    <3>1. Goes(p, n)
      BY <1>5, <2>3 DEF DetschedInit
    <3>2. w \in Seed
      BY <1>1, SeedMade DEF Good, Seeded
    <3> HIDE DEF r
    <3>3. Good(m)
      <4> HIDE DEF d
      <4>1. d = [r.dbg EXCEPT !.timer = 0]
        BY DEF d
      <4> QED
        BY <1>1, <2>1, <2>3, <3>2, <4>1, EnterGood
    <3>4. [n EXCEPT !.stage = @ + 1] = m
      BY <1>1 DEF Process
    <3> QED
      BY <1>3, <3>1, <3>3, <3>4
  <2> QED
    BY <2>2, <2>3
<1>6. CASE Randomize(p)
  <2>1. PICK root \in {"rand", "hash"} : At(p, root) /\
           \E v \in Rand(r, root, 0) : Goes(p, [r EXCEPT !.roots = Append(@, v)])
    BY <1>6 DEF Randomize
  <2>2. PICK v \in Rand(r, root, 0) : At(p, root) /\ Goes(p, [r EXCEPT !.roots = Append(@, v)])
    BY <2>1
  <2>3. (r.stage = 3 /\ root = "rand") \/ (r.stage = 4 /\ root = "hash")
    BY <1>1, <1>2, <2>2, Stages
  <2> HIDE DEF r
  <2>4. Good([r EXCEPT !.roots = Append(@, v), !.stage = @ + 1])
    BY <1>1, <2>3, RootGood
  <2>5. [[r EXCEPT !.roots = Append(@, v)] EXCEPT !.stage = @ + 1]
           = [r EXCEPT !.roots = Append(@, v), !.stage = @ + 1]
    BY <1>1 DEF Process
  <2> QED
    BY <1>3, <2>2, <2>4, <2>5
<1>7. CASE StartupProcs(p)
  <2>1. PICK m \in 1..MaxProcs : Goes(p, [r EXCEPT !.procs = IF r.enabled THEN 1 ELSE m])
    BY <1>7 DEF StartupProcs
  <2>2. r.stage = 6
    BY <1>1, <1>2, <1>7, Stages DEF StartupProcs
  <2> HIDE DEF r
  <2>3. Good([r EXCEPT !.procs = IF r.enabled THEN 1 ELSE m, !.stage = @ + 1])
    BY <1>1, <2>2, ProcsGood
  <2>4. [[r EXCEPT !.procs = IF r.enabled THEN 1 ELSE m] EXCEPT !.stage = @ + 1]
           = [r EXCEPT !.procs = IF r.enabled THEN 1 ELSE m, !.stage = @ + 1]
    BY <1>1 DEF Process
  <2> QED
    BY <1>3, <2>1, <2>3, <2>4
<1>8. CASE StartMain(p)
  <2>1. r.stage = 7
    BY <1>1, <1>2, <1>8, Stages DEF StartMain
  <2>2. PICK b \in BOOLEAN : (r.enabled => b = FALSE) /\ Goes(p, [r EXCEPT !.sysmon = b])
    <3>1. SysmonEnabled(r) \in BOOLEAN /\ (r.enabled => SysmonEnabled(r) = FALSE)
      BY ModeAssumption DEF SysmonEnabled
    <3>2. Goes(p, [r EXCEPT !.sysmon = SysmonEnabled(r)])
      BY <1>8 DEF StartMain
    <3> QED
      BY <3>1, <3>2
  <2> HIDE DEF r
  <2>3. Good([r EXCEPT !.sysmon = b, !.stage = @ + 1])
    BY <1>1, <2>1, <2>2, MainGood
  <2>4. [[r EXCEPT !.sysmon = b] EXCEPT !.stage = @ + 1] = [r EXCEPT !.sysmon = b, !.stage = @ + 1]
    BY <1>1 DEF Process
  <2> QED
    BY <1>3, <2>2, <2>3, <2>4
<1> QED
  BY <1>4, <1>5, <1>6, <1>7, <1>8 DEF Boot

\* So does what the program calls afterwards, other than a decision.
LEMMA UserSteps ==
    ASSUME IInv, NEW p \in Proc,
           \/ StartTrace(p)
           \/ \E m \in 1..MaxProcs : GOMAXPROCS(p, m) \/ UpdateMaxProcs(p, m)
           \/ \E timer \in {0, 1} : Setenv(p, timer)
           \/ \E hz \in {0, 100} : SetCPUProfileRate(p, hz)
    PROVE  IInv'
<1> DEFINE r == rt[p]
<1>1. Good(r) /\ r \in Process /\ r.stage \in 1..8 /\ rt \in [Proc -> Process]
  BY DEF IInv, Process
<1>2. r.stage = 8
  BY <1>1, Stages DEF StartTrace, GOMAXPROCS, UpdateMaxProcs, Setenv, SetCPUProfileRate, At
<1> SUFFICES \E n : Good(n) /\ rt' = [rt EXCEPT ![p] = n]
  BY Lift
<1>3. CASE StartTrace(p)
  <2>1. rt' = [rt EXCEPT ![p] = [r EXCEPT !.tracing = TRUE]] /\ TraceAllowed(r)
    BY <1>1, <1>3 DEF StartTrace
  <2> HIDE DEF r
  <2> QED
    BY <1>1, <1>2, <2>1, UserGood
<1>4. ASSUME NEW timer \in {0, 1}, Setenv(p, timer) PROVE \E n : Good(n) /\ rt' = [rt EXCEPT ![p] = n]
  <2>1. rt' = [rt EXCEPT ![p] = [r EXCEPT !.dbg.timer = TimerChan(r, timer)]]
    BY <1>1, <1>4 DEF Setenv
  <2> HIDE DEF r
  <2>2. Good([r EXCEPT !.dbg.timer = TimerChan(r, timer)])
    BY <1>1, <1>2, UserGood
  <2> QED
    BY <2>1, <2>2
<1>5. ASSUME NEW hz \in {0, 100}, SetCPUProfileRate(p, hz)
      PROVE  \E n : Good(n) /\ rt' = [rt EXCEPT ![p] = n]
  <2>1. PICK b \in BOOLEAN : (r.enabled => b = FALSE) /\ rt' = [rt EXCEPT ![p] = [r EXCEPT !.profiling = b]]
    <3>1. /\ (hz > 0) \in BOOLEAN /\ (r.enabled => (hz > 0) = FALSE)
      BY <1>5 DEF SetCPUProfileRate, CPUProfileAllowed
    <3>2. rt' = [rt EXCEPT ![p] = [r EXCEPT !.profiling = hz > 0]]
      BY <1>1, <1>5 DEF SetCPUProfileRate
    <3> QED
      BY <3>1, <3>2
  <2> HIDE DEF r
  <2> QED
    BY <1>1, <1>2, <2>1, UserGood
<1>6. ASSUME NEW m \in 1..MaxProcs, GOMAXPROCS(p, m) PROVE \E n : Good(n) /\ rt' = [rt EXCEPT ![p] = n]
  <2>1. rt' = [rt EXCEPT ![p] = [r EXCEPT !.procs = m, !.asked = m]]
    BY <1>1, <1>6 DEF GOMAXPROCS
  <2> HIDE DEF r
  <2> QED
    BY <1>1, <1>2, <2>1, UserGood
<1>7. ASSUME NEW m \in 1..MaxProcs, UpdateMaxProcs(p, m)
      PROVE  \E n : Good(n) /\ rt' = [rt EXCEPT ![p] = n]
  <2>1. rt' = [rt EXCEPT ![p] = [r EXCEPT !.procs = m]] /\ ~r.forced
    BY <1>1, <1>7 DEF UpdateMaxProcs
  <2> HIDE DEF r
  <2> QED
    BY <1>1, <1>2, <2>1, UserGood
<1> QED
  BY <1>3, <1>4, <1>5, <1>6, <1>7

\* The inductive invariant holds in every reachable state.
LEMMA Inductive == Spec => []IInv
<1>1. IInv /\ [Next]_vars => IInv'
  <2>1. ASSUME IInv, UNCHANGED vars PROVE IInv'
    BY <2>1 DEF IInv, vars
  <2>2. ASSUME IInv, Next PROVE IInv'
    BY <2>2, BootSteps, UserSteps, DecisionSteps DEF Next
  <2> QED
    BY <2>1, <2>2
<1> QED
  BY <1>1, InitGood, PTL DEF Spec

-----------------------------------------------------------------------------
\* The theorems.

\* Whatever number GODEBUG holds, what parsegodebug and detschedInit make of it
\* fits debug.detschedseed and detsched.seed; every value drawn is of its kind.
THEOREM TypeCorrect == Spec => []TypeOK
<1>1. IInv => TypeOK
  <2> SUFFICES ASSUME IInv, NEW p \in Proc, NEW r, r = rt[p]
               PROVE  /\ r.stage \in DOMAIN BootOrder
                      /\ r.godebug \in Setting /\ r.dbg \in Setting
                      /\ r.enabled \in BOOLEAN /\ r.seed \in Seed /\ r.fuzzSeq \in Nat
                      /\ r.forced \in BOOLEAN /\ {r.procs, r.asked} \subseteq 0..MaxProcs
                      /\ {r.sysmon, r.tracing, r.profiling} \subseteq BOOLEAN
                      /\ r.roots \in Seq(Drawn)
                      /\ \A i \in DOMAIN r.draws :
                            r.draws[i].site \in Site /\ r.draws[i].values \in Seq(Drawn)
    BY DEF TypeOK
  <2>1. r \in Process
    BY DEF IInv
  <2>2. DOMAIN BootOrder = 1..8
    BY DEF BootOrder
  <2>3. r.draws \in Seq(Decision)
    BY <2>1 DEF Process
  <2>4. ASSUME NEW i \in DOMAIN r.draws
        PROVE  r.draws[i].site \in Site /\ r.draws[i].values \in Seq(Drawn)
    <3>1. r.draws[i] \in Decision
      BY <2>3
    <3> QED
      BY <3>1 DEF Decision
  <2> QED
    BY <2>1, <2>2, <2>4 DEF Process
<1> QED
  BY <1>1, Inductive, PTL

\* Processes that ask for different seeds run with different ones: the
\* conversion to an unsigned word and the replacement of 0 by 1 are injective on
\* the seeds one can ask for.
THEOREM SeedsNeverMeet == Spec => []SeedsApart
<1>1. IInv => SeedsApart
  <2> SUFFICES ASSUME IInv, NEW p \in Proc, NEW q \in Proc, rt[p].enabled, rt[q].enabled,
                      rt[p].dbg.seed # rt[q].dbg.seed, 0 \notin {rt[p].dbg.seed, rt[q].dbg.seed}
               PROVE  rt[p].seed # rt[q].seed
    BY DEF SeedsApart
  <2> DEFINE s == rt[p].dbg.seed
             t == rt[q].dbg.seed
  <2>1. /\ s \in IntMin..IntMax /\ rt[p].seed = SeedOf(s)
        /\ t \in IntMin..IntMax /\ rt[q].seed = SeedOf(t)
    BY DEF IInv, Good, Seeded
  <2>2. s # t /\ s # 0 /\ t # 0
    OBVIOUS
  <2> HIDE DEF s, t
  <2>3. /\ SeedOf(s) = IF s < 0 THEN s + WordSize ELSE s
        /\ SeedOf(t) = IF t < 0 THEN t + WordSize ELSE t
    BY <2>1, <2>2, SeedMade
  <2>4. SeedOf(s) # SeedOf(t)
    BY <2>1, <2>2, <2>3, WidthAssumption DEF IntMin, IntMax
  <2> QED
    BY <2>1, <2>4
<1> QED
  BY <1>1, Inductive, PTL

\* A process in deterministic mode that has come up keeps the one P of start-up
\* until it calls runtime.GOMAXPROCS itself, and then has as many as it asked for
\* last; it has no sysmon, no trace and no CPU profile, whatever it calls, and
\* all that detschedInit sets is set.
THEOREM NothingBeside == Spec => []Quiet
<1>1. IInv => Quiet
  <2> SUFFICES ASSUME IInv, NEW p \in Proc, Running(p), rt[p].enabled
               PROVE  /\ rt[p].procs = IF rt[p].asked = 0 THEN 1 ELSE rt[p].asked
                      /\ rt[p].forced
                      /\ ~rt[p].sysmon /\ ~rt[p].tracing /\ ~rt[p].profiling
    BY DEF Quiet
  <2>1. rt[p].stage = 8 /\ Booted(rt[p])
    BY Stages DEF IInv, Good, Process, Running, At
  <2> QED
    BY <2>1 DEF Booted
<1> QED
  BY <1>1, Inductive, PTL

\* Timer channels stay synchronous in a process that asked for the mode, however
\* often it changes GODEBUG: detschedForceTimerChanSync runs after each parse.
THEOREM StaysSync == Spec => []TimerChansSync
<1>1. IInv => TimerChansSync
  BY DEF IInv, Good, Booted, TimerChansSync
<1> QED
  BY <1>1, Inductive, PTL

\* Before its first random root is drawn, a process runs in the mode exactly
\* when it was asked to, where the platform hands over GODEBUG early.
THEOREM ModeAsRequested == Spec => []RequestedIsEnabled
<1>1. IInv => RequestedIsEnabled
  <2> SUFFICES ASSUME IInv, EarlyGodebug, NEW p \in Proc, rt[p].roots # <<>>
               PROVE  Requested(rt[p]) <=> rt[p].enabled
    BY DEF RequestedIsEnabled
  <2>1. Booted(rt[p]) /\ Rooted(rt[p]) /\ rt[p].roots \in Seq(Drawn) /\ rt[p].stage \in 1..8
    BY DEF IInv, Good, Process
  <2>2. rt[p].stage > 2
    BY <2>1 DEF Rooted
  <2> QED
    BY <2>1, <2>2 DEF Booted
<1> QED
  BY <1>1, Inductive, PTL

\* What two processes with the same seed have in common.
LEMMA TwinFacts ==
    ASSUME IInv, NEW p \in Proc, NEW q \in Proc, Twins(p, q)
    PROVE  /\ rt[p].roots = rt[q].roots
           /\ rt[p].draws \in Seq(Decision) /\ rt[q].draws \in Seq(Decision)
           /\ \A k \in DOMAIN rt[p].draws :
                 rt[p].draws[k].values = Values(rt[p].seed, rt[p].dbg.fuzz, rt[p].draws[k].site,
                                                Cardinality(Numbered(rt[p].draws, k)))
           /\ \A k \in DOMAIN rt[q].draws :
                 rt[q].draws[k].values = Values(rt[p].seed, rt[p].dbg.fuzz, rt[q].draws[k].site,
                                                Cardinality(Numbered(rt[q].draws, k)))
<1>1. /\ rt[p] \in Process /\ Rooted(rt[p]) /\ Decided(rt[p]) /\ rt[p].stage = 8
      /\ rt[q] \in Process /\ Rooted(rt[q]) /\ Decided(rt[q]) /\ rt[q].stage = 8
      /\ rt[p].enabled /\ rt[q].enabled /\ rt[p].seed = rt[q].seed /\ rt[p].dbg.fuzz = rt[q].dbg.fuzz
  <2>1. Good(rt[p]) /\ Good(rt[q]) /\ rt[p] \in Process /\ rt[q] \in Process
    BY DEF IInv
  <2>2. rt[p].stage = 8 /\ rt[q].stage = 8
    BY <2>1, Stages DEF Twins, Running, At, Process
  <2> QED
    BY <2>1, <2>2 DEF Good, Twins
<1>2. rt[p].roots = rt[q].roots
  <2>1. /\ rt[p].roots \in Seq(Drawn) /\ rt[q].roots \in Seq(Drawn)
        /\ Len(rt[p].roots) = 2 /\ Len(rt[q].roots) = 2
        /\ rt[p].roots[1] = rt[q].roots[1] /\ rt[p].roots[2] = rt[q].roots[2]
    <3>1. rt[p].roots \in Seq(Drawn) /\ rt[q].roots \in Seq(Drawn)
      BY <1>1 DEF Process
    <3>2. /\ Len(rt[p].roots) = 2
          /\ rt[p].roots[1] = <<rt[p].seed, "rand", 0>> /\ rt[p].roots[2] = <<rt[p].seed, "hash", 0>>
      BY <1>1 DEF Rooted
    <3>3. /\ Len(rt[q].roots) = 2
          /\ rt[q].roots[1] = <<rt[q].seed, "rand", 0>> /\ rt[q].roots[2] = <<rt[q].seed, "hash", 0>>
      BY <1>1 DEF Rooted
    <3> QED
      BY <1>1, <3>1, <3>2, <3>3
  <2>2. \A i \in 1..2 : rt[p].roots[i] = rt[q].roots[i]
    BY <2>1
  <2> QED
    BY <2>1, <2>2
<1>3. rt[p].draws \in Seq(Decision) /\ rt[q].draws \in Seq(Decision)
  BY <1>1 DEF Process
<1> QED
  BY <1>1, <1>2, <1>3 DEF Decided

\* "Same seed => stable outcomes" (README): processes with one seed draw the same
\* roots, and the same decisions as long as they come to them in the same order.
THEOREM SameSeedSameOutcome == Spec => []Replay
<1>1. IInv => Replay
  <2> SUFFICES ASSUME IInv, NEW p \in Proc, NEW q \in Proc, Twins(p, q)
               PROVE  /\ rt[p].roots = rt[q].roots
                      /\ \A k \in DOMAIN rt[p].draws \intersect DOMAIN rt[q].draws :
                            (\A i \in 1..k : rt[p].draws[i].site = rt[q].draws[i].site)
                              => rt[p].draws[k] = rt[q].draws[k]
    BY DEF Replay
  <2> DEFINE D == rt[p].draws
             E == rt[q].draws
             seed == rt[p].seed
             fuzz == rt[p].dbg.fuzz
  <2>1. /\ rt[p].roots = rt[q].roots /\ D \in Seq(Decision) /\ E \in Seq(Decision)
        /\ \A k \in DOMAIN D : D[k].values = Values(seed, fuzz, D[k].site, Cardinality(Numbered(D, k)))
        /\ \A k \in DOMAIN E : E[k].values = Values(seed, fuzz, E[k].site, Cardinality(Numbered(E, k)))
    BY TwinFacts
  <2> HIDE DEF D, E, seed, fuzz
  <2>2. ASSUME NEW k \in DOMAIN D \intersect DOMAIN E, \A i \in 1..k : D[i].site = E[i].site
        PROVE  D[k] = E[k]
    <3>1. Numbered(D, k) = Numbered(E, k)
      BY <2>2 DEF Numbered
    <3>2. D[k] \in Decision /\ E[k] \in Decision /\ k \in 1..k
      BY <2>1
    <3>3. D[k].site = E[k].site
      BY <2>2, <3>2
    <3>4. D[k].values = E[k].values
      BY <2>1, <3>1, <3>3
    <3> QED
      BY <3>2, <3>3, <3>4 DEF Decision
  <2> QED
    BY <2>1, <2>2 DEF D, E
<1> QED
  BY <1>1, Inductive, PTL

\* Without fuzzing a decision is the same wherever in the run it is made.
THEOREM OrderDoesNotMatter == Spec => []OrderFree
<1>1. IInv => OrderFree
  <2> SUFFICES ASSUME IInv, NEW p \in Proc, NEW q \in Proc, Twins(p, q), ~rt[p].dbg.fuzz,
                      NEW i \in DOMAIN rt[p].draws, NEW j \in DOMAIN rt[q].draws,
                      rt[p].draws[i].site = rt[q].draws[j].site
               PROVE  rt[p].draws[i] = rt[q].draws[j]
    BY DEF OrderFree
  <2>1. \A s : \A m, n : Values(rt[p].seed, rt[p].dbg.fuzz, s, m) = Values(rt[p].seed, rt[p].dbg.fuzz, s, n)
    BY DEF Values
  <2>2. rt[p].draws[i].values = rt[q].draws[j].values
    BY <2>1, TwinFacts
  <2>3. rt[p].draws[i] \in Decision /\ rt[q].draws[j] \in Decision
    BY TwinFacts
  <2> QED
    BY <2>2, <2>3 DEF Decision
<1> QED
  BY <1>1, Inductive, PTL
=============================================================================
