# A TLA+ development of go-detsched

go-detsched is a patch of the Go runtime that makes goroutine scheduling, `select`,
map iteration and the random roots of a process a function of a seed
(`GODEBUG=detsched=1,detschedseed=N`), and a demonstration, raftsim: a small Raft
cluster over an in-memory network, with bugs that can be switched on, scenarios that
look for them, and an oracle.

This directory holds TLA+ modules translated from that source, TLC configurations, and
proofs for TLAPS. `tlc -config <X>.cfg <MC module>` repeats a run, `tlapm <X>Proofs.tla`
a component's proofs.

## 1. Inventory

| Component | State | Operations | Interaction |
|---|---|---|---|
| Runtime policy `new-files/src/runtime/detsched.go` | `detsched.enabled`, `seed`, `fuzzSeq`; `debug.detsched*` and the knobs that `detschedInit` forces | `detschedInit`, the predicates, `schedulerRandnFrom`, the draws of each site, `detschedMapRand` | called from the patch's places in the runtime; `runtime.GOMAXPROCS` stays open to the program |
| Runtime patch `patches/detsched.inline.patch` (`detsched.git.patch` is generated from it) | `pp.runnext`, `pp.runq`, `sched.runq`; hash keys, random seed; GOMAXPROCS, sysmon, tracer, profiler | `schedinit`, `main`, `randinit`, `alginit`, `parsegodebug`, `runqput`, `runqputslow`, `runqputbatch`, `selectgo`, `StartTrace`, `SetCPUProfileRate`, map seeds | one P, unless the program asks for more; one thread runs Go code |
| Raft node `demos/raftsim/internal/raft/node.go` | `role`, `term`, `votedFor`, `leaderID`, `log`, `commitIndex`, `lastHeartbeat` under `Node.mu`; goroutines inside RPC loops | `electionLoop`, `runElectionRound`, `heartbeatLoop`, `Propose`, `handleRequestVote`, `handleAppendEntries`, `maybeStepDownOnHigherTerm`, `sendMessage`, `BumpTerm` | JSON over connections; `Node.mu` is never held across an RPC |
| Cluster `.../raft/cluster.go` | map of nodes, event log | `Start`, `Close`, `Propose`, `BumpNodeTerm`, `InjectMessage`, `LeaderID`, `NodeSnapshots`, `EventLog` | locks one node after another |
| Transport `.../transport/bufnet.go` | address table, dial counter, closing flag | `Listen`, `DialContext`, `Close` | `bufconn` listeners (external) |
| Scenarios and oracle `.../scenarios/scenarios.go`, `cmd/raftsim` | none of their own | eight scenarios, `raftSafetyViolations` | drive a cluster, read events and snapshots |
| Patch series `demos/raftsim/patch-series`, `scripts/run-raft-patch-series-ci.sh` | patches that undo one injected bug each | sweep seeds before and after each patch, pass or fail the stage | reads the issue codes and the oracle's findings that `raftsim` prints |
| Build scripts, CI, test programs | files | fetch, patch, build, sweep seeds | none at run time |

What is hard in each, and what makes it correct:

* **Raft node.** Requests, answers and three kinds of goroutine interleave between
  critical sections; what a loop read before an RPC is used after it; a request whose
  sender gave up after 2 s is still handled. Correct: terms never drop, one winner per
  term, the leader a node names is one, a leader only appends, logs match, a commit index is backed by a majority, every
  loop ends.
* **Run queue.** A fixed ring that overflows into a global list, shuffled in place up to
  twice; without sysmon nothing preempts. Correct: no goroutine is lost, doubled or starved.
* **Runtime policy.** The order of start-up; draws that must, or must not, depend on
  earlier draws; settings that change while the process runs. Correct: the same seed gives
  the same roots and decisions; nothing that the program did not ask for runs beside it.
* **Transport and life cycle.** `Close` races with dials, with `Accept` and with the
  cancellation of the context. Correct: nothing is registered twice, everything ends.
* **Scenarios and oracle.** A scenario's calls interleave with the elections of the cluster
  it drives; snapshots are of different moments, and events are older still. Correct: only
  what the cluster did is reported, in either mode; the sweep of a stage fails when its bug
  is still there.

`PROJECT.json` lists each hazard at its line, with the properties that cover it, or the
reason why none does yet.

## 2. Modules

### RaftNode, RaftProps, MCRaft, RaftProofs, LogProofs, MatchingProofs

`RaftNode` models `node.go`. One action is one critical section of `Node.mu`, with all
that its handler does. The fields of the node are variables of the same names. Between two
critical sections a goroutine is somewhere in an RPC loop; that is variable `task`, one
record per goroutine: the request the loop sends, the peers it still has to visit (`todo`),
the answer it has not looked at (`reply`), the votes or acknowledgements it has counted
(`yes`). Goroutines are the election round of a node, one heartbeat loop per term the node
won, and the callers of `Propose`.

| Code | Action |
|---|---|
| `electionLoop` up to the first RPC of `runElectionRound` | `StartElection` |
| `sendMessage`: answered / dropped or dial error / deadline before the handler / deadline after it | `Deliver` / `Lose` / `Abandon`, then `DeliverLate` / `LoseReply` |
| `handleRequestVote`, `handleAppendEntries`, their early returns | `HandleRequestVote`, `HandleAppendEntries`, `RejectStale` inside `Deliver` and `DeliverLate` |
| the caller's look at a response, `maybeStepDownOnHigherTerm` | `Return` |
| end of a round, tick of a heartbeat loop, start and end of `Propose`, `BumpTerm` | `EndRound`, `Tick`, `Propose`, `EndPropose`, `BumpTerm` |

The event log that the oracle reads is kept as sets: `grants`, `won`, `made`. `cleared` and
`held` are history for the properties only.

Abstractions. Time is left out: an election timer fires, a ticker ticks and a deadline
passes at any moment, so the flags `NoAppendTimerReset` and `FixedElectionTimeout`, which
change only the timing, have no effect here. An event that the code records right after it unlocks is recorded in the
critical section. `electionLoop` tests `role` in a critical section of its own before the
round starts; the two are one action, since only a node's own loop makes it leader.
Start-up, cancellation and shutdown are in `BufNet`. `Order` is the order in which a Go
map happened to be iterated by `NewNode`. `entries` has at most one element because
`Propose` sends one and a heartbeat none. The requests that the scenarios inject
(`InjectMessage`) are in `Scenarios`; nothing else injects any. All the other flags of `BugConfig` are in the model
(`Bugs`); the proofs hold for every set of them. The runs take none: they ask about the code
as it should be after the patch series. With three nodes `CommitOnSingleAck` changes
nothing, as two acknowledgements are a majority.

`RaftProps` states the properties, `MCRaft` the instances and the states they start from; `RaftProofs` (votes), `LogProofs`
(logs and commit indexes) and `MatchingProofs` (proposals and log matching) prove them.

### Elections, ElectionProofs

`Elections` is what the election promises, without messages, rounds or roles: a voter votes in
no term it has left, once in a term unless it has forgotten that vote, and a quorum makes a
winner. `RaftProps!ImplementsElections` maps `votes`, `winners`, `cleared` to `grants`, `won`,
`cleared` of `RaftNode`, and the quorums to its majorities. It is checked by TLC and proved.

### BufNet, MCBufNet, BufNetProofs

The address table, the listeners, dials with their fault hooks, the servers (`serveLoop`,
`handleConn`), the loops that dial, and the goroutine of the scenario that sets all this up
and tears it down: `NewCluster`, `Start`, then the deferred `Close` and `cancel` in that order.
`Close` is two actions, as in the code: the table is emptied under the mutex, the listeners
are closed after it.

| Code | Action |
|---|---|
| `BufNet.Listen` for each node of `NewCluster`, `Node.Start` for each in `Cluster.Start` | `Listen`, `Start` |
| `BufNet.Close` | `CloseTable`, `CloseListener` |
| `cancel()` | `Cancel` |
| `resolveDial`; the hooks of `DialContext`; `lis.DialContext` with `Accept` | `ResolveDial`; `DialFails`, `DialGoesOn`; `Connect`, `ConnectFails` |
| the deadline of a connection; `handleConn`; `serveLoop` on an error | `Deadline`; `HandleConn`; `AcceptFails` |
| the end of `electionLoop`, `heartbeatLoop` | `EndLoop` |

Who runs is part of the state, as the question is whether a server may keep the P: with
`preemptive`, any goroutine takes the next step; without it (`detsched`), the one that ran
last keeps the P as long as it can go on (`CanRun`). Both are chosen in `Init`. A loop that
waits for its timer counts as blocked unless its context is done; a dial that
`resolveDial` refuses leaves the state as it was and is not an action. The pauses that a garbage collection
imposes on a goroutine are left out. `bufconn` is external: its `Accept` on a closed listener
returns an error which is not `net.ErrClosed`, so only the context ends `serveLoop`. The
scenarios set no hooks; the run has both.

### Scenarios, ScenarioProps, MCScenarios, ScenarioProofs

Composes `RaftNode` with the goroutine that runs one of the eight scenarios: `plan` holds the
calls it has still to make, and each call is an action that interleaves with the nodes'. A
call that locks one node after another (`LeaderID`, `MaxTerm`, `NodeSnapshots`) is one action per node
(`Visit`), and what it returns is the mixture it saw (`seen`). `NodeStep` is the cluster with the
scenario's fault hook in its way (`Hook`, `Drop`, `Reach`). `Observed` and `Issue` are the
verdict, `Violations` the oracle's `raftSafetyViolations`, line by line, its panic on an index beyond the
log included.

`Bugs = {}` stands for the tree after the patch series, `ExpectBug` for the flag of the same
name. The hook of `split_vote` is the scenario's own; patch 0001 removes it too, so what
`SplitVoteStays` says of it is about the tree before that patch. A sleep is any number of steps of
the nodes. No RPC misses its deadline here, since a synctest bubble advances time only when everybody waits. The code runs
`reorder_commit` with at least five nodes; the run has three, the proofs any number from three.
`ScenarioAssumption` says what the code fixes: `Run` raises the number of nodes to three, a scenario
proposes from one goroutine, and its hook loses messages. `MaxTerm` bounds the terms that `Bump` and `Inject` compute, too.

### RunQueue, GoSched, RunqRing, MCRunQueue, RunQueueProofs

The local queue, `runnext` and the global queue of the one P, with the patched functions
`RunqPut`, `RunqPutSlow`, `RunqPutBatch` and the parts of the runtime that use them
(`findRunnable` with its look at the global queue every 61 ticks, `goready`, `gopark`,
`Gosched`, `goyield`, the list of the network poller), marked external in the map. A
shuffle may give any permutation; this covers every seed and the fuzz shuffle. `mode` says how
the process was built and started: a race build shuffles too, but keeps `runnext`, which
deterministic mode does not; a plain build keeps the order of a batch. One P is what the mode starts
with; for the other two builds the model is of a process on one P.

`RunqRing` is the array under the local queue: `pp.runq` with the counters `runqhead` and
`runqtail`, which wrap, and the loops of swaps of `runqputslow` and `runqputbatch`, run once under
`schedulerRandomized` and once more when the mode is fuzzed. A swap draws any index that its bound
allows. `RingIsQueue` asks, in each state in which nobody runs and for each place of the queue in its
array, whether these loops make of the queue just what `RunQueue` says: any order of the first half and the
newcomer, or of the batch, and nothing else. A swap that is one too far, or an offset from the wrong
counter, reaches a slot outside the batch and shows.

`GoSched` is what a program relies on: each goroutine waits, is runnable or runs, one at a
time, and the P does not idle while there is work. `ImplementsGoSched` is the refinement,
its liveness part included.

### Detsched, MCDetsched, DetschedProofs

The start of a process, statement by statement where the patch matters (`BootOrder`), and
the decisions made afterwards. Reproducibility relates two executions, so there are two
processes side by side that share nothing. The mixing function is uninterpreted: a value
drawn in deterministic mode is the triple of seed, site and number of the draw, so two
values are equal exactly when the code computes the same function of the same inputs.
Outside the mode a draw is any of two values. What a running program may do is in `Next`: change the
environment, start a trace or a profile, draw, and call `runtime.GOMAXPROCS`, which the patch
leaves alone (`src/tests/cmd/seedhash/main.go:20` calls it in the mode); `asked` is what it
asked for last, and `UpdateMaxProcs` the runtime's own adaptation to the machine, which the mode switches off. A setting is
a number from `-IntLimit` to `IntLimit - 1` (`IntLimit` is 2^31 in the runtime) and a seed a number below
`WordSize` (2^64); a negative setting wraps round, as in `uint64(debug.detschedseed)`.

## 3. Runs

All with two workers, in seconds to about two minutes.

| Run | Instance | Distinct states | Shows |
|---|---|---|---|
| `elections` | 3 nodes from the start, 2 terms, losses of request and answer | 783,081 | types; votes add up; a second winner of a term needs a cleared vote; a named leader has won; some node can always go on; terms never drop; all of it implements `Elections` |
| `replication` | 3 nodes; an old leader and its successor, two callers each, logs of 2; or two rounds at once, one caller each, logs of 1 | 930,850 | shape and matching of logs, backing of commit indexes also behind a deposed leader, append-only leaders that keep what they proposed also beside a late leader of their term |
| `loops_end` | 2 nodes, every fault, one caller, fairness | 19,050 | every loop ends; an outdated heartbeat loop stops; abandoned requests neither lower a term nor name a leader that is none |
| `transport` | 3 nodes, 3 loops, 3 dials, both hooks, preemptive and not | 178,077 | no dial meets an unknown address; no connection after `Close`; no server keeps the P; every goroutine ends |
| `scenarios` | 3 nodes, all eight scenarios, no bug, 2 election rounds | about 1.2 million | what the verdicts and the oracle's findings are worth |
| `run_queue` | 6 goroutines, local queue of 4, deterministic, race and plain mode | 179,478 | no goroutine lost or doubled; the queues implement `GoSched`; the swaps in the array are shuffles of the queue; none starves |
| `detsched` | 2 processes, 9 settings, a 3-bit seed in a 5-bit word, 2 draws each, one or two Ps asked for | 1,064,808 | replay, independence of order, seeds apart, forced settings, quiet process |

Five runs show where the code departs from what the repository says of it:

| Run | Statement | What happens |
|---|---|---|
| `two_leaders` | "single leader per term" (`demos/raftsim/README.md:70`) | a follower votes for A in term 1, A's heartbeat of term 1 clears `votedFor` (`node.go:495`), the follower votes for B in term 1 |
| `commit_diverges` | "committed-entry consistency" (`README.md:70`) | a heartbeat's `LeaderCommit` commits a conflicting entry of the follower (`node.go:586`) |
| `commit_beyond_log` | "valid/contiguous logs, committed-entry consistency" (`README.md:70`); the oracle reads `a.Log[idx-1]` up to the commit index | `Propose` ends after the log was cut (`node.go:274`) |
| `still_present` | "error: fixed sweep still encountered bug issue" (`scripts/run-raft-patch-series-ci.sh:423`) | in fixed mode a scenario that sees its bug reports a code of its own, `..._STILL_PRESENT`; the sweep looks for the other one, so the stage passes with its bug in the code |
| `higher_term` | "Force leaders/candidates to step down when observing higher-term responses" (`patch-series/stages.tsv:9`) | the response's term is not above the node's current one any more (`node.go:659`), so it is ignored, and the round goes on to elect the node (`node.go:345`) |

**Start states.** `replication` starts from two states, both reachable from `Init`: TLC finds them. In
`InitRivals` two rounds have made n1 leader of term 1 and n2 of term 2, and with `MaxTerm = 2` nobody is
elected any more; the question is what two leaders do to the logs. In `InitContested` two rounds are under way:
n2 has all votes for term 1 and has not counted them, and n1 has entered term 2. From
there n2 may lead term 1, propose, lose its role to n1 or n3 and then count acknowledgements, and its commit
index moves though it leads no more; or n2 hears of term 2 before its round ends and its votes for
term 1 make it leader of term 2, beside the winner of that term. `LeaderKeepsProposals` holds in this second
case because a leader that accepts the other's append of its term gives up its role first
(`node.go:494`). The scenarios other than `split_vote` start one round after `Init`
(`MCScenarios!InitLed`); the elections in front of all of these are those of the run `elections`.

**Bounds and why they are enough.** `MaxTerm = 2` is the smallest with an old and a new
leader, and three nodes the smallest with two majorities that share one node. `MaxLog = 2` and two
callers give the shortest conflict, gap and truncation, and two proposals of one leader in
either order. What follows `InitContested` is about one entry:
there logs have one, n1 and n2 have one caller and n3 none; what follows `InitRivals` proposes one payload
(`MCRaft!Narrow`). `MaxLate = 1` lets one abandoned request meet every state; more only
multiplies the states. In `RunQueue`, `RunqSize = 4` (256 in the runtime) is the smallest
array that splits in halves and takes a batch of more than one, six goroutines overflow it,
and `GlobalEvery = 2` (61) reaches both branches of `findRunnable` in turn. `Word = 8` (2^32) has
the counters wrap half as often as the slots; the order in a batch plays no part, so one of each length is put.
In `Detsched`
two draws of three sites are the shortest pair of different orders.
In `BufNet` three dials are one per loop, so that every dial can be on its way when `Close`
begins. In `Scenarios`, `MaxElections = 2` lets a rival come up during a scenario's calls; `MaxTerm = 6`
leaves room for `BumpNodeTerm` three terms up. With a third round, three scenarios meet the
second leader of `two_leaders`, which `NoFalseAlarm` allows for, and `higher_term_step_down` can
find that its proposal was refused.
`SYMMETRY` is used where properties are safety properties and do not name anybody: the
rotations that map the cyclic peer order to itself, permutations of payloads, the swap of two processes. `ImplementsElections`, `TermMonotone` and `LeaderAppendOnly` speak of single steps and are symmetric too; no run with liveness has symmetry. The peer order is cyclic in the runs; the proofs hold for every order.

**Deadlock.** The Raft configurations say `CHECK_DEADLOCK FALSE`: with `MaxTerm` reached and
all loops over, a bounded cluster stops. A real stop of the protocol is the subject of
`NotAllStuck` and `LoopsEnd`. `transport` says so too: when everything has ended nothing is left
to do, and `EverythingEnds` shows that this is how every run stops. The other runs check
deadlock; `Stopped` is the end of a scenario.

**Fairness.** Liveness runs use `FairSpec`. In `RaftNode` it is weak fairness of each
goroutine that is inside a loop: every RPC ends by its deadline, a ticker ticks, and the Go
scheduler runs a runnable goroutine. Nothing makes a timer fire first or a message arrive.
In `BufNet` it is weak fairness of each goroutine that can go on: a scenario returns by its
timeout, a connection has a deadline, a `select` sees its context end.
In `RunQueue` the P looks for work, and a running goroutine blocks or yields at last, an
assumption about the program: nothing preempts it in deterministic mode.
`NoStarvation` has an antecedent, "the local queue has room from some point on". TLC
refutes the statement without it: `runqputslow` moves the oldest half of a full queue to the
global queue, and can do so to the same goroutine each time it comes back. The unpatched
runtime does this too. With the antecedent it is still what the guard of `runqput` is for: the
mutant that tests `haveSysmon` in place of `sysmonEnabled()` starves a goroutine.

**Leader with no heartbeats.** `NotAllStuck` is about an effect of the same lines as
`higher_term`: a node that becomes leader after its term has moved on has a heartbeat loop that
stops at its first tick, and as a leader it starts no election. TLC shows that one node in
this state is possible and all nodes are not, unless a test raises terms by hand.

**What a verdict is worth.** In a tree without bugs three scenarios can still report theirs
(`FixedVerdicts`), because they ignore that `Propose` failed: an empty log is beaten by any vote
request, and a leader that sent nothing heard of no higher term. The oracle compares snapshots of different moments, with events that
are older still, and it raises no alarm that the cluster did not earn (`NoFalseAlarm`). Both are proved.

**Who spins.** Between `Close` and `cancel` every `Accept` fails at once and `serveLoop` retries;
on a cooperative scheduler a goroutine in that loop would never give the P back.
`NoSpinningServer` shows that it cannot get the P: the deferred calls do not block in between.
The mutant, a `Close` that waits for the handlers, hangs.

**Mutants.** Each property of a passing run is violated by a change of one definition, kept
next to it as `Mut...` (a dropped comparison, an off-by-one, `return` for `continue`, a hook one line
too late).

## 4. Proofs

Each proof holds for every value of the constants that the `ASSUME`s of its module allow:
every finite set of nodes, peer order, set of injected bugs and faults, set of goroutines, size of the
local queue, set of settings, range of a setting and size of a word, bound. TLC evaluates the assumptions in the runs.

**`RaftProofs`** (elections):

* `TypeCorrect`: `Spec => []TypeOK`. `TasksOK` is the part of the invariant that is not
  a plain type: idle goroutines carry nothing, requests and answers name their sender.
* `TermNeverDrops`: `Spec => TermMonotone`. A handler compares terms in the same critical
  section in which it assigns one. The bug `AcceptStaleLeader` does not break this, as the
  assignment has a comparison of its own.
* `VotesAlwaysAccounted`: `Spec => []VotesAccounted`. This is the inductive invariant, of five
  named parts: a grant is of a term its voter has reached; a voter's grant of its
  current term is in `votedFor` or was cleared; two grants of a voter in a term need a
  clearing; a round has counted only votes that were granted to it; a winner of a term was granted
  a majority in it. The first three are about voters and preserved by the handlers
  (`HandleVotes`); the fourth ties goroutines to voters and is why answers in flight are part of
  the state; the fifth follows when a round ends.
* `OneWinner`: `Spec => []OneWinnerUnlessCleared`. Two majorities share a voter (`Majorities`),
  which granted twice in that term, so its vote was cleared. The result says that the line found by
  the run `two_leaders` is the only way to two leaders in a term: without it the election
  is Raft's.

**`ElectionProofs`**:

* `Refinement`: `Spec => ImplementsElections`. A step that grants a vote is `Vote` of the abstract
  module, the end of a won round is `Win`, a heartbeat that clears `votedFor` is `Forget`, and the
  rest stutters. `VotesAccounted` gives the quorum, `VoteRemembered` the voter's promise.
* `NamesWinners`: `Spec => []LeaderHint`, from `HintInv`: a leader has won, a round or heartbeat
  is of a term its node has reached, and every append on its way is announced by a winner.
* `SomebodyGoesOn`: `Spec => []NotAllStuck`. Take the highest term of any node. Some node stood for
  election in it (`SoughtInv`: a term above 0 that a node has, or that a request or answer carries, was
  sought), and is in it still, as terms do not drop and none is higher. A node that leads in the term it
  sought last has that term's heartbeat loop (`StandInv`), so this one is not stuck. That a highest term exists is
  taken from the well-foundedness of `<` on the naturals (`LeastNumber`, `HighestTerm`). If a test raises terms
  (`BumpTerms`) a term need not have been sought; `NotAllStuck` excludes it.

**`LogProofs`**:

* `LogsValid`: without the bug `UnsafeLogTruncation`, `Spec => []LogShape`. The invariant also says of each
  append that is on its way that its entry continues its `prev` (`RequestsSound`).
* `LeaderOnlyAppends`: without `AcceptStaleLeader`, `Spec => LeaderAppendOnly`.
* `CommitsBacked`: without `UnsafeLogTruncation` and `CommitOnSingleAck`, `Spec => []CommitBacked`.
  The acknowledgements a caller of `Propose` has counted are of nodes that held the entry, and
  `LeaderCommit` in a request is covered by an entry that a majority held.

**`MatchingProofs`**:

* `ProposalsKept`: without `AcceptStaleLeader`, `Spec => []LeaderKeepsProposals`. The difficulty is that a round
  may end after its node has moved to a later term and make it leader there. `ProposalInv` says that
  while a round runs its node does not lead and has not proposed in its current term; so a term in which
  a node has proposed is one it has led without a break, and its log only grew. Hence also: one node gives an
  index to one entry in a term.
* `LogsMatch`: without `UnsafeLogTruncation` and `AcceptStaleLeader`, `Spec => []LogMatching`. `MatchInv` says three
  things, for states in which no two nodes proposed in one term: two logs agree up to a common entry
  (`Agree`); a log that holds the entry of a request on its way has before it what the request says
  (`Follows`); and two requests with one entry name the same previous entry (`SamePrev`). The last two stand in for a record
  of every leader's log. A request extends a log by one entry whose previous one was compared
  (`Extended`), so the new log agrees with all the others (`ExtendedAgrees`). A
  new proposal is not in any log yet, because an index is given once in a term.

  The bugs that are excluded are those whose purpose is to break the statement; the runs take no bug.

**`BufNetProofs`**: `TypeCorrect`, `EveryAddressKnown` (`AddressesKnown`), `ClosedForGood`
(`NoLateConnection`), `ServersGiveWay` (`NoSpinningServer`). The invariant adds to the types
what holds in each phase of the scenario's goroutine (`Phases`: which entries and listeners exist, who
has started, whether the context is done) and that a dial that is on its way has a number (`Numbered`). That a server
never spins rests on `DeferredCallsKeepP`: a goroutine that is not blocked keeps the P.

**`RunQueueProofs`**: `TypeCorrect`, `AlwaysAccounted` (`Accounted`) and `StepsOfGoSched`, the safety half of
`ImplementsGoSched`. A queue *lists* a set if it holds each member once (`Lists`); the first
part of the module proves what appending, cutting, concatenating and shuffling do to
such a queue, the second what each patched function adds to the queues (`PutSlow`, `PutTail`,
`Put`, `PutBatch`), the third what each step moves (`Takes`, `Polls`, `Wakes`,
`Stops`). Conservation and the refinement are both read off the third.

**`DetschedProofs`**: `TypeCorrect`, `SeedsNeverMeet` (`SeedsApart`), `SameSeedSameOutcome` (`Replay`), `OrderDoesNotMatter` (`OrderFree`), `StaysSync`
(`TimerChansSync`), `ModeAsRequested` (`RequestedIsEnabled`), `NothingBeside` (`Quiet`). The invariant is
about one process at a time (`NothingBeside` says that it has the one P of start-up until it calls `runtime.GOMAXPROCS`, and then what it asked for): what start-up has fixed by each stage (`Booted`), that the roots are those of the
seed (`Rooted`), and that decision `k` is the function `Values` of the seed, its site and the number of
decisions with a number before it (`Decided`). The number is itself a function of the sites, which is why
fuzzing replays too. Seeds stay apart because an enabled process's seed is `SeedOf` of its setting (`Seeded`), and a word
has room for twice `IntLimit` numbers: this is the only fact about 2^31 and 2^64 that is used, so these two are constants. What relates two processes follows, since they are equal in all that
these functions depend on.

**`ScenarioProofs`** (any of the eight scenarios, at least three nodes, any peer order and number of election rounds):

* `SplitVoteForGood`: `ScenarioSpec => []SplitVoteStays`, with whatever bugs. `SplitInv` says that a round has
  no vote but its own node's and no answer, so nobody leads, so the scenario never gets past its election
  but by giving up.
* `FixedForGood`: `ScenarioSpec => []FixedVerdicts`.
* `OracleFair`: `ScenarioSpec => []NoFalseAlarm`.

The last two are about a cluster without bugs, and rest on one invariant, `NoBugs`. Why the oracle may compare
snapshots of different moments: only the leader that the scenario found is ever asked to propose
(`ProposeInv`), so every log is a beginning of that node's (`LogsInv`), whoever else comes to lead. Logs
change at the scenario's "propose" call only and then stay (`LogsGrow`), and a commit index that a majority's
logs have reached stays backed (`CommitInv`); hence what a snapshot says is still so when it is used (`SoundInv`), and so is what
earlier calls returned (`NoteInv`). In `LogsGrow` the injected request matters: `ForgedHarmless` shows that the
gap it leaves is refused. What is left is the "multi_leader" finding, which `VotesAccounted` explains.
`higher_term_step_down` needs more (`HigherInv`): from the time the leader has proposed, each loop it is in has
the bumped node still to ask or its answer still to read (`Told`), or the leader has reached the bumped term;
so it does not lead in an older one once the loop is over. A proposal that was refused starts no such loop: that is the exception
in `FixedVerdicts`. Where the scenario is in its script is kept by `PlanInv`, from which `CallOrder` derives what is past at each call.

Only model-checked: the swaps in the ring (`RingIsQueue`), whose loops are folds over the array,
and liveness under fairness (`LoopsEnd`, `OutdatedBeatEnds`, `NoStarvation`, `EverythingEnds`, the work-conserving half of `ImplementsGoSched`), which is beyond the prover.

## 5. Not modelled

Timers and their jitter, beyond firing at any moment; the text of events, reasons and evidence, and the
event hash; flags and output of `raftsim`; `selectgo`'s permutation and map iteration beyond
the value drawn; GC, stack shrinking and memory profiling beyond being set once (`forced`);
system calls and the network poller beyond their effect on the queue; the mixing function; a second call of
`BufNet.Close`; more than one P, with the stealing between their queues, for a program that asks for it. Applying and building a patch series, CI and the test programs are scripts
and printing around what is modelled and have no state of their own.

## 6. Plan

What is left, most valuable first:

1. **Bugs one by one**: runs of `Scenarios` with each flag of `BugConfig`, which a scenario has to find
   in some run of the cluster.
2. **SelectOrder**: the permutation that `selectgo` builds from `schedulerSelectPermuteIndex`, as a
   recursive function, against the set of all permutations.
