------------------------------ MODULE Scenarios ------------------------------
(***************************************************************************)
(* The eight scenarios of demos/raftsim (internal/scenarios/scenarios.go), *)
(* the calls they make of a running cluster (internal/raft/cluster.go), and*)
(* the oracle.                                                             *)
(*                                                                         *)
(* The goroutine of a scenario runs beside the nodes. Its plan is the      *)
(* sequence of calls it has still to make; a call that visits the nodes    *)
(* (LeaderID, MaxTerm, NodeSnapshots) locks one node after another, in the *)
(* order of a Go map, and is one action per node. A sleep is not a step:   *)
(* any number of steps of the nodes may pass between two calls.            *)
(***************************************************************************)
EXTENDS RaftNode

CONSTANTS
    Names,        \* the scenarios to run
    IDs,          \* nodeIDs: n1, n2, ... in this order
    CfgRounds,    \* RunConfig.Rounds, at least 1
    ExpectBug,    \* RunConfig.ExpectBug
    MaxElections  \* bound: election rounds that start during a run

ASSUME IDsAssumption == IDs \in Seq(Node) /\ {IDs[i] : i \in DOMAIN IDs} = Node
ASSUME ConfigAssumption == CfgRounds \in Nat \ {0} /\ ExpectBug \in BOOLEAN /\ MaxElections \in Nat

VARIABLES
    scenario,
    plan,       \* the calls the scenario has still to make
    tries,      \* how often it has called Propose
    seen,       \* what the nodes visited by the current call said
    leader,     \* leaderID, the node that WaitForSingleLeader returned
    note,       \* what earlier calls returned
    bugEvents,  \* "bug_..." lines of the cluster's event log
    result      \* what the scenario returns

driver == <<scenario, plan, tries, seen, leader, note, result>>
allVars == <<vars, driver, bugEvents>>

\* The calls of each scenario. The calls between "elect" and "events" depend on
\* its leader and on what earlier calls returned; a sleep is any number of steps
\* of the cluster.
RunSplitVote == <<"elect", "events", "oracle">>
RunStaleLeader == <<"elect", "terms", "bump", "events", "oracle">>
RunReorderCommit == <<"elect", "propose", "snapshots", "events", "oracle">>
RunLogTruncation ==
    <<"elect", "propose", "leader", "follower", "inject", "after", "events", "oracle">>
RunVoteNoLogCheck == <<"elect", "propose", "terms", "inject", "events", "oracle">>
RunVoteComparator ==
    <<"elect", "propose", "follower", "terms", "inject", "events", "oracle">>
RunAppendTimerReset == <<"events", "oracle">>
RunHigherTermStepDown ==
    <<"elect", "terms", "bump", "propose", "leader", "events", "oracle">>

Calls ==
    [split_vote |-> RunSplitVote,
     stale_leader |-> RunStaleLeader,
     reorder_commit |-> RunReorderCommit,
     log_truncation |-> RunLogTruncation,
     vote_no_log_check |-> RunVoteNoLogCheck,
     vote_term_index_comparator |-> RunVoteComparator,
     append_timer_reset |-> RunAppendTimerReset,
     higher_term_step_down |-> RunHigherTermStepDown]

ASSUME NamesAssumption == Names \subseteq DOMAIN Calls
\* Run makes the cluster one of three nodes at least; a scenario drops messages by
\* its hook, bumps whatever term it computes, and proposes from one goroutine.
ASSUME ScenarioAssumption ==
    /\ Cardinality(Node) >= 3 /\ Data # {}
    /\ "lost" \in Faults /\ BumpTerms = Term
    /\ \A c, d \in Caller : c = d

Greater(a, b) == IF a > b THEN a ELSE b

\* How often the scenario calls Propose.
Proposing ==
    CASE scenario = "reorder_commit" -> CfgRounds
      [] scenario = "higher_term_step_down" -> 1
      [] OTHER -> Greater(CfgRounds, 2)

\* The first member that is not the leader, and the first after that (pickVotePair).
FirstBut(S) == IDs[CHOOSE i \in DOMAIN IDs : /\ IDs[i] \notin S
                                            /\ \A j \in DOMAIN IDs : IDs[j] \notin S => i <= j]
Follower == FirstBut({leader})
Candidate == FirstBut({leader, Follower})

Snapshot(n) ==
    [node |-> n, role |-> role[n], term |-> term[n], log |-> log[n], commit |-> commitIndex[n]]
NoSnapshot == [node |-> NoNode, role |-> "follower", term |-> 0, log |-> <<>>, commit |-> 0]

Begin ==
    /\ scenario \in Names
    /\ plan = Calls[scenario]
    /\ tries = 0 /\ seen = {} /\ leader = NoNode
    /\ note = [max |-> 0, leader |-> NoSnapshot, follower |-> NoSnapshot,
               after |-> NoSnapshot, reply |-> NoReply]
    /\ bugEvents = {}
    /\ result = [error |-> FALSE, observed |-> FALSE, issue |-> "none", won |-> {}, oracle |-> {}]

ScenarioInit == Init /\ Begin

-----------------------------------------------------------------------------
\* The cluster meanwhile.

\* Mutant: split_vote drops the heartbeats in place of the vote requests.
MutHook(th) == task[th].req.type = "append" /\ Target(th) # IDs[2]

\* The scenario's MessageFaultHook drops the message.
Hook(th) ==
    \/ scenario = "split_vote" /\ task[th].req.type = "vote"
    \/ /\ scenario = "reorder_commit" /\ task[th].req.type = "append"
       /\ Target(th) # IDs[2]

Drop(th) == Sending(th) /\ Hook(th) /\ Lose(th)

\* The events that tell of an injected bug: an append of an older term is
\* accepted, or an append does not reset the election timer.
BugEvents(p, m) ==
    {e \in {"bug_accept_stale", "bug_no_append_timer_reset"} :
        /\ m.type = "append" /\ ~StaleAppend(p, m)
        /\ \/ e = "bug_accept_stale" /\ m.term < term[p]
           \/ e = "bug_no_append_timer_reset" /\ "NoAppendTimerReset" \in Bugs}

Reach(th) ==
    /\ Sending(th) /\ ~Hook(th)
    /\ bugEvents' = bugEvents \union BugEvents(Target(th), task[th].req)
    /\ Deliver(th)

Elections == {g \in grants : g[1] = g[3]}

NodeStep ==
    \/ \E th \in Thread : Reach(th)
    \/ /\ UNCHANGED bugEvents
       /\ \/ \E th \in Thread : Drop(th) \/ Return(th)
          \/ \E n \in Node : EndRound(n) \/ \E t \in Term : Tick(n, t)
          \/ \E n \in Node : StartElection(n) /\ Cardinality(Elections) < MaxElections
          \/ \E n \in Node, c \in Caller : EndPropose(n, c)

-----------------------------------------------------------------------------
\* The calls of the scenario.

At(call) == plan # <<>> /\ Head(plan) = call
Advance == plan' = Tail(plan)
Visited == {s.node : s \in seen}
AllSeen == Visited = Node

\* What a call reads of one node under its mutex.
View(n) ==
    CASE At("elect") -> [node |-> n, leads |-> role[n] = "leader"]
      [] At("terms") -> [node |-> n, term |-> term[n]]
      [] OTHER -> [node |-> n, log |-> log[n], commit |-> commitIndex[n]]

Visit(n) ==
    /\ At("elect") \/ At("terms") \/ At("snapshots") \/ At("oracle")
    /\ n \notin Visited
    /\ seen' = seen \union {View(n)}
    /\ UNCHANGED <<vars, bugEvents, scenario, plan, tries, leader, note, result>>

\* WaitForSingleLeader: LeaderID has found one leader, ...
Leaders == {s.node : s \in {v \in seen : v.leads}}

Elected ==
    /\ At("elect") /\ AllSeen
    /\ Cardinality(Leaders) = 1
    /\ leader' \in Leaders
    /\ seen' = {}
    /\ Advance
    /\ UNCHANGED <<vars, bugEvents, scenario, tries, note, result>>

\* ... or none or several, and asks again at the next tick, ...
PollAgain ==
    /\ At("elect") /\ AllSeen
    /\ Cardinality(Leaders) # 1
    /\ seen' = {}
    /\ UNCHANGED <<vars, bugEvents, scenario, plan, tries, leader, note, result>>

\* ... or the scenario's time is up: an error, except in split_vote.
GiveUp ==
    /\ At("elect") /\ AllSeen
    /\ Cardinality(Leaders) # 1
    /\ seen' = {}
    /\ IF scenario = "split_vote"
       THEN Advance /\ UNCHANGED result
       ELSE plan' = <<>> /\ result' = [result EXCEPT !.error = TRUE]
    /\ UNCHANGED <<vars, bugEvents, scenario, tries, leader, note>>

\* MaxTerm returns.
NoteTerms ==
    /\ At("terms") /\ AllSeen
    /\ note' = [note EXCEPT !.max = CHOOSE t \in {s.term : s \in seen} :
                                        \A s \in seen : s.term <= t]
    /\ seen' = {}
    /\ Advance
    /\ UNCHANGED <<vars, bugEvents, scenario, tries, leader, result>>

Bump ==
    LET t == note.max + (IF scenario = "higher_term_step_down" THEN 3 ELSE 1)
    IN /\ At("bump")
       /\ t <= MaxTerm
       /\ BumpTerm(Follower, t) \/ (t <= term[Follower] /\ UNCHANGED vars)
       /\ Advance
       /\ UNCHANGED <<bugEvents, scenario, tries, seen, leader, note, result>>

\* Propose, whose errors are ignored: the leader may lead no more.
CallPropose(c, d) ==
    /\ At("propose") /\ tries < Proposing
    /\ ~task[Proposal(leader, c)].active
    /\ tries' = tries + 1
    /\ Propose(leader, c, d) \/ (role[leader] # "leader" /\ UNCHANGED vars)
    /\ UNCHANGED <<bugEvents, scenario, plan, seen, leader, note, result>>

\* Mutant: the scenario does not wait for its last proposal.
MutGoesOn(c) ==
    /\ At("propose") /\ tries = Proposing
    /\ Advance
    /\ UNCHANGED <<vars, bugEvents, scenario, tries, seen, leader, note, result>>

ProposedAll(c) ==
    /\ At("propose") /\ tries = Proposing
    /\ ~task[Proposal(leader, c)].active
    /\ Advance
    /\ UNCHANGED <<vars, bugEvents, scenario, tries, seen, leader, note, result>>

\* NodeSnapshot of the leader, or of the follower before and after the request.
TakeSnapshot ==
    /\ At("leader") \/ At("follower") \/ At("after")
    /\ note' = [note EXCEPT ![Head(plan)] =
                  Snapshot(IF At("leader") THEN leader ELSE Follower)]
    /\ Advance
    /\ UNCHANGED <<vars, bugEvents, scenario, tries, seen, leader, result>>

\* The request the scenario makes up.
Forged ==
    LET len == Len(note.follower.log)
        vote == [NoRequest EXCEPT !.type = "vote", !.from = Candidate, !.term = note.max + 1]
    IN CASE scenario = "vote_no_log_check" -> vote
         [] scenario = "vote_term_index_comparator" ->
              [vote EXCEPT !.lastTerm = Greater(LastTerm(note.follower.log) - 1, 0),
                           !.lastIndex = len + 5]
         [] OTHER ->
              [NoRequest EXCEPT !.type = "append", !.from = leader, !.term = note.leader.term,
                  !.prevIndex = len + 4, !.prevTerm = note.leader.term,
                  !.entries = <<[index |-> len + 5, term |-> note.leader.term,
                                 data |-> CHOOSE d \in Data : TRUE]>>,
                  !.commit = note.follower.commit]

\* InjectMessage: the request reaches the follower, or the time is up.
Inject ==
    /\ At("inject")
    /\ Forged.term <= MaxTerm
    /\ Handle(Follower, Forged)
    /\ note' = [note EXCEPT !.reply = ReplyTo(Follower, Forged)]
    /\ bugEvents' = bugEvents \union BugEvents(Follower, Forged)
    /\ Advance
    /\ UNCHANGED <<task, late, scenario, tries, seen, leader, result>>

InjectFails ==
    /\ At("inject")
    /\ plan' = <<>>
    /\ result' = [result EXCEPT !.error = TRUE]
    /\ UNCHANGED <<vars, bugEvents, scenario, tries, seen, leader, note>>

\* Mutant: a log that ends at the commit index does not count.
MutReplicated(k) == {s \in seen : Len(s.log) > k}

\* reorder_commit: fewer than a majority have a log as long as the highest
\* commit index.
Replicated(k) == {s \in seen : Len(s.log) >= k}
CommitUnbacked ==
    \E s \in seen : /\ \A v \in seen : v.commit <= s.commit
                    /\ s.commit > 0 /\ ~IsMajority(Replicated(s.commit))

\* BugObserved.
Observed ==
    CASE scenario = "split_vote" -> leader = NoNode
      [] scenario = "stale_leader" -> "bug_accept_stale" \in bugEvents
      [] scenario = "reorder_commit" -> CommitUnbacked
      [] scenario = "log_truncation" ->
           note.reply.success /\ Len(note.after.log) > Len(note.follower.log)
      [] scenario = "append_timer_reset" -> "bug_no_append_timer_reset" \in bugEvents
      [] scenario = "higher_term_step_down" ->
           note.leader.role = "leader" /\ note.leader.term < note.max + 3
      [] OTHER -> note.reply.success

\* IssueCode: which of the four codes of the scenario.
Issue ==
    CASE Observed /\ ExpectBug -> "bug"                \* RAFT_COMMIT_WITHOUT_MAJORITY, ...
      [] Observed /\ ~ExpectBug -> "still_present"     \* RAFT_COMMIT_BUG_STILL_PRESENT
      [] ~Observed /\ ExpectBug -> "not_reproduced"    \* RAFT_COMMIT_BUG_NOT_REPRODUCED
      [] OTHER -> "fixed"                              \* RAFT_COMMIT_WITH_MAJORITY_FIXED

\* The $bug_issue that the stage's fixed sweep looks for.
ForbiddenIssue == "bug"

\* The scenario copies the event log and makes up its mind.
Conclude ==
    /\ At("events")
    /\ result' = [result EXCEPT !.observed = Observed, !.issue = Issue, !.won = won]
    /\ seen' = {}
    /\ Advance
    /\ UNCHANGED <<vars, bugEvents, scenario, tries, leader, note>>

SnapshotsTaken ==
    /\ At("snapshots") /\ AllSeen
    /\ Advance
    /\ UNCHANGED <<vars, bugEvents, scenario, tries, seen, leader, note, result>>

-----------------------------------------------------------------------------
\* raftSafetyViolations, on the events copied before and the snapshots in seen.

LogOutOfOrder(l) == \E i \in DOMAIN l : l[i].index # i

\* Two snapshots are compared up to the lesser commit index; the first
\* difference ends the loop, and an index beyond a log panics.
Diverge(s, v, i) == ~SameEntry(s.log[i], v.log[i])
Compared(s, v) == 1..Least(s.commit, v.commit)
InBoth(s, v) == DOMAIN s.log \intersect DOMAIN v.log
Panics(s, v) ==
    /\ ~(Compared(s, v) \subseteq InBoth(s, v))
    /\ \A i \in Compared(s, v) \intersect InBoth(s, v) : ~Diverge(s, v, i)

Violations ==
    {code \in {"multi_leader", "invalid_commit", "non_contiguous", "no_majority",
               "divergence", "panic"} :
        CASE code = "multi_leader" ->
               \E w1, w2 \in result.won : w1[2] = w2[2] /\ w1[1] # w2[1]
          [] code = "invalid_commit" -> \E s \in seen : s.commit > Len(s.log)
          [] code = "non_contiguous" -> \E s \in seen : LogOutOfOrder(s.log)
          [] code = "no_majority" ->
               \E s \in seen : s.commit > 0 /\ ~IsMajority(Replicated(s.commit))
          [] code = "divergence" ->
               \E s, v \in seen : \E i \in Compared(s, v) \intersect InBoth(s, v) :
                    Diverge(s, v, i)
          [] code = "panic" -> \E s, v \in seen : s # v /\ Panics(s, v)}

\* withOracle: the snapshots are newer than the events.
Oracle ==
    /\ At("oracle") /\ AllSeen
    /\ result' = [result EXCEPT !.oracle = Violations]
    /\ seen' = {}
    /\ Advance
    /\ UNCHANGED <<vars, bugEvents, scenario, tries, leader, note>>

-----------------------------------------------------------------------------

Call ==
    \/ \E n \in Node : Visit(n)
    \/ Elected \/ PollAgain \/ GiveUp \/ NoteTerms \/ Bump
    \/ \E c \in Caller : ProposedAll(c) \/ \E d \in Data : CallPropose(c, d)
    \/ TakeSnapshot \/ Inject \/ InjectFails \/ SnapshotsTaken \/ Conclude \/ Oracle

Over == plan = <<>>

\* The scenario has returned: its deferred calls stop the cluster.
Stopped == Over /\ UNCHANGED allVars

ScenarioNext ==
    \/ ~Over /\ NodeStep /\ UNCHANGED driver
    \/ Call
    \/ Stopped

ScenarioSpec == ScenarioInit /\ [][ScenarioNext]_allVars
=============================================================================
