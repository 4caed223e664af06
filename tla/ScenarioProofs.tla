---------------------------- MODULE ScenarioProofs ----------------------------
(***************************************************************************)
(* Proofs about the verdicts of the scenarios and the findings of the      *)
(* oracle, for every cluster of three nodes or more, every order of peers  *)
(* and every number of elections.                                          *)
(***************************************************************************)
EXTENDS ScenarioProps, ElectionProofs

-----------------------------------------------------------------------------
\* The invariants.

CallNames == {"elect", "terms", "bump", "propose", "leader", "follower", "inject", "after",
              "snapshots", "events", "oracle"}

Codes == {"multi_leader", "invalid_commit", "non_contiguous", "no_majority", "divergence", "panic"}
ResultType ==
    [error : BOOLEAN, observed : BOOLEAN,
     issue : {"none", "bug", "still_present", "not_reproduced", "fixed"},
     won : SUBSET (Node \X Term), oracle : SUBSET Codes]

\* The plan is what is left of the scenario's calls.
Script == Calls[scenario]
Made == Len(Script) - Len(plan)
PlanInv ==
    /\ scenario \in Names
    /\ plan \in Seq(CallNames)
    /\ Len(plan) <= Len(Script)
    /\ \A i \in DOMAIN plan : plan[i] = Script[Made + i]
    /\ result \in ResultType
    /\ result.error => plan = <<>>

\* The call is not ahead of the scenario any more.
Past(call) == \A i \in DOMAIN plan : plan[i] # call

SnapshotType ==
    [node : Node \union {NoNode}, role : Role, term : Term, log : Seq(Entry), commit : Nat]

\* The scenario's own variables.
DriverInv ==
    /\ leader \in Node \union {NoNode}
    /\ At("elect") => leader = NoNode
    /\ leader = NoNode /\ plan # <<>> => At("elect") \/ At("events") \/ At("oracle")
    /\ note \in [max : Term, leader : SnapshotType, follower : SnapshotType,
                 after : SnapshotType, reply : Reply]
    /\ result.won \subseteq won
    /\ result.observed => Past("events")
    /\ plan # <<>> => result.oracle = {}

\* Only the leader that the scenario found sends proposals, while it makes them.
ProposeInv ==
    \A n \in Node, c \in Caller :
        task[Proposal(n, c)].active => n = leader /\ At("propose")

\* Every node's log is a part of the leader's, from its start.
Main == IF leader = NoNode THEN <<>> ELSE log[leader]
Extends(k, l) == Len(k) <= Len(l) /\ \A i \in 1..Len(k) : k[i] = l[i]
Carries(m) ==
    LET e == m.entries[1]
    IN /\ m.type = "append" /\ m.prevIndex = e.index - 1
       /\ e.index \in DOMAIN Main /\ Main[e.index] = e
LogsInv ==
    /\ \A n \in Node : Extends(log[n], Main)
    /\ \A i \in DOMAIN Main : Main[i].index = i /\ Main[i].term > 0
    /\ \A th \in Thread : task[th].req.entries # <<>> => th \in Proposals /\ Carries(task[th].req)

\* A node that leads, or runs a round, has left term 0.
TermInv ==
    \A n \in Node : role[n] = "leader" \/ task[Round(n)].active => term[n] > 0

\* A commit index is one of the logs of a majority.
Holders(L, k) == {n \in Node : Len(L[n]) >= k}
Spread(L, k) == k = 0 \/ IsMajority(Holders(L, k))
CommitInv ==
    /\ \A n \in Node : commitIndex[n] <= Len(log[n]) /\ Spread(log, commitIndex[n])
    /\ \A th \in Thread : Spread(log, task[th].req.commit)
    /\ \A th \in Proposals : task[th].active =>
          LET k == task[th].req.entries[1].index
          IN /\ task[th].yes \subseteq Holders(log, k)
             /\ task[th].reply.success => task[th].reply.from \in Holders(log, k)

\* What a call has read of the nodes it has visited, ...
SeenInv ==
    /\ IsFiniteSet(seen)
    /\ \A s \in seen : s.node \in Node
    /\ At("terms") => \A s \in seen : s.term \in Term
    /\ At("events") => IF scenario = "reorder_commit" THEN AllSeen ELSE seen = {}
    /\ seen # {} => At("elect") \/ At("terms") \/ At("snapshots") \/ At("events") \/ At("oracle")

\* ... and that what snapshots say is still so.
Sound(s) == s.log = log[s.node] /\ s.commit \in 0..Len(s.log) /\ Spread(log, s.commit)
SoundInv == At("snapshots") \/ At("events") \/ At("oracle") => \A s \in seen : Sound(s)

\* What earlier calls of the scenario returned is still so.
NoteInv ==
    ~result.error =>
        /\ scenario \in {"log_truncation", "vote_term_index_comparator"} /\ Past("follower") =>
              note.follower.log = log[Follower]
        /\ scenario = "log_truncation" /\ Past("inject") => ~note.reply.success
        /\ /\ scenario \in {"vote_no_log_check", "vote_term_index_comparator"} /\ Past("inject")
           /\ note.reply.success
           => log[Follower] = <<>>

\* higher_term_step_down: once it has proposed, the leader has reached the bumped
\* term, or has yet to ask the bumped node in whatever it is doing.
Bumped == note.max + 3
Told(th) ==
    \/ \E i \in DOMAIN task[th].todo : task[th].todo[i] = Follower
    \/ task[th].reply.term >= Bumped
HigherInv ==
    scenario = "higher_term_step_down" /\ ~result.error =>
        /\ Past("bump") => term[Follower] >= Bumped
        /\ made # {} => Past("bump") /\ leader \in Node
        /\ made # {} => \/ term[leader] >= Bumped
                        \/ /\ task[Round(leader)].active => Told(Round(leader))
                           /\ role[leader] = "leader" =>
                                 \E c \in Caller : /\ task[Proposal(leader, c)].active
                                                   /\ Told(Proposal(leader, c))
        /\ Past("leader") /\ note.leader.role = "leader" /\ note.leader.term < Bumped => made = {}
\* A round runs for a term its node has reached, and not while the node leads.
RoundInv ==
    /\ \A n \in Node : task[Round(n)].active => role[n] # "leader"
    /\ \A th \in Thread : task[th].active => task[th].req.term <= term[th.node]

\* The verdict and the findings of the oracle.
VerdictInv ==
    ~result.error =>
        /\ result.observed =>
              CASE scenario = "split_vote" -> TRUE
                [] scenario \in {"vote_no_log_check", "vote_term_index_comparator"} ->
                     log[Follower] = <<>>
                [] scenario = "higher_term_step_down" -> made = {}
                [] OTHER -> FALSE
        /\ result.oracle \subseteq {"multi_leader"}
        /\ "multi_leader" \in result.oracle =>
              \E w1, w2 \in result.won : w1[2] = w2[2] /\ w1[1] # w2[1]

\* split_vote, with whatever bugs: the hook lets no vote request through.
SplitInv ==
    scenario = "split_vote" =>
        /\ leader = NoNode /\ won = {}
        /\ \A n \in Node : role[n] # "leader"
        /\ \A th \in Thread : task[th].active => th \in Rounds
        /\ \A n \in Node : LET k == task[Round(n)] IN
              /\ k.active => k.req.type = "vote"
              /\ k.yes \subseteq {n} /\ k.reply = NoReply
        /\ At("elect") => \A s \in seen : ~s.leads
        /\ Past("events") /\ ~result.error => result.observed

-----------------------------------------------------------------------------
\* The calls of a scenario, in their order.

\* The scripts, call by call.
LEMMA Scripts ==
    ASSUME scenario \in Names
    PROVE  /\ Script \in Seq(CallNames)
           /\ scenario = "split_vote" =>
                 Script = <<"elect", "events", "oracle">>
           /\ scenario = "stale_leader" =>
                 Script = <<"elect", "terms", "bump", "events", "oracle">>
           /\ scenario = "reorder_commit" =>
                 Script = <<"elect", "propose", "snapshots", "events", "oracle">>
           /\ scenario = "log_truncation" =>
                 Script = <<"elect", "propose", "leader", "follower", "inject", "after", "events", "oracle">>
           /\ scenario = "vote_no_log_check" =>
                 Script = <<"elect", "propose", "terms", "inject", "events", "oracle">>
           /\ scenario = "vote_term_index_comparator" =>
                 Script = <<"elect", "propose", "follower", "terms", "inject", "events", "oracle">>
           /\ scenario = "append_timer_reset" =>
                 Script = <<"events", "oracle">>
           /\ scenario = "higher_term_step_down" =>
                 Script = <<"elect", "terms", "bump", "propose", "leader", "events", "oracle">>
           /\ scenario \in {"split_vote", "stale_leader", "reorder_commit", "log_truncation",
                            "vote_no_log_check", "vote_term_index_comparator",
                            "append_timer_reset", "higher_term_step_down"}
<1>1. scenario \in {"split_vote", "stale_leader", "reorder_commit", "log_truncation",
                    "vote_no_log_check", "vote_term_index_comparator",
                    "append_timer_reset", "higher_term_step_down"}
  <2>1. DOMAIN Calls = {"split_vote", "stale_leader", "reorder_commit", "log_truncation",
                        "vote_no_log_check", "vote_term_index_comparator",
                        "append_timer_reset", "higher_term_step_down"}
    BY DEF Calls
  <2>2. scenario \in DOMAIN Calls
    BY NamesAssumption
  <2> HIDE DEF Calls
  <2> QED
    BY <2>1, <2>2
<1>2. /\ RunSplitVote \in Seq(CallNames) /\ RunStaleLeader \in Seq(CallNames)
      /\ RunReorderCommit \in Seq(CallNames) /\ RunLogTruncation \in Seq(CallNames)
      /\ RunVoteNoLogCheck \in Seq(CallNames) /\ RunVoteComparator \in Seq(CallNames)
      /\ RunAppendTimerReset \in Seq(CallNames) /\ RunHigherTermStepDown \in Seq(CallNames)
  <2>1. RunSplitVote \in Seq(CallNames)
    BY DEF RunSplitVote, CallNames
  <2>2. RunStaleLeader \in Seq(CallNames)
    BY DEF RunStaleLeader, CallNames
  <2>3. RunReorderCommit \in Seq(CallNames)
    BY DEF RunReorderCommit, CallNames
  <2>4. RunLogTruncation \in Seq(CallNames)
    BY DEF RunLogTruncation, CallNames
  <2>5. RunVoteNoLogCheck \in Seq(CallNames)
    BY DEF RunVoteNoLogCheck, CallNames
  <2>6. RunVoteComparator \in Seq(CallNames)
    BY DEF RunVoteComparator, CallNames
  <2>7. RunAppendTimerReset \in Seq(CallNames)
    BY DEF RunAppendTimerReset, CallNames
  <2>8. RunHigherTermStepDown \in Seq(CallNames)
    BY DEF RunHigherTermStepDown, CallNames
  <2> QED
    BY <2>1, <2>2, <2>3, <2>4, <2>5, <2>6, <2>7, <2>8
<1>3. /\ scenario = "split_vote" => Script = RunSplitVote
      /\ scenario = "stale_leader" => Script = RunStaleLeader
      /\ scenario = "reorder_commit" => Script = RunReorderCommit
      /\ scenario = "log_truncation" => Script = RunLogTruncation
      /\ scenario = "vote_no_log_check" => Script = RunVoteNoLogCheck
      /\ scenario = "vote_term_index_comparator" => Script = RunVoteComparator
      /\ scenario = "append_timer_reset" => Script = RunAppendTimerReset
      /\ scenario = "higher_term_step_down" => Script = RunHigherTermStepDown
  BY DEF Script, Calls
<1>4. Script \in Seq(CallNames)
  BY <1>1, <1>2, <1>3
<1> QED
  BY <1>1, <1>3, <1>4 DEF RunSplitVote, RunStaleLeader, RunReorderCommit, RunLogTruncation,
         RunVoteNoLogCheck, RunVoteComparator, RunAppendTimerReset, RunHigherTermStepDown

\* Where the scenario is in its script.
LEMMA Positions ==
    ASSUME PlanInv
    PROVE  /\ Made \in 0..Len(Script) /\ Len(plan) = Len(Script) - Made
           /\ plan \in Seq(CallNames) /\ Script \in Seq(CallNames)
           /\ \A call : At(call) <=> Made < Len(Script) /\ Script[Made + 1] = call
           /\ \A call : Past(call) <=> \A i \in 1..Len(Script) : i > Made => Script[i] # call
           /\ Len(plan) > 1 => plan[2] = Script[Made + 2]
<1>1. /\ Script \in Seq(CallNames) /\ plan \in Seq(CallNames)
      /\ Len(plan) <= Len(Script) /\ Made = Len(Script) - Len(plan)
      /\ \A i \in 1..Len(plan) : plan[i] = Script[Made + i]
  BY Scripts DEF PlanInv, Made
<1> HIDE DEF Script, Made
<1>2. Len(plan) \in Nat /\ Len(Script) \in Nat /\ DOMAIN plan = 1..Len(plan)
  BY <1>1
<1>3. \A call : At(call) <=> Made < Len(Script) /\ Script[Made + 1] = call
  BY <1>1, <1>2 DEF At
<1>4. ASSUME NEW call, Past(call), NEW i \in 1..Len(Script), i > Made PROVE Script[i] # call
  <2>1. i - Made \in 1..Len(plan) /\ Made + (i - Made) = i
    BY <1>1, <1>2, <1>4
  <2>2. plan[i - Made] = Script[i]
    BY <1>1, <2>1
  <2> QED
    BY <1>2, <1>4, <2>1, <2>2 DEF Past
<1>5. ASSUME NEW call, \A i \in 1..Len(Script) : i > Made => Script[i] # call PROVE Past(call)
  <2>1. ASSUME NEW i \in 1..Len(plan) PROVE plan[i] # call
    <3>1. Made + i \in 1..Len(Script) /\ Made + i > Made
      BY <1>1, <1>2
    <3> QED
      BY <1>1, <1>5, <3>1
  <2> QED
    BY <1>2, <2>1 DEF Past
<1>6. Len(plan) > 1 => plan[2] = Script[Made + 2]
  BY <1>1, <1>2
<1> QED
  BY <1>1, <1>2, <1>3, <1>4, <1>5, <1>6

\* What is past when a call is made, and what is not.
PastWhen ==
    /\ At("elect") => /\ scenario # "append_timer_reset" /\ ~Past("events")
                      /\ scenario \in {"log_truncation", "vote_term_index_comparator"}
                            => ~Past("follower")
                      /\ scenario \in {"log_truncation", "vote_no_log_check",
                                       "vote_term_index_comparator"} => ~Past("inject")
                      /\ scenario = "higher_term_step_down" => ~Past("bump") /\ ~Past("leader")
    /\ At("propose") => /\ ~Past("events")
                        /\ scenario \in {"log_truncation", "vote_term_index_comparator"}
                              => ~Past("follower")
                        /\ scenario \in {"log_truncation", "vote_no_log_check",
                                         "vote_term_index_comparator"} => ~Past("inject")
                        /\ scenario = "higher_term_step_down" => Past("bump") /\ ~Past("leader")
    /\ At("terms") /\ scenario = "higher_term_step_down" => ~Past("bump") /\ ~Past("leader")
    /\ At("bump") => ~Past("events")
    /\ At("bump") /\ scenario = "higher_term_step_down" => ~Past("leader") /\ ~Past("propose")
    /\ At("follower") => ~Past("inject")
    /\ At("inject") => /\ scenario \in {"log_truncation", "vote_no_log_check",
                                       "vote_term_index_comparator"}
                       /\ scenario \in {"log_truncation", "vote_term_index_comparator"}
                            => Past("follower")
    /\ At("events") => Past("inject") /\ Past("leader") /\ Past("bump")
    /\ Past("events") /\ plan # <<>> => At("oracle")

\* What follows a call.
FollowedBy ==
    /\ At("elect") /\ scenario = "split_vote" => Len(plan) = 3 /\ plan[2] = "events"
    /\ At("snapshots") => /\ scenario = "reorder_commit"
                          /\ Len(plan) = 3 /\ plan[2] = "events"
    /\ At("events") => Len(plan) = 2 /\ plan[2] = "oracle"
    /\ At("oracle") => Len(plan) = 1
    /\ Len(plan) > 1 =>
          /\ plan[2] # "elect"
          /\ plan[2] = "events" /\ scenario = "reorder_commit" => At("snapshots")
          /\ plan[2] = "oracle" => At("events")

\* The calls of every scenario are in that order.
LEMMA CallOrder == ASSUME PlanInv PROVE PastWhen /\ FollowedBy
<1>1. /\ Made \in 0..Len(Script) /\ Len(plan) = Len(Script) - Made
      /\ \A call : At(call) <=> Made < Len(Script) /\ Script[Made + 1] = call
      /\ Len(plan) > 1 => plan[2] = Script[Made + 2]
  BY Positions
<1>2. CASE scenario = "split_vote"
  <2>1. /\ Len(Script) = 3
        /\ Script[1] = "elect" /\ Script[2] = "events" /\ Script[3] = "oracle"
    BY <1>2, Scripts DEF PlanInv
  <2>2. Made \in {0, 1, 2, 3}
    BY <1>1, <2>1
  <2>3. PastWhen
    BY Positions, <1>2, <2>1 DEF PastWhen
  <2>4. FollowedBy
    BY <1>1, <1>2, <2>1, <2>2 DEF FollowedBy
  <2> QED
    BY <2>3, <2>4
<1>3. CASE scenario = "stale_leader"
  <2>1. /\ Len(Script) = 5
        /\ Script[1] = "elect" /\ Script[2] = "terms" /\ Script[3] = "bump"
        /\ Script[4] = "events" /\ Script[5] = "oracle"
    BY <1>3, Scripts DEF PlanInv
  <2>2. Made \in {0, 1, 2, 3, 4, 5}
    BY <1>1, <2>1
  <2>3. PastWhen
    BY Positions, <1>3, <2>1 DEF PastWhen
  <2>4. FollowedBy
    BY <1>1, <1>3, <2>1, <2>2 DEF FollowedBy
  <2> QED
    BY <2>3, <2>4
<1>4. CASE scenario = "reorder_commit"
  <2>1. /\ Len(Script) = 5
        /\ Script[1] = "elect" /\ Script[2] = "propose" /\ Script[3] = "snapshots"
        /\ Script[4] = "events" /\ Script[5] = "oracle"
    BY <1>4, Scripts DEF PlanInv
  <2>2. Made \in {0, 1, 2, 3, 4, 5}
    BY <1>1, <2>1
  <2>3. PastWhen
    BY Positions, <1>4, <2>1 DEF PastWhen
  <2>4. FollowedBy
    BY <1>1, <1>4, <2>1, <2>2 DEF FollowedBy
  <2> QED
    BY <2>3, <2>4
<1>5. CASE scenario = "log_truncation"
  <2>1. /\ Len(Script) = 8
        /\ Script[1] = "elect" /\ Script[2] = "propose" /\ Script[3] = "leader"
        /\ Script[4] = "follower" /\ Script[5] = "inject" /\ Script[6] = "after"
        /\ Script[7] = "events" /\ Script[8] = "oracle"
    BY <1>5, Scripts DEF PlanInv
  <2>2. Made \in {0, 1, 2, 3, 4, 5, 6, 7, 8}
    BY <1>1, <2>1
  <2>3. PastWhen
    BY Positions, <1>5, <2>1 DEF PastWhen
  <2>4. FollowedBy
    BY <1>1, <1>5, <2>1, <2>2 DEF FollowedBy
  <2> QED
    BY <2>3, <2>4
<1>6. CASE scenario = "vote_no_log_check"
  <2>1. /\ Len(Script) = 6
        /\ Script[1] = "elect" /\ Script[2] = "propose" /\ Script[3] = "terms"
        /\ Script[4] = "inject" /\ Script[5] = "events" /\ Script[6] = "oracle"
    BY <1>6, Scripts DEF PlanInv
  <2>2. Made \in {0, 1, 2, 3, 4, 5, 6}
    BY <1>1, <2>1
  <2>3. PastWhen
    BY Positions, <1>6, <2>1 DEF PastWhen
  <2>4. FollowedBy
    BY <1>1, <1>6, <2>1, <2>2 DEF FollowedBy
  <2> QED
    BY <2>3, <2>4
<1>7. CASE scenario = "vote_term_index_comparator"
  <2>1. /\ Len(Script) = 7
        /\ Script[1] = "elect" /\ Script[2] = "propose" /\ Script[3] = "follower"
        /\ Script[4] = "terms" /\ Script[5] = "inject" /\ Script[6] = "events"
        /\ Script[7] = "oracle"
    BY <1>7, Scripts DEF PlanInv
  <2>2. Made \in {0, 1, 2, 3, 4, 5, 6, 7}
    BY <1>1, <2>1
  <2>3. PastWhen
    BY Positions, <1>7, <2>1 DEF PastWhen
  <2>4. FollowedBy
    BY <1>1, <1>7, <2>1, <2>2 DEF FollowedBy
  <2> QED
    BY <2>3, <2>4
<1>8. CASE scenario = "append_timer_reset"
  <2>1. /\ Len(Script) = 2
        /\ Script[1] = "events" /\ Script[2] = "oracle"
    BY <1>8, Scripts DEF PlanInv
  <2>2. Made \in {0, 1, 2}
    BY <1>1, <2>1
  <2>3. PastWhen
    BY Positions, <1>8, <2>1 DEF PastWhen
  <2>4. FollowedBy
    BY <1>1, <1>8, <2>1, <2>2 DEF FollowedBy
  <2> QED
    BY <2>3, <2>4
<1>9. CASE scenario = "higher_term_step_down"
  <2>1. /\ Len(Script) = 7
        /\ Script[1] = "elect" /\ Script[2] = "terms" /\ Script[3] = "bump"
        /\ Script[4] = "propose" /\ Script[5] = "leader" /\ Script[6] = "events"
        /\ Script[7] = "oracle"
    BY <1>9, Scripts DEF PlanInv
  <2>2. Made \in {0, 1, 2, 3, 4, 5, 6, 7}
    BY <1>1, <2>1
  <2>3. PastWhen
    BY Positions, <1>9, <2>1 DEF PastWhen
  <2>4. FollowedBy
    BY <1>1, <1>9, <2>1, <2>2 DEF FollowedBy
  <2> QED
    BY <2>3, <2>4
<1> QED
  BY <1>2, <1>3, <1>4, <1>5, <1>6, <1>7, <1>8, <1>9, Scripts DEF PlanInv

-----------------------------------------------------------------------------
\* Steps.

\* There is a node besides any two.
LEMMA ThirdNode == ASSUME NEW a, NEW b PROVE \E x \in Node : x # a /\ x # b
<1> SUFFICES ASSUME Node \subseteq {a, b} PROVE FALSE
  OBVIOUS
<1>1. IsFiniteSet({a}) /\ Cardinality({a}) = 1
  BY FS_Singleton
<1>2. /\ IsFiniteSet({a} \union {b})
      /\ Cardinality({a} \union {b}) = IF b \in {a} THEN Cardinality({a}) ELSE Cardinality({a}) + 1
  BY <1>1, FS_AddElement
<1>3. {a, b} = {a} \union {b}
  OBVIOUS
<1>4. Cardinality(Node) <= Cardinality({a, b}) /\ Cardinality({a, b}) <= 2
  <2>1. IsFiniteSet({a, b}) /\ Node \in SUBSET {a, b}
    BY <1>2, <1>3
  <2>2. Cardinality(Node) <= Cardinality({a, b})
    BY <2>1, FS_Subset
  <2> QED
    BY <1>1, <1>2, <1>3, <2>2
<1>5. Cardinality(Node) \in Nat /\ Cardinality({a, b}) \in Nat
  BY <1>2, <1>3, NodeAssumption, FS_CardinalityType
<1> QED
  BY <1>4, <1>5, ScenarioAssumption

\* A choice of the scenario is a member it does not exclude.
LEMMA Picked == ASSUME NEW S, Node \ S # {} PROVE FirstBut(S) \in Node \ S
<1> DEFINE I == {i \in DOMAIN IDs : IDs[i] \notin S}
<1>1. /\ I \subseteq Nat /\ DOMAIN IDs \subseteq Nat /\ \A i \in DOMAIN IDs : IDs[i] \in Node
      /\ \A x \in Node : \E i \in DOMAIN IDs : IDs[i] = x
  BY IDsAssumption
<1>2. I # {}
  BY <1>1
<1>3. PICK i \in I : \A j \in I : i <= j
  <2> HIDE DEF I
  <2> QED
    BY <1>1, <1>2, LeastNumber
<1>4. \E k \in DOMAIN IDs : IDs[k] \notin S /\ \A j \in DOMAIN IDs : IDs[j] \notin S => k <= j
  BY <1>3
<1>5. \E k \in DOMAIN IDs : FirstBut(S) = IDs[k] /\ IDs[k] \notin S
  BY <1>4 DEF FirstBut
<1> QED
  BY <1>1, <1>5

\* The follower that a scenario picks is a member other than the leader, and the
\* candidate another one.
LEMMA Picks ==
    /\ Follower \in Node \ {leader}
    /\ Candidate \in Node \ {leader, Follower}
<1>1. Node \ {leader} # {} /\ Node \ {leader, Follower} # {}
  BY ThirdNode
<1> QED
  BY <1>1, Picked DEF Follower, Candidate

\* The calls that leave the cluster as it is.
Reading ==
    \/ \E n \in Node : Visit(n)
    \/ Elected \/ PollAgain \/ GiveUp \/ NoteTerms \/ TakeSnapshot \/ InjectFails
    \/ \E c \in Caller : ProposedAll(c)
    \/ SnapshotsTaken \/ Conclude \/ Oracle

\* What a step of a scenario can be.
LEMMA ScenarioSteps ==
    ASSUME [ScenarioNext]_allVars
    PROVE  \/ NodeStep /\ plan # <<>> /\ UNCHANGED driver
           \/ Bump \/ Inject \/ \E c \in Caller, d \in Data : CallPropose(c, d)
           \/ Reading
           \/ UNCHANGED allVars
  BY DEF ScenarioNext, Call, Reading, Stopped, Over

\* A call that leaves the cluster as it is leaves its event log, too.
LEMMA ReadingKeeps == ASSUME Reading PROVE UNCHANGED <<vars, bugEvents, scenario>>
  BY DEF Reading, Visit, Elected, PollAgain, GiveUp, NoteTerms, TakeSnapshot, InjectFails,
         ProposedAll, SnapshotsTaken, Conclude, Oracle

\* The step of a node, between two calls.
LEMMA NodeSteps ==
    ASSUME NodeStep
    PROVE  \/ \E th \in Thread : Reach(th)
           \/ \E th \in Thread : Lose(th) /\ Hook(th)
           \/ \E th \in Thread : Return(th)
           \/ \E n \in Node : EndRound(n)
           \/ \E n \in Node, t \in Term : Tick(n, t)
           \/ \E n \in Node : StartElection(n)
           \/ \E n \in Node, c \in Caller : EndPropose(n, c)
  BY DEF NodeStep, Drop

\* But for the request it injects, a scenario takes only steps that RaftNode has.
LEMMA IsStep ==
    ASSUME TypeOK, DriverInv, [ScenarioNext]_allVars
    PROVE  [Next]_vars \/ Inject
<1>1. CASE NodeStep
  <2>1. \A th \in Thread : Reach(th) => Deliver(th)
    BY DEF Reach
  <2> QED
    BY <1>1, <2>1, NodeSteps DEF Next, Rpc
<1>2. CASE Bump
  <2>1. note.max \in Nat /\ Follower \in Node
    BY Picks, TermsNatural DEF DriverInv
  <2>2. PICK t \in Nat : t <= MaxTerm /\ (BumpTerm(Follower, t) \/ UNCHANGED vars)
    BY <1>2, <2>1 DEF Bump
  <2>3. t \in BumpTerms
    BY <2>2, BoundAssumption, ScenarioAssumption DEF Term
  <2> QED
    BY <2>1, <2>2, <2>3 DEF Next
<1>3. ASSUME NEW c \in Caller, NEW d \in Data, CallPropose(c, d) PROVE [Next]_vars
  <2>1. leader \in Node
    BY <1>3 DEF CallPropose, DriverInv, At
  <2> QED
    BY <1>3, <2>1 DEF CallPropose, Next
<1>4. CASE Reading
  BY <1>4, ReadingKeeps
<1>5. CASE UNCHANGED allVars
  BY <1>5 DEF allVars
<1> QED
  BY <1>1, <1>2, <1>3, <1>4, <1>5, ScenarioSteps

-----------------------------------------------------------------------------
\* The plan.

\* The first of a sequence of calls.
LEMMA SeqHead ==
    ASSUME NEW s \in Seq(CallNames)
    PROVE  (s # <<>> <=> Len(s) # 0) /\ Head(s) = s[1]
<1>1. s # <<>> <=> Len(s) # 0
  OBVIOUS
<1>2. Head(s) = s[1]
  OBVIOUS
<1> QED
  BY <1>1, <1>2

\* A call that has been made is off the plan, and the next one is up.
LEMMA Advanced ==
    ASSUME PlanInv, plan # <<>>, plan' = Tail(plan), scenario' = scenario
    PROVE  /\ plan' \in Seq(CallNames) /\ Len(plan') = Len(plan) - 1
           /\ Len(plan') <= Len(Script')
           /\ \A i \in DOMAIN plan' : plan'[i] = Script'[Made' + i]
           /\ \A call : At(call)' <=> Len(plan) > 1 /\ plan[2] = call
           /\ \A call : Past(call)' => Past(call) \/ At(call)
           /\ \A call : Past(call) => Past(call)'
<1>1. /\ plan \in Seq(CallNames) /\ Script' = Script /\ Script \in Seq(CallNames)
      /\ Len(plan) \in Nat /\ Len(Script) \in Nat /\ Len(plan) > 0 /\ Len(plan) <= Len(Script)
      /\ DOMAIN plan = 1..Len(plan)
  BY Scripts DEF PlanInv, Script
<1>2. /\ plan' \in Seq(CallNames) /\ Len(plan') = Len(plan) - 1 /\ DOMAIN plan' = 1..(Len(plan) - 1)
      /\ \A i \in 1..(Len(plan) - 1) : plan'[i] = plan[i + 1]
  BY <1>1
<1>3. \A i \in 1..Len(plan) : plan[i] = Script[Len(Script) - Len(plan) + i]
  BY <1>1 DEF PlanInv, Made
<1>4. \A i \in DOMAIN plan' : plan'[i] = Script'[Made' + i]
  <2>1. Made' = Len(Script) - (Len(plan) - 1)
    BY <1>1, <1>2 DEF Made
  <2> HIDE DEF Script, Made
  <2>2. ASSUME NEW i \in 1..(Len(plan) - 1) PROVE plan'[i] = Script[Made' + i]
    <3>1. i + 1 \in 1..Len(plan) /\ Len(Script) - Len(plan) + (i + 1) = Made' + i
      BY <1>1, <2>1
    <3> QED
      BY <1>2, <1>3, <3>1
  <2> QED
    BY <1>1, <1>2, <2>2
<1>5. \A call : At(call)' <=> Len(plan) > 1 /\ plan[2] = call
  <2>1. plan' # <<>> <=> Len(plan) > 1
    <3>1. plan' # <<>> <=> Len(plan') # 0
      BY <1>2, SeqHead
    <3>2. Len(plan) - 1 # 0 <=> Len(plan) > 1
      <4>1. \A n \in Nat : n > 0 => (n - 1 # 0 <=> n > 1)
        OBVIOUS
      <4> QED
        BY <1>1, <4>1
    <3> QED
      BY <1>2, <3>1, <3>2
  <2>2. Len(plan) > 1 => Head(plan') = plan[2]
    <3>1. Len(plan) > 1 => 1 \in 1..(Len(plan) - 1)
      BY <1>1
    <3>2. Head(plan') = plan'[1]
      BY <1>2, SeqHead
    <3> QED
      BY <1>2, <3>1, <3>2
  <2> QED
    BY <2>1, <2>2 DEF At
<1>6. ASSUME NEW call, Past(call)' PROVE Past(call) \/ At(call)
  <2> SUFFICES ASSUME ~At(call), NEW i \in 1..Len(plan) PROVE plan[i] # call
    BY <1>1 DEF Past
  <2>1. CASE i = 1
    BY <1>1, <2>1 DEF At
  <2>2. CASE i # 1
    <3>1. i - 1 \in 1..(Len(plan) - 1) /\ (i - 1) + 1 = i
      BY <1>1, <2>2
    <3> QED
      BY <1>2, <1>6, <3>1 DEF Past
  <2> QED
    BY <2>1, <2>2
<1>7. ASSUME NEW call, Past(call) PROVE Past(call)'
  <2>1. ASSUME NEW i \in 1..(Len(plan) - 1) PROVE plan'[i] # call
    <3>1. i + 1 \in 1..Len(plan)
      BY <1>1
    <3> QED
      BY <1>1, <1>2, <1>7, <3>1 DEF Past
  <2> QED
    BY <1>2, <2>1 DEF Past
<1> QED
  BY <1>1, <1>2, <1>4, <1>5, <1>6, <1>7

\* What a step does to the plan and the verdict.
LEMMA PlanMoves ==
    ASSUME PlanInv, DriverInv, [ScenarioNext]_allVars
    PROVE  /\ scenario' = scenario
           /\ \/ plan' = plan /\ result' = result
              \/ plan # <<>> /\ plan' = Tail(plan)
              \/ plan' = <<>>
<1>1. CASE Reading
  BY <1>1 DEF Reading, Visit, Elected, PollAgain, GiveUp, NoteTerms, TakeSnapshot, InjectFails,
         ProposedAll, SnapshotsTaken, Conclude, Oracle, At, Advance
<1>2. CASE Bump
  BY <1>2 DEF Bump, At, Advance
<1>3. CASE Inject
  BY <1>3 DEF Inject, At, Advance
<1>4. ASSUME NEW c \in Caller, NEW d \in Data, CallPropose(c, d)
      PROVE  UNCHANGED <<scenario, plan, result>>
  BY <1>4 DEF CallPropose
<1> QED
  BY <1>1, <1>2, <1>3, <1>4, ScenarioSteps DEF driver, allVars

\* What a step does to the verdict.
LEMMA ResultMoves ==
    ASSUME PlanInv, DriverInv, [ScenarioNext]_allVars
    PROVE  \/ result' = result
           \/ plan' = <<>> /\ At("inject") /\ result' = [result EXCEPT !.error = TRUE]
           \/ plan' = <<>> /\ At("elect") /\ result' = [result EXCEPT !.error = TRUE]
           \/ Conclude
           \/ Oracle
<1>1. CASE Reading
  BY <1>1 DEF Reading, Visit, Elected, PollAgain, GiveUp, NoteTerms, TakeSnapshot, InjectFails,
         ProposedAll, SnapshotsTaken
<1>2. CASE Bump \/ Inject
  BY <1>2 DEF Bump, Inject
<1>3. ASSUME NEW c \in Caller, NEW d \in Data, CallPropose(c, d) PROVE result' = result
  BY <1>3 DEF CallPropose
<1> QED
  BY <1>1, <1>2, <1>3, ScenarioSteps DEF driver, allVars

\* The plan stays one of the scenario's.
LEMMA PlanKept ==
    ASSUME TypeOK, PlanInv, DriverInv, [ScenarioNext]_allVars
    PROVE  PlanInv'
<1>1. result' \in ResultType /\ (result'.error => plan' = <<>>)
  <2>1. result \in ResultType /\ (result.error => plan = <<>>)
    BY DEF PlanInv
  <2>2. CASE result' = result
    BY <2>1, <2>2, PlanMoves
  <2>3. CASE plan' = <<>> /\ result' = [result EXCEPT !.error = TRUE]
    BY <2>1, <2>3 DEF ResultType
  <2>4. CASE Conclude
    <3>1. Observed \in BOOLEAN
      <4>1. note.reply.success \in BOOLEAN
        BY DEF DriverInv, Reply
      <4>2. CommitUnbacked \in BOOLEAN
        BY DEF CommitUnbacked
      <4>3. CASE scenario = "split_vote"
        BY <4>1, <4>2, <4>3 DEF Observed
      <4>4. CASE scenario = "stale_leader"
        BY <4>1, <4>2, <4>4 DEF Observed
      <4>5. CASE scenario = "reorder_commit"
        BY <4>1, <4>2, <4>5 DEF Observed
      <4>6. CASE scenario = "log_truncation"
        BY <4>1, <4>2, <4>6 DEF Observed
      <4>7. CASE scenario = "append_timer_reset"
        BY <4>1, <4>2, <4>7 DEF Observed
      <4>8. CASE scenario = "higher_term_step_down"
        BY <4>1, <4>2, <4>8 DEF Observed
      <4>9. CASE scenario \notin {"split_vote", "stale_leader", "reorder_commit", "log_truncation", "append_timer_reset", "higher_term_step_down"}
        BY <4>1, <4>9 DEF Observed
      <4> QED
        BY <4>3, <4>4, <4>5, <4>6, <4>7, <4>8, <4>9
    <3>2. Issue \in {"bug", "still_present", "not_reproduced", "fixed"}
      BY <3>1, ConfigAssumption DEF Issue
    <3>3. won \in SUBSET (Node \X Term)
      BY DEF TypeOK, FieldsOK
    <3>4. result' = [result EXCEPT !.observed = Observed, !.issue = Issue, !.won = won]
          /\ plan # <<>>
      BY <2>4 DEF Conclude, At
    <3> HIDE DEF Observed, Issue
    <3> QED
      BY <2>1, <3>1, <3>2, <3>3, <3>4 DEF ResultType
  <2>5. CASE Oracle
    <3>1. Violations \in SUBSET Codes
      BY DEF Violations, Codes
    <3>2. result' = [result EXCEPT !.oracle = Violations] /\ plan # <<>>
      BY <2>5 DEF Oracle, At
    <3> HIDE DEF Violations
    <3> QED
      BY <2>1, <3>1, <3>2 DEF ResultType
  <2> QED
    BY <2>2, <2>3, <2>4, <2>5, ResultMoves
<1>2. scenario' = scenario /\ Script' = Script
  BY PlanMoves DEF Script
<1>3. CASE plan' = plan
  BY <1>1, <1>2, <1>3 DEF PlanInv, Made
<1>4. CASE plan # <<>> /\ plan' = Tail(plan)
  BY <1>1, <1>2, <1>4, Advanced DEF PlanInv
<1>5. CASE plan' = <<>>
  <2>1. Script \in Seq(CallNames) /\ plan' \in Seq(CallNames) /\ Len(plan') = 0 /\ DOMAIN plan' = {}
    BY <1>5, Scripts DEF PlanInv
  <2> QED
    BY <1>1, <1>2, <2>1 DEF PlanInv
<1> QED
  BY <1>3, <1>4, <1>5, PlanMoves

-----------------------------------------------------------------------------
\* Types and votes.

\* The injected request is one that a node could send.
LEMMA ForgedType ==
    ASSUME TypeOK, PlanInv, DriverInv, At("inject"), Forged.term <= MaxTerm
    PROVE  /\ Forged \in Request /\ Forged.from \in Node
           /\ scenario = "log_truncation" =>
                 /\ Forged.type = "append" /\ Forged.prevIndex = Len(note.follower.log) + 4
           /\ scenario # "log_truncation" =>
                 Forged.type = "vote" /\ Forged.entries = <<>> /\ Forged.commit = 0
           /\ scenario = "vote_no_log_check" => Forged.lastTerm = 0 /\ Forged.lastIndex = 0
           /\ scenario = "vote_term_index_comparator" =>
                 Forged.lastTerm = Greater(LastTerm(note.follower.log) - 1, 0)
<1> DEFINE len == Len(note.follower.log)
           vote == [NoRequest EXCEPT !.type = "vote", !.from = Candidate, !.term = note.max + 1]
           last == Greater(LastTerm(note.follower.log) - 1, 0)
           compare == [vote EXCEPT !.lastTerm = last, !.lastIndex = len + 5]
           t == note.leader.term
           e == [index |-> len + 5, term |-> t, data |-> CHOOSE d \in Data : TRUE]
           append == [NoRequest EXCEPT !.type = "append", !.from = leader, !.term = t,
                        !.prevIndex = len + 4, !.prevTerm = t, !.entries = <<e>>,
                        !.commit = note.follower.commit]
<1>1. /\ scenario \in {"log_truncation", "vote_no_log_check", "vote_term_index_comparator"}
      /\ leader \in Node /\ Candidate \in Node
  BY CallOrder, Picks DEF PastWhen, DriverInv, At
<1>2. /\ note.max \in Term /\ t \in Term /\ len \in Nat /\ note.follower.commit \in Nat
      /\ note.follower.log \in Seq(Entry)
  BY DEF DriverInv, SnapshotType
<1>3. /\ scenario = "vote_no_log_check" => Forged = vote
      /\ scenario = "vote_term_index_comparator" => Forged = compare
      /\ scenario = "log_truncation" => Forged = append
  BY DEF Forged
<1>4. /\ scenario # "log_truncation" => note.max + 1 \in Term
      /\ scenario # "log_truncation" => vote.term = note.max + 1
  <2>1. scenario # "log_truncation" => Forged.term = note.max + 1
    BY <1>1, <1>3 DEF NoRequest
  <2> QED
    BY <1>2, <2>1, BoundAssumption DEF Term, NoRequest
<1>5. ASSUME scenario # "log_truncation" PROVE vote \in Request /\ vote.from = Candidate
  BY <1>1, <1>4, <1>5, ZeroValues DEF Request, NoRequest
<1>6. last \in Term
  <2>1. LastTerm(note.follower.log) \in Term
    BY <1>2, LastType
  <2> QED
    BY <2>1, BoundAssumption DEF Greater, Term
<1>7. e \in Entry
  BY <1>2, ScenarioAssumption DEF Entry
<1>8. append \in Request /\ append.from = leader
  <2>1. <<e>> \in {s \in Seq(Entry) : Len(s) <= 1}
    BY <1>7
  <2>2. /\ len + 4 \in Nat /\ t \in Term /\ t \in Nat /\ leader \in Node
        /\ note.follower.commit \in Nat /\ NoRequest \in Request
    <3>1. t \in Nat
      BY <1>2, BoundAssumption DEF Term
    <3>2. len + 4 \in Nat
      BY <1>2
    <3> QED
      BY <1>1, <1>2, <3>1, <3>2, ZeroValues
  <2> HIDE DEF e, len, t
  <2> QED
    BY <2>1, <2>2 DEF Request
<1>9. ASSUME scenario # "log_truncation" PROVE compare \in Request /\ compare.from = Candidate
  <2>1. vote \in Request /\ vote.from = Candidate /\ last \in Term /\ len + 5 \in Nat
    BY <1>2, <1>5, <1>6, <1>9
  <2> HIDE DEF vote, last, len
  <2> QED
    BY <2>1 DEF Request
<1>10. /\ vote.type = "vote" /\ vote.entries = <<>> /\ vote.commit = 0
       /\ vote.lastTerm = 0 /\ vote.lastIndex = 0
       /\ compare.type = "vote" /\ compare.entries = <<>> /\ compare.commit = 0
       /\ compare.lastTerm = last
       /\ append.type = "append" /\ append.prevIndex = len + 4
  BY DEF NoRequest
<1> HIDE DEF vote, compare, append, last
<1>11. Forged \in Request /\ Forged.from \in Node
  BY <1>1, <1>3, <1>5, <1>8, <1>9
<1> QED
  BY <1>1, <1>3, <1>10, <1>11 DEF last

\* A step of a scenario breaks no types.
LEMMA TypeKept ==
    ASSUME TypeOK, PlanInv, DriverInv, [ScenarioNext]_allVars
    PROVE  TypeOK'
<1>1. CASE Inject
  <2>1. /\ At("inject") /\ Forged.term <= MaxTerm /\ Handle(Follower, Forged)
        /\ UNCHANGED <<task, late>>
    BY <1>1 DEF Inject
  <2>2. FieldsOK'
    BY <2>1, ForgedType, HandleType, Picks DEF TypeOK
  <2> QED
    BY <2>1, <2>2 DEF TypeOK, TasksOK
<1> QED
  BY <1>1, IsStep, StepTypes

\* A step of a scenario leaves the votes in order.
LEMMA VotesHold ==
    ASSUME TypeOK, VotesAccounted, PlanInv, DriverInv, [ScenarioNext]_allVars
    PROVE  VotesAccounted'
<1>1. CASE Inject
  <2>1. /\ At("inject") /\ Forged.term <= MaxTerm /\ Handle(Follower, Forged)
        /\ UNCHANGED <<task, late>>
    BY <1>1 DEF Inject
  <2>2. VotersOK' /\ grants \subseteq grants' /\ won' = won
    BY <2>1, ForgedType, HandleVotes, Picks DEF TypeOK, VotesAccounted, VotersOK
  <2>3. /\ task \in [Thread -> Task] /\ TasksOK /\ RoundHonest /\ WonByMajority
    BY DEF TypeOK, VotesAccounted
  <2>4. RoundHonest'
    BY <2>1, <2>2, <2>3, HonestRounds DEF Honest
  <2>5. WonByMajority'
    BY <2>2, <2>3, WonKept DEF TypeOK
  <2> QED
    BY <2>2, <2>4, <2>5 DEF VotesAccounted, VotersOK
<1> QED
  BY <1>1, IsStep, StepVotes

-----------------------------------------------------------------------------
\* The scenario's own variables.

\* A handler elects nobody and proposes nothing.
LEMMA HandleKeeps == ASSUME NEW p, NEW m, Handle(p, m) PROVE UNCHANGED <<won, made>>
  BY DEF Handle, RejectStale, HandleRequestVote, HandleAppendEntries, history

\* Only Elected changes who is the scenario's leader, only NoteTerms, TakeSnapshot and
\* Inject what it has noted; and a victory stays on record.
LEMMA DriverMoves ==
    ASSUME PlanInv, DriverInv, [ScenarioNext]_allVars
    PROVE  /\ leader' = leader \/ Elected
           /\ At("elect") /\ plan' # plan => Elected \/ scenario = "split_vote" \/ plan' = <<>>
           /\ note' = note \/ NoteTerms \/ TakeSnapshot \/ Inject
           /\ won \subseteq won'
<1>1. CASE Reading
  <2>1. won' = won
    BY <1>1, ReadingKeeps DEF vars
  <2> QED
    BY <1>1, <2>1 DEF Reading, Visit, Elected, PollAgain, GiveUp, NoteTerms, TakeSnapshot, InjectFails,
         ProposedAll, SnapshotsTaken, Conclude, Oracle, At
<1>2. CASE Bump
  <2>1. won' = won
    BY <1>2 DEF Bump, BumpTerm, history, vars
  <2> QED
    BY <1>2, <2>1 DEF Bump, At
<1>3. CASE Inject
  <2>1. won' = won
    BY <1>3, HandleKeeps DEF Inject
  <2> QED
    BY <1>3, <2>1 DEF Inject, At
<1>4. ASSUME NEW c \in Caller, NEW d \in Data, CallPropose(c, d)
      PROVE  UNCHANGED <<leader, plan, note, won>>
  BY <1>4 DEF CallPropose, Propose, vars
<1>5. CASE NodeStep /\ plan # <<>> /\ UNCHANGED driver
  <2>1. \A th \in Thread : Reach(th) => won' = won
    BY HandleKeeps DEF Reach, Deliver
  <2>2. \A th \in Thread : Lose(th) \/ Return(th) => won' = won
    BY DEF Lose, Return, history
  <2>3. \A n \in Node, t \in Term : Tick(n, t) => won' = won
    BY DEF Tick, history
  <2>4. \A n \in Node : EndRound(n) => won \subseteq won'
    BY DEF EndRound
  <2>5. \A n \in Node : StartElection(n) => won' = won
    BY DEF StartElection
  <2>6. \A n \in Node, c \in Caller : EndPropose(n, c) => won' = won
    BY DEF EndPropose, history
  <2>7. won \subseteq won'
    BY <1>5, <2>1, <2>2, <2>3, <2>4, <2>5, <2>6, NodeSteps
  <2> QED
    BY <1>5, <2>7 DEF driver
<1>6. CASE UNCHANGED allVars
  BY <1>6 DEF allVars, vars, driver
<1> QED
  BY <1>1, <1>2, <1>3, <1>4, <1>5, <1>6, ScenarioSteps

\* MaxTerm returns a term that some node has had.
LEMMA MaxTermType ==
    ASSUME SeenInv, At("terms"), AllSeen, NoteTerms, PlanInv, DriverInv
    PROVE  note' = [note EXCEPT !.max = note'.max] /\ note'.max \in Term
<1> DEFINE S == {s.term : s \in seen}
           D == {MaxTerm - t : t \in S}
           m == CHOOSE t \in S : \A s \in seen : s.term <= t
<1>1. S \subseteq Term /\ Term = 0..MaxTerm /\ MaxTerm \in Nat
  BY BoundAssumption DEF SeenInv, Term
<1>2. S # {}
  BY NodeAssumption DEF AllSeen, Visited
<1>3. D \subseteq Nat /\ D # {}
  <2> HIDE DEF S
  <2>1. ASSUME NEW t \in S PROVE MaxTerm - t \in Nat
    BY <1>1
  <2> QED
    BY <1>2, <2>1
<1>4. PICK x \in D : \A y \in D : x <= y
  <2> HIDE DEF D
  <2> QED
    BY <1>3, LeastNumber
<1>5. PICK t \in S : x = MaxTerm - t
  BY <1>4
<1>6. ASSUME NEW s \in seen PROVE s.term <= t
  <2>1. s.term \in S /\ MaxTerm - s.term \in D
    OBVIOUS
  <2>2. x <= MaxTerm - s.term
    BY <1>4, <2>1
  <2>3. s.term \in 0..MaxTerm /\ t \in 0..MaxTerm
    <3> HIDE DEF S
    <3> QED
      BY <1>1, <1>5, <2>1
  <2> QED
    BY <1>1, <1>5, <2>2, <2>3
<1>7. m \in S
  BY <1>5, <1>6
<1>8. note' = [note EXCEPT !.max = m]
  BY DEF NoteTerms
<1> HIDE DEF m, S
<1> QED
  BY <1>1, <1>7, <1>8 DEF DriverInv

\* What is noted stays well formed.
LEMMA NoteTyped ==
    ASSUME TypeOK, PlanInv, DriverInv, SeenInv, [ScenarioNext]_allVars
    PROVE  note' \in [max : Term, leader : SnapshotType, follower : SnapshotType,
                      after : SnapshotType, reply : Reply]
<1>1. note \in [max : Term, leader : SnapshotType, follower : SnapshotType,
                after : SnapshotType, reply : Reply]
  BY DEF DriverInv
<1>2. CASE NoteTerms
  <2>1. note' = [note EXCEPT !.max = note'.max] /\ note'.max \in Term
    BY <1>2, MaxTermType DEF NoteTerms
  <2> QED
    BY <1>1, <2>1
<1>3. CASE TakeSnapshot
  <2> DEFINE x == Snapshot(IF At("leader") THEN leader ELSE Follower)
  <2>1. At("leader") \/ At("follower") \/ At("after")
    BY <1>3 DEF TakeSnapshot
  <2>2. leader \in Node /\ Follower \in Node
    BY <2>1, Picks DEF DriverInv, At
  <2>3. x \in SnapshotType
    BY <2>2 DEF Snapshot, SnapshotType, TypeOK, FieldsOK
  <2>4. note' = [note EXCEPT ![Head(plan)] = x]
    BY <1>3 DEF TakeSnapshot
  <2>5. Head(plan) \in {"leader", "follower", "after"}
    BY <2>1 DEF At
  <2> HIDE DEF x
  <2> QED
    BY <1>1, <2>3, <2>4, <2>5
<1>4. CASE Inject
  <2>1. /\ At("inject") /\ Forged.term <= MaxTerm /\ Handle(Follower, Forged)
        /\ note' = [note EXCEPT !.reply = ReplyTo(Follower, Forged)]
    BY <1>4 DEF Inject
  <2>2. ReplyTo(Follower, Forged) \in Reply
    BY <2>1, ForgedType, HandleType, Picks DEF TypeOK
  <2> QED
    BY <1>1, <2>1, <2>2
<1> QED
  BY <1>1, <1>2, <1>3, <1>4, DriverMoves

\* The scenario's own variables stay in order.
LEMMA DriverKept ==
    ASSUME TypeOK, PlanInv, DriverInv, SeenInv, [ScenarioNext]_allVars
    PROVE  DriverInv'
<1>1. PlanInv'
  BY PlanKept
<1>2. leader' \in Node \union {NoNode} /\ (Elected => leader' \in Node)
  <2>1. Elected => leader' \in Node
    BY DEF Elected, Leaders, SeenInv
  <2> QED
    BY <2>1, DriverMoves DEF DriverInv
<1>3. CASE plan' = plan /\ result' = result
  <2>1. ~Elected
    BY <1>3, PlanMoves DEF Elected, Advance, At, PlanInv
  <2> QED
    BY <1>2, <1>3, <2>1, NoteTyped, DriverMoves DEF DriverInv, At, Past
<1>4. CASE plan # <<>> /\ plan' = Tail(plan)
  <2>1. leader' = leader \/ Elected
    BY DriverMoves
  <2>2. ~At("elect")'
    BY <1>4, Advanced, CallOrder, PlanMoves DEF FollowedBy
  <2>3. leader' = NoNode /\ plan' # <<>> => At("events")' \/ At("oracle")'
    <3> SUFFICES ASSUME leader' = NoNode, plan' # <<>> PROVE At("events")' \/ At("oracle")'
      OBVIOUS
    <3>1. ~Elected /\ leader = NoNode
      BY <1>2, <2>1, NodeAssumption
    <3>2. plan' # plan
      BY <1>4 DEF PlanInv
    <3>3. CASE At("elect")
      <4>1. scenario = "split_vote"
        BY <3>1, <3>2, <3>3, DriverMoves
      <4> QED
        BY <1>4, <3>3, <4>1, Advanced, CallOrder, PlanMoves DEF FollowedBy
    <3>4. CASE At("events")
      BY <1>4, <3>4, Advanced, CallOrder, PlanMoves DEF FollowedBy
    <3>5. CASE At("oracle")
      <4>1. Len(plan) = 1 /\ Len(plan') = Len(plan) - 1 /\ plan' \in Seq(CallNames)
        BY <1>4, <3>5, Advanced, CallOrder, PlanMoves DEF FollowedBy
      <4> QED
        BY <4>1
    <3> QED
      BY <1>4, <3>1, <3>3, <3>4, <3>5 DEF DriverInv
  <2>4. result'.observed => Past("events")'
    <3>1. Past("events") => Past("events")'
      BY <1>4, Advanced, PlanMoves
    <3>2. At("events") => Past("events")'
      <4> SUFFICES ASSUME At("events") PROVE Past("events")'
        OBVIOUS
      <4>1. At("oracle")' /\ Len(plan') = 1 /\ plan' \in Seq(CallNames)
        <5>1. Len(plan) = 2 /\ plan[2] = "oracle"
          BY CallOrder DEF FollowedBy
        <5>2. /\ plan' \in Seq(CallNames) /\ Len(plan') = Len(plan) - 1
              /\ At("oracle")' <=> Len(plan) > 1 /\ plan[2] = "oracle"
          BY <1>4, Advanced, PlanMoves
        <5> QED
          BY <5>1, <5>2
      <4>2. plan'[1] = "oracle"
        BY <4>1, SeqHead DEF At
      <4>3. \A i \in DOMAIN plan' : i = 1
        BY <4>1
      <4> QED
        BY <4>2, <4>3 DEF Past
    <3>3. result'.observed = result.observed \/ At("events") \/ plan' = <<>>
      <4>1. result \in ResultType
        BY DEF PlanInv
      <4>2. Oracle => result'.observed = result.observed
        BY <4>1 DEF Oracle, ResultType
      <4> QED
        BY <4>2, ResultMoves DEF Conclude
    <3>4. plan' = <<>> => Past("events")'
      BY DEF Past
    <3>5. result.observed => Past("events")
      BY DEF DriverInv
    <3> QED
      BY <3>1, <3>2, <3>3, <3>4, <3>5
  <2>5. result'.won \subseteq won' /\ (plan' # <<>> => result'.oracle = {})
    <3>1. result \in ResultType /\ result.won \subseteq won /\ won \subseteq won' /\ result.oracle = {}
      BY <1>4, DriverMoves DEF PlanInv, DriverInv
    <3>2. CASE Oracle
      <4>1. Len(plan') = Len(plan) - 1 /\ Len(plan) = 1 /\ plan' \in Seq(CallNames)
        BY <1>4, <3>2, Advanced, CallOrder, PlanMoves DEF FollowedBy, Oracle
      <4> QED
        BY <3>1, <3>2, <4>1 DEF Oracle, ResultType
    <3> QED
      BY <3>1, <3>2, ResultMoves DEF Conclude, ResultType
  <2> QED
    BY <1>2, <2>2, <2>3, <2>4, <2>5, NoteTyped DEF DriverInv
<1>5. CASE plan' = <<>>
  <2>1. Past("events")' /\ \A call : ~At(call)'
    BY <1>5 DEF Past, At
  <2>2. result'.won \subseteq won'
    <3>1. result \in ResultType /\ result.won \subseteq won /\ won \subseteq won'
      BY DriverMoves DEF PlanInv, DriverInv
    <3> QED
      BY <3>1, ResultMoves DEF Conclude, Oracle, ResultType
  <2> QED
    BY <1>2, <1>5, <2>1, <2>2, NoteTyped DEF DriverInv
<1> QED
  BY <1>3, <1>4, <1>5, PlanMoves

-----------------------------------------------------------------------------
\* What a step does to one goroutine.

\* Its request is handled; ...
Answers(th) ==
    /\ Reach(th) /\ Sending(th) /\ Target(th) \in Node
    /\ Handle(Target(th), task[th].req)
    /\ task'[th] = [task[th] EXCEPT !.todo = Tail(@),
                                    !.reply = ReplyTo(Target(th), task[th].req)]

\* ... or the hook drops it; ...
Skips(th) ==
    /\ Sending(th) /\ Hook(th) /\ UNCHANGED <<fields, history>>
    /\ task'[th] = [task[th] EXCEPT !.todo = Tail(@)]

\* ... or it counts an answer that does not end its loop; ...
Reads(th) ==
    LET r == task[th].reply
    IN /\ task[th].active /\ r # NoReply /\ UNCHANGED <<fields, history>>
       /\ ~(r.term > task[th].req.term /\ StepsDown(th.node, r.term))
       /\ task'[th] = [task[th] EXCEPT !.reply = NoReply,
                         !.yes = IF r.success /\ th.kind # "beat" THEN @ \union {r.from} ELSE @]

\* ... or its loop begins: a round, ...
BeginsRound(th) ==
    \E n \in Node :
        LET m == [NoRequest EXCEPT !.type = "vote", !.from = n, !.term = term[n] + 1,
                    !.lastTerm = LastTerm(log[n]), !.lastIndex = LastIndex(log[n])]
        IN th = Round(n) /\ StartElection(n) /\ task'[th] = Start(th, m, {n})

\* ... a heartbeat, ...
BeginsBeat(th) ==
    \E n \in Node, t \in Term :
        /\ th = Beat(n, t) /\ UNCHANGED <<term, log, commitIndex>>
        /\ \/ Tick(n, t) /\ UNCHANGED role /\ role[n] = "leader" /\ term[n] = t
           \/ /\ EndRound(n) /\ IsMajority(task[Round(n)].yes) /\ role'[n] = "leader"
              /\ task[Round(n)].active /\ task[Round(n)].req.term = t
        /\ task'[th].active /\ task'[th].req = Heartbeat(n, t)
        /\ task'[th].yes = {} /\ task'[th].reply = NoReply

\* ... or a proposal.
BeginsProposal(th) ==
    \E c \in Caller, d \in Data :
        th = Proposal(leader, c) /\ CallPropose(c, d) /\ Propose(leader, c, d)

\* A step moves a goroutine in one of these ways, ends its loop or leaves it alone.
LEMMA TaskMoves ==
    ASSUME TypeOK, PlanInv, DriverInv, [ScenarioNext]_allVars, NEW th \in Thread
    PROVE  \/ task'[th] = task[th]
           \/ task'[th] = Idle
           \/ Answers(th) \/ Skips(th) \/ Reads(th)
           \/ BeginsRound(th) \/ BeginsBeat(th) \/ BeginsProposal(th)
<1>1. /\ task \in [Thread -> Task] /\ TasksOK /\ FieldsOK
      /\ task[th] \in Task /\ task[th].todo \in Seq(Node)
  BY DEF TypeOK, Task
<1>2. ASSUME NEW k \in Thread, Reach(k) PROVE task'[th] = task[th] \/ Answers(th)
  <2>1. /\ Sending(k) /\ Handle(Target(k), task[k].req)
        /\ task' = [task EXCEPT ![k].todo = Tail(@), ![k].reply = ReplyTo(Target(k), task[k].req)]
    BY <1>2 DEF Reach, Deliver
  <2>2. CASE th = k
    <3>1. Target(th) \in Node
      BY <1>1, <2>1, <2>2 DEF Sending, Target
    <3>2. task'[th] = [task[th] EXCEPT !.todo = Tail(@), !.reply = ReplyTo(Target(th), task[th].req)]
      BY <1>1, <2>1, <2>2
    <3> QED
      BY <1>2, <2>1, <2>2, <3>1, <3>2 DEF Answers
  <2> QED
    BY <1>1, <2>1, <2>2
<1>3. ASSUME NEW k \in Thread, Lose(k), Hook(k) PROVE task'[th] = task[th] \/ Skips(th)
  BY <1>1, <1>3 DEF Lose, Skips
<1>4. ASSUME NEW k \in Thread, Return(k)
      PROVE  task'[th] = task[th] \/ task'[th] = Idle \/ Reads(th)
  <2> DEFINE r == task[k].reply
             quits == r.term > task[k].req.term /\ StepsDown(k.node, r.term)
  <2>1. task[k].active /\ r # NoReply
    BY <1>1, <1>4, RepliesAwaited DEF Return
  <2>2. CASE quits
    BY <1>1, <1>4, <2>2 DEF Return
  <2>3. CASE ~quits /\ th = k
    <3>1. /\ UNCHANGED <<fields, history>>
          /\ task' = [task EXCEPT ![th].reply = NoReply,
                        ![th].yes = IF r.success /\ th.kind # "beat" THEN @ \union {r.from} ELSE @]
      BY <1>4, <2>3 DEF Return, fields, history
    <3>2. task'[th] = [task[th] EXCEPT !.reply = NoReply,
                         !.yes = IF r.success /\ th.kind # "beat" THEN @ \union {r.from} ELSE @]
      BY <1>1, <3>1
    <3> QED
      BY <2>1, <2>3, <3>1, <3>2 DEF Reads
  <2>4. CASE ~quits /\ th # k
    BY <1>1, <1>4, <2>4 DEF Return
  <2> QED
    BY <2>2, <2>3, <2>4
<1>5. ASSUME NEW n \in Node, EndRound(n)
      PROVE  task'[th] = task[th] \/ task'[th] = Idle \/ BeginsBeat(th)
  <2> DEFINE t == task[Round(n)].req.term
             b == [Idle EXCEPT !.active = TRUE, !.req = Heartbeat(n, t)]
  <2>1. t \in Term /\ Round(n) \in Thread /\ task[Round(n)].active
    BY <1>1, <1>5, ThreadFacts DEF EndRound, LoopDone, Task, Request
  <2>2. CASE IsMajority(task[Round(n)].yes) /\ th = Beat(n, t)
    <3>1. /\ task' = [task EXCEPT ![Round(n)] = Idle, ![Beat(n, t)] = b]
          /\ UNCHANGED <<term, log, commitIndex>> /\ role' = [role EXCEPT ![n] = "leader"]
      BY <1>5, <2>2 DEF EndRound
    <3>2. task'[th] = b
      BY <1>1, <2>2, <3>1
    <3>3. b.active /\ b.req = Heartbeat(n, t) /\ b.yes = {} /\ b.reply = NoReply
      BY DEF Idle
    <3>4. role'[n] = "leader"
      BY <1>1, <3>1 DEF FieldsOK
    <3> QED
      BY <1>5, <2>1, <2>2, <3>1, <3>2, <3>3, <3>4 DEF BeginsBeat
  <2>3. CASE ~(IsMajority(task[Round(n)].yes) /\ th = Beat(n, t))
    BY <1>1, <1>5, <2>3 DEF EndRound
  <2> QED
    BY <2>2, <2>3
<1>6. ASSUME NEW n \in Node, NEW t \in Term, Tick(n, t)
      PROVE  task'[th] = task[th] \/ task'[th] = Idle \/ BeginsBeat(th)
  <2>1. CASE th = Beat(n, t) /\ role[n] = "leader" /\ term[n] = t
    <3>1. /\ task' = [task EXCEPT ![th] = Start(th, Heartbeat(n, t), {})]
          /\ UNCHANGED fields
      BY <1>6, <2>1 DEF Tick
    <3>2. task'[th] = Start(th, Heartbeat(n, t), {})
      BY <1>1, <3>1
    <3> QED
      BY <1>6, <2>1, <3>1, <3>2 DEF BeginsBeat, Start, fields
  <2>2. CASE ~(th = Beat(n, t) /\ role[n] = "leader" /\ term[n] = t)
    BY <1>1, <1>6, <2>2 DEF Tick
  <2> QED
    BY <2>1, <2>2
<1>7. ASSUME NEW n \in Node, StartElection(n) PROVE task'[th] = task[th] \/ BeginsRound(th)
  <2>1. CASE th = Round(n)
    BY <1>1, <1>7, <2>1 DEF StartElection, BeginsRound
  <2> QED
    BY <1>1, <1>7, <2>1 DEF StartElection
<1>8. ASSUME NEW n \in Node, NEW c \in Caller, EndPropose(n, c)
      PROVE  task'[th] = task[th] \/ task'[th] = Idle
  BY <1>1, <1>8 DEF EndPropose
<1>9. ASSUME NEW c \in Caller, NEW d \in Data, CallPropose(c, d)
      PROVE  task'[th] = task[th] \/ BeginsProposal(th)
  <2>1. task' = task \/ Propose(leader, c, d)
    BY <1>9 DEF CallPropose, vars
  <2>2. CASE Propose(leader, c, d)
    BY <1>1, <1>9, <2>2 DEF Propose, BeginsProposal
  <2> QED
    BY <2>1, <2>2
<1>10. CASE Bump \/ Inject \/ Reading \/ UNCHANGED allVars
  <2>1. Reading \/ UNCHANGED allVars => task' = task
    BY ReadingKeeps DEF vars, allVars
  <2> QED
    BY <1>10, <2>1 DEF Bump, BumpTerm, Inject, vars
<1> QED
  BY <1>2, <1>3, <1>4, <1>5, <1>6, <1>7, <1>8, <1>9, <1>10, NodeSteps, ScenarioSteps

\* Which loops begin in which way.
LEMMA BeginsKind ==
    ASSUME NEW th
    PROVE  /\ BeginsRound(th) => th \notin Proposals /\ th \in Rounds
           /\ BeginsBeat(th) => th \notin Proposals /\ th \notin Rounds
           /\ BeginsProposal(th) => th \notin Rounds
<1>1. /\ \A n : Round(n).kind = "round"
      /\ \A n, t : Beat(n, t).kind = "beat"
      /\ \A n, c : Proposal(n, c).kind = "propose"
  BY DEF Round, Beat, Proposal
<1>2. /\ BeginsRound(th) => \E n \in Node : th = Round(n)
      /\ BeginsBeat(th) => \E n \in Node, t \in Term : th = Beat(n, t)
      /\ BeginsProposal(th) => \E c \in Caller : th = Proposal(leader, c)
  BY DEF BeginsRound, BeginsBeat, BeginsProposal
<1>3. /\ \A x \in Proposals : x.kind = "propose"
      /\ \A x \in Rounds : x.kind = "round"
  BY <1>1 DEF Proposals, Rounds
<1> QED
  BY <1>1, <1>2, <1>3 DEF Rounds

\* The request of a round that begins.
LEMMA RoundRequest ==
    ASSUME NEW th, BeginsRound(th)
    PROVE  \E n \in Node :
              /\ th = Round(n) /\ StartElection(n) /\ task'[th].active
              /\ task'[th].req.type = "vote" /\ task'[th].req.entries = <<>>
              /\ task'[th].req.commit = 0 /\ task'[th].req.term = term[n] + 1
              /\ task'[th].todo = Order[n] /\ task'[th].yes = {n} /\ task'[th].reply = NoReply
<1>1. PICK n \in Node : th = Round(n) /\ StartElection(n) /\ task'[th] =
        Start(th, [NoRequest EXCEPT !.type = "vote", !.from = n, !.term = term[n] + 1,
                    !.lastTerm = LastTerm(log[n]), !.lastIndex = LastIndex(log[n])], {n})
  BY DEF BeginsRound
<1> DEFINE m == [NoRequest EXCEPT !.type = "vote", !.from = n, !.term = term[n] + 1,
                    !.lastTerm = LastTerm(log[n]), !.lastIndex = LastIndex(log[n])]
<1>2. m.type = "vote" /\ m.entries = <<>> /\ m.commit = 0 /\ m.term = term[n] + 1
  BY DEF NoRequest
<1>3. task'[th] = Start(th, m, {n})
  BY <1>1
<1>4. th.node = n
  BY <1>1, ThreadFacts
<1> HIDE DEF m
<1>5. /\ task'[th].active /\ task'[th].req = m /\ task'[th].todo = Order[n]
      /\ task'[th].yes = {n} /\ task'[th].reply = NoReply
  BY <1>3, <1>4 DEF Start
<1>6. th = Round(n) /\ StartElection(n)
  BY <1>1
<1> QED
  BY <1>2, <1>5, <1>6

-----------------------------------------------------------------------------
\* The proposals.

\* While a proposal is on its way the scenario waits for it.
LEMMA Waits ==
    ASSUME TypeOK, PlanInv, DriverInv, ProposeInv, [ScenarioNext]_allVars,
           NEW n \in Node, NEW c \in Caller, task[Proposal(n, c)].active
    PROVE  UNCHANGED <<plan, leader>> /\ n = leader /\ At("propose")
<1>1. n = leader /\ At("propose") /\ task[Proposal(leader, c)].active
  BY DEF ProposeInv
<1>2. \A call : At(call) <=> call = "propose"
  BY <1>1 DEF At
<1>3. \A d \in Caller : ~ProposedAll(d)
  BY <1>1, ScenarioAssumption DEF ProposedAll
<1>4. CASE Reading
  BY <1>2, <1>3, <1>4 DEF Reading, Visit, Elected, PollAgain, GiveUp, NoteTerms, TakeSnapshot,
         InjectFails, SnapshotsTaken, Conclude, Oracle
<1>5. ~Bump /\ ~Inject
  BY <1>2 DEF Bump, Inject
<1>6. ASSUME NEW d \in Caller, NEW x \in Data, CallPropose(d, x) PROVE UNCHANGED <<plan, leader>>
  BY <1>6 DEF CallPropose
<1>7. UNCHANGED <<plan, leader>>
  BY <1>4, <1>5, <1>6, ScenarioSteps DEF driver, allVars
<1> QED
  BY <1>1, <1>7

\* Only the leader of the scenario has proposals on their way.
LEMMA ProposeKept ==
    ASSUME TypeOK, PlanInv, DriverInv, ProposeInv, [ScenarioNext]_allVars
    PROVE  ProposeInv'
<1> SUFFICES ASSUME NEW n \in Node, NEW c \in Caller, task'[Proposal(n, c)].active
             PROVE  n = leader' /\ At("propose")'
  BY DEF ProposeInv
<1> DEFINE th == Proposal(n, c)
<1>1. th \in Thread /\ th \in Proposals
  BY ThreadFacts
<1>2. CASE task[th].active
  BY <1>2, Waits DEF At
<1>3. CASE BeginsProposal(th)
  <2>1. PICK d \in Caller, x \in Data : th = Proposal(leader, d) /\ CallPropose(d, x)
    BY <1>3 DEF BeginsProposal
  <2>2. n = leader
    BY <2>1 DEF Proposal
  <2> QED
    BY <2>1, <2>2 DEF CallPropose, At
<1>4. ~BeginsRound(th) /\ ~BeginsBeat(th)
  BY <1>1, BeginsKind
<1>5. task'[th] # Idle
  BY DEF Idle
<1>6. task'[th] = task[th] \/ Answers(th) \/ Skips(th) \/ Reads(th) => task[th].active
  BY DEF Answers, Skips, Reads, Sending
<1> QED
  BY <1>1, <1>2, <1>3, <1>4, <1>5, <1>6, TaskMoves

-----------------------------------------------------------------------------
\* Leaders.

\* A node leads after a step because its round has ended, or as it did before.
LEMMA LeadsMoves ==
    ASSUME TypeOK, PlanInv, DriverInv, [ScenarioNext]_allVars,
           NEW n \in Node, role'[n] = "leader"
    PROVE  \/ role[n] = "leader" /\ term'[n] = term[n]
           \/ EndRound(n) /\ IsMajority(task[Round(n)].yes)
<1>1. CASE Inject
  <2>1. /\ At("inject") /\ Forged.term <= MaxTerm /\ Handle(Follower, Forged) /\ FieldsOK
    BY <1>1 DEF Inject, TypeOK
  <2> QED
    BY <2>1, ForgedType, HandleLeads, Picks
<1>2. CASE EndRound(n)
  <2>1. /\ role' = [role EXCEPT ![n] = IF IsMajority(task[Round(n)].yes) THEN "leader" ELSE "candidate"]
        /\ role \in [Node -> Role]
    BY <1>2 DEF EndRound, TypeOK, FieldsOK
  <2> QED
    BY <1>2, <2>1
<1> QED
  BY <1>1, <1>2, IsStep, StepLeads

\* Who wins has ended a round with a majority of votes.
LEMMA WinMoves ==
    ASSUME TypeOK, PlanInv, DriverInv, [ScenarioNext]_allVars, won' # won
    PROVE  \E n \in Node : EndRound(n) /\ IsMajority(task[Round(n)].yes)
<1>1. Reading \/ UNCHANGED allVars => won' = won
  BY ReadingKeeps DEF vars, allVars
<1>2. Bump => won' = won
  BY DEF Bump, BumpTerm, history, vars
<1>3. Inject => won' = won
  BY HandleKeeps DEF Inject
<1>4. \A c \in Caller, d \in Data : CallPropose(c, d) => won' = won
  BY DEF CallPropose, Propose, vars
<1>5. \A th \in Thread : Reach(th) => won' = won
  BY HandleKeeps DEF Reach, Deliver
<1>6. \A th \in Thread : Lose(th) \/ Return(th) => won' = won
  BY DEF Lose, Return, history
<1>7. \A n \in Node, t \in Term : Tick(n, t) => won' = won
  BY DEF Tick, history
<1>8. \A n \in Node : StartElection(n) => won' = won
  BY DEF StartElection
<1>9. \A n \in Node, c \in Caller : EndPropose(n, c) => won' = won
  BY DEF EndPropose, history
<1>10. \A n \in Node : EndRound(n) => IsMajority(task[Round(n)].yes)
  BY DEF EndRound
<1> QED
  BY <1>1, <1>2, <1>3, <1>4, <1>5, <1>6, <1>7, <1>8, <1>9, <1>10, NodeSteps, ScenarioSteps

\* One node is no majority.
LEMMA OneIsFew == \A n \in Node : \A S \in SUBSET {n} : ~IsMajority(S)
<1> SUFFICES ASSUME NEW n \in Node, NEW S \in SUBSET {n} PROVE ~IsMajority(S)
  OBVIOUS
<1>1. IsFiniteSet({n}) /\ Cardinality({n}) = 1
  BY FS_Singleton
<1>2. Cardinality(S) <= 1 /\ Cardinality(S) \in Nat /\ Cardinality(Node) \in Nat
  BY <1>1, NodeAssumption, FS_Subset, FS_CardinalityType
<1>3. Majority >= 2
  BY <1>2, ScenarioAssumption DEF Majority
<1> QED
  BY <1>2, <1>3 DEF IsMajority, Majority

-----------------------------------------------------------------------------
\* split_vote.

\* The hook of split_vote keeps every node from leading.
LEMMA SplitKept ==
    ASSUME TypeOK, PlanInv, DriverInv, SplitInv, [ScenarioNext]_allVars
    PROVE  SplitInv'
<1>1. scenario' = scenario /\ PlanInv'
  BY PlanMoves, PlanKept
<1> SUFFICES ASSUME scenario = "split_vote"
             PROVE  /\ leader' = NoNode /\ won' = {}
                    /\ \A n \in Node : role'[n] # "leader"
                    /\ \A th \in Thread : task'[th].active => th \in Rounds
                    /\ \A n \in Node : LET k == task'[Round(n)] IN
                          /\ k.active => k.req.type = "vote"
                          /\ k.yes \subseteq {n} /\ k.reply = NoReply
                    /\ At("elect")' => \A s \in seen' : ~s.leads
                    /\ Past("events")' /\ ~result'.error => result'.observed
  BY <1>1 DEF SplitInv
<1>2. /\ leader = NoNode /\ won = {}
      /\ \A n \in Node : role[n] # "leader"
      /\ \A th \in Thread : task[th].active => th \in Rounds
      /\ \A n \in Node : /\ task[Round(n)].active => task[Round(n)].req.type = "vote"
                         /\ task[Round(n)].yes \subseteq {n} /\ task[Round(n)].reply = NoReply
      /\ At("elect") => \A s \in seen : ~s.leads
      /\ Past("events") /\ ~result.error => result.observed
  BY DEF SplitInv
<1>3. \A th \in Thread : ~Reach(th)
  BY <1>2 DEF Reach, Sending, Hook, Rounds
<1>4. \A n \in Node : ~IsMajority(task[Round(n)].yes)
  BY <1>2, OneIsFew
<1>5. ~Elected
  <2>1. At("elect") => Leaders = {}
    BY <1>2 DEF Leaders
  <2>2. Cardinality({}) = 0
    BY FS_EmptySet
  <2> QED
    BY <2>1, <2>2 DEF Elected
<1>6. ~At("propose") /\ ~At("bump") /\ ~At("inject")
  <2>1. plan # <<>> => At("elect") \/ At("events") \/ At("oracle")
    BY <1>2 DEF DriverInv
  <2> QED
    BY <2>1 DEF At
<1>7. leader' = NoNode /\ won' = {}
  BY <1>2, <1>4, <1>5, DriverMoves, WinMoves
<1>8. \A n \in Node : role'[n] # "leader"
  BY <1>2, <1>4, LeadsMoves
<1>9. ASSUME NEW th \in Thread PROVE ~Answers(th) /\ ~Reads(th) /\ ~BeginsProposal(th) /\ ~BeginsBeat(th)
  <2>1. ~Answers(th) /\ ~BeginsProposal(th)
    BY <1>3, <1>6 DEF Answers, BeginsProposal, CallPropose
  <2>2. ~Reads(th)
    BY <1>2 DEF Reads, Rounds
  <2>3. ~BeginsBeat(th)
    BY <1>2, <1>4 DEF BeginsBeat
  <2> QED
    BY <2>1, <2>2, <2>3
<1>10. ASSUME NEW th \in Thread, task'[th].active PROVE th \in Rounds
  <2>1. task'[th] # Idle
    BY <1>10 DEF Idle
  <2>2. task'[th] = task[th] \/ Skips(th) => task[th].active
    BY <1>10 DEF Skips, Sending
  <2> QED
    BY <1>2, <1>9, <2>1, <2>2, BeginsKind, TaskMoves
<1>11. ASSUME NEW n \in Node
       PROVE  /\ task'[Round(n)].active => task'[Round(n)].req.type = "vote"
              /\ task'[Round(n)].yes \subseteq {n} /\ task'[Round(n)].reply = NoReply
  <2> DEFINE th == Round(n)
  <2>1. th \in Thread /\ task[th] \in Task /\ \A m \in Node : Round(m) = th => m = n
    BY ThreadFacts DEF TypeOK
  <2>2. /\ task[th].active => task[th].req.type = "vote"
        /\ task[th].yes \subseteq {n} /\ task[th].reply = NoReply
    BY <1>2
  <2> HIDE DEF th
  <2>3. CASE Skips(th)
    <3>1. /\ task'[th].active = task[th].active /\ task'[th].req = task[th].req
          /\ task'[th].yes = task[th].yes /\ task'[th].reply = task[th].reply
      BY <2>1, <2>3 DEF Skips, Task
    <3> QED
      BY <2>2, <3>1 DEF th
  <2>4. CASE task'[th] = Idle
    BY <2>4 DEF Idle, th
  <2>5. CASE BeginsRound(th)
    <3>1. PICK m \in Node : th = Round(m) /\ task'[th] =
            Start(th, [NoRequest EXCEPT !.type = "vote", !.from = m, !.term = term[m] + 1,
                    !.lastTerm = LastTerm(log[m]), !.lastIndex = LastIndex(log[m])], {m})
      BY <2>5 DEF BeginsRound
    <3>2. m = n
      BY <2>1, <3>1
    <3> DEFINE m2 == [NoRequest EXCEPT !.type = "vote", !.from = n, !.term = term[n] + 1,
                        !.lastTerm = LastTerm(log[n]), !.lastIndex = LastIndex(log[n])]
    <3>3. m2.type = "vote"
      BY DEF NoRequest
    <3>4. task'[th] = Start(th, m2, {n})
      BY <3>1, <3>2
    <3> HIDE DEF m2
    <3>5. task'[th].req.type = "vote" /\ task'[th].yes = {n} /\ task'[th].reply = NoReply
      BY <3>3, <3>4 DEF Start
    <3> QED
      BY <3>5 DEF th
  <2>6. CASE task'[th] = task[th]
    BY <2>2, <2>6 DEF th
  <2> QED
    BY <1>9, <2>1, <2>3, <2>4, <2>5, <2>6, TaskMoves
<1>12. ASSUME At("elect")', NEW s \in seen' PROVE ~s.leads
  <2>1. At("elect")
    <3>1. plan' = plan \/ (plan # <<>> /\ plan' = Tail(plan)) \/ plan' = <<>>
      BY PlanMoves
    <3>2. ~(plan # <<>> /\ plan' = Tail(plan))
      BY <1>1, <1>12, Advanced, CallOrder DEF FollowedBy
    <3> QED
      BY <1>12, <3>1, <3>2 DEF At
  <2>2. CASE Reading
    <3>1. seen' = {} \/ seen' = seen \/ \E n \in Node : seen' = seen \union {View(n)}
      BY <2>2 DEF Reading, Visit, Elected, PollAgain, GiveUp, NoteTerms, TakeSnapshot,
           InjectFails, ProposedAll, SnapshotsTaken, Conclude, Oracle
    <3>2. ASSUME NEW n \in Node PROVE ~View(n).leads
      <4>0. ~At("terms")
        BY <2>1 DEF At
      <4>1. View(n) = [node |-> n, leads |-> role[n] = "leader"]
        BY <2>1, <4>0, Zenon DEF View
      <4>2. (role[n] = "leader") = FALSE
        BY <1>2
      <4>3. View(n) = [node |-> n, leads |-> FALSE]
        BY <4>1, <4>2
      <4> QED
        BY <4>3
    <3> QED
      BY <1>2, <1>12, <2>1, <3>1, <3>2
  <2>3. ~Bump /\ ~Inject /\ \A c \in Caller, d \in Data : ~CallPropose(c, d)
    BY <1>6 DEF Bump, Inject, CallPropose
  <2>4. ~Reading => seen' = seen
    BY <2>3, ScenarioSteps DEF driver, allVars
  <2> QED
    BY <1>2, <1>12, <2>1, <2>2, <2>4
<1>13. ASSUME Past("events")', ~result'.error PROVE result'.observed
  <2>1. result \in ResultType
    BY DEF PlanInv
  <2>2. CASE Conclude
    BY <1>2, <2>1, <2>2 DEF Conclude, Observed, ResultType
  <2>3. CASE Oracle
    <3>1. Past("events")
      <4>1. plan # <<>> /\ plan' = Tail(plan) /\ ~At("events")
        BY <2>3 DEF Oracle, At, Advance
      <4> QED
        BY <1>1, <1>13, <4>1, Advanced
    <3>2. result'.observed = result.observed /\ result'.error = result.error
      BY <2>1, <2>3 DEF Oracle, ResultType
    <3> QED
      BY <1>2, <1>13, <3>1, <3>2
  <2>4. CASE result' = result /\ ~Conclude
    <3>1. CASE plan # <<>> /\ plan' = Tail(plan)
      <4>1. ~At("events")
        <5>1. plan' # plan
          BY <3>1 DEF PlanInv
        <5> SUFFICES ASSUME At("events") PROVE FALSE
          OBVIOUS
        <5>2. ~Elected /\ ~GiveUp /\ ~NoteTerms /\ ~TakeSnapshot /\ ~InjectFails
              /\ ~SnapshotsTaken /\ ~Oracle /\ \A c \in Caller : ~ProposedAll(c)
          BY DEF Elected, GiveUp, NoteTerms, TakeSnapshot, InjectFails, ProposedAll,
                 SnapshotsTaken, Oracle, At
        <5>3. ~Reading
          BY <2>4, <5>1, <5>2 DEF Reading, Visit, PollAgain
        <5> QED
          BY <1>6, <5>1, <5>3, ScenarioSteps DEF Bump, Inject, CallPropose, driver, allVars
      <4> QED
        BY <1>1, <1>2, <1>13, <2>4, <3>1, <4>1, Advanced
    <3>2. CASE plan' = plan
      BY <1>2, <1>13, <2>4, <3>2 DEF Past
    <3>3. CASE plan' = <<>> /\ plan' # plan /\ ~(plan # <<>> /\ plan' = Tail(plan))
      <4>1. ~Elected /\ ~NoteTerms /\ ~TakeSnapshot /\ ~SnapshotsTaken /\ ~Oracle /\ ~Conclude
            /\ \A c \in Caller : ~ProposedAll(c)
        BY <3>3 DEF Elected, NoteTerms, TakeSnapshot, ProposedAll, SnapshotsTaken, Oracle,
             Conclude, Advance, At
      <4>2. ~GiveUp
        BY <3>3 DEF GiveUp, Advance, At
      <4>3. ~InjectFails
        BY <1>6 DEF InjectFails
      <4>4. ~Reading
        BY <3>3, <4>1, <4>2, <4>3 DEF Reading, Visit, PollAgain
      <4> QED
        BY <1>6, <3>3, <4>4, ScenarioSteps DEF Bump, Inject, CallPropose, driver, allVars
    <3> QED
      BY <3>1, <3>2, <3>3, PlanMoves
  <2>5. result' = [result EXCEPT !.error = TRUE] => result'.error
    BY <2>1 DEF ResultType
  <2> QED
    BY <1>13, <2>2, <2>3, <2>4, <2>5, ResultMoves
<1> QED
  BY <1>7, <1>8, <1>10, <1>11, <1>12, <1>13

-----------------------------------------------------------------------------
\* What a call has read.

\* The nodes that a call has visited are known, and nothing is left of a call that
\* has returned but the snapshots of reorder_commit.
LEMMA SeenKept ==
    ASSUME TypeOK, PlanInv, DriverInv, SeenInv, [ScenarioNext]_allVars
    PROVE  SeenInv'
<1>1. scenario' = scenario /\ PlanInv'
  BY PlanMoves, PlanKept
<1>2. CASE UNCHANGED <<plan, seen>>
  BY <1>1, <1>2 DEF SeenInv, At, AllSeen, Visited
<1>3. ASSUME NEW n \in Node, Visit(n) PROVE SeenInv'
  <2>1. /\ UNCHANGED plan /\ seen' = seen \union {View(n)}
        /\ At("elect") \/ At("terms") \/ At("snapshots") \/ At("oracle")
    BY <1>3 DEF Visit
  <2>2. /\ \A call : At(call)' <=> At(call)
        /\ ~At("events")
    BY <2>1 DEF At
  <2>3. IsFiniteSet(seen')
    BY <2>1, FS_AddElement DEF SeenInv
  <2>4. View(n).node = n
    BY DEF View
  <2>5. At("terms") => View(n).term \in Term
    <3>1. At("terms") => ~At("elect")
      BY DEF At
    <3>2. At("terms") => View(n) = [node |-> n, term |-> term[n]]
      BY <3>1 DEF View
    <3> QED
      BY <3>2 DEF TypeOK, FieldsOK
  <2> HIDE DEF View
  <2>6. \A s \in seen' : s \in seen \/ s = View(n)
    BY <2>1
  <2>7. \A s \in seen' : s.node \in Node
    BY <2>4, <2>6 DEF SeenInv
  <2>8. At("terms")' => \A s \in seen' : s.term \in Term
    BY <2>2, <2>5, <2>6 DEF SeenInv
  <2> QED
    BY <2>1, <2>2, <2>3, <2>7, <2>8 DEF SeenInv
<1>4. CASE SnapshotsTaken
  <2>1. /\ At("snapshots") /\ AllSeen /\ plan # <<>> /\ plan' = Tail(plan) /\ seen' = seen
    BY <1>4 DEF SnapshotsTaken, At, Advance
  <2>2. At("events")' /\ scenario = "reorder_commit"
    <3>1. scenario = "reorder_commit" /\ Len(plan) > 1 /\ plan[2] = "events"
      BY <2>1, CallOrder DEF FollowedBy
    <3> QED
      BY <1>1, <2>1, <3>1, Advanced
  <2>3. ~At("terms")'
    BY <2>2 DEF At
  <2> QED
    BY <1>1, <2>1, <2>2, <2>3 DEF SeenInv, AllSeen, Visited
<1>5. CASE plan # <<>> /\ plan' = Tail(plan) /\ seen' = {} /\ ~SnapshotsTaken /\ ~At("snapshots")
  <2>1. At("events")' => scenario # "reorder_commit"
    BY <1>1, <1>5, Advanced, CallOrder DEF FollowedBy
  <2> QED
    BY <1>1, <1>5, <2>1, FS_EmptySet DEF SeenInv
<1>6. ASSUME seen' = {}, plan' = <<>> \/ (plan' = plan /\ ~At("events")) PROVE SeenInv'
  <2>1. ~At("events")'
    BY <1>6 DEF At
  <2> QED
    BY <1>6, <2>1, FS_EmptySet DEF SeenInv
<1>7. CASE Elected
  <2>1. plan # <<>> /\ plan' = Tail(plan) /\ seen' = {} /\ ~SnapshotsTaken /\ ~At("snapshots")
    BY <1>7 DEF Elected, SnapshotsTaken, At, Advance
  <2> QED
    BY <1>5, <2>1
<1>8. CASE PollAgain
  <2>1. seen' = {} /\ plan' = plan /\ ~At("events")
    BY <1>8 DEF PollAgain, At
  <2> QED
    BY <1>6, <2>1
<1>9. CASE GiveUp
  <2>1. /\ seen' = {} /\ plan # <<>> /\ ~SnapshotsTaken /\ ~At("snapshots")
        /\ plan' = Tail(plan) \/ plan' = <<>>
    BY <1>9 DEF GiveUp, SnapshotsTaken, At, Advance
  <2>2. CASE plan' = <<>>
    <3>1. seen' = {}
      BY <2>1
    <3> QED
      BY <1>6, <2>2, <3>1
  <2>3. CASE plan' = Tail(plan)
    BY <1>5, <2>1, <2>3
  <2> QED
    BY <2>1, <2>2, <2>3
<1>10. CASE NoteTerms \/ Conclude \/ Oracle
  <2>1. plan # <<>> /\ plan' = Tail(plan) /\ seen' = {} /\ ~SnapshotsTaken /\ ~At("snapshots")
    BY <1>10 DEF NoteTerms, Conclude, Oracle, SnapshotsTaken, At, Advance
  <2> QED
    BY <1>5, <2>1
<1>11. CASE Bump \/ Inject \/ TakeSnapshot \/ InjectFails \/ \E c \in Caller : ProposedAll(c)
  <2>1. /\ At("bump") \/ At("inject") \/ At("leader") \/ At("follower") \/ At("after")
           \/ At("propose")
        /\ seen' = seen /\ (plan' = Tail(plan) \/ plan' = <<>>)
    BY <1>11 DEF Bump, Inject, TakeSnapshot, InjectFails, ProposedAll, Advance
  <2>2. /\ plan # <<>> /\ ~At("elect") /\ ~At("terms") /\ ~At("snapshots") /\ ~At("events")
        /\ ~At("oracle") /\ ~SnapshotsTaken
    BY <2>1 DEF At, SnapshotsTaken
  <2>3. seen' = {}
    BY <2>1, <2>2 DEF SeenInv
  <2> QED
    BY <1>5, <1>6, <2>1, <2>2, <2>3
<1>12. ASSUME NEW c \in Caller, NEW d \in Data, CallPropose(c, d) PROVE UNCHANGED <<plan, seen>>
  BY <1>12 DEF CallPropose
<1>13. CASE Reading
  BY <1>3, <1>4, <1>7, <1>8, <1>9, <1>10, <1>11, <1>13 DEF Reading
<1> QED
  BY <1>2, <1>11, <1>12, <1>13, ScenarioSteps DEF driver, allVars

-----------------------------------------------------------------------------
\* Whatever the bugs.

\* What holds of a scenario with whatever bugs.
AnyBugs == TypeOK /\ VotesAccounted /\ PlanInv /\ DriverInv /\ SeenInv /\ ProposeInv /\ SplitInv

\* A scenario begins with its whole script before it, and no call has visited a node.
LEMMA ScenarioStarts == ASSUME ScenarioInit PROVE AnyBugs
<1>1. Init /\ Begin
  BY DEF ScenarioInit
<1>2. TypeOK /\ VotesAccounted
  BY <1>1, InitTypes, InitVotes
<1>3. scenario \in Names /\ plan = Script
  BY <1>1 DEF Begin, Script
<1>4. result \in ResultType /\ ~result.error /\ ~result.observed /\ result.won = {} /\ result.oracle = {}
  BY <1>1 DEF Begin, ResultType
<1>5. Script \in Seq(CallNames)
  BY <1>3, Scripts
<1>6. PlanInv
  <2>1. Made = 0
    BY <1>3, <1>5 DEF Made
  <2> QED
    BY <1>3, <1>4, <1>5, <2>1 DEF PlanInv
<1>7. Made = 0 /\ \A call : At(call) <=> 0 < Len(Script) /\ Script[1] = call
  BY <1>3, <1>5, <1>6, Positions DEF Made
<1>8. At("elect") \/ At("events")
  <2>1. Len(Script) > 0 /\ Script[1] \in {"elect", "events"}
    BY <1>3, Scripts
  <2> QED
    BY <1>7, <2>1
<1>9. note \in [max : Term, leader : SnapshotType, follower : SnapshotType,
                after : SnapshotType, reply : Reply]
  <2>1. 0 \in Term /\ NoReply \in Reply
    BY ZeroValues, BoundAssumption DEF Term
  <2>2. NoSnapshot \in SnapshotType
    BY <2>1 DEF NoSnapshot, SnapshotType, Role
  <2> QED
    BY <1>1, <2>1, <2>2 DEF Begin
<1>10. DriverInv
  BY <1>1, <1>4, <1>8, <1>9 DEF DriverInv, Begin
<1>11. seen = {}
  BY <1>1 DEF Begin
<1>12. At("events") => scenario # "reorder_commit"
  <2>1. scenario = "reorder_commit" => Script[1] = "elect"
    BY <1>3, Scripts
  <2> QED
    BY <1>7, <2>1
<1>13. SeenInv
  BY <1>11, <1>12, FS_EmptySet DEF SeenInv
<1>14. \A th \in Thread : task[th] = Idle
  BY <1>1 DEF Init
<1>15. ProposeInv
  BY <1>14, ThreadFacts DEF ProposeInv, Idle
<1>16. ASSUME scenario = "split_vote" PROVE ~Past("events")
  <2>1. Len(Script) = 3 /\ Script[2] = "events"
    BY <1>3, <1>16, Scripts
  <2>2. 2 \in 1..Len(Script)
    BY <2>1
  <2> QED
    BY <1>6, <1>7, <2>1, <2>2, Positions
<1>17. SplitInv
  <2>1. \A n \in Node : LET k == task[Round(n)] IN
          /\ k.active => k.req.type = "vote"
          /\ k.yes \subseteq {n} /\ k.reply = NoReply
    BY <1>14, ThreadFacts DEF Idle
  <2>2. \A th \in Thread : ~task[th].active
    BY <1>14 DEF Idle
  <2>3. leader = NoNode /\ won = {} /\ \A n \in Node : role[n] # "leader"
    BY <1>1 DEF Init, Begin
  <2> QED
    BY <1>11, <1>16, <2>1, <2>2, <2>3 DEF SplitInv
<1> QED
  BY <1>2, <1>6, <1>10, <1>13, <1>15, <1>17 DEF AnyBugs

\* No step of a scenario breaks that.
LEMMA AnyBugsKept == ASSUME AnyBugs, [ScenarioNext]_allVars PROVE AnyBugs'
  BY TypeKept, VotesHold, PlanKept, DriverKept, SeenKept, ProposeKept, SplitKept DEF AnyBugs

\* The hook of split_vote (runSplitVote), which drops every RequestVote, is enough for
\* the livelock: no node ever wins, and the scenario reports the bug.
THEOREM SplitVoteForGood == ScenarioSpec => []SplitVoteStays
<1>1. ScenarioInit => AnyBugs
  BY ScenarioStarts
<1>2. AnyBugs /\ [ScenarioNext]_allVars => AnyBugs'
  BY AnyBugsKept
<1>3. AnyBugs => SplitVoteStays
  <2>1. plan = <<>> => Past("events")
    BY DEF Past
  <2> QED
    BY <2>1 DEF AnyBugs, SplitInv, SplitVoteStays, Done, Over
<1> QED
  BY <1>1, <1>2, <1>3, PTL DEF ScenarioSpec

-----------------------------------------------------------------------------
\* Logs, in a cluster without bugs.

\* A request is accepted, and leaves its mark.
Accepted(p, m) ==
    /\ m.type = "append" /\ LogAccepts(log[p], m)
    /\ log' = [log EXCEPT ![p] = LogAfter(log[p], m)]
    /\ commitIndex' = [commitIndex EXCEPT ![p] =
          IF m.commit > commitIndex[p] THEN Least(m.commit, Len(LogAfter(log[p], m)))
          ELSE commitIndex[p]]

\* A handler accepts the entries of a request and says so, or leaves log and commit index.
LEMMA HandleLog ==
    ASSUME FieldsOK, Bugs = {}, NEW p \in Node, NEW m \in Request, Handle(p, m)
    PROVE  /\ Accepted(p, m) \/ UNCHANGED <<log, commitIndex>>
           /\ m.type = "append" /\ ReplyTo(p, m).success => Accepted(p, m)
           /\ m.type = "append" /\ ~LogAccepts(log[p], m) => ~ReplyTo(p, m).success
<1>1. CASE RejectStale(p, m)
  BY <1>1 DEF RejectStale, fields, StaleVote, StaleAppend, ReplyTo, AppendReply
<1>2. CASE HandleRequestVote(p, m)
  BY <1>2 DEF HandleRequestVote
<1>3. CASE HandleAppendEntries(p, m)
  <2>1. m.type = "append" /\ ReplyTo(p, m).success => LogAccepts(log[p], m)
    BY DEF ReplyTo, AppendReply
  <2>2. LogAccepts(log[p], m) => Accepted(p, m)
    BY <1>3 DEF HandleAppendEntries, Accepted
  <2>3. ~LogAccepts(log[p], m) => UNCHANGED <<log, commitIndex>>
    BY <1>3 DEF HandleAppendEntries
  <2> QED
    BY <2>1, <2>2, <2>3
<1> QED
  BY <1>1, <1>2, <1>3 DEF Handle

\* The injected request leaves log and commit index, and is refused if it is an append.
LEMMA ForgedHarmless ==
    ASSUME TypeOK, PlanInv, DriverInv, NoteInv, Bugs = {}, Inject
    PROVE  /\ UNCHANGED <<log, commitIndex>>
           /\ scenario = "log_truncation" => ~ReplyTo(Follower, Forged).success
<1>1. /\ At("inject") /\ Forged.term <= MaxTerm /\ Handle(Follower, Forged)
      /\ FieldsOK /\ Follower \in Node /\ log[Follower] \in Seq(Entry)
  BY Picks DEF Inject, TypeOK, FieldsOK
<1>2. /\ Forged \in Request
      /\ scenario = "log_truncation" =>
            Forged.type = "append" /\ Forged.prevIndex = Len(note.follower.log) + 4
      /\ scenario # "log_truncation" => Forged.type = "vote"
  BY <1>1, ForgedType
<1>3. scenario = "log_truncation" => note.follower.log = log[Follower]
  <2>1. ~result.error /\ (scenario = "log_truncation" => Past("follower"))
    BY <1>1, CallOrder DEF PlanInv, At, PastWhen
  <2> QED
    BY <2>1 DEF NoteInv
<1>4. scenario = "log_truncation" => ~LogAccepts(log[Follower], Forged)
  BY <1>1, <1>2, <1>3 DEF LogAccepts, PrevMatches
<1>5. ~Accepted(Follower, Forged)
  BY <1>2, <1>4 DEF Accepted
<1> QED
  BY <1>1, <1>2, <1>4, <1>5, HandleLog

\* What a step does to logs and commit indices.
LEMMA LogMoves ==
    ASSUME TypeOK, PlanInv, DriverInv, NoteInv, Bugs = {}, [ScenarioNext]_allVars
    PROVE  \/ UNCHANGED <<log, commitIndex>>
           \/ log' = log /\ \E n \in Node, c \in Caller : EndPropose(n, c)
           \/ /\ commitIndex' = commitIndex
              /\ \E c \in Caller, d \in Data : CallPropose(c, d) /\ Propose(leader, c, d)
           \/ \E th \in Thread : Answers(th) /\ Accepted(Target(th), task[th].req)
<1>1. ASSUME NEW th \in Thread, Reach(th)
      PROVE  UNCHANGED <<log, commitIndex>> \/ (Answers(th) /\ Accepted(Target(th), task[th].req))
  <2>1. /\ Sending(th) /\ Handle(Target(th), task[th].req)
        /\ task' = [task EXCEPT ![th].todo = Tail(@), ![th].reply = ReplyTo(Target(th), task[th].req)]
    BY <1>1 DEF Reach, Deliver
  <2>2. /\ Target(th) \in Node /\ task[th].req \in Request /\ FieldsOK
        /\ task \in [Thread -> Task]
    BY <2>1 DEF Sending, Target, TypeOK, Task
  <2>3. task'[th] = [task[th] EXCEPT !.todo = Tail(@), !.reply = ReplyTo(Target(th), task[th].req)]
    BY <2>1, <2>2
  <2>4. Answers(th)
    BY <1>1, <2>1, <2>2, <2>3 DEF Answers
  <2> QED
    BY <2>1, <2>2, <2>4, HandleLog
<1>2. \A th \in Thread : Lose(th) \/ Return(th) => UNCHANGED <<log, commitIndex>>
  BY DEF Lose, Return, fields
<1>3. \A n \in Node : EndRound(n) \/ StartElection(n) => UNCHANGED <<log, commitIndex>>
  BY DEF EndRound, StartElection
<1>4. \A n \in Node, t \in Term : Tick(n, t) => UNCHANGED <<log, commitIndex>>
  BY DEF Tick, fields
<1>5. \A n \in Node, c \in Caller : EndPropose(n, c) => log' = log
  BY DEF EndPropose
<1>6. \A c \in Caller, d \in Data : CallPropose(c, d) =>
         UNCHANGED <<log, commitIndex>> \/ (Propose(leader, c, d) /\ commitIndex' = commitIndex)
  BY DEF CallPropose, Propose, vars
<1>7. Inject => UNCHANGED <<log, commitIndex>>
  BY ForgedHarmless
<1>8. Bump \/ Reading \/ UNCHANGED allVars => UNCHANGED <<log, commitIndex>>
  BY ReadingKeeps DEF Bump, BumpTerm, vars, allVars
<1> QED
  BY <1>1, <1>2, <1>3, <1>4, <1>5, <1>6, <1>7, <1>8, NodeSteps, ScenarioSteps

\* A log that a leader's extends accepts only an entry of that leader's, and keeps up.
LEMMA StoresCarried ==
    ASSUME NEW l \in Seq(Entry), NEW k \in Seq(Entry), Extends(l, k), NEW m \in Request,
           Bugs = {}, LogAccepts(l, m),
           m.entries # <<>> =>
              /\ m.prevIndex = m.entries[1].index - 1
              /\ m.entries[1].index \in DOMAIN k /\ k[m.entries[1].index] = m.entries[1]
    PROVE  /\ LogAfter(l, m) \in Seq(Entry) /\ Extends(l, LogAfter(l, m)) /\ Extends(LogAfter(l, m), k)
           /\ m.entries = <<>> => LogAfter(l, m) = l
           /\ m.entries # <<>> => Len(LogAfter(l, m)) >= m.entries[1].index
<1>1. CASE m.entries = <<>>
  BY <1>1 DEF LogAfter, Extends
<1>2. CASE m.entries # <<>>
  <2> DEFINE e == m.entries[1]
  <2>1. /\ e.index \in 1..Len(k) /\ k[e.index] = e /\ e \in Entry
        /\ e.index <= Len(l) + 1 /\ LogAfter(l, m) = Store(l, e)
    BY <1>2 DEF LogAccepts, Gap, LogAfter
  <2>2. CASE e.index = Len(l) + 1
    <3>1. LogAfter(l, m) = Append(l, e)
      BY <2>1, <2>2 DEF Store
    <3> HIDE DEF e
    <3>2. /\ Append(l, e) \in Seq(Entry) /\ Len(Append(l, e)) = Len(l) + 1
          /\ \A i \in 1..Len(l) : Append(l, e)[i] = l[i]
          /\ Append(l, e)[Len(l) + 1] = e
      BY <2>1
    <3>3. Extends(l, Append(l, e)) /\ Extends(Append(l, e), k)
      BY <2>1, <2>2, <3>2 DEF Extends
    <3>4. Len(Append(l, e)) >= e.index
      BY <2>2, <3>2
    <3> QED
      BY <1>2, <3>1, <3>2, <3>3, <3>4 DEF e
  <2>3. CASE e.index # Len(l) + 1
    <3>1. e.index \in DOMAIN l /\ e.index # 0 /\ ~(e.index > Len(l)) /\ l[e.index] = e
      BY <2>1, <2>3 DEF Extends
    <3>2. LogAfter(l, m) = l
      BY <2>1, <3>1 DEF Store, SameEntry
    <3> QED
      BY <1>2, <2>1, <3>1, <3>2 DEF Extends
  <2> QED
    BY <2>2, <2>3
<1> QED
  BY <1>1, <1>2

\* Logs only grow, the leader's before the others', and only while it proposes.
LEMMA LogsGrow ==
    ASSUME TypeOK, PlanInv, DriverInv, SeenInv, NoteInv, ProposeInv, LogsInv, TermInv,
           Bugs = {}, [ScenarioNext]_allVars
    PROVE  /\ \A n \in Node : Extends(log[n], log'[n]) /\ Extends(log'[n], Main')
           /\ Extends(Main, Main')
           /\ \A i \in DOMAIN Main' : Main'[i].index = i /\ Main'[i].term > 0
           /\ log' # log => At("propose")
<1> DEFINE Goal == /\ \A n \in Node : Extends(log[n], log'[n]) /\ Extends(log'[n], Main')
                   /\ Extends(Main, Main')
                   /\ \A i \in DOMAIN Main' : Main'[i].index = i /\ Main'[i].term > 0
                   /\ log' # log => At("propose")
<1>1. /\ log \in [Node -> Seq(Entry)] /\ leader \in Node \union {NoNode}
      /\ Main \in Seq(Entry) /\ FieldsOK /\ task \in [Thread -> Task]
      /\ leader' \in Node \union {NoNode}
  <2>1. log \in [Node -> Seq(Entry)] /\ FieldsOK /\ task \in [Thread -> Task]
    BY DEF TypeOK, FieldsOK
  <2>2. leader \in Node \union {NoNode}
    BY DEF DriverInv
  <2>3. leader' \in Node \union {NoNode}
    BY DriverKept DEF DriverInv
  <2>4. Main \in Seq(Entry)
    BY <2>1, <2>2 DEF Main
  <2> QED
    BY <2>1, <2>2, <2>3, <2>4
<1>2. /\ \A n \in Node : Extends(log[n], Main)
      /\ \A i \in DOMAIN Main : Main[i].index = i /\ Main[i].term > 0
      /\ \A th \in Thread : task[th].req.entries # <<>> => th \in Proposals /\ Carries(task[th].req)
  BY DEF LogsInv
<1>3. \A l \in Seq(Entry) : Extends(l, l)
  BY DEF Extends
<1>4. CASE log' = log
  <2>1. Main' = Main
    <3>1. CASE leader' = leader
      BY <1>4, <3>1 DEF Main
    <3>2. CASE Elected
      <4>1. leader = NoNode
        BY <3>2 DEF Elected, DriverInv
      <4>2. Main = <<>>
        BY <4>1 DEF Main
      <4>3. ASSUME NEW n \in Node PROVE log[n] = <<>>
        <5>1. log[n] \in Seq(Entry) /\ Extends(log[n], <<>>)
          BY <1>1, <1>2, <4>2
        <5>2. Len(log[n]) = 0
          BY <5>1 DEF Extends
        <5> QED
          BY <5>1, <5>2
      <4>4. Main' = <<>>
        BY <1>1, <1>4, <4>3 DEF Main
      <4> QED
        BY <4>2, <4>4
    <3> QED
      BY <3>1, <3>2, DriverMoves
  <2> QED
    BY <1>1, <1>2, <1>3, <1>4, <2>1
<1>5. leader' = leader \/ log' = log
  <2>1. Elected => log' = log
    BY DEF Elected, vars
  <2> QED
    BY <2>1, DriverMoves
<1>6. ASSUME NEW c \in Caller, NEW d \in Data, CallPropose(c, d), Propose(leader, c, d), leader' = leader
      PROVE  Goal
  <2> DEFINE e == [index |-> Len(log[leader]) + 1, term |-> term[leader], data |-> d]
  <2>1. /\ At("propose") /\ leader \in Node /\ Main = log[leader] /\ leader # NoNode
        /\ log' = [log EXCEPT ![leader] = Append(Main, e)] /\ role[leader] = "leader"
    <3>1. At("propose") /\ leader \in Node
      BY <1>6 DEF CallPropose, DriverInv, At
    <3> QED
      BY <1>6, <3>1, NodeAssumption DEF Propose, Main
  <2>2. e.index = Len(Main) + 1 /\ e.term > 0
    BY <2>1 DEF TermInv
  <2> HIDE DEF e
  <2>3. /\ Append(Main, e) \in Seq(Entry \union {e}) /\ Len(Append(Main, e)) = Len(Main) + 1
        /\ \A i \in 1..Len(Main) : Append(Main, e)[i] = Main[i]
        /\ Append(Main, e)[Len(Main) + 1] = e
    BY <1>1
  <2>4. Main' = Append(Main, e)
    BY <1>1, <1>6, <2>1 DEF Main
  <2>5. Extends(Main, Main') /\ Extends(Main', Main')
    BY <1>1, <2>3, <2>4 DEF Extends
  <2>6. \A i \in DOMAIN Main' : Main'[i].index = i /\ Main'[i].term > 0
    BY <1>1, <1>2, <2>2, <2>3, <2>4
  <2>7. ASSUME NEW n \in Node PROVE Extends(log[n], log'[n]) /\ Extends(log'[n], Main')
    <3>1. CASE n = leader
      BY <1>1, <2>1, <2>4, <2>5, <3>1
    <3>2. CASE n # leader
      <4>1. log'[n] = log[n] /\ log[n] \in Seq(Entry) /\ Extends(log[n], Main)
        BY <1>1, <1>2, <2>1, <3>2
      <4>2. Extends(log[n], Main')
        BY <1>1, <2>3, <2>4, <4>1 DEF Extends
      <4> QED
        BY <1>3, <4>1, <4>2
    <3> QED
      BY <3>1, <3>2
  <2> QED
    BY <2>1, <2>5, <2>6, <2>7
<1>7. ASSUME NEW th \in Thread, Answers(th), Accepted(Target(th), task[th].req), leader' = leader
      PROVE  Goal
  <2> DEFINE p == Target(th)
             m == task[th].req
  <2>1. /\ p \in Node /\ m \in Request /\ task[th].active /\ LogAccepts(log[p], m)
        /\ log' = [log EXCEPT ![p] = LogAfter(log[p], m)]
    BY <1>1, <1>7 DEF Answers, Sending, Accepted, Task
  <2>2. m.entries # <<>> => /\ th \in Proposals
                            /\ m.prevIndex = m.entries[1].index - 1
                            /\ m.entries[1].index \in DOMAIN Main
                            /\ Main[m.entries[1].index] = m.entries[1]
    BY <1>2 DEF Carries
  <2> HIDE DEF p, m
  <2>3. /\ log[p] \in Seq(Entry) /\ Extends(log[p], Main) /\ log'[p] = LogAfter(log[p], m)
        /\ LogAfter(log[p], m) \in Seq(Entry)
        /\ Extends(log[p], log'[p]) /\ Extends(log'[p], Main)
        /\ m.entries = <<>> => log'[p] = log[p]
    BY <1>1, <1>2, <2>1, <2>2, StoresCarried
  <2>4. ASSUME NEW n \in Node PROVE Extends(log[n], log'[n]) /\ Extends(log'[n], Main)
    <3>1. n # p => log'[n] = log[n]
      BY <1>1, <2>1
    <3> QED
      BY <1>1, <1>2, <1>3, <2>3, <3>1
  <2>5. Main' = Main
    <3>1. CASE leader = NoNode
      BY <1>7, <3>1 DEF Main
    <3>2. CASE leader \in Node
      <4>1. Main = log[leader] /\ Main' = log'[leader]
        BY <1>7, <3>2, NodeAssumption DEF Main
      <4>2. leader # p => log'[leader] = log[leader]
        BY <1>1, <2>1
      <4>3. CASE leader = p
        <5>1. /\ Extends(Main, Main') /\ Extends(Main', Main)
              /\ Main \in Seq(Entry) /\ Main' \in Seq(Entry)
          BY <1>1, <2>3, <4>1, <4>3
        <5>2. Len(Main) = Len(Main') /\ \A i \in 1..Len(Main) : Main'[i] = Main[i]
          BY <5>1 DEF Extends
        <5>3. /\ Main = [i \in 1..Len(Main) |-> Main[i]]
              /\ Main' = [i \in 1..Len(Main') |-> Main'[i]]
          BY <5>1
        <5> QED
          BY <5>2, <5>3, Zenon
      <4> QED
        BY <4>1, <4>2, <4>3
    <3> QED
      BY <1>1, <3>1, <3>2
  <2>6. log' # log => At("propose")
    <3>1. log' # log => m.entries # <<>>
      <4>1. m.entries = <<>> => log' = [log EXCEPT ![p] = log[p]]
        BY <2>1, <2>3
      <4> QED
        BY <1>1, <4>1
    <3>2. th \in Proposals => At("propose")
      BY <2>1 DEF ProposeInv, Proposals
    <3> QED
      BY <2>2, <3>1, <3>2
  <2> QED
    BY <1>1, <1>2, <1>3, <2>4, <2>5, <2>6
<1> HIDE DEF Goal
<1>8. Goal
  BY <1>4, <1>5, <1>6, <1>7, LogMoves DEF Goal
<1> QED
  BY <1>8 DEF Goal

\* Requests carry entries of the leader's log.
LEMMA LogsKept ==
    ASSUME TypeOK, PlanInv, DriverInv, SeenInv, NoteInv, ProposeInv, LogsInv, TermInv,
           Bugs = {}, [ScenarioNext]_allVars
    PROVE  LogsInv'
<1>1. /\ \A n \in Node : Extends(log'[n], Main')
      /\ Extends(Main, Main') /\ Main \in Seq(Entry) /\ Main' \in Seq(Entry)
      /\ \A i \in DOMAIN Main' : Main'[i].index = i /\ Main'[i].term > 0
  <2>1. Main \in Seq(Entry)
    BY DEF TypeOK, FieldsOK, DriverInv, Main
  <2>2. Main' \in Seq(Entry)
    <3>1. TypeOK' /\ DriverInv'
      BY TypeKept, DriverKept
    <3>2. log' \in [Node -> Seq(Entry)] /\ leader' \in Node \union {NoNode}
      BY <3>1 DEF TypeOK, FieldsOK, DriverInv
    <3> QED
      BY <3>2 DEF Main
  <2> QED
    BY <2>1, <2>2, LogsGrow
<1>2. ASSUME NEW th \in Thread, task'[th].req.entries # <<>>
      PROVE  th \in Proposals /\ Carries(task[th].req)'
  <2>0. task[th] \in Task
    BY DEF TypeOK
  <2>1. CASE task'[th].req = task[th].req
    <3>1. th \in Proposals /\ Carries(task[th].req)
      BY <1>2, <2>1 DEF LogsInv
    <3> DEFINE e == task[th].req.entries[1]
    <3>2. /\ task[th].req.type = "append" /\ task[th].req.prevIndex = e.index - 1
          /\ e.index \in DOMAIN Main /\ Main[e.index] = e
      BY <3>1 DEF Carries
    <3> HIDE DEF e
    <3>3. e.index \in DOMAIN Main' /\ Main'[e.index] = e
      BY <1>1, <3>2 DEF Extends
    <3> QED
      BY <2>1, <3>1, <3>2, <3>3 DEF Carries, e
  <2>2. CASE task'[th] = task[th] \/ Answers(th) \/ Skips(th) \/ Reads(th)
    <3>1. task'[th].req = task[th].req
      <4>1. Answers(th) => task'[th].req = task[th].req
        BY <2>0 DEF Answers, Task
      <4>2. Skips(th) => task'[th].req = task[th].req
        BY <2>0 DEF Skips, Task
      <4>3. Reads(th) => task'[th].req = task[th].req
        BY <2>0 DEF Reads, Task
      <4> QED
        BY <2>2, <4>1, <4>2, <4>3
    <3> QED
      BY <2>1, <3>1
  <2>3. CASE BeginsProposal(th)
    <3>1. PICK c \in Caller, d \in Data :
            th = Proposal(leader, c) /\ CallPropose(c, d) /\ Propose(leader, c, d)
      BY <2>3 DEF BeginsProposal
    <3>2. leader \in Node /\ leader' = leader /\ leader # NoNode /\ th \in Proposals
      <4>1. leader \in Node /\ leader' = leader
        BY <3>1 DEF CallPropose, DriverInv, At
      <4> QED
        BY <3>1, <4>1, NodeAssumption DEF Proposals
    <3> DEFINE l == log[leader]
               e == [index |-> Len(l) + 1, term |-> term[leader], data |-> d]
               m == [NoRequest EXCEPT !.type = "append", !.from = leader, !.term = term[leader],
                       !.prevIndex = Len(l), !.prevTerm = IF l = <<>> THEN 0 ELSE l[Len(l)].term,
                       !.entries = <<e>>, !.commit = commitIndex[leader]]
    <3>3. /\ task' = [task EXCEPT ![th] = Start(th, m, {leader})]
          /\ log' = [log EXCEPT ![leader] = Append(l, e)]
      BY <3>1 DEF Propose
    <3>4. /\ task'[th].req = m /\ Main' = Append(l, e) /\ l \in Seq(Entry)
      BY <3>2, <3>3 DEF TypeOK, FieldsOK, Start, Main
    <3>5. m.type = "append" /\ m.prevIndex = Len(l) /\ m.entries = <<e>> /\ e.index = Len(l) + 1
      BY DEF NoRequest
    <3> HIDE DEF m, e
    <3>6. m.entries[1] = e
      BY <3>5
    <3> HIDE DEF l
    <3>7. e.index \in DOMAIN Append(l, e) /\ Append(l, e)[e.index] = e /\ Len(l) = e.index - 1
      BY <3>4, <3>5
    <3> QED
      BY <3>2, <3>4, <3>5, <3>6, <3>7 DEF Carries
  <2>4. ~BeginsRound(th)
    BY <1>2, RoundRequest
  <2>5. ~BeginsBeat(th)
    BY <1>2 DEF BeginsBeat, Heartbeat, NoRequest
  <2>6. task'[th] # Idle
    BY <1>2 DEF Idle, NoRequest
  <2> QED
    BY <2>2, <2>3, <2>4, <2>5, <2>6, TaskMoves
<1> QED
  BY <1>1, <1>2 DEF LogsInv

-----------------------------------------------------------------------------
\* Terms.

\* No step of a scenario lowers a term.
LEMMA TermsGrow ==
    ASSUME TypeOK, PlanInv, DriverInv, [ScenarioNext]_allVars
    PROVE  \A n \in Node : term'[n] >= term[n] /\ term[n] \in Nat /\ term'[n] \in Nat
<1>1. TypeOK'
  BY TypeKept
<1>2. \A n \in Node : term[n] \in Nat /\ term'[n] \in Nat
  BY <1>1, TermsNatural DEF TypeOK, FieldsOK
<1>3. CASE Inject
  <2>1. At("inject") /\ Forged.term <= MaxTerm /\ Handle(Follower, Forged) /\ FieldsOK
    BY <1>3 DEF Inject, TypeOK
  <2> QED
    BY <1>2, <2>1, ForgedType, HandleTerm, Picks
<1> QED
  BY <1>2, <1>3, IsStep, StepTerm

\* A node's round is active after a step because it has just begun, or as it was before.
LEMMA RoundStays ==
    ASSUME TypeOK, PlanInv, DriverInv, [ScenarioNext]_allVars,
           NEW th \in Thread, task'[th].active
    PROVE  \/ task[th].active /\ task'[th].req = task[th].req
           \/ BeginsRound(th) \/ BeginsBeat(th) \/ BeginsProposal(th)
<1>1. task[th] \in Task
  BY DEF TypeOK
<1>2. Answers(th) => task[th].active /\ task'[th].req = task[th].req
  BY <1>1 DEF Answers, Sending, Task
<1>3. Skips(th) => task[th].active /\ task'[th].req = task[th].req
  BY <1>1 DEF Skips, Sending, Task
<1>4. Reads(th) => task[th].active /\ task'[th].req = task[th].req
  BY <1>1 DEF Reads, Task
<1>5. task'[th] # Idle
  BY DEF Idle
<1> QED
  BY <1>2, <1>3, <1>4, <1>5, TaskMoves

\* A node that leads or runs a round is past term 0, ...
LEMMA TermKept ==
    ASSUME TypeOK, PlanInv, DriverInv, TermInv, [ScenarioNext]_allVars
    PROVE  TermInv'
<1> SUFFICES ASSUME NEW n \in Node, role'[n] = "leader" \/ task'[Round(n)].active
             PROVE  term'[n] > 0
  BY DEF TermInv
<1>1. term'[n] >= term[n] /\ term[n] \in Nat /\ term'[n] \in Nat
  BY TermsGrow
<1>2. Round(n) \in Thread /\ \A m \in Node : Round(m) = Round(n) => m = n
  BY ThreadFacts
<1>3. CASE role'[n] = "leader"
  BY <1>1, <1>3, LeadsMoves DEF TermInv, EndRound, LoopDone
<1>4. CASE task'[Round(n)].active
  <2>1. task[Round(n)].active \/ BeginsRound(Round(n))
    BY <1>2, <1>4, RoundStays, BeginsKind DEF Rounds
  <2>2. CASE BeginsRound(Round(n))
    <3>1. StartElection(n)
      BY <1>2, <2>2, RoundRequest
    <3>2. term' = [term EXCEPT ![n] = term[n] + 1] /\ term \in [Node -> Term]
      BY <3>1 DEF StartElection, TypeOK, FieldsOK
    <3> QED
      BY <1>1, <3>2
  <2> QED
    BY <1>1, <2>1, <2>2 DEF TermInv
<1> QED
  BY <1>3, <1>4

\* ... and does not do both, nor send a request of a term it has not reached.
LEMMA RoundKept ==
    ASSUME TypeOK, PlanInv, DriverInv, RoundInv, [ScenarioNext]_allVars
    PROVE  RoundInv'
<1>1. ASSUME NEW n \in Node, task'[Round(n)].active PROVE role'[n] # "leader"
  <2> SUFFICES ASSUME role'[n] = "leader" PROVE FALSE
    OBVIOUS
  <2>1. Round(n) \in Thread /\ \A m \in Node : Round(m) = Round(n) => m = n
    BY ThreadFacts
  <2>2. CASE BeginsRound(Round(n))
    <3>1. StartElection(n)
      BY <2>1, <2>2, RoundRequest
    <3>2. role' = [role EXCEPT ![n] = "candidate"] /\ role \in [Node -> Role]
      BY <3>1 DEF StartElection, TypeOK, FieldsOK
    <3> QED
      BY <3>2
  <2>3. CASE task[Round(n)].active /\ ~BeginsRound(Round(n))
    <3>1. role[n] # "leader" /\ EndRound(n)
      BY <2>3, LeadsMoves DEF RoundInv
    <3>2. task'[Round(n)] = Idle
      <4> DEFINE t == task[Round(n)].req.term
                 b == [Idle EXCEPT !.active = TRUE, !.req = Heartbeat(n, t)]
      <4>1. t \in Term /\ task \in [Thread -> Task]
        BY <2>1 DEF TypeOK, Task, Request
      <4>2. Beat(n, t) # Round(n)
        BY <4>1, ThreadFacts
      <4>3. \/ task' = [task EXCEPT ![Round(n)] = Idle, ![Beat(n, t)] = b]
            \/ task' = [task EXCEPT ![Round(n)] = Idle]
        BY <3>1 DEF EndRound
      <4> HIDE DEF t, b
      <4> QED
        BY <2>1, <4>1, <4>2, <4>3
    <3> QED
      BY <1>1, <3>2 DEF Idle
  <2> QED
    BY <1>1, <2>1, <2>2, <2>3, RoundStays, BeginsKind DEF Rounds
<1>2. ASSUME NEW th \in Thread, task'[th].active PROVE task'[th].req.term <= term'[th.node]
  <2>1. /\ th.node \in Node /\ term \in [Node -> Term] /\ task[th] \in Task
        /\ task[th].req.term \in Nat
        /\ \A n \in Node : term'[n] >= term[n] /\ term[n] \in Nat /\ term'[n] \in Nat
    BY ThreadFacts, TermsGrow, TermsNatural DEF TypeOK, FieldsOK, Task, Request
  <2>2. CASE task[th].active /\ task'[th].req = task[th].req
    BY <2>1, <2>2 DEF RoundInv
  <2>3. CASE BeginsRound(th)
    <3>1. PICK n \in Node : th = Round(n) /\ StartElection(n) /\ task'[th].req.term = term[n] + 1
      BY <2>3, RoundRequest
    <3>2. term'[n] = term[n] + 1 /\ th.node = n
      BY <2>1, <3>1, ThreadFacts DEF StartElection
    <3> QED
      BY <2>1, <3>1, <3>2
  <2>4. CASE BeginsBeat(th)
    <3>1. PICK n \in Node, t \in Term :
            /\ th = Beat(n, t) /\ UNCHANGED term /\ task'[th].req = Heartbeat(n, t)
            /\ term[n] = t \/ (task[Round(n)].active /\ task[Round(n)].req.term = t)
      BY <2>4 DEF BeginsBeat
    <3>2. th.node = n /\ Round(n) \in Thread /\ Round(n).node = n /\ t \in Nat
      BY <3>1, ThreadFacts, TermsNatural
    <3>3. Heartbeat(n, t).term = t
      BY DEF Heartbeat, NoRequest
    <3>4. t <= term[n]
      BY <2>1, <3>1, <3>2 DEF RoundInv
    <3> QED
      BY <3>1, <3>2, <3>3, <3>4
  <2>5. CASE BeginsProposal(th)
    <3>1. PICK c \in Caller, d \in Data : th = Proposal(leader, c) /\ CallPropose(c, d) /\ Propose(leader, c, d)
      BY <2>5 DEF BeginsProposal
    <3>2. leader \in Node /\ th.node = leader
      <4>1. leader \in Node
        BY <3>1 DEF CallPropose, DriverInv, At
      <4> QED
        BY <3>1, <4>1, ThreadFacts
    <3>3. task'[th].req.term = term[leader] /\ term' = term
      <4> DEFINE l == log[leader]
                 e == [index |-> Len(l) + 1, term |-> term[leader], data |-> d]
                 m == [NoRequest EXCEPT !.type = "append", !.from = leader, !.term = term[leader],
                         !.prevIndex = Len(l), !.prevTerm = IF l = <<>> THEN 0 ELSE l[Len(l)].term,
                         !.entries = <<e>>, !.commit = commitIndex[leader]]
      <4>1. task' = [task EXCEPT ![th] = Start(th, m, {leader})] /\ term' = term
        BY <3>1 DEF Propose
      <4>2. m.term = term[leader]
        BY DEF NoRequest
      <4> HIDE DEF m
      <4>3. task'[th] = Start(th, m, {leader})
        BY <4>1 DEF TypeOK
      <4> QED
        BY <4>1, <4>2, <4>3 DEF Start
    <3> QED
      BY <2>1, <3>2, <3>3
  <2> QED
    BY <1>2, <2>2, <2>3, <2>4, <2>5, RoundStays
<1> QED
  BY <1>1, <1>2 DEF RoundInv

-----------------------------------------------------------------------------
\* Commit indices, in a cluster without bugs.

\* The proposal that begins.
LEMMA ProposalRequest ==
    ASSUME TypeOK, DriverInv, NEW th, BeginsProposal(th)
    PROVE  /\ leader \in Node /\ th \in Proposals /\ th.node = leader /\ At("propose")
           /\ role[leader] = "leader" /\ leader' = leader
           /\ UNCHANGED <<role, term, commitIndex>>
           /\ Len(log'[leader]) = Len(log[leader]) + 1
           /\ task'[th].req.entries[1].index = Len(log[leader]) + 1
           /\ task'[th].req.commit = commitIndex[leader]
           /\ task'[th].active /\ task'[th].yes = {leader} /\ task'[th].reply = NoReply
           /\ task'[th].todo = Order[leader]
<1>1. PICK c \in Caller, d \in Data :
        th = Proposal(leader, c) /\ CallPropose(c, d) /\ Propose(leader, c, d)
  BY DEF BeginsProposal
<1>2. leader \in Node /\ At("propose") /\ leader' = leader
  BY <1>1 DEF CallPropose, DriverInv, At
<1>3. th \in Proposals /\ th.node = leader /\ th \in Thread
  BY <1>1, <1>2, ThreadFacts
<1> DEFINE l == log[leader]
           e == [index |-> Len(l) + 1, term |-> term[leader], data |-> d]
           m == [NoRequest EXCEPT !.type = "append", !.from = leader, !.term = term[leader],
                   !.prevIndex = Len(l), !.prevTerm = IF l = <<>> THEN 0 ELSE l[Len(l)].term,
                   !.entries = <<e>>, !.commit = commitIndex[leader]]
<1>4. /\ task' = [task EXCEPT ![th] = Start(th, m, {leader})]
      /\ log' = [log EXCEPT ![leader] = Append(l, e)]
      /\ role[leader] = "leader" /\ UNCHANGED <<role, term, commitIndex>>
  BY <1>1 DEF Propose
<1>5. m.entries = <<e>> /\ e.index = Len(l) + 1 /\ m.commit = commitIndex[leader]
  BY DEF NoRequest
<1> HIDE DEF m, e
<1>6. m.entries[1] = e
  BY <1>5
<1>7. task'[th] = Start(th, m, {leader}) /\ log'[leader] = Append(l, e) /\ l \in Seq(Entry)
  BY <1>2, <1>3, <1>4 DEF TypeOK, FieldsOK
<1>8. Len(log'[leader]) = Len(log[leader]) + 1
  BY <1>7
<1>9. /\ task'[th].req = m /\ task'[th].active /\ task'[th].yes = {leader}
      /\ task'[th].reply = NoReply /\ task'[th].todo = Order[leader]
  BY <1>3, <1>7 DEF Start
<1> QED
  BY <1>2, <1>3, <1>4, <1>5, <1>6, <1>8, <1>9

\* What a majority of logs has reached stays so, and so has any lesser index.
LEMMA SpreadKept ==
    ASSUME TypeOK, TypeOK', \A n \in Node : Extends(log[n], log'[n])
    PROVE  /\ \A k \in Nat : Holders(log, k) \subseteq Holders(log', k)
           /\ \A k \in Nat : Spread(log, k) => Spread(log', k)
           /\ \A j, k \in Nat : j <= k /\ Spread(log, k) => Spread(log, j)
<1>1. \A n \in Node : log[n] \in Seq(Entry) /\ log'[n] \in Seq(Entry)
  BY DEF TypeOK, FieldsOK
<1>2. \A n \in Node : Len(log[n]) \in Nat /\ Len(log'[n]) \in Nat /\ Len(log[n]) <= Len(log'[n])
  BY <1>1 DEF Extends
<1>3. \A k \in Nat : Holders(log, k) \subseteq Holders(log', k)
  BY <1>2 DEF Holders
<1>4. \A j, k \in Nat : j <= k => Holders(log, k) \subseteq Holders(log, j)
  BY <1>2 DEF Holders
<1>5. \A k : Holders(log, k) \in SUBSET Node /\ Holders(log', k) \in SUBSET Node
  BY DEF Holders
<1>6. ASSUME NEW k \in Nat, Spread(log, k) PROVE Spread(log', k)
  <2>1. \A S, T \in SUBSET Node : IsMajority(S) /\ S \subseteq T => IsMajority(T)
    BY Majorities
  <2> QED
    BY <1>3, <1>5, <1>6, <2>1 DEF Spread
<1>7. ASSUME NEW j \in Nat, NEW k \in Nat, j <= k, Spread(log, k) PROVE Spread(log, j)
  <2>1. k = 0 => j = 0
    BY <1>7
  <2> QED
    BY <1>4, <1>5, <1>7, <2>1, Majorities DEF Spread
<1> QED
  BY <1>3, <1>6, <1>7

\* A handled proposal that succeeds is in the log.
LEMMA SuccessStored ==
    ASSUME TypeOK, TypeOK', DriverInv, LogsInv, Bugs = {}, NEW th \in Proposals, NEW k, Answers(th),
           k = task[th].req.entries[1].index, ReplyTo(Target(th), task[th].req).success
    PROVE  /\ ReplyTo(Target(th), task[th].req).from = Target(th)
           /\ Target(th) \in Holders(log', k)
<1> DEFINE p == Target(th)
           m == task[th].req
<1>1. /\ th \in Thread /\ p \in Node /\ m \in Request /\ FieldsOK /\ Handle(p, m)
      /\ task[th].active /\ log \in [Node -> Seq(Entry)]
  BY DEF Answers, Sending, Thread, TypeOK, Task, FieldsOK
<1>2. m.from \in Node /\ m.entries # <<>>
  BY <1>1 DEF TypeOK, TasksOK
<1>3. /\ m.type = "append" /\ m.prevIndex = m.entries[1].index - 1
      /\ m.entries[1].index \in DOMAIN Main /\ Main[m.entries[1].index] = m.entries[1]
  BY <1>1, <1>2 DEF LogsInv, Carries
<1>4. Main \in Seq(Entry) /\ Extends(log[p], Main)
  <2>1. Main \in Seq(Entry)
    BY <1>1 DEF Main, DriverInv
  <2>2. \A n \in Node : Extends(log[n], Main)
    BY DEF LogsInv
  <2> QED
    BY <1>1, <2>1, <2>2
<1>5. Accepted(p, m) /\ ReplyTo(p, m).from = p
  BY <1>1, <1>2, <1>3, HandleLog, HandleType
<1> HIDE DEF m, p
<1>6. LogAccepts(log[p], m) /\ log'[p] = LogAfter(log[p], m) /\ log[p] \in Seq(Entry)
  BY <1>1, <1>5 DEF Accepted
<1>7. Len(log'[p]) >= m.entries[1].index
  BY <1>1, <1>2, <1>3, <1>4, <1>6, StoresCarried
<1> QED
  BY <1>1, <1>5, <1>7 DEF Holders, m, p

\* Every commit index is one that the logs of a majority have reached.
LEMMA CommitKept ==
    ASSUME TypeOK, PlanInv, DriverInv, SeenInv, NoteInv, ProposeInv, LogsInv, TermInv, CommitInv,
           Bugs = {}, [ScenarioNext]_allVars
    PROVE  CommitInv'
<1>1. TypeOK' /\ \A n \in Node : Extends(log[n], log'[n])
  BY TypeKept, LogsGrow
<1>2. /\ \A k \in Nat : Holders(log, k) \subseteq Holders(log', k)
      /\ \A k \in Nat : Spread(log, k) => Spread(log', k)
      /\ \A j, k \in Nat : j <= k /\ Spread(log, k) => Spread(log, j)
  BY <1>1, SpreadKept
<1>3. /\ log \in [Node -> Seq(Entry)] /\ log' \in [Node -> Seq(Entry)]
      /\ commitIndex \in [Node -> Nat] /\ commitIndex' \in [Node -> Nat]
      /\ task \in [Thread -> Task]
      /\ \A n \in Node : Len(log[n]) \in Nat /\ Len(log'[n]) \in Nat /\ Len(log[n]) <= Len(log'[n])
  BY <1>1 DEF TypeOK, FieldsOK, Extends
<1>4. /\ \A n \in Node : commitIndex[n] <= Len(log[n]) /\ Spread(log, commitIndex[n])
      /\ \A th \in Thread : Spread(log, task[th].req.commit)
  BY DEF CommitInv
<1>5. ASSUME NEW n \in Node PROVE commitIndex'[n] <= Len(log'[n]) /\ Spread(log', commitIndex'[n])
  <2>1. CASE commitIndex'[n] = commitIndex[n]
    BY <1>2, <1>3, <1>4, <2>1
  <2>2. ASSUME NEW p \in Node, NEW c \in Caller, EndPropose(p, c), log' = log
        PROVE  commitIndex'[n] <= Len(log'[n]) /\ Spread(log', commitIndex'[n])
    <3> DEFINE th == Proposal(p, c)
               k == task[th].req.entries[1].index
    <3>1. /\ th \in Thread /\ th \in Proposals /\ task[th].active /\ p = leader
      BY <2>2, ThreadFacts DEF EndPropose, LoopDone, ProposeInv
    <3>2. task[th].req \in Request /\ Len(task[th].req.entries) = 1 /\ task[th].yes \in SUBSET Node
      BY <1>3, <3>1 DEF TypeOK, TasksOK, Task
    <3>3. task[th].req.entries # <<>> /\ k \in Nat
      <4>1. task[th].req.entries # <<>> /\ task[th].req.entries[1] \in Entry
        BY <3>2 DEF Request
      <4> QED
        BY <4>1 DEF Entry
    <3>4. k \in DOMAIN Main
      BY <3>1, <3>3 DEF LogsInv, Carries
    <3>5. Main = log[p]
      BY <3>1, NodeAssumption DEF Main
    <3>6. task[th].yes \subseteq Holders(log, k)
      BY <3>1 DEF CommitInv
    <3>7. /\ commitIndex' = [commitIndex EXCEPT ![p] = IF Commits(task[th].yes) THEN k ELSE @]
          /\ Commits(task[th].yes) => IsMajority(task[th].yes)
      BY <2>2 DEF EndPropose, Commits
    <3> HIDE DEF k, th
    <3>8. IsMajority(task[th].yes) => Spread(log, k)
      <4>1. Holders(log, k) \in SUBSET Node
        BY DEF Holders
      <4> QED
        BY <3>2, <3>6, <4>1, Majorities DEF Spread
    <3>9. k <= Len(log[p])
      BY <1>3, <3>4, <3>5
    <3> QED
      BY <1>2, <1>3, <1>4, <2>1, <2>2, <3>3, <3>7, <3>8, <3>9
  <2>3. ASSUME NEW th \in Thread, Answers(th), Accepted(Target(th), task[th].req)
        PROVE  commitIndex'[n] <= Len(log'[n]) /\ Spread(log', commitIndex'[n])
    <3> DEFINE p == Target(th)
               m == task[th].req
    <3>1. /\ log' = [log EXCEPT ![p] = LogAfter(log[p], m)]
          /\ commitIndex' = [commitIndex EXCEPT ![p] =
                IF m.commit > commitIndex[p] THEN Least(m.commit, Len(LogAfter(log[p], m)))
                ELSE commitIndex[p]]
          /\ p \in Node /\ m.commit \in Nat /\ Spread(log, m.commit)
      BY <1>3, <1>4, <2>3 DEF Accepted, Answers, Task, Request
    <3> HIDE DEF p, m
    <3>2. CASE n = p /\ m.commit > commitIndex[p]
      <4>1. commitIndex'[n] = Least(m.commit, Len(log'[n]))
        BY <1>3, <3>1, <3>2
      <4>2. commitIndex'[n] <= Len(log'[n]) /\ commitIndex'[n] <= m.commit
        BY <1>3, <3>1, <4>1 DEF Least
      <4>3. Spread(log, commitIndex'[n])
        BY <1>2, <1>3, <3>1, <4>2
      <4> QED
        BY <1>2, <1>3, <4>2, <4>3
    <3>3. CASE ~(n = p /\ m.commit > commitIndex[p])
      <4>1. commitIndex'[n] = commitIndex[n]
        BY <1>3, <3>1, <3>3
      <4> QED
        BY <2>1, <4>1
    <3> QED
      BY <3>2, <3>3
  <2> QED
    BY <2>1, <2>2, <2>3, LogMoves
<1>6. ASSUME NEW th \in Thread PROVE Spread(log', task'[th].req.commit)
  <2>1. task[th] \in Task /\ task[th].req.commit \in Nat /\ Spread(log, task[th].req.commit)
    BY <1>3, <1>4 DEF Task, Request
  <2>2. CASE task'[th].req.commit = task[th].req.commit
    BY <1>2, <2>1, <2>2
  <2>3. CASE \E n \in Node : task'[th].req.commit = commitIndex[n]
    BY <1>2, <1>3, <1>4, <2>3
  <2>4. CASE task'[th].req.commit = 0
    BY <2>4 DEF Spread
  <2>5. Answers(th) \/ Skips(th) \/ Reads(th) => task'[th].req = task[th].req
    <3>1. Answers(th) => task'[th].req = task[th].req
      BY <2>1 DEF Answers, Task
    <3>2. Skips(th) => task'[th].req = task[th].req
      BY <2>1 DEF Skips, Task
    <3>3. Reads(th) => task'[th].req = task[th].req
      BY <2>1 DEF Reads, Task
    <3> QED
      BY <3>1, <3>2, <3>3
  <2>6. BeginsRound(th) => task'[th].req.commit = 0
    BY RoundRequest
  <2>7. BeginsBeat(th) => \E n \in Node : task'[th].req.commit = commitIndex[n]
    <3>1. \A n, t : Heartbeat(n, t).commit = commitIndex[n]
      BY DEF Heartbeat, NoRequest
    <3> QED
      BY <3>1 DEF BeginsBeat
  <2>8. BeginsProposal(th) => \E n \in Node : task'[th].req.commit = commitIndex[n]
    BY ProposalRequest
  <2>9. task'[th] = Idle => task'[th].req.commit = 0
    BY DEF Idle, NoRequest
  <2> QED
    BY <2>2, <2>3, <2>4, <2>5, <2>6, <2>7, <2>8, <2>9, TaskMoves
<1>7. ASSUME NEW th \in Proposals, task'[th].active, NEW k, k = task'[th].req.entries[1].index
      PROVE  /\ task'[th].yes \subseteq Holders(log', k)
             /\ task'[th].reply.success => task'[th].reply.from \in Holders(log', k)
  <2>1. th \in Thread /\ task[th] \in Task
    BY <1>3 DEF Thread
  <2>2. ASSUME task[th].active, k = task[th].req.entries[1].index
        PROVE  /\ k \in Nat
               /\ task[th].yes \subseteq Holders(log, k) /\ Holders(log, k) \subseteq Holders(log', k)
               /\ task[th].reply.success => task[th].reply.from \in Holders(log, k)
    <3>1. task[th].req \in Request /\ Len(task[th].req.entries) = 1
      BY <2>1, <2>2 DEF TypeOK, TasksOK, Task
    <3>2. task[th].req.entries[1] \in Entry
      BY <3>1 DEF Request
    <3>3. k \in Nat
      BY <2>2, <3>2 DEF Entry
    <3> QED
      BY <1>2, <2>2, <3>3 DEF CommitInv
  <2>3. CASE task'[th] = task[th]
    BY <1>7, <2>2, <2>3
  <2>4. CASE Answers(th)
    <3>1. /\ task[th].active /\ task'[th].req = task[th].req /\ task'[th].yes = task[th].yes
          /\ task'[th].reply = ReplyTo(Target(th), task[th].req)
      BY <2>1, <2>4 DEF Answers, Sending, Task
    <3> QED
      BY <1>1, <1>7, <2>2, <2>4, <3>1, SuccessStored
  <2>5. CASE Skips(th)
    <3>1. /\ task[th].active /\ task'[th].req = task[th].req /\ task'[th].yes = task[th].yes
          /\ task'[th].reply = task[th].reply
      BY <2>1, <2>5 DEF Skips, Sending, Task
    <3> QED
      BY <1>7, <2>2, <3>1
  <2>6. CASE Reads(th)
    <3>1. /\ task[th].active /\ task'[th].req = task[th].req /\ task'[th].reply = NoReply
          /\ task'[th].yes \subseteq task[th].yes
                \union (IF task[th].reply.success THEN {task[th].reply.from} ELSE {})
      BY <2>1, <2>6 DEF Reads, Task
    <3> QED
      BY <1>7, <2>2, <3>1 DEF NoReply
  <2>7. CASE BeginsProposal(th)
    <3>1. /\ leader \in Node /\ Len(log'[leader]) = Len(log[leader]) + 1
          /\ k = Len(log[leader]) + 1 /\ task'[th].yes = {leader} /\ task'[th].reply = NoReply
      BY <1>7, <2>7, ProposalRequest
    <3>2. leader \in Holders(log', k)
      BY <1>3, <3>1 DEF Holders
    <3> QED
      BY <3>1, <3>2 DEF NoReply
  <2>8. task'[th] # Idle /\ ~BeginsRound(th) /\ ~BeginsBeat(th)
    BY <1>7, BeginsKind DEF Idle
  <2> QED
    BY <2>1, <2>3, <2>4, <2>5, <2>6, <2>7, <2>8, TaskMoves
<1> QED
  BY <1>5, <1>6, <1>7 DEF CommitInv

-----------------------------------------------------------------------------
\* Which step makes which call.

\* A step that is not an error makes at most the next call.
LEMMA CallMoves ==
    ASSUME PlanInv, DriverInv, [ScenarioNext]_allVars, ~result'.error
    PROVE  /\ ~result.error /\ scenario' = scenario
           /\ plan' = plan \/ (plan # <<>> /\ plan' = Tail(plan))
<1>0. result \in ResultType /\ scenario' = scenario
  BY PlanMoves DEF PlanInv
<1>1. ~result.error
  BY <1>0, ResultMoves DEF Conclude, Oracle, ResultType
<1>2. CASE Reading
  <2>1. ~InjectFails
    BY <1>0 DEF InjectFails, ResultType
  <2>2. GiveUp => plan # <<>> /\ plan' = Tail(plan)
    BY <1>0 DEF GiveUp, ResultType, Advance, At
  <2> QED
    BY <1>0, <1>1, <1>2, <2>1, <2>2 DEF Reading, Visit, Elected, PollAgain, NoteTerms,
         TakeSnapshot, ProposedAll, SnapshotsTaken, Conclude, Oracle, At, Advance
<1>3. CASE Bump \/ Inject
  BY <1>0, <1>1, <1>3 DEF Bump, Inject, At, Advance
<1>4. ASSUME NEW c \in Caller, NEW d \in Data, CallPropose(c, d) PROVE plan' = plan
  BY <1>4 DEF CallPropose
<1> QED
  BY <1>0, <1>1, <1>2, <1>3, <1>4, ScenarioSteps DEF driver, allVars

\* A call that is past has been made before this step or by it.
LEMMA PastMoves ==
    ASSUME PlanInv, DriverInv, [ScenarioNext]_allVars, ~result'.error
    PROVE  \A call : /\ Past(call)' => Past(call) \/ (At(call) /\ plan' # plan)
                     /\ Past(call) => Past(call)' /\ ~At(call)
<1>1. /\ scenario' = scenario
      /\ plan' = plan \/ (plan # <<>> /\ plan' = Tail(plan))
      /\ plan \in Seq(CallNames)
  BY CallMoves DEF PlanInv
<1>2. \A call : Past(call) => ~At(call)
  BY <1>1 DEF Past, At
<1>3. CASE plan' = plan
  BY <1>2, <1>3 DEF Past
<1>4. CASE plan # <<>> /\ plan' = Tail(plan)
  <2>1. Len(plan') = Len(plan) - 1
    BY <1>1, <1>4, Advanced
  <2>2. plan' # plan
    BY <1>1, <2>1
  <2> QED
    BY <1>1, <1>2, <1>4, <2>2, Advanced
<1> QED
  BY <1>1, <1>3, <1>4

\* Which step makes the call that the scenario is at.
LEMMA CallMade ==
    ASSUME PlanInv, DriverInv, [ScenarioNext]_allVars, plan' # plan, ~result'.error
    PROVE  /\ At("leader") \/ At("follower") \/ At("after") => TakeSnapshot
           /\ At("inject") => Inject
           /\ At("bump") => Bump
           /\ At("events") => Conclude
           /\ At("oracle") => Oracle
           /\ At("propose") => \E c \in Caller : ProposedAll(c)
<1>1. ~InjectFails
  BY DEF InjectFails, PlanInv, ResultType
<1>2. CASE Reading
  BY <1>1, <1>2 DEF Reading, Visit, Elected, PollAgain, GiveUp, NoteTerms, TakeSnapshot,
         ProposedAll, SnapshotsTaken, Conclude, Oracle, At
<1>3. CASE Bump \/ Inject
  BY <1>3 DEF Bump, Inject, At
<1>4. \A c \in Caller, d \in Data : ~CallPropose(c, d)
  BY DEF CallPropose
<1> QED
  BY <1>2, <1>3, <1>4, ScenarioSteps DEF driver, allVars

\* Who leads is settled once the scenario has gone on from its election.
LEMMA LeaderSettled ==
    ASSUME PlanInv, DriverInv, [ScenarioNext]_allVars, ~At("elect")
    PROVE  leader' = leader /\ Follower' = Follower
<1>1. leader' = leader
  BY DriverMoves DEF Elected
<1> QED
  BY <1>1 DEF Follower, FirstBut

-----------------------------------------------------------------------------
\* Snapshots, in a cluster without bugs.

\* What a step does to what a call has read.
LEMMA SeenMoves ==
    ASSUME PlanInv, DriverInv, SeenInv, [ScenarioNext]_allVars
    PROVE  \/ seen' = {}
           \/ \E n \in Node : Visit(n)
           \/ seen' = seen /\ (plan' = plan \/ SnapshotsTaken)
<1>1. Bump \/ Inject \/ TakeSnapshot \/ InjectFails \/ (\E c \in Caller : ProposedAll(c)) => seen' = {}
  <2> SUFFICES ASSUME Bump \/ Inject \/ TakeSnapshot \/ InjectFails \/ \E c \in Caller : ProposedAll(c)
               PROVE  seen' = {}
    OBVIOUS
  <2>1. /\ At("bump") \/ At("inject") \/ At("leader") \/ At("follower") \/ At("after")
           \/ At("propose")
        /\ seen' = seen
    BY DEF Bump, Inject, TakeSnapshot, InjectFails, ProposedAll
  <2>2. ~At("elect") /\ ~At("terms") /\ ~At("snapshots") /\ ~At("events") /\ ~At("oracle")
    BY <2>1 DEF At
  <2> QED
    BY <2>1, <2>2 DEF SeenInv
<1>2. Elected \/ PollAgain \/ GiveUp \/ NoteTerms \/ Conclude \/ Oracle => seen' = {}
  BY DEF Elected, PollAgain, GiveUp, NoteTerms, Conclude, Oracle
<1>3. SnapshotsTaken => seen' = seen
  BY DEF SnapshotsTaken
<1>4. \A c \in Caller, d \in Data : CallPropose(c, d) => UNCHANGED <<seen, plan>>
  BY DEF CallPropose
<1> QED
  BY <1>1, <1>2, <1>3, <1>4, ScenarioSteps DEF Reading, driver, allVars

\* The snapshots of reorder_commit and of the oracle are still true when they are read:
\* no log changes any more, and a commit index that a majority backed is still backed.
LEMMA SoundKept ==
    ASSUME TypeOK, PlanInv, DriverInv, SeenInv, NoteInv, ProposeInv, LogsInv, TermInv, CommitInv,
           SoundInv, Bugs = {}, [ScenarioNext]_allVars
    PROVE  SoundInv'
<1> SUFFICES ASSUME At("snapshots")' \/ At("events")' \/ At("oracle")', NEW s \in seen'
             PROVE  Sound(s)'
  BY DEF SoundInv
<1>1. ASSUME NEW n \in Node, Visit(n) PROVE Sound(s)'
  <2>1. /\ UNCHANGED plan /\ log' = log /\ seen' = seen \union {View(n)}
    BY <1>1 DEF Visit, vars
  <2>2. /\ At("snapshots") \/ At("events") \/ At("oracle")
        /\ ~At("elect") /\ ~At("terms")
    BY <2>1 DEF At
  <2>3. CASE s \in seen
    BY <2>1, <2>2, <2>3 DEF SoundInv, Sound
  <2>4. CASE s = View(n)
    <3>1. s = [node |-> n, log |-> log[n], commit |-> commitIndex[n]]
      BY <2>2, <2>4 DEF View
    <3>2. /\ commitIndex[n] \in Nat /\ Len(log[n]) \in Nat /\ commitIndex[n] <= Len(log[n])
          /\ Spread(log, commitIndex[n])
      BY DEF CommitInv, TypeOK, FieldsOK
    <3>3. s.log = log[s.node] /\ s.commit = commitIndex[n] /\ s.log = log[n]
      BY <3>1
    <3> QED
      BY <2>1, <3>2, <3>3 DEF Sound
  <2> QED
    BY <2>1, <2>3, <2>4
<1>2. ASSUME seen' = seen, plan' = plan \/ SnapshotsTaken PROVE Sound(s)'
  <2>1. At("snapshots") \/ At("events") \/ At("oracle")
    BY <1>2 DEF SnapshotsTaken, At
  <2>2. Sound(s)
    BY <1>2, <2>1 DEF SoundInv
  <2>3. log' = log
    BY <2>1, LogsGrow DEF At
  <2> QED
    BY <2>2, <2>3 DEF Sound
<1> QED
  BY <1>1, <1>2, SeenMoves

-----------------------------------------------------------------------------
\* What the scenario has noted, in a cluster without bugs.

\* A vote request without a log, or with one that ends in an earlier term, convinces
\* only a node that has no log.
LEMMA ConvincesNone ==
    ASSUME TypeOK, PlanInv, DriverInv, NoteInv, LogsInv, Bugs = {}, Inject,
           scenario # "log_truncation", ReplyTo(Follower, Forged).success
    PROVE  log[Follower] = <<>>
<1> DEFINE l == log[Follower]
<1>1. /\ At("inject") /\ Forged.term <= MaxTerm /\ Follower \in Node /\ l \in Seq(Entry)
  BY Picks DEF Inject, TypeOK, FieldsOK
<1>2. /\ scenario \in {"vote_no_log_check", "vote_term_index_comparator"}
      /\ ~result.error
      /\ scenario = "vote_term_index_comparator" => note.follower.log = l
  <2>1. scenario \in {"log_truncation", "vote_no_log_check", "vote_term_index_comparator"}
        /\ ~result.error
    BY <1>1, CallOrder DEF PastWhen, PlanInv, At
  <2>2. scenario = "vote_term_index_comparator" => Past("follower")
    BY <1>1, CallOrder DEF PastWhen
  <2> QED
    BY <2>1, <2>2 DEF NoteInv
<1>3. /\ Forged.type = "vote"
      /\ scenario = "vote_no_log_check" => Forged.lastTerm = 0 /\ Forged.lastIndex = 0
      /\ scenario = "vote_term_index_comparator" => Forged.lastTerm = Greater(LastTerm(l) - 1, 0)
  BY <1>1, <1>2, ForgedType
<1>4. CandidateUpToDate(Forged, l)
  BY <1>3 DEF ReplyTo, VoteReply, Grants
<1>5. l # <<>> => LastTerm(l) > 0 /\ LastIndex(l) > 0 /\ LastTerm(l) \in Nat /\ LastIndex(l) \in Nat
  <2> SUFFICES ASSUME l # <<>>
               PROVE  LastTerm(l) > 0 /\ LastIndex(l) > 0 /\ LastTerm(l) \in Nat /\ LastIndex(l) \in Nat
    OBVIOUS
  <2>1. Extends(l, Main) /\ \A i \in DOMAIN Main : Main[i].index = i /\ Main[i].term > 0
    BY <1>1 DEF LogsInv
  <2>2. Main \in Seq(Entry)
    BY DEF TypeOK, FieldsOK, DriverInv, Main
  <2> HIDE DEF l
  <2>3. Len(l) \in 1..Len(l) /\ l[Len(l)] = Main[Len(l)] /\ Len(l) \in DOMAIN Main
    BY <1>1, <2>1, <2>2 DEF Extends
  <2>4. l[Len(l)].index = Len(l) /\ l[Len(l)].term > 0
    BY <2>1, <2>3
  <2>5. LastTerm(l) = l[Len(l)].term /\ LastIndex(l) = l[Len(l)].index
    BY DEF LastTerm, LastIndex
  <2>6. LastTerm(l) \in Nat /\ LastIndex(l) \in Nat
    BY <1>1, LastType, TermsNatural
  <2> QED
    BY <2>3, <2>4, <2>5, <2>6
<1> HIDE DEF l
<1>6. l = <<>>
  <2> SUFFICES ASSUME l # <<>> PROVE FALSE
    OBVIOUS
  <2>1. Forged.lastTerm = LastTerm(l) => Forged.lastIndex >= LastIndex(l)
    BY <1>4 DEF CandidateUpToDate
  <2>2. Forged.lastTerm # LastTerm(l) => Forged.lastTerm > LastTerm(l)
    BY <1>4 DEF CandidateUpToDate
  <2>3. CASE scenario = "vote_no_log_check"
    BY <1>3, <1>5, <2>1, <2>2, <2>3
  <2>4. CASE scenario = "vote_term_index_comparator"
    <3>1. Forged.lastTerm = LastTerm(l) - 1
      BY <1>3, <1>5, <2>4 DEF Greater
    <3> QED
      BY <1>5, <2>1, <2>2, <3>1
  <2> QED
    BY <1>2, <2>3, <2>4
<1> QED
  BY <1>6 DEF l

\* What is noted of the follower stays true.
LEMMA NoteKept ==
    ASSUME TypeOK, PlanInv, DriverInv, SeenInv, NoteInv, ProposeInv, LogsInv, TermInv,
           Bugs = {}, [ScenarioNext]_allVars
    PROVE  NoteInv'
<1> SUFFICES ASSUME ~result'.error
             PROVE  /\ scenario' \in {"log_truncation", "vote_term_index_comparator"}
                       /\ Past("follower")' => note'.follower.log = log'[Follower']
                    /\ scenario' = "log_truncation" /\ Past("inject")' => ~note'.reply.success
                    /\ /\ scenario' \in {"vote_no_log_check", "vote_term_index_comparator"}
                       /\ Past("inject")' /\ note'.reply.success
                       => log'[Follower'] = <<>>
  BY DEF NoteInv
<1>1. scenario' = scenario /\ ~result.error
  BY CallMoves
<1>2. note \in [max : Term, leader : SnapshotType, follower : SnapshotType,
                after : SnapshotType, reply : Reply]
  BY DEF DriverInv
<1>3. \A call : /\ Past(call)' => Past(call) \/ (At(call) /\ plan' # plan)
                /\ Past(call) => Past(call)' /\ ~At(call)
  BY PastMoves
<1>4. /\ NoteTerms => note'.follower = note.follower /\ note'.reply = note.reply
      /\ Inject => note'.follower = note.follower /\ note'.reply = ReplyTo(Follower, Forged)
                   /\ At("inject")
      /\ TakeSnapshot => note'.reply = note.reply
  <2>1. NoteTerms => note'.follower = note.follower /\ note'.reply = note.reply
    BY <1>2 DEF NoteTerms
  <2>2. Inject => note'.follower = note.follower /\ note'.reply = ReplyTo(Follower, Forged)
                   /\ At("inject")
    BY <1>2 DEF Inject
  <2>3. TakeSnapshot => note'.reply = note.reply
    BY <1>2 DEF TakeSnapshot, At
  <2> QED
    BY <2>1, <2>2, <2>3
<1>5. ASSUME scenario \in {"log_truncation", "vote_term_index_comparator"}, Past("follower")'
      PROVE  note'.follower.log = log'[Follower']
  <2>1. ~At("propose") /\ ~At("elect")
    BY <1>3, <1>5, CallOrder DEF PastWhen, At
  <2>2. log' = log /\ Follower' = Follower
    BY <2>1, LogsGrow, LeaderSettled
  <2>3. CASE Past("follower")
    <3>1. ~At("follower")
      BY <1>3, <2>3
    <3>2. TakeSnapshot => note'.follower = note.follower
      BY <1>2, <3>1 DEF TakeSnapshot, At
    <3>3. note'.follower = note.follower
      BY <1>4, <3>2, DriverMoves
    <3> QED
      BY <1>1, <1>5, <2>2, <2>3, <3>3 DEF NoteInv
  <2>4. CASE At("follower") /\ plan' # plan
    <3>1. TakeSnapshot /\ Head(plan) = "follower" /\ ~At("leader")
      BY <2>4, CallMade DEF At
    <3>2. note' = [note EXCEPT !["follower"] = Snapshot(Follower)]
      BY <3>1 DEF TakeSnapshot
    <3>3. note'.follower = Snapshot(Follower)
      BY <1>2, <3>2
    <3> QED
      BY <2>2, <3>3 DEF Snapshot
  <2> QED
    BY <1>3, <1>5, <2>3, <2>4
<1>6. Past("inject") => note'.reply = note.reply
  BY <1>3, <1>4, DriverMoves
<1>7. At("inject") /\ plan' # plan => Inject
  BY CallMade
<1>8. ASSUME scenario = "log_truncation", Past("inject")' PROVE ~note'.reply.success
  BY <1>1, <1>3, <1>4, <1>6, <1>7, <1>8, ForgedHarmless DEF NoteInv
<1>9. ASSUME scenario \in {"vote_no_log_check", "vote_term_index_comparator"},
             Past("inject")', note'.reply.success
      PROVE  log'[Follower'] = <<>>
  <2>1. ~At("propose") /\ ~At("elect")
    BY <1>3, <1>9, CallOrder DEF PastWhen, At
  <2>2. log' = log /\ Follower' = Follower
    BY <2>1, LogsGrow, LeaderSettled
  <2>3. CASE Past("inject")
    BY <1>1, <1>6, <1>9, <2>2, <2>3 DEF NoteInv
  <2>4. CASE Inject
    BY <1>4, <1>9, <2>2, <2>4, ConvincesNone
  <2> QED
    BY <1>3, <1>7, <1>9, <2>3, <2>4
<1> QED
  BY <1>1, <1>5, <1>8, <1>9

-----------------------------------------------------------------------------
\* higher_term_step_down, in a cluster without bugs.

\* A loop ends when it has asked every peer, or when its node steps down.
LEMMA LoopEnds ==
    ASSUME TypeOK, PlanInv, DriverInv, [ScenarioNext]_allVars,
           NEW th \in Thread, task[th].active, task'[th] = Idle
    PROVE  LoopDone(th) \/ role'[th.node] = "follower"
<1>1. /\ task \in [Thread -> Task] /\ TasksOK /\ role \in [Node -> Role] /\ th.node \in Node
      /\ task[th] \in Task /\ ~Idle.active
  BY ThreadFacts DEF TypeOK, FieldsOK, Idle
<1>2. ASSUME task'[th] = task[th] PROVE FALSE
  BY <1>1, <1>2
<1>3. ASSUME NEW k \in Thread, Reach(k) PROVE FALSE
  <2>1. task' = [task EXCEPT ![k].todo = Tail(@), ![k].reply = ReplyTo(Target(k), task[k].req)]
    BY <1>3 DEF Reach, Deliver
  <2>2. task'[th].active = task[th].active
    BY <1>1, <2>1 DEF Task
  <2> QED
    BY <1>1, <2>2
<1>4. ASSUME NEW k \in Thread, Lose(k) PROVE FALSE
  <2>1. task'[th].active = task[th].active
    BY <1>1, <1>4 DEF Lose, Task
  <2> QED
    BY <1>1, <2>1
<1>5. ASSUME NEW k \in Thread, Return(k) PROVE role'[th.node] = "follower"
  <2> DEFINE r == task[k].reply
             quits == r.term > task[k].req.term /\ StepsDown(k.node, r.term)
  <2>1. CASE quits /\ k = th
    <3>1. role' = [role EXCEPT ![th.node] = "follower"]
      BY <1>5, <2>1 DEF Return
    <3> QED
      BY <1>1, <3>1
  <2>2. CASE quits /\ k # th
    <3>1. task' = [task EXCEPT ![k] = Idle]
      BY <1>5, <2>2 DEF Return
    <3> QED
      BY <1>1, <1>2, <2>2, <3>1
  <2>3. CASE ~quits
    <3>1. task' = [task EXCEPT ![k].reply = NoReply,
                             ![k].yes = IF r.success /\ k.kind # "beat"
                                         THEN @ \union {r.from} ELSE @]
      BY <1>5, <2>3 DEF Return
    <3>2. task'[th].active = task[th].active
      BY <1>1, <3>1 DEF Task
    <3> QED
      BY <1>1, <3>2
  <2> QED
    BY <2>1, <2>2, <2>3
<1>6. ASSUME NEW n \in Node, EndRound(n) PROVE LoopDone(th)
  <2> DEFINE t == task[Round(n)].req.term
             b == [Idle EXCEPT !.active = TRUE, !.req = Heartbeat(n, t)]
  <2>1. /\ LoopDone(Round(n)) /\ Round(n) \in Thread
        /\ \/ task' = [task EXCEPT ![Round(n)] = Idle, ![Beat(n, t)] = b]
           \/ task' = [task EXCEPT ![Round(n)] = Idle]
    BY <1>6, ThreadFacts DEF EndRound
  <2>2. b.active
    BY DEF Idle
  <2> HIDE DEF b, t
  <2>3. CASE th = Round(n)
    BY <2>1, <2>3
  <2>4. CASE th # Round(n) /\ th = Beat(n, t)
    <3>1. task'[th] = b \/ task'[th] = task[th]
      BY <1>1, <2>1, <2>4
    <3> QED
      BY <1>1, <1>2, <2>2, <3>1
  <2>5. CASE th # Round(n) /\ th # Beat(n, t)
    <3>1. task'[th] = task[th]
      BY <1>1, <2>1, <2>5
    <3> QED
      BY <1>2, <3>1
  <2> QED
    BY <2>3, <2>4, <2>5
<1>7. ASSUME NEW n \in Node, NEW t \in Term, Tick(n, t) PROVE LoopDone(th)
  <2>1. th # Beat(n, t) => task'[th] = task[th]
    BY <1>1, <1>7 DEF Tick
  <2> QED
    BY <1>2, <1>7, <2>1 DEF Tick
<1>8. ASSUME NEW n \in Node, StartElection(n) PROVE FALSE
  <2>1. th # Round(n) => task'[th] = task[th]
    BY <1>1, <1>8 DEF StartElection
  <2>2. th # Round(n)
    BY <1>8 DEF StartElection
  <2> QED
    BY <1>2, <2>1, <2>2
<1>9. ASSUME NEW n \in Node, NEW c \in Caller, EndPropose(n, c) PROVE LoopDone(th)
  <2>1. th # Proposal(n, c) => task'[th] = task[th]
    BY <1>1, <1>9 DEF EndPropose
  <2> QED
    BY <1>2, <1>9, <2>1 DEF EndPropose
<1>10. ASSUME NEW c \in Caller, NEW d \in Data, CallPropose(c, d) PROVE FALSE
  <2>1. th # Proposal(leader, c)
    BY <1>10 DEF CallPropose
  <2>2. task'[th] = task[th]
    BY <1>1, <1>10, <2>1 DEF CallPropose, Propose, vars
  <2> QED
    BY <1>2, <2>2
<1>11. CASE Bump \/ Inject \/ Reading \/ UNCHANGED allVars
  <2>1. Reading \/ UNCHANGED allVars => task' = task
    BY ReadingKeeps DEF vars, allVars
  <2>2. task' = task
    BY <1>11, <2>1 DEF Bump, BumpTerm, Inject, vars
  <2> QED
    BY <1>2, <2>2
<1> QED
  BY <1>3, <1>4, <1>5, <1>6, <1>7, <1>8, <1>9, <1>10, <1>11, NodeSteps, ScenarioSteps

\* Only a proposal is on record as one.
LEMMA MadeMoves ==
    ASSUME [ScenarioNext]_allVars
    PROVE  made' = made \/ \E c \in Caller, d \in Data : CallPropose(c, d) /\ Propose(leader, c, d)
<1>1. Reading \/ UNCHANGED allVars => made' = made
  BY ReadingKeeps DEF vars, allVars
<1>2. Bump => made' = made
  BY DEF Bump, BumpTerm, history, vars
<1>3. Inject => made' = made
  BY HandleKeeps DEF Inject
<1>4. \A c \in Caller, d \in Data : CallPropose(c, d) => Propose(leader, c, d) \/ made' = made
  BY DEF CallPropose, vars
<1>5. \A th \in Thread : Reach(th) => made' = made
  BY HandleKeeps DEF Reach, Deliver
<1>6. \A th \in Thread : Lose(th) \/ Return(th) => made' = made
  BY DEF Lose, Return, history
<1>7. \A n \in Node, t \in Term : Tick(n, t) => made' = made
  BY DEF Tick, history
<1>8. \A n \in Node : StartElection(n) \/ EndRound(n) => made' = made
  BY DEF StartElection, EndRound
<1>9. \A n \in Node, c \in Caller : EndPropose(n, c) => made' = made
  BY DEF EndPropose, history
<1> QED
  BY <1>1, <1>2, <1>3, <1>4, <1>5, <1>6, <1>7, <1>8, <1>9, NodeSteps, ScenarioSteps

\* A loop that has the bumped node still to ask, or its answer still to read, and goes
\* on: it still has, unless its own node has reached the bumped term.
LEMMA ToldKept ==
    ASSUME TypeOK, PlanInv, DriverInv, RoundInv, Bugs = {}, [ScenarioNext]_allVars,
           scenario = "higher_term_step_down", Bumped' = Bumped, Follower' = Follower,
           term[Follower] >= Bumped,
           NEW th \in Thread, th \in Rounds \/ th \in Proposals,
           task[th].active, task'[th].active, Told(th)
    PROVE  Told(th)' \/ term[th.node] >= Bumped
<1>1. /\ task[th] \in Task /\ task[th].todo \in Seq(Node) /\ term \in [Node -> Nat]
      /\ Follower \in Node /\ th.node \in Node /\ Bumped \in Nat /\ Bumped > 0
      /\ task[th].req.term \in Nat /\ task[th].reply.term \in Nat
      /\ task[th].req.term <= term[th.node]
  <2>1. note.max \in Nat
    BY TermsNatural DEF DriverInv
  <2>2. task[th] \in Task /\ term \in [Node -> Nat]
    BY TermsNatural DEF TypeOK, FieldsOK
  <2>3. task[th].req.term \in Nat /\ task[th].reply.term \in Nat /\ task[th].todo \in Seq(Node)
    BY <2>2, TermsNatural DEF Task, Request, Reply
  <2> QED
    BY <2>1, <2>2, <2>3, Picks, ThreadFacts DEF Bumped, RoundInv
<1>2. CASE task'[th] = task[th]
  BY <1>2 DEF Told
<1>3. CASE Answers(th)
  <2>1. /\ task[th].reply = NoReply /\ task[th].todo # <<>>
        /\ task'[th].todo = Tail(task[th].todo)
        /\ task'[th].reply = ReplyTo(Target(th), task[th].req) /\ Target(th) = Head(task[th].todo)
    BY <1>1, <1>3 DEF Answers, Sending, Target, Task
  <2>2. PICK i \in 1..Len(task[th].todo) : task[th].todo[i] = Follower
    BY <1>1, <2>1 DEF Told, NoReply
  <2>3. CASE i = 1
    <3>1. Target(th) = Follower
      BY <1>1, <2>1, <2>2, <2>3
    <3>2. ReplyTo(Follower, task[th].req).term >= term[Follower]
      BY <1>1 DEF ReplyTo, VoteReply, AppendReply
    <3>3. ReplyTo(Follower, task[th].req).term \in Nat
      BY <1>1 DEF ReplyTo, VoteReply, AppendReply
    <3> HIDE DEF Bumped
    <3>4. task'[th].reply.term >= Bumped
      BY <1>1, <2>1, <3>1, <3>2, <3>3
    <3> QED
      BY <3>4 DEF Told
  <2>4. CASE i # 1
    <3>1. i - 1 \in DOMAIN Tail(task[th].todo) /\ Tail(task[th].todo)[i - 1] = task[th].todo[i]
      BY <1>1, <2>2, <2>4
    <3> QED
      BY <2>1, <2>2, <3>1 DEF Told
  <2> QED
    BY <2>3, <2>4
<1>4. ~Skips(th)
  BY DEF Skips, Hook
<1>5. CASE Reads(th)
  <2>1. /\ ~(task[th].reply.term > task[th].req.term /\ task[th].reply.term > term[th.node])
        /\ task'[th].todo = task[th].todo
    BY <1>1, <1>5 DEF Reads, StepsDown, Task
  <2>2. CASE \E i \in DOMAIN task[th].todo : task[th].todo[i] = Follower
    BY <2>1, <2>2 DEF Told
  <2>3. CASE task[th].reply.term >= Bumped
    <3> HIDE DEF Bumped
    <3> QED
      BY <1>1, <2>1, <2>3
  <2> QED
    BY <2>2, <2>3 DEF Told
<1>6. ~BeginsRound(th) /\ ~BeginsProposal(th) /\ ~BeginsBeat(th)
  BY BeginsKind DEF BeginsRound, StartElection, BeginsProposal, CallPropose
<1>7. task'[th] # Idle
  BY DEF Idle
<1> QED
  BY <1>2, <1>3, <1>4, <1>5, <1>6, <1>7, TaskMoves

\* The term that the follower is bumped to is settled before it is.
LEMMA BumpSettled ==
    ASSUME PlanInv, DriverInv, [ScenarioNext]_allVars, scenario = "higher_term_step_down",
           Past("bump") \/ At("bump") \/ At("propose") \/ At("leader") \/ Past("leader"),
           ~result'.error
    PROVE  Bumped' = Bumped /\ Follower' = Follower /\ leader' = leader
<1>1. ~At("elect") /\ ~At("terms")
  <2>1. \A call : Past(call) => ~At(call)
    BY PastMoves
  <2> QED
    BY <2>1, CallOrder DEF PastWhen, At
<1>2. leader' = leader /\ Follower' = Follower
  BY <1>1, LeaderSettled
<1>3. note'.max = note.max
  <2>1. note \in [max : Term, leader : SnapshotType, follower : SnapshotType,
                  after : SnapshotType, reply : Reply]
    BY DEF DriverInv
  <2>2. TakeSnapshot => note'.max = note.max
    BY <2>1 DEF TakeSnapshot, At
  <2>3. Inject => note'.max = note.max
    BY <2>1 DEF Inject
  <2>4. ~NoteTerms
    BY <1>1 DEF NoteTerms
  <2> QED
    BY <2>2, <2>3, <2>4, DriverMoves
<1> QED
  BY <1>2, <1>3 DEF Bumped

\* A loop of the leader that begins has the bumped node still to ask.
LEMMA AsksBumped ==
    ASSUME leader \in Node, NEW th, task'[th].todo = Order[leader], Follower' = Follower
    PROVE  Told(th)'
<1>1. Follower \in {Order[leader][i] : i \in DOMAIN Order[leader]}
  BY Picks, OrderAssumption
<1>2. PICK i \in DOMAIN Order[leader] : Order[leader][i] = Follower
  BY <1>1
<1> QED
  BY <1>2 DEF Told

\* A loop that is done has nothing to tell.
LEMMA DoneTold ==
    ASSUME DriverInv, NEW th, LoopDone(th)
    PROVE  ~Told(th)
<1>1. Bumped \in Nat /\ Bumped > 0
  <2>1. note.max \in Nat
    BY TermsNatural DEF DriverInv
  <2> QED
    BY <2>1 DEF Bumped
<1>2. task[th].todo = <<>> /\ task[th].reply = NoReply
  BY DEF LoopDone
<1>3. DOMAIN task[th].todo = {} /\ task[th].reply.term = 0
  BY <1>2 DEF NoReply
<1> HIDE DEF Bumped
<1> QED
  BY <1>1, <1>3 DEF Told

\* Once the leader has proposed it learns of the bumped term, or is on its way to.
LEMMA HigherKept ==
    ASSUME TypeOK, PlanInv, DriverInv, SeenInv, ProposeInv, RoundInv, HigherInv,
           Bugs = {}, [ScenarioNext]_allVars
    PROVE  HigherInv'
<1> SUFFICES ASSUME scenario' = "higher_term_step_down", ~result'.error
             PROVE  /\ Past("bump")' => term'[Follower'] >= Bumped'
                    /\ made' # {} => Past("bump")' /\ leader' \in Node
                    /\ made' # {} =>
                          \/ term'[leader'] >= Bumped'
                          \/ /\ task'[Round(leader')].active => Told(Round(leader))'
                             /\ role'[leader'] = "leader" =>
                                   \E c \in Caller : /\ task'[Proposal(leader', c)].active
                                                     /\ Told(Proposal(leader, c))'
                    /\ Past("leader")' /\ note'.leader.role = "leader"
                       /\ note'.leader.term < Bumped' => made' = {}
  BY DEF HigherInv
<1>1. /\ scenario = "higher_term_step_down" /\ ~result.error
      /\ \A call : /\ Past(call)' => Past(call) \/ (At(call) /\ plan' # plan)
                   /\ Past(call) => Past(call)' /\ ~At(call)
      /\ TypeOK'
  BY CallMoves, PastMoves, TypeKept
<1>2. /\ Past("bump") => term[Follower] >= Bumped
      /\ made # {} => Past("bump") /\ leader \in Node
      /\ made # {} => \/ term[leader] >= Bumped
                      \/ /\ task[Round(leader)].active => Told(Round(leader))
                         /\ role[leader] = "leader" =>
                               \E c \in Caller : /\ task[Proposal(leader, c)].active
                                                 /\ Told(Proposal(leader, c))
      /\ Past("leader") /\ note.leader.role = "leader" /\ note.leader.term < Bumped => made = {}
  BY <1>1 DEF HigherInv
<1>3. Bumped \in Nat /\ Bumped > 0 /\ Follower \in Node
  <2>1. note.max \in Nat
    BY TermsNatural DEF DriverInv
  <2> QED
    BY <2>1, Picks DEF Bumped
<1>4. ASSUME Past("bump")' PROVE term'[Follower'] >= Bumped' /\ Bumped' = Bumped
  <2>1. Past("bump") \/ (At("bump") /\ plan' # plan)
    BY <1>1, <1>4
  <2>2. Bumped' = Bumped /\ Follower' = Follower
    BY <1>1, <2>1, BumpSettled
  <2>3. term'[Follower] >= term[Follower] /\ term[Follower] \in Nat /\ term'[Follower] \in Nat
    BY <1>3, TermsGrow
  <2>4. CASE Past("bump")
    <3> HIDE DEF Bumped
    <3> QED
      BY <1>2, <1>3, <2>2, <2>3, <2>4
  <2>5. CASE Bump
    <3>1. \/ BumpTerm(Follower, Bumped)
          \/ Bumped <= term[Follower]
      BY <1>1, <2>5 DEF Bump, Bumped
    <3> HIDE DEF Bumped
    <3>2. BumpTerm(Follower, Bumped) => term'[Follower] = Bumped
      BY <1>3 DEF BumpTerm, TypeOK, FieldsOK
    <3> QED
      BY <1>3, <2>2, <2>3, <3>1, <3>2
  <2> QED
    BY <1>1, <2>1, <2>2, <2>4, <2>5, CallMade
<1>5. ASSUME NEW c \in Caller, NEW d \in Data, CallPropose(c, d), Propose(leader, c, d)
      PROVE  /\ Past("bump") /\ leader \in Node /\ At("propose")
             /\ role[leader] = "leader" /\ role' = role
             /\ ~task[Round(leader)].active
             /\ task'[Proposal(leader, c)].active /\ task'[Proposal(leader, c)].todo = Order[leader]
  <2>1. BeginsProposal(Proposal(leader, c))
    BY <1>5 DEF BeginsProposal
  <2>2. /\ leader \in Node /\ At("propose") /\ role[leader] = "leader" /\ role' = role
        /\ task'[Proposal(leader, c)].active /\ task'[Proposal(leader, c)].todo = Order[leader]
    BY <2>1, ProposalRequest
  <2>3. Past("bump")
    BY <1>1, <2>2, CallOrder DEF PastWhen
  <2> QED
    BY <2>2, <2>3 DEF RoundInv
<1>6. ASSUME made' # {} PROVE Past("bump") /\ leader \in Node
  <2>1. made' = made \/ \E c \in Caller, d \in Data : CallPropose(c, d) /\ Propose(leader, c, d)
    BY MadeMoves
  <2> QED
    BY <1>2, <1>5, <1>6, <2>1
<1>7. ASSUME made' # {}
      PROVE  /\ Past("bump")' /\ leader' \in Node
             /\ \/ term'[leader'] >= Bumped'
                \/ /\ task'[Round(leader')].active => Told(Round(leader))'
                   /\ role'[leader'] = "leader" =>
                         \E c \in Caller : /\ task'[Proposal(leader', c)].active
                                           /\ Told(Proposal(leader, c))'
  <2>1. Past("bump") /\ Past("bump")' /\ leader \in Node
    BY <1>1, <1>6, <1>7
  <2>2. Bumped' = Bumped /\ Follower' = Follower /\ leader' = leader
    BY <1>1, <2>1, BumpSettled
  <2>3. /\ term[Follower] >= Bumped /\ term'[leader] >= term[leader]
        /\ term[leader] \in Nat /\ term'[leader] \in Nat
    BY <1>2, <2>1, TermsGrow
  <2> SUFFICES ASSUME ~(term'[leader] >= Bumped)
               PROVE  /\ task'[Round(leader)].active => Told(Round(leader))'
                      /\ role'[leader] = "leader" =>
                            \E c \in Caller : /\ task'[Proposal(leader, c)].active
                                              /\ Told(Proposal(leader, c))'
    BY <2>1, <2>2
  <2>4. ~(term[leader] >= Bumped)
    <3> HIDE DEF Bumped
    <3> QED
      BY <1>3, <2>3
  <2>5. made = {} => \E c \in Caller, d \in Data : CallPropose(c, d) /\ Propose(leader, c, d)
    BY <1>7, MadeMoves
  <2>6. /\ Round(leader) \in Thread /\ Round(leader) \in Rounds /\ Round(leader).node = leader
        /\ \A m \in Node : Round(m) = Round(leader) => m = leader
        /\ \A c \in Caller : /\ Proposal(leader, c) \in Thread /\ Proposal(leader, c) \in Proposals
                             /\ Proposal(leader, c).node = leader
    BY <2>1, ThreadFacts DEF Rounds
  <2>7. task[Round(leader)].active => Told(Round(leader))
    BY <1>2, <1>5, <2>4, <2>5
  <2>8. ASSUME task'[Round(leader)].active PROVE Told(Round(leader))'
    <3>1. CASE BeginsRound(Round(leader))
      <4>1. task'[Round(leader)].todo = Order[leader]
        BY <2>6, <3>1, RoundRequest
      <4> QED
        BY <2>1, <2>2, <4>1, AsksBumped
    <3>2. CASE ~BeginsRound(Round(leader))
      <4>1. task[Round(leader)].active
        BY <2>6, <2>8, <3>2, RoundStays, BeginsKind
      <4> QED
        BY <1>1, <2>2, <2>3, <2>4, <2>6, <2>7, <2>8, <4>1, ToldKept
    <3> QED
      BY <3>1, <3>2
  <2>9. ASSUME role'[leader] = "leader"
        PROVE  \E c \in Caller : task'[Proposal(leader, c)].active /\ Told(Proposal(leader, c))'
    <3>1. role[leader] = "leader"
      <4>1. EndRound(leader) => LoopDone(Round(leader)) /\ task[Round(leader)].active
        BY DEF EndRound, LoopDone
      <4> QED
        BY <2>1, <2>7, <2>9, <4>1, DoneTold, LeadsMoves
    <3>2. CASE made = {}
      <4>1. PICK c \in Caller, d \in Data : CallPropose(c, d) /\ Propose(leader, c, d)
        BY <2>5, <3>2
      <4>2. /\ task'[Proposal(leader, c)].active
            /\ task'[Proposal(leader, c)].todo = Order[leader]
        BY <1>5, <4>1
      <4>3. Told(Proposal(leader, c))'
        BY <2>1, <2>2, <4>2, AsksBumped
      <4> QED
        BY <4>2, <4>3
    <3>3. CASE made # {}
      <4>1. PICK c \in Caller : task[Proposal(leader, c)].active /\ Told(Proposal(leader, c))
        BY <1>2, <2>4, <3>1, <3>3
      <4> DEFINE th == Proposal(leader, c)
      <4>2. th \in Thread /\ th \in Proposals /\ th.node = leader
        BY <2>6
      <4>3. task'[th].active
        <5> SUFFICES ASSUME ~task'[th].active PROVE FALSE
          OBVIOUS
        <5>1. task'[th] = Idle
          BY <1>1, <4>2 DEF TypeOK, TasksOK
        <5>2. LoopDone(th) \/ role'[leader] = "follower"
          BY <4>1, <4>2, <5>1, LoopEnds
        <5> QED
          BY <2>9, <4>1, <5>2, DoneTold
      <4>4. Told(th)'
        <5>1. Told(th)' \/ term[th.node] >= Bumped
          BY <1>1, <2>2, <2>3, <4>1, <4>2, <4>3, ToldKept
        <5> QED
          BY <2>4, <4>2, <5>1
      <4> QED
        BY <4>3, <4>4
    <3> QED
      BY <3>2, <3>3
  <2> QED
    BY <2>8, <2>9
<1>8. ASSUME Past("leader")', note'.leader.role = "leader", note'.leader.term < Bumped', made' # {}
      PROVE  FALSE
  <2>1. Past("leader") \/ (At("leader") /\ plan' # plan)
    BY <1>1, <1>8
  <2>2. Bumped' = Bumped
    BY <1>1, <2>1, BumpSettled
  <2>3. ~At("propose")
    BY <1>1, <2>1, CallOrder DEF PastWhen, At
  <2>4. made' = made
    BY <2>3, MadeMoves DEF CallPropose
  <2>5. note \in [max : Term, leader : SnapshotType, follower : SnapshotType,
                  after : SnapshotType, reply : Reply]
    BY DEF DriverInv
  <2>6. CASE Past("leader")
    <3>1. ~At("leader")
      BY <1>1, <2>6
    <3>2. TakeSnapshot => note'.leader = note.leader
      BY <2>5, <3>1 DEF TakeSnapshot, At
    <3>3. NoteTerms => note'.leader = note.leader
      BY <2>5 DEF NoteTerms
    <3>4. Inject => note'.leader = note.leader
      BY <2>5 DEF Inject
    <3>5. note'.leader = note.leader
      BY <3>2, <3>3, <3>4, DriverMoves
    <3> QED
      BY <1>2, <1>8, <2>2, <2>4, <2>6, <3>5
  <2>7. CASE At("leader") /\ plan' # plan
    <3>1. TakeSnapshot /\ Head(plan) = "leader"
      BY <2>7, CallMade DEF At
    <3>2. note' = [note EXCEPT !["leader"] = Snapshot(leader)]
      BY <2>7, <3>1 DEF TakeSnapshot
    <3>3. note'.leader = Snapshot(leader)
      BY <2>5, <3>2
    <3>4. role[leader] = "leader" /\ term[leader] < Bumped /\ leader \in Node
      BY <1>2, <1>8, <2>2, <2>4, <3>3 DEF Snapshot
    <3>5. ~(term[leader] >= Bumped)
      <4>1. term[leader] \in Nat
        BY <3>4, TermsNatural DEF TypeOK, FieldsOK
      <4> HIDE DEF Bumped
      <4> QED
        BY <1>3, <3>4, <4>1
    <3>6. \E c \in Caller : task[Proposal(leader, c)].active
      BY <1>2, <1>8, <2>4, <3>4, <3>5
    <3> QED
      BY <2>3, <3>4, <3>6 DEF ProposeInv
  <2> QED
    BY <2>1, <2>6, <2>7
<1> QED
  BY <1>4, <1>7, <1>8

-----------------------------------------------------------------------------
\* The verdict, in a cluster without bugs.

\* No handler reports a bug (the "bug_..." events of node.go).
LEMMA QuietKept ==
    ASSUME Bugs = {}, bugEvents = {}, [ScenarioNext]_allVars
    PROVE  bugEvents' = {}
<1>1. \A p, m : BugEvents(p, m) = {}
  BY DEF BugEvents, StaleAppend
<1>2. \A th \in Thread : Reach(th) => bugEvents' = {}
  BY <1>1 DEF Reach
<1>3. Inject => bugEvents' = {}
  BY <1>1 DEF Inject
<1>4. NodeStep => bugEvents' = {}
  BY <1>2 DEF NodeStep
<1>5. Bump \/ Reading \/ (\E c \in Caller, d \in Data : CallPropose(c, d)) => bugEvents' = {}
  BY ReadingKeeps DEF Bump, CallPropose
<1> QED
  BY <1>3, <1>4, <1>5, ScenarioSteps DEF allVars

\* As many snapshots as nodes have a log that long.
LEMMA SnapshotsHold ==
    ASSUME SeenInv, AllSeen, \A s \in seen : Sound(s), NEW k \in Nat \ {0}, Spread(log, k)
    PROVE  IsMajority(Replicated(k))
<1>1. /\ IsMajority(Holders(log, k)) /\ IsFiniteSet(Replicated(k))
      /\ IsFiniteSet(Holders(log, k))
  <2>1. IsMajority(Holders(log, k))
    BY DEF Spread
  <2>2. IsFiniteSet(Replicated(k))
    BY FS_Subset DEF Replicated, SeenInv
  <2>3. IsFiniteSet(Holders(log, k))
    BY FS_Subset, NodeAssumption DEF Holders
  <2> QED
    BY <2>1, <2>2, <2>3
<1> DEFINE f == [n \in Holders(log, k) |-> CHOOSE s \in seen : s.node = n]
<1>2. \A n \in Holders(log, k) : f[n] \in seen /\ f[n].node = n
  BY DEF AllSeen, Visited, Holders
<1>3. \A n \in Holders(log, k) : f[n] \in Replicated(k)
  BY <1>2 DEF Replicated, Sound, Holders
<1>4. f \in Injection(Holders(log, k), Replicated(k))
  <2>1. f \in [Holders(log, k) -> Replicated(k)]
    BY <1>3
  <2>2. \A m, n \in Holders(log, k) : f[m] = f[n] => m = n
    BY <1>2
  <2> HIDE DEF f
  <2> QED
    BY <2>1, <2>2 DEF Injection, IsInjective
<1> HIDE DEF f
<1>5. Cardinality(Holders(log, k)) <= Cardinality(Replicated(k))
  BY <1>1, <1>4, FS_Injection
<1>6. /\ Cardinality(Holders(log, k)) \in Nat /\ Cardinality(Replicated(k)) \in Nat
      /\ Majority \in Nat
  BY <1>1, FS_CardinalityType, NodeAssumption DEF Majority
<1> QED
  BY <1>1, <1>5, <1>6 DEF IsMajority

\* On sound snapshots of all nodes, raftSafetyViolations finds nothing in the logs.
LEMMA LogsInOrder ==
    ASSUME TypeOK, DriverInv, LogsInv, SeenInv, AllSeen, \A s \in seen : Sound(s)
    PROVE  /\ Violations \subseteq {"multi_leader"}
           /\ "multi_leader" \in Violations =>
                 \E w1, w2 \in result.won : w1[2] = w2[2] /\ w1[1] # w2[1]
           /\ ~CommitUnbacked
<1>1. \A s \in seen : s.commit > 0 => IsMajority(Replicated(s.commit))
  BY SnapshotsHold DEF Sound
<1>2. Main \in Seq(Entry) /\ \A i \in DOMAIN Main : Main[i].index = i
  <2>1. Main \in Seq(Entry)
    BY DEF TypeOK, FieldsOK, DriverInv, Main
  <2> QED
    BY <2>1 DEF LogsInv
<1>3. ASSUME NEW s \in seen
      PROVE  /\ s.log \in Seq(Entry) /\ Extends(s.log, Main) /\ s.commit \in 0..Len(s.log)
  BY DEF SeenInv, Sound, LogsInv, TypeOK, FieldsOK
<1>4. ASSUME NEW s \in seen
      PROVE  /\ DOMAIN s.log = 1..Len(s.log) /\ Len(s.log) \in Nat /\ Len(s.log) <= Len(Main)
             /\ \A i \in DOMAIN s.log : i \in DOMAIN Main /\ s.log[i] = Main[i]
  BY <1>2, <1>3 DEF Extends
<1>5. \A s \in seen : ~(s.commit > Len(s.log)) /\ ~LogOutOfOrder(s.log)
  BY <1>2, <1>3, <1>4 DEF LogOutOfOrder
<1>6. ASSUME NEW s \in seen, NEW v \in seen
      PROVE  /\ ~Panics(s, v)
             /\ \A i \in Compared(s, v) \intersect InBoth(s, v) : ~Diverge(s, v, i)
  <2>1. Compared(s, v) \subseteq InBoth(s, v)
    BY <1>3, <1>4 DEF Compared, InBoth, Least
  <2>2. \A i \in InBoth(s, v) : s.log[i] = v.log[i]
    BY <1>4 DEF InBoth
  <2> QED
    BY <2>1, <2>2 DEF Panics, Diverge, SameEntry
<1>7. ~CommitUnbacked
  BY <1>1 DEF CommitUnbacked
<1>8. Violations \subseteq {"multi_leader"}
  <2> SUFFICES ASSUME NEW code \in Violations PROVE code = "multi_leader"
    OBVIOUS
  <2>1. code \in {"multi_leader", "invalid_commit", "non_contiguous", "no_majority",
                  "divergence", "panic"}
    BY DEF Violations
  <2>2. code # "invalid_commit" /\ code # "non_contiguous"
    BY <1>5 DEF Violations
  <2>3. code # "no_majority"
    BY <1>1 DEF Violations
  <2>4. code # "divergence" /\ code # "panic"
    BY <1>6 DEF Violations
  <2> QED
    BY <2>1, <2>2, <2>3, <2>4
<1>9. "multi_leader" \in Violations =>
         \E w1, w2 \in result.won : w1[2] = w2[2] /\ w1[1] # w2[1]
  BY DEF Violations
<1> QED
  BY <1>7, <1>8, <1>9

\* What a scenario without bugs makes up its mind by (BugObserved): at its "events" call,
\* the only bugs that it can report are those that FixedVerdicts excepts.
LEMMA ObservedRarely ==
    ASSUME TypeOK, PlanInv, DriverInv, SeenInv, LogsInv, SoundInv, NoteInv, HigherInv,
           Bugs = {}, bugEvents = {}, Conclude, Observed
    PROVE  CASE scenario = "split_vote" -> TRUE
             [] scenario \in {"vote_no_log_check", "vote_term_index_comparator"} ->
                  log[Follower] = <<>>
             [] scenario = "higher_term_step_down" -> made = {}
             [] OTHER -> FALSE
<1>1. /\ At("events") /\ ~result.error
      /\ Past("inject") /\ Past("leader") /\ Past("bump")
  BY CallOrder DEF Conclude, PastWhen, At, PlanInv
<1>2. scenario # "stale_leader" /\ scenario # "append_timer_reset"
  BY DEF Observed
<1>3. scenario # "reorder_commit"
  <2> SUFFICES ASSUME scenario = "reorder_commit" PROVE FALSE
    OBVIOUS
  <2>1. CommitUnbacked
    BY DEF Observed
  <2>2. AllSeen /\ \A s \in seen : Sound(s)
    BY <1>1 DEF SeenInv, SoundInv
  <2> QED
    BY <2>1, <2>2, LogsInOrder
<1>4. scenario # "log_truncation"
  BY <1>1 DEF Observed, NoteInv
<1>5. scenario \in {"vote_no_log_check", "vote_term_index_comparator"} => log[Follower] = <<>>
  <2> SUFFICES ASSUME scenario \in {"vote_no_log_check", "vote_term_index_comparator"}
               PROVE  log[Follower] = <<>>
    OBVIOUS
  <2>1. note.reply.success
    BY DEF Observed
  <2> QED
    BY <1>1, <2>1 DEF NoteInv
<1>6. scenario = "higher_term_step_down" => made = {}
  BY <1>1 DEF Observed, HigherInv, Bumped
<1>7. scenario \in {"split_vote", "stale_leader", "reorder_commit", "log_truncation",
                    "vote_no_log_check", "vote_term_index_comparator",
                    "append_timer_reset", "higher_term_step_down"}
  BY Scripts DEF PlanInv
<1> QED
  BY <1>2, <1>3, <1>4, <1>5, <1>6, <1>7

\* A verdict stays, and so does what it rests on.
LEMMA VerdictKept ==
    ASSUME TypeOK, PlanInv, DriverInv, SeenInv, ProposeInv, LogsInv, TermInv, CommitInv, SoundInv,
           NoteInv, HigherInv, VerdictInv, Bugs = {}, bugEvents = {}, [ScenarioNext]_allVars
    PROVE  VerdictInv'
<1> SUFFICES ASSUME ~result'.error PROVE VerdictInv'
  BY DEF VerdictInv
<1>1. /\ ~result.error /\ scenario' = scenario /\ result \in ResultType
      /\ result.observed => Past("events")
      /\ plan # <<>> => result.oracle = {}
  BY CallMoves DEF PlanInv, DriverInv
<1>2. /\ result.observed =>
           CASE scenario = "split_vote" -> TRUE
             [] scenario \in {"vote_no_log_check", "vote_term_index_comparator"} ->
                  log[Follower] = <<>>
             [] scenario = "higher_term_step_down" -> made = {}
             [] OTHER -> FALSE
      /\ result.oracle \subseteq {"multi_leader"}
      /\ "multi_leader" \in result.oracle =>
            \E w1, w2 \in result.won : w1[2] = w2[2] /\ w1[1] # w2[1]
  BY <1>1 DEF VerdictInv
<1>3. CASE Conclude
  <2>1. /\ plan # <<>> /\ UNCHANGED <<log, made, leader>>
        /\ result' = [result EXCEPT !.observed = Observed, !.issue = Issue, !.won = won]
    BY <1>3 DEF Conclude, At, vars
  <2>2. result'.observed = Observed /\ result'.oracle = {}
    <3>1. result'.observed = Observed /\ result'.oracle = result.oracle
      BY <1>1, <2>1 DEF ResultType
    <3> QED
      BY <1>1, <2>1, <3>1
  <2>3. Follower' = Follower
    BY <2>1 DEF Follower, FirstBut
  <2>4. Observed =>
           CASE scenario = "split_vote" -> TRUE
             [] scenario \in {"vote_no_log_check", "vote_term_index_comparator"} ->
                  log[Follower] = <<>>
             [] scenario = "higher_term_step_down" -> made = {}
             [] OTHER -> FALSE
    BY <1>3, ObservedRarely
  <2> QED
    BY <1>1, <2>1, <2>2, <2>3, <2>4 DEF VerdictInv
<1>4. ASSUME result.observed
      PROVE  UNCHANGED <<log, made>> /\ Follower' = Follower
  <2>1. ~At("propose") /\ ~At("elect")
    BY <1>1, <1>4, CallOrder DEF PastWhen
  <2> QED
    BY <2>1, LogsGrow, MadeMoves, LeaderSettled DEF CallPropose
<1>5. CASE Oracle
  <2>1. /\ At("oracle") /\ AllSeen
        /\ result' = [result EXCEPT !.oracle = Violations]
    BY <1>5 DEF Oracle
  <2>2. result'.observed = result.observed /\ result'.won = result.won
        /\ result'.oracle = Violations
    BY <1>1, <2>1 DEF ResultType
  <2>3. \A s \in seen : Sound(s)
    BY <2>1 DEF SoundInv
  <2>4. /\ Violations \subseteq {"multi_leader"}
        /\ "multi_leader" \in Violations =>
              \E w1, w2 \in result.won : w1[2] = w2[2] /\ w1[1] # w2[1]
    BY <2>1, <2>3, LogsInOrder
  <2> HIDE DEF Violations
  <2> QED
    BY <1>1, <1>2, <1>4, <2>2, <2>4 DEF VerdictInv
<1>6. CASE result' = result
  BY <1>1, <1>2, <1>4, <1>6 DEF VerdictInv
<1> QED
  <2>1. \A r : r = [result EXCEPT !.error = TRUE] => r.error
    BY <1>1 DEF ResultType
  <2> QED
    BY <1>3, <1>5, <1>6, <2>1, ResultMoves

\* What holds of a scenario without bugs.
NoBugs ==
    /\ AnyBugs
    /\ LogsInv /\ TermInv /\ RoundInv /\ CommitInv
    /\ SoundInv /\ NoteInv /\ HigherInv /\ VerdictInv
    /\ bugEvents = {}

\* A scenario begins with empty logs, and nothing noted.
LEMMA QuietStart == ASSUME ScenarioInit PROVE NoBugs
<1>1. Init /\ Begin /\ AnyBugs
  BY ScenarioStarts DEF ScenarioInit
<1>2. /\ leader = NoNode /\ seen = {} /\ made = {} /\ bugEvents = {}
      /\ result = [error |-> FALSE, observed |-> FALSE, issue |-> "none", won |-> {}, oracle |-> {}]
      /\ note = [max |-> 0, leader |-> NoSnapshot, follower |-> NoSnapshot,
                 after |-> NoSnapshot, reply |-> NoReply]
      /\ \A n \in Node : /\ log[n] = <<>> /\ commitIndex[n] = 0
                         /\ term[n] = 0 /\ role[n] = "follower"
      /\ \A th \in Thread : task[th] = Idle
  BY <1>1 DEF Init, Begin
<1>3. \A th \in Thread : /\ ~task[th].active /\ task[th].req.entries = <<>>
                         /\ task[th].req.commit = 0
  BY <1>2 DEF Idle, NoRequest
<1>4. \A n \in Node : Round(n) \in Thread
  BY ThreadFacts
<1>5. LogsInv
  BY <1>2, <1>3 DEF LogsInv, Main, Extends
<1>6. TermInv /\ RoundInv
  BY <1>2, <1>3, <1>4 DEF TermInv, RoundInv
<1>7. CommitInv
  <2>1. \A th \in Proposals : th \in Thread
    BY DEF Thread
  <2>2. Len(<<>>) = 0
    OBVIOUS
  <2> QED
    BY <1>2, <1>3, <2>1, <2>2 DEF CommitInv, Spread
<1>8. SoundInv
  BY <1>2 DEF SoundInv
<1>9. NoteInv
  BY <1>2, Picks DEF NoteInv, NoSnapshot, NoReply
<1>10. HigherInv
  <2> SUFFICES ASSUME scenario = "higher_term_step_down" PROVE ~Past("bump") /\ ~Past("leader")
    BY <1>2 DEF HigherInv
  <2>1. plan = <<"elect", "terms", "bump", "propose", "leader", "events", "oracle">>
    BY <1>1, Scripts DEF Begin, Script
  <2>2. 3 \in DOMAIN plan /\ 5 \in DOMAIN plan /\ plan[3] = "bump" /\ plan[5] = "leader"
    BY <2>1
  <2> QED
    BY <2>2 DEF Past
<1>11. VerdictInv
  BY <1>2 DEF VerdictInv
<1> QED
  BY <1>1, <1>2, <1>5, <1>6, <1>7, <1>8, <1>9, <1>10, <1>11 DEF NoBugs

\* No step of a scenario without bugs breaks that.
LEMMA NoBugsKept == ASSUME NoBugs, Bugs = {}, [ScenarioNext]_allVars PROVE NoBugs'
<1>1. /\ TypeOK /\ VotesAccounted /\ PlanInv /\ DriverInv /\ SeenInv /\ ProposeInv
      /\ LogsInv /\ TermInv /\ RoundInv /\ CommitInv
      /\ SoundInv /\ NoteInv /\ HigherInv /\ VerdictInv /\ bugEvents = {}
  BY DEF NoBugs, AnyBugs
<1>2. AnyBugs'
  BY AnyBugsKept DEF NoBugs
<1>3. LogsInv' /\ TermInv' /\ RoundInv' /\ CommitInv'
  BY <1>1, LogsKept, TermKept, RoundKept, CommitKept
<1>4. SoundInv' /\ NoteInv' /\ HigherInv' /\ VerdictInv'
  BY <1>1, SoundKept, NoteKept, HigherKept, VerdictKept
<1>5. bugEvents' = {}
  BY <1>1, QuietKept
<1> QED
  BY <1>2, <1>3, <1>4, <1>5 DEF NoBugs

\* A scenario of a cluster without the bug does not report it (BugObserved), however
\* many elections go on meanwhile, but for the exceptions FixedVerdicts names.
THEOREM FixedForGood == ScenarioSpec => []FixedVerdicts
<1>1. ASSUME Bugs = {} PROVE ScenarioSpec => []FixedVerdicts
  <2>1. ScenarioInit => NoBugs
    BY QuietStart
  <2>2. NoBugs /\ [ScenarioNext]_allVars => NoBugs'
    BY <1>1, NoBugsKept
  <2>3. NoBugs => FixedVerdicts
    BY DEF NoBugs, VerdictInv, FixedVerdicts, Done
  <2> QED
    BY <2>1, <2>2, <2>3, PTL DEF ScenarioSpec
<1>2. ASSUME Bugs # {} PROVE ScenarioSpec => []FixedVerdicts
  <2>1. FixedVerdicts
    BY <1>2 DEF FixedVerdicts
  <2> QED
    BY <2>1, PTL
<1> QED
  BY <1>1, <1>2

\* The oracle (raftSafetyViolations) finds nothing in a cluster without bugs, however
\* long after one another it looks at the nodes, but two leaders of a term in which a
\* vote was cleared.
THEOREM OracleFair == ScenarioSpec => []NoFalseAlarm
<1>1. ASSUME Bugs = {} PROVE ScenarioSpec => []NoFalseAlarm
  <2>1. ScenarioInit => NoBugs
    BY QuietStart
  <2>2. NoBugs /\ [ScenarioNext]_allVars => NoBugs'
    BY <1>1, NoBugsKept
  <2>3. NoBugs => NoFalseAlarm
    <3> SUFFICES ASSUME NoBugs, ~result.error
                 PROVE  /\ result.oracle \subseteq {"multi_leader"}
                        /\ "multi_leader" \in result.oracle =>
                              \E w1, w2 \in won : /\ w1[1] # w2[1]
                                                  /\ \E v \in Node : <<v, w1[2]>> \in cleared
      BY DEF NoFalseAlarm, Done
    <3>1. TypeOK /\ VotesAccounted /\ VerdictInv /\ result.won \subseteq won
      BY DEF NoBugs, AnyBugs, DriverInv
    <3>2. OneWinnerUnlessCleared
      BY <3>1, SharedVoter
    <3> QED
      BY <3>1, <3>2 DEF VerdictInv, OneWinnerUnlessCleared
  <2> QED
    BY <2>1, <2>2, <2>3, PTL DEF ScenarioSpec
<1>2. ASSUME Bugs # {} PROVE ScenarioSpec => []NoFalseAlarm
  <2>1. NoFalseAlarm
    BY <1>2 DEF NoFalseAlarm
  <2> QED
    BY <2>1, PTL
<1> QED
  BY <1>1, <1>2
=============================================================================
