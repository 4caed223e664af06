---------------------------- MODULE ScenarioProps ----------------------------
(***************************************************************************)
(* What the verdict of a scenario and the findings of the oracle are worth.*)
(***************************************************************************)
EXTENDS Scenarios

Done == Over /\ ~result.error

\* A cluster without the bug of its scenario is not reported as buggy
\* (BugObserved), whatever elections go on while the scenario makes its calls,
\* except where the scenario ignored that Propose failed: an empty log is beaten
\* by any vote request, and a leader that sent nothing was told of no higher
\* term. (split_vote is another matter: SplitVoteStays.)
FixedVerdicts ==
    Done /\ Bugs = {} /\ result.observed =>
        CASE scenario = "split_vote" -> TRUE
          [] scenario \in {"vote_no_log_check", "vote_term_index_comparator"} ->
               log[Follower] = <<>>
          [] scenario = "higher_term_step_down" -> made = {}
          [] OTHER -> FALSE

\* The oracle compares snapshots taken one node after another, with events that
\* are older still, while elections and heartbeats go on. It raises no alarm that
\* the cluster did not earn: the only one left without injected bugs is the
\* second leader of a term in which a vote was cleared (finding two_leaders).
NoFalseAlarm ==
    Done /\ Bugs = {} =>
        /\ result.oracle \subseteq {"multi_leader"}
        /\ "multi_leader" \in result.oracle =>
              \E w1, w2 \in won : w1[1] # w2[1] /\ \E v \in Node : <<v, w1[2]>> \in cleared

\* The hook of split_vote, which drops every RequestVote, is enough for the
\* livelock: with it no node wins, and the scenario reports the bug, also when
\* the election timeouts are not fixed.
SplitVoteStays ==
    scenario = "split_vote" => won = {} /\ (Done => result.observed)

-----------------------------------------------------------------------------
\* scripts/run-raft-patch-series-ci.sh: a stage's fixed sweep is called with the
\* bug_issue of stages.tsv, the code reported when the bug is expected, and fails
\* ("fixed sweep still encountered bug issue") if a run reports it, or if the
\* oracle finds something.
GateFails == result.issue = ForbiddenIssue \/ result.oracle # {}

\* What that message promises: if the bug is still there in fixed mode, and the
\* scenario sees it, the stage fails.
StillPresentIsCaught ==
    Done /\ ~ExpectBug /\ result.observed => GateFails
=============================================================================
