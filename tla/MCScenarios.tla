----------------------------- MODULE MCScenarios -----------------------------
(***************************************************************************)
(* Instances of Scenarios for TLC: three nodes. split_vote, where the hook *)
(* lets no node win, starts with the cluster; the others start when one    *)
(* node has won the first election.                                        *)
(***************************************************************************)
EXTENDS ScenarioProps, TLC

CONSTANTS n1, n2, n3, v1

Node3 == {n1, n2, n3}
InOrder == <<n1, n2, n3>>
\* Every node visits its successor first.
Cyclic == (n1 :> <<n2, n3>>) @@ (n2 :> <<n3, n1>>) @@ (n3 :> <<n1, n2>>)

\* First has won term 1 with the votes of all.
Led(First) ==
    /\ role = [n \in Node |-> IF n = First THEN "leader" ELSE "follower"]
    /\ term = [n \in Node |-> 1]
    /\ votedFor = [n \in Node |-> First]
    /\ leaderID = [n \in Node |-> IF n = First THEN First ELSE NoNode]
    /\ log = [n \in Node |-> <<>>]
    /\ commitIndex = [n \in Node |-> 0]
    /\ task = [th \in Thread |->
                IF th = Beat(First, 1)
                THEN [Idle EXCEPT !.active = TRUE,
                                  !.req = [NoRequest EXCEPT !.type = "append", !.from = First,
                                                            !.term = 1]]
                ELSE Idle]
    /\ late = {}
    /\ grants = {<<n, 1, First>> : n \in Node}
    /\ won = {<<First, 1>>}
    /\ made = {} /\ cleared = {} /\ held = {}

\* In reorder_commit the node that gets the entries may be the leader itself.
InitLed ==
    /\ Begin
    /\ CASE scenario = "split_vote" -> Init
         [] scenario = "reorder_commit" -> Led(n1) \/ Led(n2)
         [] OTHER -> Led(n1)

SpecLed == InitLed /\ [][ScenarioNext]_allVars
=============================================================================
