-------------------------------- MODULE MCRaft --------------------------------
(***************************************************************************)
(* Instances of RaftNode for TLC: clusters of three and of two nodes, and    *)
(* reachable states from which the runs about logs begin.                  *)
(***************************************************************************)
EXTENDS RaftProps, TLC

CONSTANTS n1, n2, n3, v1, v2

Node3 == {n1, n2, n3}
\* Every node visits its successor first.
Cyclic == (n1 :> <<n2, n3>>) @@ (n2 :> <<n3, n1>>) @@ (n3 :> <<n1, n2>>)

\* The renamings that map Cyclic to itself.
Rotations == {p \in Permutations(Node3) : \A n \in Node3 : p[n] # n}

\* The loop of a leader that waits for its ticker.
Waiting(n, t) ==
    [Idle EXCEPT !.active = TRUE,
                 !.req = [NoRequest EXCEPT !.type = "append", !.from = n, !.term = t]]

\* A candidate's request when its log is empty.
Asking(n, t) == [NoRequest EXCEPT !.type = "vote", !.from = n, !.term = t]

\* A cluster in which n1 has won term 1 with both votes, and nothing else has
\* happened: one round after Init.
InitLed ==
    /\ role = [n \in Node |-> IF n = n1 THEN "leader" ELSE "follower"]
    /\ term = [n \in Node |-> 1]
    /\ votedFor = [n \in Node |-> n1]
    /\ leaderID = [n \in Node |-> IF n = n1 THEN n1 ELSE NoNode]
    /\ log = [n \in Node |-> <<>>]
    /\ commitIndex = [n \in Node |-> 0]
    /\ task = [th \in Thread |-> IF th = Beat(n1, 1) THEN Waiting(n1, 1) ELSE Idle]
    /\ late = {}
    /\ grants = {<<n, 1, n1>> : n \in Node}
    /\ won = {<<n1, 1>>}
    /\ made = {} /\ cleared = {} /\ held = {}

SpecLed == InitLed /\ [][Next]_vars

\* The same cluster after n2 has won term 2 with the vote of n3, while its
\* request to n1 was lost: two leaders, of different terms.
InitRivals ==
    /\ role = [n \in Node |-> IF n = n3 THEN "follower" ELSE "leader"]
    /\ term = [n \in Node |-> IF n = n1 THEN 1 ELSE 2]
    /\ votedFor = [n \in Node |-> IF n = n1 THEN n1 ELSE n2]
    /\ leaderID = [n \in Node |-> IF n = n3 THEN NoNode ELSE n]
    /\ log = [n \in Node |-> <<>>]
    /\ commitIndex = [n \in Node |-> 0]
    /\ task = [th \in Thread |-> IF th = Beat(n1, 1) THEN Waiting(n1, 1)
                                 ELSE IF th = Beat(n2, 2) THEN Waiting(n2, 2) ELSE Idle]
    /\ late = {}
    /\ grants = {<<n, 1, n1>> : n \in Node} \union {<<n2, 2, n2>>, <<n3, 2, n2>>}
    /\ won = {<<n1, 1>>, <<n2, 2>>}
    /\ made = {} /\ cleared = {} /\ held = {}

\* Two rounds at once: all have voted for n2 in term 1, n2 has not counted the
\* votes yet, and n1 has run out of patience and entered term 2.
InitContested ==
    /\ role = [n \in Node |-> IF n = n3 THEN "follower" ELSE "candidate"]
    /\ term = [n \in Node |-> IF n = n1 THEN 2 ELSE 1]
    /\ votedFor = [n \in Node |-> IF n = n1 THEN n1 ELSE n2]
    /\ leaderID = [n \in Node |-> NoNode]
    /\ log = [n \in Node |-> <<>>]
    /\ commitIndex = [n \in Node |-> 0]
    /\ task = [th \in Thread |->
                 CASE th = Round(n1) -> Start(th, Asking(n1, 2), {n1})
                   [] th = Round(n2) -> [Start(th, Asking(n2, 1), Node) EXCEPT !.todo = <<>>]
                   [] OTHER -> Idle]
    /\ late = {}
    /\ grants = {<<n, 1, n2>> : n \in Node} \union {<<n1, 2, n1>>}
    /\ won = {} /\ made = {} /\ cleared = {} /\ held = {}

InitReplication == InitRivals \/ InitContested

\* Bound: what follows a contested election is explored with one caller for each
\* of its candidates and logs of one entry, what follows the other with one
\* payload.
Narrow ==
    IF <<n2, 1, n2>> \in grants
    THEN /\ \A n \in Node : Len(log[n]) <= 1 /\ task[Proposal(n, 2)] = Idle
         /\ task[Proposal(n3, 1)] = Idle
    ELSE \A p, q \in made : p[2].data = q[2].data

SpecReplication == InitReplication /\ [][Next /\ Narrow']_vars

\* Nothing depends on what is proposed.
Payloads == Permutations({v1, v2})

Node2 == {n1, n2}
Pair == (n1 :> <<n2>>) @@ (n2 :> <<n1>>)
=============================================================================
