------------------------------- MODULE Elections -------------------------------
(***************************************************************************)
(* What the elections of a cluster promise, without messages, logs, rounds *)
(* or roles: who voted for whom, and who has won. It is the contract that  *)
(* the handlers and loops of demos/raftsim (internal/raft/node.go) keep    *)
(* together; RaftNode implements it.                                       *)
(*                                                                         *)
(* In Raft a vote is final. Here a node may forget the vote of its latest  *)
(* term (handleAppendEntries resets votedFor), which is why cleared is part*)
(* of the contract.                                                        *)
(***************************************************************************)
EXTENDS Integers

CONSTANTS
    Node,     \* the voters, who are the candidates as well
    Term,     \* the terms
    Quorum    \* the sets of voters that elect a candidate: any two of them meet

VARIABLES
    votes,    \* <<voter, term, candidate>>
    winners,  \* <<node, term>>
    cleared   \* <<voter, term>>: the voter has forgotten its vote of that term

vars == <<votes, winners, cleared>>

Init == votes = {} /\ winners = {} /\ cleared = {}

\* The terms in which v voted before are over: none is above t.
Latest(v, t) == \A g \in votes : g[1] = v => g[2] <= t

\* A node votes in no earlier term than before, and for one candidate in a term
\* unless it has forgotten the vote.
Vote(v, t, c) ==
    /\ Latest(v, t)
    /\ \A g \in votes : g[1] = v /\ g[2] = t /\ g[3] # c => <<v, t>> \in cleared
    /\ votes' = votes \union {<<v, t, c>>}
    /\ UNCHANGED <<winners, cleared>>

\* A node forgets a vote it cast in its latest term.
Forget(v, t) ==
    /\ Latest(v, t)
    /\ \E c \in Node : <<v, t, c>> \in votes
    /\ cleared' = cleared \union {<<v, t>>}
    /\ UNCHANGED <<votes, winners>>

\* A candidate that a quorum voted for has won the term.
Win(c, t) ==
    /\ {v \in Node : <<v, t, c>> \in votes} \in Quorum
    /\ winners' = winners \union {<<c, t>>}
    /\ UNCHANGED <<votes, cleared>>

Next ==
    \E v \in Node, t \in Term :
        Forget(v, t) \/ Win(v, t) \/ \E c \in Node : Vote(v, t, c)

Spec == Init /\ [][Next]_vars
=============================================================================
