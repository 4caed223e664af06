------------------------------ MODULE RaftNode ------------------------------
(***************************************************************************)
(* The nodes of demos/raftsim (internal/raft/node.go) and the messages     *)
(* they exchange.                                                          *)
(*                                                                         *)
(* A node's mutable fields are guarded by Node.mu, and no handler holds the*)
(* mutex across an RPC.  One action is therefore one critical section, and *)
(* everything that the code does between two critical sections (a request  *)
(* that waits in the transport, a reply that waits for its caller) is state*)
(* of the goroutine that is inside its RPC loop: variable task.            *)
(*                                                                         *)
(* Time is left out: an election timer may fire, a heartbeat may tick, and *)
(* an RPC may miss its 2 s deadline, whenever the code's untimed conditions*)
(* allow it.                                                               *)
(***************************************************************************)
EXTENDS Integers, Sequences, FiniteSets

CONSTANTS
    Node,        \* the IDs of the cluster's members
    Order,       \* the order in which each node's loops visit its peers
    NoNode,      \* the empty string of votedFor, leaderID and From
    Data,        \* payloads of proposals
    Caller,      \* goroutines that may be inside Propose at one node
    Bugs,        \* the flags of BugConfig that are set
    BumpTerms,   \* the terms a test may hand to BumpTerm
    Faults,      \* bound: the ways in which an RPC may fail
    MaxTerm,     \* bound: no term above it is reached
    MaxLog,      \* bound: no leader's log grows beyond it
    MaxLate      \* bound: requests that outlive their caller, at one time

ASSUME NodeAssumption == IsFiniteSet(Node) /\ Node # {} /\ NoNode \notin Node
\* NewNode copies the keys of a Go map into n.order: any order, fixed for good.
ASSUME OrderAssumption ==
    /\ Order \in [Node -> Seq(Node)]
    /\ \A n \in Node : /\ {Order[n][i] : i \in DOMAIN Order[n]} = Node \ {n}
                       /\ Len(Order[n]) = Cardinality(Node) - 1
ASSUME CallerAssumption == Caller \subseteq Nat
ASSUME BoundAssumption ==
    /\ MaxTerm \in Nat /\ MaxLog \in Nat /\ MaxLate \in Nat
    /\ BumpTerms \subseteq 0..MaxTerm
    /\ Faults \subseteq {"lost", "late", "unanswered"}

-----------------------------------------------------------------------------
\* Messages and goroutines.

Role == {"follower", "candidate", "leader"}
Term == 0..MaxTerm
Majority == (Cardinality(Node) \div 2) + 1
MutHalf(S) == Cardinality(S) >= Majority - 1             \* mutant: off by one
IsMajority(S) == Cardinality(S) >= Majority
Least(a, b) == IF a < b THEN a ELSE b

Entry == [index : Nat, term : Term, data : Data]

\* A fields a message type does not use holds its zero value, as in Go.
\* entries has at most one element: a heartbeat has none, Propose sends one.
Request ==
    [type : {"none", "vote", "append"}, from : Node \union {NoNode}, term : Term,
     lastTerm : Term, lastIndex : Nat,
     prevIndex : Nat, prevTerm : Term,
     entries : {s \in Seq(Entry) : Len(s) <= 1}, commit : Nat]

NoRequest ==
    [type |-> "none", from |-> NoNode, term |-> 0, lastTerm |-> 0, lastIndex |-> 0,
     prevIndex |-> 0, prevTerm |-> 0, entries |-> <<>>, commit |-> 0]

\* success stands for VoteGranted in a vote response, Success in a result.
Reply == [from : Node \union {NoNode}, term : Term, success : BOOLEAN]
NoReply == [from |-> NoNode, term |-> 0, success |-> FALSE]

\* The goroutines that send RPCs: the election loop of a node while it runs a
\* round, one heartbeat loop per term the node became leader in, and callers
\* of Propose.
Round(n) == [kind |-> "round", node |-> n, id |-> 0]
Beat(n, t) == [kind |-> "beat", node |-> n, id |-> t]
Proposal(n, c) == [kind |-> "propose", node |-> n, id |-> c]

Rounds == {Round(n) : n \in Node}
Beats == {Beat(n, t) : n \in Node, t \in Term}
Proposals == {Proposal(n, c) : n \in Node, c \in Caller}
Thread == Rounds \union Beats \union Proposals

\* req is the request the loop sends to every peer, todo the peers it has not
\* visited yet, reply the answer it has not looked at yet, and yes the nodes it
\* counts as votes or acknowledgements, itself included.
Task == [active : BOOLEAN, req : Request, todo : Seq(Node),
         yes : SUBSET Node, reply : Reply]
Idle == [active |-> FALSE, req |-> NoRequest, todo |-> <<>>,
         yes |-> {}, reply |-> NoReply]

Envelope == [to : Node, req : Request]

-----------------------------------------------------------------------------

VARIABLES
    role, term, votedFor, leaderID, log, commitIndex,   \* fields of Node
    task,         \* what each goroutine is doing
    late,         \* requests whose caller gave up and that will still be handled
    \* what the cluster's event log tells of the past
    grants,       \* <<voter, term, candidate>>: "vote ... grant=true", and the
                  \* vote a candidate casts for itself ("election_start")
    won,          \* <<node, term>>: "leader_elected"
    made,         \* <<node, entry>>: "propose"
    \* history only the properties use
    cleared,      \* <<voter, term>>: an AppendEntries of the voter's own term
                  \* erased its vote
    held          \* <<node, entry>>: the entry was in the node's log, at its index

fields == <<role, term, votedFor, leaderID, log, commitIndex>>
history == <<grants, won, made, cleared, held>>
vars == <<role, term, votedFor, leaderID, log, commitIndex, task, late,
          grants, won, made, cleared, held>>

Init ==
    /\ role = [n \in Node |-> "follower"]
    /\ term = [n \in Node |-> 0]
    /\ votedFor = [n \in Node |-> NoNode]
    /\ leaderID = [n \in Node |-> NoNode]
    /\ log = [n \in Node |-> <<>>]
    /\ commitIndex = [n \in Node |-> 0]
    /\ task = [th \in Thread |-> Idle]
    /\ late = {}
    /\ grants = {} /\ won = {} /\ made = {} /\ cleared = {} /\ held = {}

-----------------------------------------------------------------------------
\* Logs.

LastTerm(l) == IF l = <<>> THEN 0 ELSE l[Len(l)].term
LastIndex(l) == IF l = <<>> THEN 0 ELSE l[Len(l)].index

\* candidateUpToDate, with the comparator bug.
CandidateUpToDate(m, l) ==
    IF "VoteWrongComparator" \in Bugs \/ m.lastTerm = LastTerm(l)
    THEN m.lastIndex >= LastIndex(l)
    ELSE m.lastTerm > LastTerm(l)

\* Mutant: the term of the previous entry is not compared.
MutPrevIndexOnly(l, m) == m.prevIndex <= Len(l)

\* The two tests of PrevLogIndex and PrevLogTerm.
PrevMatches(l, m) ==
    \/ m.prevIndex = 0
    \/ m.prevIndex <= Len(l) /\ l[m.prevIndex].term = m.prevTerm

Gap(l, m) == m.entries # <<>> /\ m.entries[1].index > Len(l) + 1

LogAccepts(l, m) ==
    "UnsafeLogTruncation" \in Bugs \/ (PrevMatches(l, m) /\ ~Gap(l, m))

SameEntry(d, e) == d.term = e.term /\ d.data = e.data

\* Mutant: the truncation keeps the conflicting entry.
MutKeepConflict(l, e) ==
    CASE e.index = 0 -> l
      [] e.index > Len(l) -> Append(l, e)
      [] e.index \in DOMAIN l /\ SameEntry(l[e.index], e) -> l
      [] OTHER -> Append(SubSeq(l, 1, e.index), e)

\* The loop over req.Entries: skip, append, keep, overwrite (a bug) or truncate.
Store(l, e) ==
    CASE e.index = 0 -> l
      [] e.index > Len(l) -> Append(l, e)
      [] e.index \in DOMAIN l /\ SameEntry(l[e.index], e) -> l
      [] OTHER -> IF "UnsafeLogTruncation" \in Bugs
                  THEN [l EXCEPT ![e.index] = e]
                  ELSE Append(SubSeq(l, 1, e.index - 1), e)

LogAfter(l, m) ==
    IF m.entries = <<>> THEN l ELSE Store(l, m.entries[1])

\* The entries of a log that are where their index says.
Held(n, l) == {<<n, l[i]>> : i \in {j \in DOMAIN l : l[j].index = j}}

-----------------------------------------------------------------------------
\* The request handlers (handleConn, dispatch), at node p.

MutNeverStale(p, m) == FALSE                    \* mutant: no comparison of terms
StaleVote(p, m) == m.type = "vote" /\ m.term < term[p]
StaleAppend(p, m) ==
    m.type = "append" /\ m.term < term[p] /\ "AcceptStaleLeader" \notin Bugs

\* Mutant: a node votes for every candidate whose log is good enough.
MutVoteAgain(p, m) == CandidateUpToDate(m, log[p])

\* The decision of handleRequestVote for a request that is not stale; a newer
\* term has already cleared the old vote.
Grants(p, m) ==
    /\ m.term > term[p] \/ votedFor[p] \in {NoNode, m.from}
    /\ "VoteWithoutLogCheck" \in Bugs \/ CandidateUpToDate(m, log[p])

VoteReply(p, m) ==
    [from |-> p, term |-> IF m.term < term[p] THEN term[p] ELSE m.term,
     success |-> ~StaleVote(p, m) /\ Grants(p, m)]
AppendReply(p, m) ==
    [from |-> p, term |-> IF m.term < term[p] THEN term[p] ELSE m.term,
     success |-> ~StaleAppend(p, m) /\ LogAccepts(log[p], m)]
ReplyTo(p, m) == IF m.type = "vote" THEN VoteReply(p, m) ELSE AppendReply(p, m)

RejectStale(p, m) ==
    /\ StaleVote(p, m) \/ StaleAppend(p, m)
    /\ UNCHANGED <<fields, history>>

HandleRequestVote(p, m) ==
    /\ m.type = "vote" /\ ~StaleVote(p, m)
    /\ term' = [term EXCEPT ![p] = m.term]
    /\ role' = [role EXCEPT ![p] = IF m.term > term[p] THEN "follower" ELSE @]
    /\ votedFor' = [votedFor EXCEPT ![p] = IF Grants(p, m) THEN m.from
                                           ELSE IF m.term > term[p] THEN NoNode ELSE @]
    /\ grants' = IF Grants(p, m) THEN grants \union {<<p, m.term, m.from>>} ELSE grants
    /\ UNCHANGED <<leaderID, log, commitIndex, won, made, cleared, held>>

\* Mutant: a leader does not give way to another one of its own term.
MutGivesWayToNewer(p, m) ==
    /\ m.type = "append" /\ ~StaleAppend(p, m)
    /\ term' = [term EXCEPT ![p] = m.term]
    /\ role' = [role EXCEPT ![p] = IF m.term > term[p] THEN "follower" ELSE @]
    /\ votedFor' = [votedFor EXCEPT ![p] = NoNode]
    /\ leaderID' = [leaderID EXCEPT ![p] = m.from]
    /\ LET l == IF LogAccepts(log[p], m) THEN LogAfter(log[p], m) ELSE log[p]
       IN log' = [log EXCEPT ![p] = l] /\ held' = held \union Held(p, l)
    /\ UNCHANGED <<commitIndex, grants, won, made, cleared>>

\* The vote is erased also when the request is of the node's own term.
HandleAppendEntries(p, m) ==
    /\ m.type = "append" /\ ~StaleAppend(p, m)
    /\ IF m.term >= term[p]
       THEN /\ term' = [term EXCEPT ![p] = m.term]
            /\ role' = [role EXCEPT ![p] = "follower"]
            /\ votedFor' = [votedFor EXCEPT ![p] = NoNode]
       ELSE UNCHANGED <<term, role, votedFor>>
    /\ cleared' = IF m.term = term[p] /\ votedFor[p] # NoNode
                  THEN cleared \union {<<p, m.term>>} ELSE cleared
    /\ leaderID' = [leaderID EXCEPT ![p] = m.from]
    /\ IF LogAccepts(log[p], m)
       THEN /\ log' = [log EXCEPT ![p] = LogAfter(@, m)]
            /\ commitIndex' = [commitIndex EXCEPT ![p] =
                 IF m.commit > @ THEN Least(m.commit, Len(LogAfter(log[p], m))) ELSE @]
            /\ held' = held \union Held(p, LogAfter(log[p], m))
       ELSE UNCHANGED <<log, commitIndex, held>>
    /\ UNCHANGED <<grants, won, made>>

Handle(p, m) ==
    RejectStale(p, m) \/ HandleRequestVote(p, m) \/ HandleAppendEntries(p, m)

-----------------------------------------------------------------------------
\* sendMessage: the RPC loop that the three kinds of goroutine share.

Sending(th) == /\ task[th].active
               /\ task[th].reply = NoReply
               /\ task[th].todo # <<>>
Target(th) == Head(task[th].todo)
LoopDone(th) == /\ task[th].active
                /\ task[th].reply = NoReply
                /\ task[th].todo = <<>>

\* The request reaches its target, whose handler runs to the end.
Deliver(th) ==
    /\ Sending(th)
    /\ Handle(Target(th), task[th].req)
    /\ task' = [task EXCEPT ![th].todo = Tail(@),
                            ![th].reply = ReplyTo(Target(th), task[th].req)]
    /\ UNCHANGED late

\* Mutant: an error ends the loop ("return" for "continue").
MutLoseReturns(th) ==
    /\ "lost" \in Faults
    /\ Sending(th)
    /\ task' = [task EXCEPT ![th] = Idle]
    /\ UNCHANGED <<late, fields, history>>

\* The request is dropped by the fault hook, or dialling or encoding fails.
Lose(th) ==
    /\ "lost" \in Faults
    /\ Sending(th)
    /\ task' = [task EXCEPT ![th].todo = Tail(@)]
    /\ UNCHANGED <<late, fields, history>>

\* The deadline passes while the request sits in the connection's buffer: the
\* loop goes on to the next peer, and the target handles the request later.
Abandon(th) ==
    /\ "late" \in Faults
    /\ Sending(th)
    /\ Cardinality(late) < MaxLate
    /\ task' = [task EXCEPT ![th].todo = Tail(@)]
    /\ late' = late \union {[to |-> Target(th), req |-> task[th].req]}
    /\ UNCHANGED <<fields, history>>

\* The target handles a request that nobody waits for any more.
DeliverLate(m) ==
    /\ m \in late
    /\ Handle(m.to, m.req)
    /\ late' = late \ {m}
    /\ UNCHANGED task

\* Mutant: when an answer is missing the loop starts again with the first peer.
MutStartOver(th) ==
    /\ "unanswered" \in Faults
    /\ task[th].reply # NoReply
    /\ task' = [task EXCEPT ![th].reply = NoReply, ![th].todo = Order[th.node]]
    /\ UNCHANGED <<late, fields, history>>

\* The request was handled but the deadline passes before the answer is read.
LoseReply(th) ==
    /\ "unanswered" \in Faults
    /\ task[th].reply # NoReply
    /\ task' = [task EXCEPT ![th].reply = NoReply]
    /\ UNCHANGED <<late, fields, history>>

\* maybeStepDownOnHigherTerm(t) at node n returns true.
StepsDown(n, t) == t > term[n] /\ "NoStepDownOnHigher" \notin Bugs

\* The loop looks at an answer. It ends early only when the answer's term is
\* above the request's and still above the node's current term.
Return(th) ==
    LET n == th.node
        r == task[th].reply
        quits == r.term > task[th].req.term /\ StepsDown(n, r.term)
    IN /\ r # NoReply
       /\ IF quits
          THEN /\ term' = [term EXCEPT ![n] = r.term]
               /\ role' = [role EXCEPT ![n] = "follower"]
               /\ votedFor' = [votedFor EXCEPT ![n] = NoNode]
               /\ leaderID' = [leaderID EXCEPT ![n] = NoNode]
               /\ task' = [task EXCEPT ![th] = Idle]
          ELSE /\ task' = [task EXCEPT ![th].reply = NoReply,
                             ![th].yes = IF r.success /\ th.kind # "beat"
                                         THEN @ \union {r.from} ELSE @]
               /\ UNCHANGED <<term, role, votedFor, leaderID>>
       /\ UNCHANGED <<log, commitIndex, late, history>>

-----------------------------------------------------------------------------
\* runElectionRound, heartbeatLoop, Propose, BumpTerm.

\* The goroutine enters its RPC loop with request m.
Start(th, m, yes) ==
    [active |-> TRUE, req |-> m, todo |-> Order[th.node],
     yes |-> yes, reply |-> NoReply]

\* The election loop finds the node not leader and its timer expired.
StartElection(n) ==
    LET t == term[n] + 1
        m == [NoRequest EXCEPT !.type = "vote", !.from = n, !.term = t,
                !.lastTerm = LastTerm(log[n]), !.lastIndex = LastIndex(log[n])]
    IN /\ ~task[Round(n)].active
       /\ role[n] # "leader"
       /\ t <= MaxTerm
       /\ role' = [role EXCEPT ![n] = "candidate"]
       /\ term' = [term EXCEPT ![n] = t]
       /\ votedFor' = [votedFor EXCEPT ![n] = n]
       /\ leaderID' = [leaderID EXCEPT ![n] = NoNode]
       /\ task' = [task EXCEPT ![Round(n)] = Start(Round(n), m, {n})]
       /\ grants' = grants \union {<<n, t, n>>}
       /\ UNCHANGED <<log, commitIndex, late, won, made, cleared, held>>

\* Mutant: the heartbeat announces the next term.
MutNextTerm(n, t) ==
    [NoRequest EXCEPT !.type = "append", !.from = n, !.term = t + 1, !.commit = commitIndex[n]]

\* The request of a heartbeat of term t.
Heartbeat(n, t) ==
    [NoRequest EXCEPT !.type = "append", !.from = n, !.term = t, !.commit = commitIndex[n]]

\* Mutant: leaderID is set whether the round was won or not.
MutNamesItself(n) ==
    LET t == task[Round(n)].req.term
        elected == IsMajority(task[Round(n)].yes)
    IN /\ LoopDone(Round(n))
       /\ role' = [role EXCEPT ![n] = IF elected THEN "leader" ELSE "candidate"]
       /\ leaderID' = [leaderID EXCEPT ![n] = n]
       /\ IF elected
          THEN /\ won' = won \union {<<n, t>>}
               /\ task' = [task EXCEPT ![Round(n)] = Idle,
                                       ![Beat(n, t)] = [Idle EXCEPT !.active = TRUE,
                                                                   !.req = Heartbeat(n, t)]]
          ELSE task' = [task EXCEPT ![Round(n)] = Idle] /\ UNCHANGED won
       /\ UNCHANGED <<term, votedFor, log, commitIndex, late, grants, made, cleared, held>>

\* The votes are counted. Neither the role nor the term is looked at again.
EndRound(n) ==
    LET t == task[Round(n)].req.term
        elected == IsMajority(task[Round(n)].yes)
    IN /\ LoopDone(Round(n))
       /\ role' = [role EXCEPT ![n] = IF elected THEN "leader" ELSE "candidate"]
       /\ IF elected
          THEN /\ leaderID' = [leaderID EXCEPT ![n] = n]
               /\ won' = won \union {<<n, t>>}
               /\ task' = [task EXCEPT ![Round(n)] = Idle,
                                       ![Beat(n, t)] = [Idle EXCEPT !.active = TRUE,
                                                                   !.req = Heartbeat(n, t)]]
          ELSE /\ task' = [task EXCEPT ![Round(n)] = Idle]
               /\ UNCHANGED <<leaderID, won>>
       /\ UNCHANGED <<term, votedFor, log, commitIndex, late,
                      grants, made, cleared, held>>

\* Mutant: the loop ends only when the node does not lead at all.
MutTickRoleOnly(n, t) ==
    LET th == Beat(n, t)
    IN /\ LoopDone(th)
       /\ task' = [task EXCEPT ![th] = IF role[n] = "leader"
                                       THEN Start(th, Heartbeat(n, t), {}) ELSE Idle]
       /\ UNCHANGED <<late, fields, history>>

\* The ticker of the heartbeat loop of term t fires: the loop ends unless the
\* node leads in that term, else it sends one heartbeat to every peer.
Tick(n, t) ==
    LET th == Beat(n, t)
    IN /\ LoopDone(th)
       /\ task' = [task EXCEPT ![th] = IF role[n] = "leader" /\ term[n] = t
                                       THEN Start(th, Heartbeat(n, t), {}) ELSE Idle]
       /\ UNCHANGED <<late, fields, history>>

Propose(n, c, d) ==
    LET l == log[n]
        e == [index |-> Len(l) + 1, term |-> term[n], data |-> d]
        m == [NoRequest EXCEPT !.type = "append", !.from = n, !.term = term[n],
                !.prevIndex = Len(l), !.prevTerm = IF l = <<>> THEN 0 ELSE l[Len(l)].term,
                !.entries = <<e>>, !.commit = commitIndex[n]]
    IN /\ ~task[Proposal(n, c)].active
       /\ role[n] = "leader"
       /\ Len(l) < MaxLog
       /\ log' = [log EXCEPT ![n] = Append(l, e)]
       /\ made' = made \union {<<n, e>>}
       /\ held' = held \union Held(n, Append(l, e))
       /\ task' = [task EXCEPT ![Proposal(n, c)] = Start(Proposal(n, c), m, {n})]
       /\ UNCHANGED <<role, term, votedFor, leaderID, commitIndex, late,
                      grants, won, cleared>>

\* Mutant: acknowledgements are not counted.
MutAnyAck(yes) == yes # {}

\* The acknowledgements are counted. Neither the role, the term nor the log is
\* looked at again.
Commits(yes) == IF "CommitOnSingleAck" \in Bugs THEN Cardinality(yes) >= 2
                ELSE IsMajority(yes)

EndPropose(n, c) ==
    LET th == Proposal(n, c)
    IN /\ LoopDone(th)
       /\ commitIndex' = [commitIndex EXCEPT ![n] =
            IF Commits(task[th].yes) THEN task[th].req.entries[1].index ELSE @]
       /\ task' = [task EXCEPT ![th] = Idle]
       /\ UNCHANGED <<role, term, votedFor, leaderID, log, late, history>>

\* A test raises the node's term (Cluster.BumpNodeTerm).
BumpTerm(n, t) ==
    /\ t > term[n]
    /\ term' = [term EXCEPT ![n] = t]
    /\ role' = [role EXCEPT ![n] = "follower"]
    /\ votedFor' = [votedFor EXCEPT ![n] = NoNode]
    /\ UNCHANGED <<leaderID, log, commitIndex, task, late, history>>

-----------------------------------------------------------------------------

Rpc(th) == Deliver(th) \/ Lose(th) \/ Abandon(th) \/ LoseReply(th) \/ Return(th)

Next ==
    \/ \E th \in Thread : Rpc(th)
    \/ \E m \in late : DeliverLate(m)
    \/ \E n \in Node : StartElection(n) \/ EndRound(n)
    \/ \E n \in Node, t \in Term : Tick(n, t)
    \/ \E n \in Node, c \in Caller : EndPropose(n, c) \/ \E d \in Data : Propose(n, c, d)
    \/ \E n \in Node, t \in BumpTerms : BumpTerm(n, t)

Spec == Init /\ [][Next]_vars

\* A goroutine that is inside an RPC loop goes on: sendMessage gives every
\* exchange a deadline, a ticker ticks, and the Go scheduler starves no
\* runnable goroutine. Nothing makes an election timer fire first, a message
\* arrive in time, or a caller propose.
Fairness ==
    /\ \A th \in Thread : WF_vars(Rpc(th))
    /\ \A n \in Node : WF_vars(EndRound(n))
    /\ \A n \in Node, t \in Term : WF_vars(Tick(n, t))
    /\ \A n \in Node, c \in Caller : WF_vars(EndPropose(n, c))

FairSpec == Spec /\ Fairness
=============================================================================
