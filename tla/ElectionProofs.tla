---------------------------- MODULE ElectionProofs ----------------------------
(***************************************************************************)
(* Proofs that RaftNode implements Elections, that a node names only       *)
(* winners as its leader, and that the nodes are never all stuck.          *)
(***************************************************************************)
EXTENDS RaftProofs, WellFoundedInduction

-----------------------------------------------------------------------------
\* Votes that are remembered.

\* A handler that sets votedFor records the grant.
LEMMA HandleRemembers ==
    ASSUME FieldsOK, VoteRemembered, NEW p \in Node, NEW m \in Request, Handle(p, m)
    PROVE  VoteRemembered'
<1> USE DEF VoteRemembered
<1>1. /\ term \in [Node -> Nat] /\ m.term \in Nat
      /\ votedFor \in [Node -> Node \union {NoNode}]
  BY TermsNatural DEF FieldsOK, Request
<1>2. CASE RejectStale(p, m)
  BY <1>2 DEF RejectStale, fields, history
<1>3. CASE HandleRequestVote(p, m)
  <2>1. term' = [term EXCEPT ![p] = m.term] /\ m.term >= term[p]
    BY <1>1, <1>3 DEF HandleRequestVote, StaleVote
  <2>2. CASE Grants(p, m)
    <3>1. /\ votedFor' = [votedFor EXCEPT ![p] = m.from]
          /\ grants' = grants \union {<<p, m.term, m.from>>}
      BY <1>3, <2>2 DEF HandleRequestVote
    <3> QED
      BY <1>1, <2>1, <3>1
  <2>3. CASE ~Grants(p, m)
    <3>1. /\ votedFor' = [votedFor EXCEPT ![p] = IF m.term > term[p] THEN NoNode ELSE @]
          /\ UNCHANGED grants
      BY <1>3, <2>3 DEF HandleRequestVote
    <3> QED
      BY <1>1, <2>1, <3>1
  <2> QED
    BY <2>2, <2>3
<1>4. CASE HandleAppendEntries(p, m)
  <2>1. /\ UNCHANGED grants
        /\ IF m.term >= term[p]
           THEN /\ term' = [term EXCEPT ![p] = m.term]
                /\ votedFor' = [votedFor EXCEPT ![p] = NoNode]
           ELSE UNCHANGED <<term, votedFor>>
    BY <1>4 DEF HandleAppendEntries
  <2> QED
    BY <1>1, <2>1
<1> QED
  BY <1>2, <1>3, <1>4 DEF Handle

\* A node that moves to another term remembers no vote.
LEMMA RaisedRemembers ==
    ASSUME FieldsOK, VoteRemembered, NEW n \in Node, NEW t,
           term' = [term EXCEPT ![n] = t], votedFor' = [votedFor EXCEPT ![n] = NoNode],
           UNCHANGED grants
    PROVE  VoteRemembered'
  BY DEF FieldsOK, VoteRemembered

\* The requests that are delivered, in time or late, are requests of nodes.
LEMMA Delivered ==
    ASSUME TypeOK
    PROVE  /\ \A th \in Thread : Deliver(th) =>
                 /\ Target(th) \in Node
                 /\ task[th].req \in Request /\ task[th].req.from \in Node
           /\ \A m \in late : m.to \in Node /\ m.req \in Request /\ m.req.from \in Node
<1>1. TasksOK /\ task \in [Thread -> Task] /\ late \subseteq Envelope
  BY DEF TypeOK
<1>2. ASSUME NEW th \in Thread, Deliver(th)
      PROVE  Target(th) \in Node /\ task[th].req \in Request /\ task[th].req.from \in Node
  BY <1>1, <1>2 DEF Deliver, Sending, Target, Task, TasksOK
<1> QED
  BY <1>1, <1>2 DEF Envelope, TasksOK

\* The part of Next that leaves votes, victories and erasures alone.
LEMMA StepRemembers ==
    ASSUME TypeOK, VoteRemembered, [Next]_vars
    PROVE  VoteRemembered'
<1>1. FieldsOK
  BY DEF TypeOK
<1>2. ASSUME UNCHANGED <<term, votedFor, grants>> PROVE VoteRemembered'
  BY <1>2 DEF VoteRemembered
<1>3. ASSUME NEW th \in Thread, Rpc(th) PROVE VoteRemembered'
  <2>1. CASE Deliver(th)
    BY <1>1, <2>1, Delivered, HandleRemembers DEF Deliver
  <2>2. CASE Lose(th) \/ Abandon(th) \/ LoseReply(th)
    BY <1>2, <2>2 DEF Lose, Abandon, LoseReply, fields, history
  <2>3. CASE Return(th)
    <3>1. \/ UNCHANGED <<term, votedFor, grants>>
          \/ /\ term' = [term EXCEPT ![th.node] = task[th].reply.term]
             /\ votedFor' = [votedFor EXCEPT ![th.node] = NoNode]
             /\ UNCHANGED grants
      BY <2>3 DEF Return, history
    <3> QED
      BY <1>1, <1>2, <3>1, ThreadFacts, RaisedRemembers
  <2> QED
    BY <1>3, <2>1, <2>2, <2>3 DEF Rpc
<1>4. ASSUME NEW m \in late, DeliverLate(m) PROVE VoteRemembered'
  BY <1>1, <1>4, Delivered, HandleRemembers DEF DeliverLate
<1>5. ASSUME NEW n \in Node, StartElection(n) PROVE VoteRemembered'
  <2>1. /\ term' = [term EXCEPT ![n] = term[n] + 1] /\ votedFor' = [votedFor EXCEPT ![n] = n]
        /\ grants' = grants \union {<<n, term[n] + 1, n>>}
    BY <1>5 DEF StartElection
  <2> QED
    BY <1>1, <2>1 DEF FieldsOK, VoteRemembered
<1>6. ASSUME NEW n \in Node, EndRound(n) PROVE VoteRemembered'
  BY <1>2, <1>6 DEF EndRound
<1>7. ASSUME NEW n \in Node, NEW t \in Term, Tick(n, t) PROVE VoteRemembered'
  BY <1>2, <1>7 DEF Tick, fields, history
<1>8. ASSUME NEW n \in Node, NEW c \in Caller, EndPropose(n, c) PROVE VoteRemembered'
  BY <1>2, <1>8 DEF EndPropose, history
<1>9. ASSUME NEW n \in Node, NEW c \in Caller, NEW d \in Data, Propose(n, c, d)
      PROVE  VoteRemembered'
  BY <1>2, <1>9 DEF Propose
<1>10. ASSUME NEW n \in Node, NEW t \in BumpTerms, BumpTerm(n, t) PROVE VoteRemembered'
  BY <1>1, <1>10, RaisedRemembers DEF BumpTerm, history
<1>11. CASE UNCHANGED vars
  BY <1>2, <1>11 DEF vars
<1> QED
  BY <1>3, <1>4, <1>5, <1>6, <1>7, <1>8, <1>9, <1>10, <1>11 DEF Next

\* A node always remembers a vote it has cast, of its current term.
LEMMA Remembered == Spec => []VoteRemembered
<1>1. Init => VoteRemembered
  BY DEF Init, VoteRemembered
<1>2. TypeOK /\ VoteRemembered /\ [Next]_vars => VoteRemembered'
  BY StepRemembers
<1> QED
  BY <1>1, <1>2, TypeCorrect, PTL DEF Spec

-----------------------------------------------------------------------------
\* The refinement.

\* A handler grants a vote, forgets one, or does neither.
LEMMA HandleRefines ==
    ASSUME FieldsOK, VotersOK, VoteRemembered,
           NEW p \in Node, NEW m \in Request, m.from \in Node, Handle(p, m)
    PROVE  [E!Next]_(E!vars)
<1>1. /\ term \in [Node -> Nat] /\ m.term \in Term /\ m.term \in Nat
      /\ votedFor \in [Node -> Node \union {NoNode}] /\ m.from # NoNode
      /\ grants \subseteq Node \X Term \X Node
  BY TermsNatural, NodeAssumption DEF FieldsOK, Request
<1>2. \A g \in grants : g[1] \in Node /\ g[2] \in Nat /\ g[3] \in Node /\ g[3] # NoNode
  <2>1. \A g \in grants : g[1] \in Node /\ g[2] \in Term /\ g[3] \in Node
    BY <1>1
  <2> QED
    BY <2>1, TermsNatural, NodeAssumption
<1>3. \A g \in grants : g[1] = p => g[2] <= term[p]
  BY <1>1, <1>2 DEF VotersOK, GrantsReached
<1>4. CASE RejectStale(p, m)
  BY <1>4 DEF RejectStale, history, E!vars
<1>5. CASE HandleRequestVote(p, m)
  <2>1. UNCHANGED <<won, cleared>> /\ m.term >= term[p]
    BY <1>1, <1>5 DEF HandleRequestVote, StaleVote
  <2>2. CASE Grants(p, m)
    <3>1. grants' = grants \union {<<p, m.term, m.from>>}
      BY <1>5, <2>2 DEF HandleRequestVote
    <3>2. m.term > term[p] \/ votedFor[p] = NoNode \/ votedFor[p] = m.from
      BY <2>2 DEF Grants
    <3>3. E!Latest(p, m.term)
      BY <1>1, <1>2, <1>3, <2>1 DEF E!Latest
    <3>4. \A g \in grants : g[1] = p /\ g[2] = m.term /\ g[3] # m.from =>
             <<p, m.term>> \in cleared
      BY <1>1, <1>2, <1>3, <2>1, <3>2 DEF VotersOK, VoteKept
    <3>5. E!Vote(p, m.term, m.from)
      BY <2>1, <3>1, <3>3, <3>4 DEF E!Vote
    <3> QED
      BY <1>1, <3>5 DEF E!Next
  <2>3. CASE ~Grants(p, m)
    BY <1>5, <2>1, <2>3 DEF HandleRequestVote, E!vars
  <2> QED
    BY <2>2, <2>3
<1>6. CASE HandleAppendEntries(p, m)
  <2>1. UNCHANGED <<grants, won>>
    BY <1>6 DEF HandleAppendEntries
  <2>2. CASE m.term = term[p] /\ votedFor[p] # NoNode
    <3>1. cleared' = cleared \union {<<p, m.term>>}
      BY <1>6, <2>2 DEF HandleAppendEntries
    <3>2. E!Latest(p, m.term)
      BY <1>3, <2>2 DEF E!Latest
    <3>3. votedFor[p] \in Node /\ <<p, m.term, votedFor[p]>> \in grants
      BY <1>1, <2>2 DEF VoteRemembered
    <3>4. E!Forget(p, m.term)
      BY <2>1, <3>1, <3>2, <3>3 DEF E!Forget
    <3> QED
      BY <1>1, <3>4 DEF E!Next
  <2>3. CASE ~(m.term = term[p] /\ votedFor[p] # NoNode)
    <3>1. UNCHANGED cleared
      BY <1>6, <2>3 DEF HandleAppendEntries
    <3> QED
      BY <2>1, <3>1 DEF E!vars
  <2> QED
    BY <2>2, <2>3
<1> QED
  BY <1>4, <1>5, <1>6 DEF Handle

\* A candidate votes for itself in a term that none of its votes has reached.
LEMMA StartElectionRefines ==
    ASSUME FieldsOK, VotersOK, NEW n \in Node, StartElection(n)
    PROVE  [E!Next]_(E!vars)
<1> DEFINE t == term[n] + 1
<1>1. /\ term \in [Node -> Nat] /\ t \in Term /\ t \in Nat
      /\ grants' = grants \union {<<n, t, n>>} /\ UNCHANGED <<won, cleared>>
  BY TermsNatural, BoundAssumption DEF FieldsOK, StartElection, Term
<1>2. \A g \in grants : g[1] = n => g[2] \in Nat /\ g[2] <= term[n]
  <2>1. \A g \in grants : g[2] \in Term
    BY DEF FieldsOK
  <2> QED
    BY <2>1, TermsNatural DEF VotersOK, GrantsReached
<1>3. \A g \in grants : g[1] = n => g[2] < t
  BY <1>1, <1>2
<1>4. E!Latest(n, t)
  BY <1>1, <1>2, <1>3 DEF E!Latest
<1>5. \A g \in grants : ~(g[1] = n /\ g[2] = t)
  BY <1>1, <1>2, <1>3
<1> HIDE DEF t
<1>6. E!Vote(n, t, n)
  BY <1>1, <1>4, <1>5 DEF E!Vote
<1> QED
  BY <1>1, <1>6 DEF E!Next

\* A candidate that ends its round with enough answers has a majority of votes.
LEMMA EndRoundRefines ==
    ASSUME TypeOK, VotesAccounted, NEW n \in Node, EndRound(n)
    PROVE  [E!Next]_(E!vars)
<1> DEFINE t == task[Round(n)].req.term
<1>1. UNCHANGED <<grants, cleared>>
  BY DEF EndRound
<1>2. CASE IsMajority(task[Round(n)].yes)
  <2>1. won' = won \union {<<n, t>>}
    BY <1>2 DEF EndRound
  <2>2. WonByMajority'
    BY EndRoundVotes DEF VotesAccounted
  <2>3. <<n, t>> \in won'
    BY <2>1
  <2>4. t \in Term
    BY ThreadFacts DEF TypeOK, Task, Request
  <2> HIDE DEF t
  <2>5. IsMajority({v \in Node : <<v, t, n>> \in grants'})
    BY <2>2, <2>3 DEF WonByMajority
  <2>6. {v \in Node : <<v, t, n>> \in grants} \in {S \in SUBSET Node : IsMajority(S)}
    BY <1>1, <2>5
  <2>7. E!Win(n, t)
    BY <1>1, <2>1, <2>6 DEF E!Win
  <2> QED
    BY <2>4, <2>7 DEF E!Next
<1>3. CASE ~IsMajority(task[Round(n)].yes)
  BY <1>1, <1>3 DEF EndRound, E!vars
<1> QED
  BY <1>2, <1>3

\* Whatever the handlers and loops of node.go do, with messages lost, late or
\* interleaved and any bugs injected, their votes and victories are those of
\* Elections.
THEOREM Refinement == Spec => ImplementsElections
<1>1. Init => E!Init
  BY DEF Init, E!Init
<1>2. TypeOK /\ VotesAccounted /\ VoteRemembered /\ [Next]_vars => [E!Next]_(E!vars)
  <2> SUFFICES ASSUME TypeOK, VotesAccounted, VoteRemembered, [Next]_vars
               PROVE  [E!Next]_(E!vars)
    OBVIOUS
  <2>1. FieldsOK /\ VotersOK
    BY DEF TypeOK, VotesAccounted, VotersOK
  <2>2. ASSUME UNCHANGED <<grants, won, cleared>> PROVE [E!Next]_(E!vars)
    BY <2>2 DEF E!vars
  <2>3. ASSUME NEW th \in Thread, Rpc(th) PROVE [E!Next]_(E!vars)
    <3>1. CASE Deliver(th)
      BY <2>1, <3>1, Delivered, HandleRefines DEF Deliver
    <3>2. CASE Lose(th) \/ Abandon(th) \/ LoseReply(th) \/ Return(th)
      BY <2>2, <3>2 DEF Lose, Abandon, LoseReply, Return, history
    <3> QED
      BY <2>3, <3>1, <3>2 DEF Rpc
  <2>4. ASSUME NEW m \in late, DeliverLate(m) PROVE [E!Next]_(E!vars)
    BY <2>1, <2>4, Delivered, HandleRefines DEF DeliverLate
  <2>5. ASSUME NEW n \in Node, StartElection(n) PROVE [E!Next]_(E!vars)
    BY <2>1, <2>5, StartElectionRefines
  <2>6. ASSUME NEW n \in Node, EndRound(n) PROVE [E!Next]_(E!vars)
    BY <2>6, EndRoundRefines
  <2>7. ASSUME NEW n \in Node, NEW t \in Term, Tick(n, t) PROVE [E!Next]_(E!vars)
    BY <2>2, <2>7 DEF Tick, history
  <2>8. ASSUME NEW n \in Node, NEW c \in Caller, EndPropose(n, c) PROVE [E!Next]_(E!vars)
    BY <2>2, <2>8 DEF EndPropose, history
  <2>9. ASSUME NEW n \in Node, NEW c \in Caller, NEW d \in Data, Propose(n, c, d)
        PROVE  [E!Next]_(E!vars)
    BY <2>2, <2>9 DEF Propose
  <2>10. ASSUME NEW n \in Node, NEW t \in BumpTerms, BumpTerm(n, t) PROVE [E!Next]_(E!vars)
    BY <2>2, <2>10 DEF BumpTerm, history
  <2>11. CASE UNCHANGED vars
    BY <2>2, <2>11 DEF vars
  <2> QED
    BY <2>3, <2>4, <2>5, <2>6, <2>7, <2>8, <2>9, <2>10, <2>11 DEF Next
<1>3. Spec => E!Spec
  BY <1>1, <1>2, TypeCorrect, VotesAlwaysAccounted, Remembered, PTL DEF Spec, E!Spec
<1> QED
  BY <1>3 DEF ImplementsElections

-----------------------------------------------------------------------------
\* Leaders that are named.

\* Node n is in W, the winners on record, with a term up to k.
Backed(W, n, k) == \E t \in 1..k : <<n, t>> \in W

\* Entries and heartbeats are sent in a term that their sender won, or after it.
Announced(W, m) == m.type = "append" => Backed(W, m.from, m.term)

\* What keeps LeaderHint: a leader has won, whatever it sends says so, and a round
\* that may still make its node leader is of a term the node has reached.
HintInv ==
    /\ LeaderHint
    /\ \A n \in Node : role[n] = "leader" => Backed(won, n, term[n])
    /\ \A th \in Thread : Announced(won, task[th].req)
    /\ \A e \in late : Announced(won, e.req)
    /\ \A n \in Node : task[Round(n)].active =>
          task[Round(n)].req.term \in 1..term[n] /\ task[Round(n)].req.type = "vote"

\* Who has won stays a winner.
LEMMA BackedKept ==
    ASSUME NEW V, NEW W, V \subseteq W, NEW n, NEW j \in Nat, NEW k \in Nat, j <= k,
           Backed(V, n, j)
    PROVE  Backed(W, n, k)
  BY DEF Backed

\* A step that names, promotes and announces winners only keeps the invariant.
LEMMA HintKept ==
    ASSUME TypeOK, TypeOK', HintInv, won \subseteq won',
           \A n \in Node : term'[n] >= term[n],
           \A n \in Node : \/ leaderID'[n] \in {leaderID[n], NoNode}
                           \/ Backed(won', leaderID'[n], term'[n]),
           \A n \in Node : role'[n] = "leader" =>
               role[n] = "leader" \/ Backed(won', n, term'[n]),
           \A th \in Thread : \/ task'[th].req = task[th].req
                              \/ Announced(won', task'[th].req),
           \A e \in late' : e \in late \/ Announced(won', e.req),
           \A n \in Node : task'[Round(n)].active =>
               \/ task[Round(n)].active /\ task'[Round(n)].req = task[Round(n)].req
               \/ task'[Round(n)].req.term \in 1..term'[n]
                  /\ task'[Round(n)].req.type = "vote"
    PROVE  HintInv'
<1>1. /\ term \in [Node -> Nat] /\ term' \in [Node -> Nat]
      /\ \A th \in Thread : task[th].req.term \in Nat
      /\ \A e \in late : e.req.term \in Nat
  BY TermsNatural DEF TypeOK, FieldsOK, Task, Request, Envelope
<1>2. LeaderHint <=> \A n \in Node : leaderID[n] # NoNode => Backed(won, leaderID[n], term[n])
  BY DEF LeaderHint, Backed
<1>3. LeaderHint' <=>
        \A n \in Node : leaderID'[n] # NoNode => Backed(won', leaderID'[n], term'[n])
  BY DEF LeaderHint, Backed
<1>4. LeaderHint'
  BY <1>1, <1>2, <1>3, BackedKept DEF HintInv
<1>5. \A n \in Node : role'[n] = "leader" => Backed(won', n, term'[n])
  BY <1>1, BackedKept DEF HintInv
<1>6. \A th \in Thread : Announced(won', task'[th].req)
  BY <1>1, BackedKept DEF HintInv, Announced
<1>7. \A e \in late' : Announced(won', e.req)
  BY <1>1, BackedKept DEF HintInv, Announced
<1>8. \A n \in Node : task'[Round(n)].active =>
         task'[Round(n)].req.term \in 1..term'[n] /\ task'[Round(n)].req.type = "vote"
  BY <1>1 DEF HintInv
<1> QED
  BY <1>4, <1>5, <1>6, <1>7, <1>8 DEF HintInv

\* A handler promotes nobody and believes the sender of entries or a heartbeat.
LEMMA HandleHint ==
    ASSUME FieldsOK, NEW p \in Node, NEW m \in Request, Announced(won, m), Handle(p, m)
    PROVE  /\ won' = won
           /\ \A n \in Node : \/ leaderID'[n] \in {leaderID[n], NoNode}
                              \/ Backed(won', leaderID'[n], term'[n])
           /\ \A n \in Node : role'[n] = "leader" => role[n] = "leader"
<1>1. /\ term \in [Node -> Nat] /\ m.term \in Nat /\ role \in [Node -> Role]
      /\ leaderID \in [Node -> Node \union {NoNode}]
  BY TermsNatural DEF FieldsOK, Request
<1>2. CASE RejectStale(p, m)
  BY <1>1, <1>2 DEF RejectStale, fields, history
<1>3. CASE HandleRequestVote(p, m)
  BY <1>1, <1>3 DEF HandleRequestVote
<1>4. CASE HandleAppendEntries(p, m)
  <2>1. /\ won' = won /\ leaderID' = [leaderID EXCEPT ![p] = m.from]
        /\ m.type = "append"
        /\ IF m.term >= term[p]
           THEN term' = [term EXCEPT ![p] = m.term] /\ role' = [role EXCEPT ![p] = "follower"]
           ELSE UNCHANGED <<term, role>>
    BY <1>4 DEF HandleAppendEntries
  <2>2. term'[p] \in Nat /\ term'[p] >= m.term
    BY <1>1, <2>1
  <2>3. Backed(won', m.from, term'[p])
    BY <1>1, <2>1, <2>2, BackedKept DEF Announced
  <2> QED
    BY <1>1, <2>1, <2>3
<1> QED
  BY <1>2, <1>3, <1>4 DEF Handle

\* A step that names no leader but one who has won, and whose goroutines go on with
\* what they were sending or stop, keeps the invariant.
LEMMA HintQuiet ==
    ASSUME TypeOK, TypeOK', HintInv, [Next]_vars, won' = won,
           \A n \in Node : \/ leaderID'[n] \in {leaderID[n], NoNode}
                           \/ Backed(won', leaderID'[n], term'[n]),
           \A n \in Node : role'[n] = "leader" => role[n] = "leader",
           \A th \in Thread : \/ task'[th] \in {task[th], Idle}
                              \/ task[th].active /\ task'[th].req = task[th].req,
           \A e \in late' : e \in late \/ Announced(won', e.req)
    PROVE  HintInv'
<1>1. \A n \in Node : term'[n] >= term[n]
  BY StepTerm
<1>2. ~Idle.active /\ Announced(won', Idle.req)
  BY DEF Idle, NoRequest, Announced
<1>3. \A th \in Thread : task'[th].req = task[th].req \/ Announced(won', task'[th].req)
  BY <1>2
<1>4. \A n \in Node : task'[Round(n)].active =>
         task[Round(n)].active /\ task'[Round(n)].req = task[Round(n)].req
  BY <1>2, ThreadFacts
<1> QED
  BY <1>1, <1>3, <1>4, HintKept

\* The five steps of an RPC loop.
LEMMA RpcHint ==
    ASSUME TypeOK, TypeOK', HintInv, NEW th \in Thread, Rpc(th)
    PROVE  HintInv'
<1>1. /\ FieldsOK /\ TasksOK /\ task \in [Thread -> Task] /\ task[th] \in Task
      /\ Announced(won, task[th].req) /\ [Next]_vars
      /\ role \in [Node -> Role] /\ leaderID \in [Node -> Node \union {NoNode}]
  BY DEF TypeOK, FieldsOK, HintInv, Next
<1>2. task[th].active
  BY <1>1, RepliesAwaited DEF Rpc, Deliver, Lose, Abandon, LoseReply, Return, Sending
<1>3. \/ task' = [task EXCEPT ![th] = Idle]
      \/ \E k \in Task : task' = [task EXCEPT ![th] = k] /\ k.req = task[th].req
  <2>1. CASE Return(th) /\ task' = [task EXCEPT ![th] = Idle]
    BY <2>1
  <2>2. CASE ~(Return(th) /\ task' = [task EXCEPT ![th] = Idle])
    <3>1. task'[th].req = task[th].req /\ task' = [task EXCEPT ![th] = task'[th]]
      BY <1>1, <2>2 DEF Rpc, Deliver, Lose, Abandon, LoseReply, Return, Task
    <3>2. task'[th] \in Task
      BY DEF TypeOK
    <3> QED
      BY <3>1, <3>2
  <2> QED
    BY <2>1, <2>2
<1>4. \A u \in Thread : \/ task'[u] \in {task[u], Idle}
                        \/ task[u].active /\ task'[u].req = task[u].req
  BY <1>1, <1>2, <1>3
<1>5. CASE Deliver(th)
  <2>1. Target(th) \in Node /\ task[th].req \in Request
    BY <1>5, Delivered
  <2>2. Handle(Target(th), task[th].req) /\ late' = late
    BY <1>5 DEF Deliver
  <2> QED
    BY <1>1, <1>4, <2>1, <2>2, HandleHint, HintQuiet
<1>6. CASE Lose(th) \/ Abandon(th) \/ LoseReply(th)
  <2>1. UNCHANGED <<role, leaderID, won>>
    BY <1>6 DEF Lose, Abandon, LoseReply, fields, history
  <2>2. late' = late \/ late' = late \union {[to |-> Target(th), req |-> task[th].req]}
    BY <1>6 DEF Lose, Abandon, LoseReply
  <2>3. \A e \in late' : e \in late \/ Announced(won', e.req)
    BY <1>1, <2>1, <2>2
  <2> QED
    BY <1>1, <1>4, <2>1, <2>3, HintQuiet
<1>7. CASE Return(th)
  <2>1. /\ UNCHANGED <<late, won>>
        /\ \/ UNCHANGED <<role, leaderID>>
           \/ /\ role' = [role EXCEPT ![th.node] = "follower"]
              /\ leaderID' = [leaderID EXCEPT ![th.node] = NoNode]
    BY <1>7 DEF Return, history
  <2>2. th.node \in Node
    BY ThreadFacts
  <2> QED
    BY <1>1, <1>4, <2>1, <2>2, HintQuiet
<1> QED
  BY <1>5, <1>6, <1>7 DEF Rpc

\* A candidate names no leader, and its round is of its new term.
LEMMA StartElectionHint ==
    ASSUME TypeOK, TypeOK', HintInv, NEW n \in Node, StartElection(n)
    PROVE  HintInv'
<1>1. /\ term \in [Node -> Nat] /\ task \in [Thread -> Task] /\ role \in [Node -> Role]
      /\ leaderID \in [Node -> Node \union {NoNode}] /\ [Next]_vars
  BY TermsNatural DEF TypeOK, FieldsOK, Next
<1>2. /\ UNCHANGED <<won, late>> /\ term' = [term EXCEPT ![n] = term[n] + 1]
      /\ role' = [role EXCEPT ![n] = "candidate"]
      /\ leaderID' = [leaderID EXCEPT ![n] = NoNode]
  BY DEF StartElection
<1>3. PICK k : /\ task' = [task EXCEPT ![Round(n)] = k]
               /\ k.req.type = "vote" /\ k.req.term = term[n] + 1
  <2> DEFINE m == [NoRequest EXCEPT !.type = "vote", !.from = n, !.term = term[n] + 1,
                     !.lastTerm = LastTerm(log[n]), !.lastIndex = LastIndex(log[n])]
             j == Start(Round(n), m, {n})
  <2>1. task' = [task EXCEPT ![Round(n)] = j]
    BY DEF StartElection
  <2>2. j.req.type = "vote" /\ j.req.term = term[n] + 1
    BY DEF Start, NoRequest
  <2> HIDE DEF j
  <2> QED
    BY <2>1, <2>2
<1>4. /\ \A m \in Node : term'[m] >= term[m]
      /\ \A m \in Node : leaderID'[m] \in {leaderID[m], NoNode}
      /\ \A m \in Node : role'[m] = "leader" => role[m] = "leader"
      /\ term[n] + 1 \in 1..term'[n]
  BY <1>1, <1>2
<1>5. \A th \in Thread : task'[th].req = task[th].req \/ Announced(won', task'[th].req)
  BY <1>1, <1>3 DEF Announced
<1>6. \A m \in Node : task'[Round(m)].active =>
         \/ task[Round(m)].active /\ task'[Round(m)].req = task[Round(m)].req
         \/ task'[Round(m)].req.term \in 1..term'[m] /\ task'[Round(m)].req.type = "vote"
  <2>1. ASSUME NEW m \in Node, m # n PROVE task'[Round(m)] = task[Round(m)]
    BY <1>1, <1>3, <2>1, ThreadFacts
  <2>2. task'[Round(n)].req = k.req
    BY <1>1, <1>3, ThreadFacts
  <2> QED
    BY <1>3, <1>4, <2>1, <2>2
<1> QED
  BY <1>2, <1>4, <1>5, <1>6, HintKept

\* A node that is made leader has won, in a term it had reached.
LEMMA EndRoundHint ==
    ASSUME TypeOK, TypeOK', HintInv, NEW n \in Node, EndRound(n)
    PROVE  HintInv'
<1> DEFINE t == task[Round(n)].req.term
           b == [Idle EXCEPT !.active = TRUE, !.req = Heartbeat(n, t)]
<1>1. /\ term \in [Node -> Nat] /\ task \in [Thread -> Task] /\ role \in [Node -> Role]
      /\ leaderID \in [Node -> Node \union {NoNode}] /\ [Next]_vars
  BY TermsNatural DEF TypeOK, FieldsOK, Next
<1>2. /\ t \in 1..term[n] /\ t \in Term /\ t \in Nat
      /\ UNCHANGED <<term, late>>
  BY <1>1, ThreadFacts, TermsNatural DEF HintInv, EndRound, LoopDone, Task, Request
<1>3. ~Idle.active /\ Announced(won', Idle.req)
  BY DEF Idle, NoRequest, Announced
<1>4. CASE IsMajority(task[Round(n)].yes)
  <2>1. /\ won' = won \union {<<n, t>>} /\ leaderID' = [leaderID EXCEPT ![n] = n]
        /\ role' = [role EXCEPT ![n] = "leader"]
        /\ task' = [task EXCEPT ![Round(n)] = Idle, ![Beat(n, t)] = b]
    BY <1>4 DEF EndRound
  <2>2. b.req.from = n /\ b.req.term = t
    BY DEF Heartbeat, Idle, NoRequest
  <2>3. Beat(n, t) \in Thread /\ \A m \in Node : Round(m) # Beat(n, t)
    BY <1>2, ThreadFacts
  <2> HIDE DEF b, t
  <2>4. Backed(won', n, term'[n]) /\ Announced(won', b.req)
    BY <1>1, <1>2, <2>1, <2>2 DEF Backed, Announced
  <2>5. \A th \in Thread : \/ task'[th] = task[th]
                           \/ task'[th] = Idle
                           \/ th = Beat(n, t) /\ task'[th] = b
    BY <1>1, <2>1, ThreadFacts
  <2>6. \A th \in Thread : task'[th].req = task[th].req \/ Announced(won', task'[th].req)
    BY <1>3, <2>4, <2>5
  <2>7. \A m \in Node : task'[Round(m)].active =>
           task[Round(m)].active /\ task'[Round(m)].req = task[Round(m)].req
    BY <1>3, <2>3, <2>5, ThreadFacts
  <2>8. /\ \A m \in Node : \/ leaderID'[m] \in {leaderID[m], NoNode}
                           \/ Backed(won', leaderID'[m], term'[m])
        /\ \A m \in Node : role'[m] = "leader" =>
              role[m] = "leader" \/ Backed(won', m, term'[m])
    BY <1>1, <2>1, <2>4
  <2>9. won \subseteq won' /\ \A m \in Node : term'[m] >= term[m]
    BY <1>1, <1>2, <2>1
  <2> QED
    BY <1>2, <2>6, <2>7, <2>8, <2>9, HintKept
<1>5. CASE ~IsMajority(task[Round(n)].yes)
  <2>1. /\ UNCHANGED <<won, leaderID>> /\ role' = [role EXCEPT ![n] = "candidate"]
        /\ task' = [task EXCEPT ![Round(n)] = Idle]
    BY <1>5 DEF EndRound
  <2>2. /\ \A th \in Thread : task'[th] \in {task[th], Idle}
        /\ \A m \in Node : role'[m] = "leader" => role[m] = "leader"
    BY <1>1, <2>1
  <2> QED
    BY <1>1, <1>2, <2>1, <2>2, HintQuiet
<1> QED
  BY <1>4, <1>5

\* A leader that sends again says that it has won.
LEMMA SendsAgain ==
    ASSUME TypeOK, TypeOK', HintInv, [Next]_vars, NEW n \in Node, role[n] = "leader",
           NEW th \in Thread, \A m \in Node : th # Round(m),
           NEW k, task' = [task EXCEPT ![th] = k],
           k.req.from = n, k.req.term = term[n],
           UNCHANGED <<role, term, leaderID, won, late>>
    PROVE  HintInv'
<1>1. /\ term \in [Node -> Nat] /\ task \in [Thread -> Task] /\ Backed(won, n, term[n])
  BY TermsNatural DEF TypeOK, FieldsOK, HintInv
<1>2. \A u \in Thread : task'[u].req = task[u].req \/ Announced(won', task'[u].req)
  BY <1>1 DEF Announced
<1>3. \A m \in Node : task'[Round(m)] = task[Round(m)]
  BY <1>1, ThreadFacts
<1>4. \A m \in Node : term'[m] >= term[m]
  BY <1>1
<1> QED
  BY <1>2, <1>3, <1>4, HintKept

\* Leaders have won, and all they send says so: the inductive invariant.
LEMMA HintAlways == Spec => []HintInv
<1>1. Init => HintInv
  <2> SUFFICES ASSUME Init PROVE HintInv
    OBVIOUS
  <2>1. /\ \A n \in Node : task[Round(n)] = Idle
        /\ \A th \in Thread : task[th] = Idle
    BY ThreadFacts DEF Init
  <2>2. ~Idle.active /\ Announced(won, Idle.req)
    BY DEF Idle, NoRequest, Announced
  <2> QED
    BY <2>1, <2>2 DEF Init, HintInv, LeaderHint
<1>2. TypeOK /\ TypeOK' /\ HintInv /\ [Next]_vars => HintInv'
  <2> SUFFICES ASSUME TypeOK, TypeOK', HintInv, [Next]_vars PROVE HintInv'
    OBVIOUS
  <2>1. /\ role \in [Node -> Role] /\ leaderID \in [Node -> Node \union {NoNode}]
        /\ task \in [Thread -> Task] /\ FieldsOK
    BY DEF TypeOK, FieldsOK
  <2>2. ASSUME UNCHANGED <<role, leaderID, won, late>>,
               \A th \in Thread : task'[th] \in {task[th], Idle}
        PROVE  HintInv'
    BY <2>1, <2>2, HintQuiet
  <2>3. ASSUME NEW th \in Thread, Rpc(th) PROVE HintInv'
    BY <2>3, RpcHint
  <2>4. ASSUME NEW m \in late, DeliverLate(m) PROVE HintInv'
    <3>1. /\ m.to \in Node /\ m.req \in Request /\ Announced(won, m.req)
          /\ Handle(m.to, m.req) /\ late' = late \ {m} /\ task' = task
      BY <2>4, Delivered DEF DeliverLate, HintInv
    <3> QED
      BY <2>1, <3>1, HandleHint, HintQuiet
  <2>5. ASSUME NEW n \in Node, StartElection(n) PROVE HintInv'
    BY <2>5, StartElectionHint
  <2>6. ASSUME NEW n \in Node, EndRound(n) PROVE HintInv'
    BY <2>6, EndRoundHint
  <2>7. ASSUME NEW n \in Node, NEW t \in Term, Tick(n, t) PROVE HintInv'
    <3>1. UNCHANGED <<role, term, leaderID, won, late>>
      BY <2>7 DEF Tick, fields, history
    <3>2. CASE role[n] = "leader" /\ term[n] = t
      <4>1. PICK k : /\ task' = [task EXCEPT ![Beat(n, t)] = k]
                     /\ k.req.from = n /\ k.req.term = t
        <5> DEFINE j == Start(Beat(n, t), Heartbeat(n, t), {})
        <5>1. task' = [task EXCEPT ![Beat(n, t)] = j]
          BY <2>7, <3>2 DEF Tick
        <5>2. j.req.from = n /\ j.req.term = t
          BY DEF Start, Heartbeat, NoRequest
        <5> HIDE DEF j
        <5> QED
          BY <5>1, <5>2
      <4>2. Beat(n, t) \in Thread /\ \A m \in Node : Beat(n, t) # Round(m)
        BY ThreadFacts
      <4> QED
        BY <3>1, <3>2, <4>1, <4>2, SendsAgain
    <3>3. CASE ~(role[n] = "leader" /\ term[n] = t)
      BY <2>1, <2>2, <2>7, <3>1, <3>3 DEF Tick
    <3> QED
      BY <3>2, <3>3
  <2>8. ASSUME NEW n \in Node, NEW c \in Caller, EndPropose(n, c) PROVE HintInv'
    BY <2>1, <2>2, <2>8 DEF EndPropose, history
  <2>9. ASSUME NEW n \in Node, NEW c \in Caller, NEW d \in Data, Propose(n, c, d)
        PROVE  HintInv'
    <3>1. UNCHANGED <<role, term, leaderID, won, late>> /\ role[n] = "leader"
      BY <2>9 DEF Propose
    <3>2. PICK k : /\ task' = [task EXCEPT ![Proposal(n, c)] = k]
                   /\ k.req.from = n /\ k.req.term = term[n]
      <4> DEFINE l == log[n]
                 e == [index |-> Len(l) + 1, term |-> term[n], data |-> d]
                 m == [NoRequest EXCEPT !.type = "append", !.from = n, !.term = term[n],
                         !.prevIndex = Len(l),
                         !.prevTerm = IF l = <<>> THEN 0 ELSE l[Len(l)].term,
                         !.entries = <<e>>, !.commit = commitIndex[n]]
                 j == Start(Proposal(n, c), m, {n})
      <4>1. task' = [task EXCEPT ![Proposal(n, c)] = j]
        BY <2>9 DEF Propose
      <4>2. j.req.from = n /\ j.req.term = term[n]
        BY DEF Start, NoRequest
      <4> HIDE DEF j
      <4> QED
        BY <4>1, <4>2
    <3>3. Proposal(n, c) \in Thread /\ \A m \in Node : Proposal(n, c) # Round(m)
      BY ThreadFacts
    <3> QED
      BY <3>1, <3>2, <3>3, SendsAgain
  <2>10. ASSUME NEW n \in Node, NEW t \in BumpTerms, BumpTerm(n, t) PROVE HintInv'
    <3>1. /\ UNCHANGED <<task, late, leaderID, won>>
          /\ role' = [role EXCEPT ![n] = "follower"]
      BY <2>10 DEF BumpTerm, history
    <3> QED
      BY <2>1, <3>1, HintQuiet
  <2>11. CASE UNCHANGED vars
    BY <2>2, <2>11 DEF vars
  <2> QED
    BY <2>3, <2>4, <2>5, <2>6, <2>7, <2>8, <2>9, <2>10, <2>11 DEF Next
<1> QED
  BY <1>1, <1>2, TypeCorrect, PTL DEF Spec

\* The leader that a node names, in Snapshot or in the error of Propose, has won an
\* election, in a term the node has reached: whatever is lost, late or interleaved.
THEOREM NamesWinners == Spec => []LeaderHint
<1>1. HintInv => LeaderHint
  BY DEF HintInv
<1> QED
  BY <1>1, HintAlways, PTL

-----------------------------------------------------------------------------
\* Leaders and rounds.

\* A handler makes nobody a leader, and a leader that it leaves one keeps its term.
LEMMA HandleLeads ==
    ASSUME FieldsOK, NEW p \in Node, NEW m \in Request, Handle(p, m),
           NEW n \in Node, role'[n] = "leader"
    PROVE  role[n] = "leader" /\ term'[n] = term[n]
<1>1. /\ role \in [Node -> Role] /\ term \in [Node -> Nat]
      /\ m.term \in Nat /\ term[p] \in Nat
  BY TermsNatural DEF FieldsOK, Request
<1>2. CASE RejectStale(p, m)
  BY <1>2 DEF RejectStale, fields
<1>3. CASE HandleRequestVote(p, m)
  <2>1. /\ term' = [term EXCEPT ![p] = m.term] /\ ~(m.term < term[p])
        /\ role' = [role EXCEPT ![p] = IF m.term > term[p] THEN "follower" ELSE role[p]]
    BY <1>3 DEF HandleRequestVote, StaleVote
  <2> QED
    BY <1>1, <2>1
<1>4. CASE HandleAppendEntries(p, m)
  <2>1. \/ term' = term /\ role' = role
        \/ role' = [role EXCEPT ![p] = "follower"] /\ term' = [term EXCEPT ![p] = m.term]
    BY <1>4 DEF HandleAppendEntries
  <2> QED
    BY <1>1, <2>1
<1> QED
  BY <1>2, <1>3, <1>4 DEF Handle

\* A node leads after a step because its round has ended, or as it did before.
LEMMA StepLeads ==
    ASSUME TypeOK, [Next]_vars, NEW n \in Node, role'[n] = "leader", ~EndRound(n)
    PROVE  role[n] = "leader" /\ term'[n] = term[n]
<1>1. FieldsOK /\ role \in [Node -> Role] /\ term \in [Node -> Term]
  BY DEF TypeOK, FieldsOK
<1>2. ASSUME NEW p \in Node, NEW m \in Request, Handle(p, m)
      PROVE  role[n] = "leader" /\ term'[n] = term[n]
  BY <1>1, <1>2, HandleLeads
<1>3. ASSUME NEW p \in Node, role' = [role EXCEPT ![p] = "follower"]
      PROVE  role[n] = "leader" /\ p # n
  BY <1>1, <1>3
<1>4. ASSUME NEW th \in Thread, Rpc(th) PROVE role[n] = "leader" /\ term'[n] = term[n]
  <2>1. CASE Deliver(th)
    BY <1>2, <2>1, Delivered DEF Deliver
  <2>2. CASE Lose(th) \/ Abandon(th) \/ LoseReply(th)
    BY <2>2 DEF Lose, Abandon, LoseReply, fields
  <2>3. CASE Return(th)
    <3>1. \/ role' = role /\ term' = term
          \/ /\ role' = [role EXCEPT ![th.node] = "follower"]
             /\ term' = [term EXCEPT ![th.node] = task[th].reply.term]
      BY <2>3 DEF Return
    <3> QED
      BY <1>1, <1>3, <3>1, ThreadFacts
  <2> QED
    BY <1>4, <2>1, <2>2, <2>3 DEF Rpc
<1>5. ASSUME NEW e \in late, DeliverLate(e) PROVE role[n] = "leader" /\ term'[n] = term[n]
  BY <1>2, <1>5, Delivered DEF DeliverLate
<1>6. ASSUME NEW p \in Node, StartElection(p) PROVE role[n] = "leader" /\ term'[n] = term[n]
  <2>1. /\ role' = [role EXCEPT ![p] = "candidate"]
        /\ term' = [term EXCEPT ![p] = term[p] + 1]
    BY <1>6 DEF StartElection
  <2> QED
    BY <1>1, <2>1
<1>7. ASSUME NEW p \in Node, EndRound(p) PROVE role[n] = "leader" /\ term'[n] = term[n]
  <2>1. p # n /\ term' = term
    BY <1>7 DEF EndRound
  <2>2. role'[n] = role[n]
    BY <1>1, <1>7, <2>1 DEF EndRound
  <2> QED
    BY <2>1, <2>2
<1>8. ASSUME NEW p \in Node, NEW t \in Term, Tick(p, t)
      PROVE  role[n] = "leader" /\ term'[n] = term[n]
  BY <1>8 DEF Tick, fields
<1>9. ASSUME NEW p \in Node, NEW c \in Caller,
             EndPropose(p, c) \/ \E d \in Data : Propose(p, c, d)
      PROVE  role[n] = "leader" /\ term'[n] = term[n]
  BY <1>9 DEF EndPropose, Propose
<1>10. ASSUME NEW p \in Node, NEW t \in BumpTerms, BumpTerm(p, t)
       PROVE  role[n] = "leader" /\ term'[n] = term[n]
  <2>1. role' = [role EXCEPT ![p] = "follower"] /\ term' = [term EXCEPT ![p] = t]
    BY <1>10 DEF BumpTerm
  <2> QED
    BY <1>1, <1>3, <2>1
<1>11. CASE UNCHANGED vars
  BY <1>11 DEF vars
<1> QED
  BY <1>4, <1>5, <1>6, <1>7, <1>8, <1>9, <1>10, <1>11 DEF Next

\* A round that runs after a step has just begun, or ran before and has not ended.
LEMMA StepRounds ==
    ASSUME TypeOK, [Next]_vars, NEW n \in Node, task'[Round(n)].active, ~StartElection(n)
    PROVE  /\ task[Round(n)].active /\ ~EndRound(n)
           /\ task'[Round(n)].req = task[Round(n)].req
<1> DEFINE r == Round(n)
<1>1. /\ r \in Thread /\ task \in [Thread -> Task] /\ TasksOK /\ ~Idle.active
      /\ \A p \in Node, t \in Term : Beat(p, t) # r
      /\ \A p \in Node, c \in Caller : Proposal(p, c) # r
      /\ \A p \in Node : Round(p) = r => p = n
  BY ThreadFacts DEF TypeOK, Idle
<1>2. ~EndRound(n)
  <2> SUFFICES ASSUME EndRound(n) PROVE FALSE
    OBVIOUS
  <2> DEFINE t == task[r].req.term
             b == [Idle EXCEPT !.active = TRUE, !.req = Heartbeat(n, t)]
  <2>1. t \in Term
    BY <1>1 DEF Task, Request
  <2>2. \/ task' = [task EXCEPT ![r] = Idle, ![Beat(n, t)] = b]
        \/ task' = [task EXCEPT ![r] = Idle]
    BY DEF EndRound
  <2>3. Beat(n, t) # r
    BY <1>1, <2>1
  <2> HIDE DEF r, b, t
  <2>4. task'[r] = Idle
    BY <1>1, <2>2, <2>3
  <2> QED
    BY <1>1, <2>4 DEF r
<1> HIDE DEF r
<1> DEFINE Runs == task[r].active /\ task'[r].req = task[r].req
<1>3. ASSUME task'[r] = task[r] PROVE Runs
  BY <1>3 DEF r
<1>4. ASSUME NEW th \in Thread, Rpc(th) PROVE Runs
  <2>1. CASE th = r
    <3>1. task[r].active
      BY <1>1, <1>4, <2>1, RepliesAwaited
         DEF Rpc, Deliver, Lose, Abandon, LoseReply, Return, Sending
    <3>2. task'[r].active /\ task[r] \in Task
      BY <1>1 DEF r
    <3>3. task'[r].req = task[r].req
      BY <1>1, <1>4, <2>1, <3>2 DEF Rpc, Deliver, Lose, Abandon, LoseReply, Return, Task
    <3> QED
      BY <3>1, <3>3
  <2>2. CASE th # r
    <3>1. task'[r] = task[r]
      BY <1>1, <1>4, <2>2 DEF Rpc, Deliver, Lose, Abandon, LoseReply, Return
    <3> QED
      BY <1>3, <3>1
  <2> QED
    BY <2>1, <2>2
<1>5. ASSUME NEW e \in late, DeliverLate(e) PROVE task'[r] = task[r]
  BY <1>5 DEF DeliverLate
<1>6. ASSUME NEW p \in Node, StartElection(p) PROVE task'[r] = task[r]
  <2>1. Round(p) # r
    BY <1>1, <1>6
  <2> QED
    BY <1>1, <1>6, <2>1 DEF StartElection
<1>7. ASSUME NEW p \in Node, EndRound(p) PROVE task'[r] = task[r]
  <2>1. Round(p) # r /\ task[Round(p)].req.term \in Term
    BY <1>1, <1>2, <1>7, ThreadFacts DEF Task, Request
  <2> QED
    BY <1>1, <1>7, <2>1 DEF EndRound
<1>8. ASSUME NEW p \in Node, NEW t \in Term, Tick(p, t) PROVE task'[r] = task[r]
  BY <1>1, <1>8 DEF Tick
<1>9. ASSUME NEW p \in Node, NEW c \in Caller, EndPropose(p, c) PROVE task'[r] = task[r]
  BY <1>1, <1>9 DEF EndPropose
<1>10. ASSUME NEW p \in Node, NEW c \in Caller, NEW d \in Data, Propose(p, c, d)
       PROVE  task'[r] = task[r]
  BY <1>1, <1>10 DEF Propose
<1>11. ASSUME NEW p \in Node, NEW t \in BumpTerms, BumpTerm(p, t) PROVE task'[r] = task[r]
  BY <1>11 DEF BumpTerm
<1>12. ASSUME UNCHANGED vars PROVE task'[r] = task[r]
  BY <1>12 DEF vars
<1> QED
  <2>1. Runs
    BY <1>3, <1>4, <1>5, <1>6, <1>7, <1>8, <1>9, <1>10, <1>11, <1>12 DEF Next
  <2> QED
    BY <1>2, <2>1 DEF r

-----------------------------------------------------------------------------
\* Terms and their candidates.

\* Some node has stood for election in term t.
Sought(G, t) == t = 0 \/ \E c \in Node : <<c, t, c>> \in G

\* A request is of a term that was sought, by its sender if it asks for a vote.
Founded(G, m) == Sought(G, m.term) /\ (m.type = "vote" => <<m.from, m.term, m.from>> \in G)

\* No node, request or answer is of a term that nobody has sought.
SoughtInv ==
    /\ \A n \in Node : Sought(grants, term[n])
    /\ \A th \in Thread : Founded(grants, task[th].req) /\ Sought(grants, task[th].reply.term)
    /\ \A e \in late : Founded(grants, e.req)

\* A round is its node's latest, and a leader in the latest term that it sought itself
\* has a heartbeat loop for it: what a round of an older term makes a leader of is not
\* in that case.
StandInv ==
    /\ \A n \in Node : task[Round(n)].active =>
          \A t \in Term : <<n, t, n>> \in grants => t <= task[Round(n)].req.term
    /\ \A n \in Node : role[n] = "leader" /\ <<n, term[n], n>> \in grants =>
          task[Beat(n, term[n])].active

\* What was sought, and what is founded on it, stays so while votes are added.
LEMMA FoundedKept ==
    ASSUME NEW G, NEW H, G \subseteq H
    PROVE  /\ \A t : Sought(G, t) => Sought(H, t)
           /\ \A m : Founded(G, m) => Founded(H, m)
  BY DEF Sought, Founded

\* A step whose terms, requests and answers are old or founded keeps SoughtInv.
LEMMA SoughtKept ==
    ASSUME SoughtInv, grants \subseteq grants',
           \A n \in Node : term'[n] = term[n] \/ Sought(grants', term'[n]),
           \A th \in Thread : task'[th].req = task[th].req \/ Founded(grants', task'[th].req),
           \A th \in Thread : task'[th].reply.term = task[th].reply.term
                              \/ Sought(grants', task'[th].reply.term),
           \A e \in late' : e \in late \/ Founded(grants', e.req)
    PROVE  SoughtInv'
<1>1. \A n \in Node : Sought(grants', term'[n])
  BY FoundedKept DEF SoughtInv
<1>2. \A th \in Thread : Founded(grants', task'[th].req) /\ Sought(grants', task'[th].reply.term)
  BY FoundedKept DEF SoughtInv
<1>3. \A e \in late' : Founded(grants', e.req)
  BY FoundedKept DEF SoughtInv
<1> QED
  BY <1>1, <1>2, <1>3 DEF SoughtInv

\* A handler takes over the term of a founded request, answers with that or its own,
\* and grants no node its own vote that did not have it.
LEMMA HandleSought ==
    ASSUME FieldsOK, SoughtInv, NEW p \in Node, NEW m \in Request, Founded(grants, m), Handle(p, m)
    PROVE  /\ grants \subseteq grants'
           /\ \A n \in Node : term'[n] = term[n] \/ Sought(grants', term'[n])
           /\ Sought(grants', ReplyTo(p, m).term)
           /\ \A n, t : <<n, t, n>> \in grants' => <<n, t, n>> \in grants
<1>1. term \in [Node -> Term] /\ Sought(grants, term[p]) /\ Sought(grants, m.term)
  BY DEF FieldsOK, SoughtInv, Founded
<1>2. ReplyTo(p, m).term \in {term[p], m.term}
  BY DEF ReplyTo, VoteReply, AppendReply
<1>3. term' = term \/ term' = [term EXCEPT ![p] = m.term]
  BY DEF Handle, RejectStale, HandleRequestVote, HandleAppendEntries, fields
<1>4. \/ grants' = grants
      \/ grants' = grants \union {<<p, m.term, m.from>>} /\ m.type = "vote"
  BY DEF Handle, RejectStale, HandleRequestVote, HandleAppendEntries, history
<1>5. grants \subseteq grants'
  BY <1>4
<1>6. \A n, t : <<n, t, n>> \in grants' => <<n, t, n>> \in grants
  BY <1>4 DEF Founded
<1>7. Sought(grants', m.term) /\ Sought(grants', term[p])
  BY <1>1, <1>5, FoundedKept
<1>8. \A n \in Node : term'[n] = term[n] \/ Sought(grants', term'[n])
  BY <1>1, <1>3, <1>7
<1> QED
  BY <1>2, <1>5, <1>6, <1>7, <1>8

\* A step of an RPC loop.
LEMMA RpcSought ==
    ASSUME TypeOK, SoughtInv, NEW th \in Thread, Rpc(th)
    PROVE  SoughtInv' /\ \A n, t : <<n, t, n>> \in grants' => <<n, t, n>> \in grants
<1>1. /\ FieldsOK /\ task \in [Thread -> Task] /\ task[th] \in Task
      /\ Founded(grants, task[th].req) /\ Sought(grants, task[th].reply.term)
      /\ th.node \in Node /\ term \in [Node -> Term]
  BY ThreadFacts DEF TypeOK, FieldsOK, SoughtInv
<1>2. Founded(grants', Idle.req) /\ Sought(grants', 0) /\ Idle.reply.term = 0 /\ NoReply.term = 0
  BY DEF Idle, NoRequest, NoReply, Founded, Sought
<1>3. CASE Deliver(th)
  <2> DEFINE r == ReplyTo(Target(th), task[th].req)
  <2>1. /\ Target(th) \in Node /\ task[th].req \in Request
        /\ Handle(Target(th), task[th].req) /\ late' = late
    BY <1>3, Delivered DEF Deliver
  <2>2. /\ grants \subseteq grants' /\ Sought(grants', r.term)
        /\ \A n \in Node : term'[n] = term[n] \/ Sought(grants', term'[n])
        /\ \A n, t : <<n, t, n>> \in grants' => <<n, t, n>> \in grants
    BY <1>1, <2>1, HandleSought
  <2> HIDE DEF r
  <2>3. /\ \A u \in Thread : task'[u].req = task[u].req
        /\ \A u \in Thread : u # th => task'[u] = task[u]
        /\ task'[th].reply = r
    BY <1>1, <1>3 DEF Deliver, Task, r
  <2>4. SoughtInv'
    BY <2>1, <2>2, <2>3, SoughtKept
  <2> QED
    BY <2>2, <2>4
<1>4. CASE Lose(th) \/ Abandon(th) \/ LoseReply(th)
  <2>1. /\ UNCHANGED <<term, grants>>
        /\ late' = late \/ late' = late \union {[to |-> Target(th), req |-> task[th].req]}
    BY <1>4 DEF Lose, Abandon, LoseReply, fields, history
  <2>2. /\ \A u \in Thread : task'[u].req = task[u].req
        /\ \A u \in Thread : task'[u].reply \in {task[u].reply, NoReply}
    <3>1. CASE LoseReply(th)
      BY <1>1, <3>1 DEF LoseReply, Task
    <3>2. CASE Lose(th) \/ Abandon(th)
      <4>1. task' = [task EXCEPT ![th].todo = Tail(@)]
        BY <3>2 DEF Lose, Abandon
      <4>2. task'[th].req = task[th].req /\ task'[th].reply = task[th].reply
        BY <1>1, <4>1 DEF Task
      <4>3. \A u \in Thread : u # th => task'[u] = task[u]
        BY <1>1, <4>1
      <4> QED
        BY <4>2, <4>3
    <3> QED
      BY <1>4, <3>1, <3>2
  <2>3. \A e \in late' : e \in late \/ Founded(grants', e.req)
    BY <1>1, <2>1
  <2>4. SoughtInv'
    BY <1>2, <2>1, <2>2, <2>3, SoughtKept
  <2> QED
    BY <2>1, <2>4
<1>5. CASE Return(th)
  <2>1. /\ UNCHANGED <<grants, late>>
        /\ term' = term \/ term' = [term EXCEPT ![th.node] = task[th].reply.term]
    BY <1>5 DEF Return, history
  <2>2. /\ \A u \in Thread : task'[u].req \in {task[u].req, Idle.req}
        /\ \A u \in Thread : task'[u].reply \in {task[u].reply, NoReply}
    <3>1. CASE task' = [task EXCEPT ![th] = Idle]
      BY <1>1, <3>1 DEF Idle
    <3>2. CASE task' # [task EXCEPT ![th] = Idle]
      <4>1. task' = [task EXCEPT ![th].reply = NoReply, ![th].yes = task'[th].yes]
        BY <1>1, <1>5, <3>2 DEF Return, Task
      <4>2. task'[th].req = task[th].req /\ task'[th].reply = NoReply
        BY <1>1, <4>1 DEF Task
      <4>3. \A u \in Thread : u # th => task'[u] = task[u]
        BY <1>1, <4>1
      <4> QED
        BY <4>2, <4>3
    <3> QED
      BY <3>1, <3>2
  <2>3. \A n \in Node : term'[n] = term[n] \/ Sought(grants', term'[n])
    BY <1>1, <2>1
  <2>4. SoughtInv'
    BY <1>2, <2>1, <2>2, <2>3, SoughtKept
  <2> QED
    BY <2>1, <2>4
<1> QED
  BY <1>3, <1>4, <1>5 DEF Rpc

\* No step brings in a term that nobody has sought, and a node stands for election only
\* when it begins a round.
LEMMA StepSought ==
    ASSUME BumpTerms = {}, TypeOK, SoughtInv, HintInv, [Next]_vars
    PROVE  /\ SoughtInv'
           /\ \A n \in Node : \A t : <<n, t, n>> \in grants' =>
                 <<n, t, n>> \in grants \/ (StartElection(n) /\ t = term[n] + 1)
<1> DEFINE Own == \A n \in Node : \A t : <<n, t, n>> \in grants' =>
              <<n, t, n>> \in grants \/ (StartElection(n) /\ t = term[n] + 1)
<1>1. /\ FieldsOK /\ task \in [Thread -> Task] /\ term \in [Node -> Nat]
  BY TermsNatural DEF TypeOK, FieldsOK
<1>2. ASSUME UNCHANGED <<term, grants, late>>,
             \A th \in Thread : \/ task'[th] = task[th] \/ task'[th] = Idle
                                \/ /\ task'[th].reply = NoReply
                                   /\ Founded(grants, task'[th].req)
      PROVE  SoughtInv' /\ Own
  <2>1. Founded(grants', Idle.req) /\ Sought(grants', 0) /\ Idle.reply.term = 0 /\ NoReply.term = 0
    BY DEF Idle, NoRequest, NoReply, Founded, Sought
  <2>2. SoughtInv'
    BY <1>2, <2>1, SoughtKept
  <2> QED
    BY <1>2, <2>2
<1>3. ASSUME NEW th \in Thread, Rpc(th) PROVE SoughtInv' /\ Own
  BY <1>3, RpcSought
<1>4. ASSUME NEW e \in late, DeliverLate(e) PROVE SoughtInv' /\ Own
  <2>1. /\ e.to \in Node /\ e.req \in Request /\ Founded(grants, e.req)
        /\ Handle(e.to, e.req) /\ task' = task /\ late' \subseteq late
    BY <1>4, Delivered DEF DeliverLate, SoughtInv
  <2>2. /\ grants \subseteq grants'
        /\ \A n \in Node : term'[n] = term[n] \/ Sought(grants', term'[n])
        /\ \A n, t : <<n, t, n>> \in grants' => <<n, t, n>> \in grants
    BY <1>1, <2>1, HandleSought
  <2>3. SoughtInv'
    BY <2>1, <2>2, SoughtKept
  <2> QED
    BY <2>2, <2>3
<1>5. ASSUME NEW n \in Node, StartElection(n) PROVE SoughtInv' /\ Own
  <2> DEFINE t == term[n] + 1
             m == [NoRequest EXCEPT !.type = "vote", !.from = n, !.term = term[n] + 1,
                     !.lastTerm = LastTerm(log[n]), !.lastIndex = LastIndex(log[n])]
             k == Start(Round(n), m, {n})
  <2>1. /\ grants' = grants \union {<<n, t, n>>} /\ late' = late
        /\ term' = [term EXCEPT ![n] = t] /\ task' = [task EXCEPT ![Round(n)] = k]
    BY <1>5 DEF StartElection
  <2>2. k.req.type = "vote" /\ k.req.term = t /\ k.req.from = n /\ k.reply = NoReply
    BY DEF Start, NoRequest
  <2> HIDE DEF k, t
  <2>3. Sought(grants', t) /\ Founded(grants', k.req) /\ Sought(grants', NoReply.term)
    BY <2>1, <2>2 DEF Sought, Founded, NoReply
  <2>4. \A th \in Thread : task'[th] = task[th] \/ task'[th] = k
    BY <1>1, <2>1
  <2>5. SoughtInv'
    BY <1>1, <2>1, <2>2, <2>3, <2>4, SoughtKept
  <2>6. \A c \in Node : \A s : <<c, s, c>> \in grants' => <<c, s, c>> \in grants \/ (c = n /\ s = t)
    BY <2>1
  <2> QED
    BY <1>5, <2>5, <2>6 DEF t
<1>6. ASSUME NEW n \in Node, EndRound(n) PROVE SoughtInv' /\ Own
  <2> DEFINE t == task[Round(n)].req.term
             b == [Idle EXCEPT !.active = TRUE, !.req = Heartbeat(n, t)]
  <2>1. /\ UNCHANGED <<term, grants, late>>
        /\ \/ task' = [task EXCEPT ![Round(n)] = Idle, ![Beat(n, t)] = b]
           \/ task' = [task EXCEPT ![Round(n)] = Idle]
    BY <1>6 DEF EndRound
  <2>2. b.reply = NoReply /\ b.req.term = t /\ b.req.type = "append"
    BY DEF Idle, Heartbeat, NoRequest
  <2>3. Sought(grants, t)
    BY ThreadFacts DEF SoughtInv, Founded
  <2> HIDE DEF b, t
  <2>4. Founded(grants, b.req)
    BY <2>2, <2>3 DEF Founded
  <2>5. \A th \in Thread : task'[th] = task[th] \/ task'[th] = Idle \/ task'[th] = b
    BY <1>1, <2>1
  <2> QED
    BY <1>2, <2>1, <2>2, <2>4, <2>5
<1>7. ASSUME NEW n \in Node, NEW t \in Term, Tick(n, t) PROVE SoughtInv' /\ Own
  <2> DEFINE k == Start(Beat(n, t), Heartbeat(n, t), {})
  <2>1. /\ UNCHANGED <<term, grants, late>>
        /\ \/ task' = [task EXCEPT ![Beat(n, t)] = Idle]
           \/ task' = [task EXCEPT ![Beat(n, t)] = k] /\ term[n] = t
    BY <1>7 DEF Tick, fields, history
  <2>2. k.reply = NoReply /\ k.req.term = t /\ k.req.type = "append"
    BY DEF Start, Heartbeat, NoRequest
  <2> HIDE DEF k
  <2>3. \A th \in Thread : \/ task'[th] = task[th] \/ task'[th] = Idle
                           \/ task'[th] = k /\ term[n] = t
    BY <1>1, <2>1
  <2>4. term[n] = t => Founded(grants, k.req)
    BY <2>2 DEF SoughtInv, Founded
  <2> QED
    BY <1>2, <2>1, <2>2, <2>3, <2>4
<1>8. ASSUME NEW n \in Node, NEW c \in Caller, EndPropose(n, c) PROVE SoughtInv' /\ Own
  BY <1>1, <1>2, <1>8 DEF EndPropose, history
<1>9. ASSUME NEW n \in Node, NEW c \in Caller, NEW d \in Data, Propose(n, c, d)
      PROVE  SoughtInv' /\ Own
  <2>1. /\ UNCHANGED <<term, grants, late>>
        /\ task' = [task EXCEPT ![Proposal(n, c)] = task'[Proposal(n, c)]]
    BY <1>1, <1>9, ThreadFacts DEF Propose
  <2>2. PICK k : /\ task' = [task EXCEPT ![Proposal(n, c)] = k]
                 /\ k.reply = NoReply /\ k.req.term = term[n] /\ k.req.type = "append"
    <3> DEFINE l == log[n]
               e == [index |-> Len(l) + 1, term |-> term[n], data |-> d]
               m == [NoRequest EXCEPT !.type = "append", !.from = n, !.term = term[n],
                       !.prevIndex = Len(l),
                       !.prevTerm = IF l = <<>> THEN 0 ELSE l[Len(l)].term,
                       !.entries = <<e>>, !.commit = commitIndex[n]]
               j == Start(Proposal(n, c), m, {n})
    <3>1. task' = [task EXCEPT ![Proposal(n, c)] = j]
      BY <1>9 DEF Propose
    <3>2. j.reply = NoReply /\ j.req.term = term[n] /\ j.req.type = "append"
      BY DEF Start, NoRequest
    <3> HIDE DEF j
    <3> QED
      BY <3>1, <3>2
  <2>3. Founded(grants, k.req)
    BY <2>2 DEF SoughtInv, Founded
  <2>4. \A th \in Thread : task'[th] = task[th] \/ task'[th] = k
    BY <1>1, <2>2
  <2> QED
    BY <1>2, <2>1, <2>2, <2>3, <2>4
<1>10. CASE UNCHANGED vars
  BY <1>2, <1>10 DEF vars
<1> QED
  BY <1>3, <1>4, <1>5, <1>6, <1>7, <1>8, <1>9, <1>10 DEF Next

\* The heartbeat loop of a node that goes on leading in the loop's term does not end.
LEMMA BeatStays ==
    ASSUME TypeOK, [Next]_vars, NEW n \in Node, role[n] = "leader", role'[n] = "leader",
           task[Beat(n, term[n])].active
    PROVE  task'[Beat(n, term[n])].active
<1> DEFINE b == Beat(n, term[n])
<1>1. /\ b \in Thread /\ b.node = n /\ task[b].active /\ task[b] \in Task
      /\ task \in [Thread -> Task] /\ TasksOK /\ role \in [Node -> Role]
      /\ term[n] \in Term
  BY ThreadFacts DEF TypeOK, FieldsOK
<1>2. /\ \A m \in Node : Round(m) # b
      /\ \A m \in Node, c \in Caller : Proposal(m, c) # b
      /\ \A m \in Node, t \in Term : Beat(m, t) = b => m = n /\ t = term[n]
  BY DEF Round, Proposal, Beat
<1> HIDE DEF b
<1> SUFFICES task'[b].active
  BY DEF b
<1>3. ASSUME task'[b] = task[b] PROVE task'[b].active
  BY <1>1, <1>3
<1>4. ASSUME NEW th \in Thread, Rpc(th) PROVE task'[b].active
  <2>1. CASE th # b
    <3>1. task'[b] = task[b]
      BY <1>1, <1>4, <2>1 DEF Rpc, Deliver, Lose, Abandon, LoseReply, Return
    <3> QED
      BY <1>3, <3>1
  <2>2. CASE th = b /\ Return(th)
    <3>1. role' # [role EXCEPT ![n] = "follower"]
      BY <1>1
    <3>2. task' = [task EXCEPT ![b].reply = NoReply, ![b].yes = task'[b].yes]
      BY <1>1, <2>2, <3>1 DEF Return, Task
    <3> QED
      BY <1>1, <3>2 DEF Task
  <2>3. CASE th = b /\ Deliver(th)
    BY <1>1, <2>3 DEF Deliver, Task
  <2>4. CASE th = b /\ (Lose(th) \/ Abandon(th))
    <3>1. task' = [task EXCEPT ![b].todo = Tail(@)]
      BY <2>4 DEF Lose, Abandon
    <3> QED
      BY <1>1, <3>1 DEF Task
  <2>5. CASE th = b /\ LoseReply(th)
    BY <1>1, <2>5 DEF LoseReply, Task
  <2> QED
    BY <1>4, <2>1, <2>2, <2>3, <2>4, <2>5 DEF Rpc
<1>5. ASSUME NEW e \in late, DeliverLate(e) PROVE task'[b].active
  BY <1>3, <1>5 DEF DeliverLate
<1>6. ASSUME NEW p \in Node, StartElection(p) PROVE task'[b].active
  BY <1>1, <1>2, <1>6 DEF StartElection
<1>7. ASSUME NEW p \in Node, EndRound(p) PROVE task'[b].active
  <2> DEFINE t == task[Round(p)].req.term
             k == [Idle EXCEPT !.active = TRUE, !.req = Heartbeat(p, t)]
  <2>1. \/ task' = [task EXCEPT ![Round(p)] = Idle, ![Beat(p, t)] = k]
        \/ task' = [task EXCEPT ![Round(p)] = Idle]
    BY <1>7 DEF EndRound
  <2>2. k.active
    BY DEF Idle
  <2> HIDE DEF k, t
  <2>3. task'[b] \in {task[b], k}
    BY <1>1, <1>2, <2>1
  <2> QED
    BY <1>1, <2>2, <2>3
<1>8. ASSUME NEW p \in Node, NEW t \in Term, Tick(p, t) PROVE task'[b].active
  <2>1. CASE Beat(p, t) # b
    BY <1>1, <1>8, <2>1 DEF Tick
  <2>2. CASE Beat(p, t) = b
    <3> DEFINE k == Start(Beat(p, t), Heartbeat(p, t), {})
    <3>1. p = n /\ t = term[n]
      BY <1>2, <2>2
    <3>2. task' = [task EXCEPT ![b] = k]
      BY <1>8, <2>2, <3>1 DEF Tick
    <3>3. k.active
      BY DEF Start
    <3> HIDE DEF k
    <3> QED
      BY <1>1, <3>2, <3>3
  <2> QED
    BY <2>1, <2>2
<1>9. ASSUME NEW p \in Node, NEW c \in Caller,
             EndPropose(p, c) \/ \E d \in Data : Propose(p, c, d)
      PROVE  task'[b].active
  BY <1>1, <1>2, <1>9 DEF EndPropose, Propose
<1>10. ASSUME NEW p \in Node, NEW t \in BumpTerms, BumpTerm(p, t) PROVE task'[b].active
  BY <1>3, <1>10 DEF BumpTerm
<1>11. CASE UNCHANGED vars
  BY <1>3, <1>11 DEF vars
<1> QED
  BY <1>4, <1>5, <1>6, <1>7, <1>8, <1>9, <1>10, <1>11 DEF Next

\* A step keeps the heartbeat loop of a leader that is still in the term it sought last.
LEMMA StepStands ==
    ASSUME BumpTerms = {}, TypeOK, VotesAccounted, HintInv, SoughtInv, StandInv, [Next]_vars
    PROVE  StandInv'
<1>1. /\ term \in [Node -> Nat] /\ role \in [Node -> Role] /\ task \in [Thread -> Task]
      /\ grants \subseteq Node \X Term \X Node /\ Term \subseteq Nat
  BY TermsNatural DEF TypeOK, FieldsOK
<1>2. \A n \in Node : \A t : <<n, t, n>> \in grants' =>
         <<n, t, n>> \in grants \/ (StartElection(n) /\ t = term[n] + 1)
  BY StepSought
<1>3. \A n \in Node : \A t : <<n, t, n>> \in grants => t \in Nat /\ t <= term[n]
  <2>1. ASSUME NEW n \in Node, NEW t, <<n, t, n>> \in grants PROVE t \in Nat /\ t <= term[n]
    BY <1>1, <2>1 DEF VotesAccounted, GrantsReached
  <2> QED
    BY <2>1
<1>4. ASSUME NEW n \in Node, task'[Round(n)].active, NEW t \in Term, <<n, t, n>> \in grants'
      PROVE  t <= task'[Round(n)].req.term
  <2>1. CASE StartElection(n)
    <3>1. task'[Round(n)].req.term = term[n] + 1
      <4> DEFINE m == [NoRequest EXCEPT !.type = "vote", !.from = n, !.term = term[n] + 1,
                         !.lastTerm = LastTerm(log[n]), !.lastIndex = LastIndex(log[n])]
                 k == Start(Round(n), m, {n})
      <4>1. task' = [task EXCEPT ![Round(n)] = k]
        BY <2>1 DEF StartElection
      <4>2. k.req.term = term[n] + 1
        BY DEF Start, NoRequest
      <4> HIDE DEF k
      <4> QED
        BY <1>1, <4>1, <4>2, ThreadFacts
    <3> QED
      BY <1>1, <1>2, <1>3, <1>4, <3>1
  <2>2. CASE ~StartElection(n)
    BY <1>2, <1>4, <2>2, StepRounds DEF StandInv
  <2> QED
    BY <2>1, <2>2
<1>5. ASSUME NEW n \in Node, role'[n] = "leader", <<n, term'[n], n>> \in grants'
      PROVE  task'[Beat(n, term'[n])].active
  <2>1. CASE EndRound(n)
    <3> DEFINE t == task[Round(n)].req.term
               b == [Idle EXCEPT !.active = TRUE, !.req = Heartbeat(n, t)]
    <3>1. /\ task[Round(n)].active /\ term' = term /\ grants' = grants
          /\ t \in 1..term[n] /\ t \in Term
      BY <1>1, <2>1, ThreadFacts DEF EndRound, LoopDone, HintInv, Task, Request
    <3>2. t = term[n]
      <4>1. term[n] \in Term
        BY DEF TypeOK, FieldsOK
      <4>2. term[n] <= t
        BY <1>5, <3>1, <4>1 DEF StandInv
      <4> QED
        BY <1>1, <3>1, <4>2
    <3>3. task' = [task EXCEPT ![Round(n)] = Idle, ![Beat(n, t)] = b]
      <4>1. role' # [role EXCEPT ![n] = "candidate"]
        BY <1>1, <1>5
      <4> QED
        BY <2>1, <4>1 DEF EndRound
    <3>4. b.active
      BY DEF Idle
    <3> HIDE DEF b, t
    <3> QED
      BY <1>1, <3>1, <3>2, <3>3, <3>4, ThreadFacts
  <2>2. CASE ~EndRound(n)
    <3>1. role[n] = "leader" /\ term'[n] = term[n]
      BY <1>5, <2>2, StepLeads
    <3>2. ~StartElection(n)
      BY <3>1 DEF StartElection
    <3>3. task[Beat(n, term[n])].active
      BY <1>2, <1>5, <3>1, <3>2 DEF StandInv
    <3> QED
      BY <1>5, <3>1, <3>3, BeatStays
  <2> QED
    BY <2>1, <2>2
<1> QED
  BY <1>4, <1>5 DEF StandInv

\* Without a test that raises terms, every term was sought, and its seeker, if it leads
\* in it, beats: the inductive invariant.
LEMMA StandsAlways ==
    ASSUME BumpTerms = {}
    PROVE  Spec => [](SoughtInv /\ StandInv)
<1>1. Init => SoughtInv /\ StandInv
  <2> SUFFICES ASSUME Init PROVE SoughtInv /\ StandInv
    OBVIOUS
  <2>1. /\ \A th \in Thread : task[th] = Idle
        /\ \A n \in Node : task[Round(n)] = Idle /\ term[n] = 0 /\ role[n] = "follower"
        /\ late = {} /\ grants = {}
    BY ThreadFacts DEF Init
  <2>2. /\ ~Idle.active /\ Idle.reply.term = 0 /\ Founded(grants, Idle.req)
        /\ Sought(grants, 0)
    BY DEF Idle, NoRequest, NoReply, Founded, Sought
  <2> QED
    BY <2>1, <2>2 DEF SoughtInv, StandInv
<1>2. TypeOK /\ VotesAccounted /\ HintInv /\ SoughtInv /\ StandInv /\ [Next]_vars
         => SoughtInv' /\ StandInv'
  BY StepSought, StepStands
<1> QED
  BY <1>1, <1>2, TypeCorrect, VotesAlwaysAccounted, HintAlways, PTL DEF Spec

\* A set of natural numbers that is not empty has a least element.
LEMMA LeastNumber ==
    ASSUME NEW S, S \subseteq Nat, S # {}
    PROVE  \E x \in S : \A y \in S : x <= y
<1>1. IsWellFoundedOn(OpToRel(<, Nat), Nat)
  BY NatLessThanWellFounded
<1>2. PICK x \in S : \A y \in S : ~(<<y, x>> \in OpToRel(<, Nat))
  BY <1>1, WFMin
<1>3. ASSUME NEW y \in S PROVE x <= y
  <2>1. x \in Nat /\ y \in Nat
    BY <1>2, <1>3
  <2>2. ~(y < x)
    BY <1>2, <2>1 DEF OpToRel
  <2> QED
    BY <2>1, <2>2
<1> QED
  BY <1>3

\* Some node's term is the highest.
LEMMA HighestTerm ==
    ASSUME TypeOK
    PROVE  \E m \in Node : \A n \in Node : term[n] <= term[m]
<1> DEFINE S == {MaxTerm - term[n] : n \in Node}
<1>1. MaxTerm \in Nat /\ Node # {} /\ \A n \in Node : term[n] \in 0..MaxTerm
  BY BoundAssumption, NodeAssumption DEF TypeOK, FieldsOK, Term
<1>2. S \subseteq Nat /\ S # {}
  BY <1>1
<1>3. PICK x \in S : \A y \in S : x <= y
  <2> HIDE DEF S
  <2> QED
    BY <1>2, LeastNumber
<1>4. PICK m \in Node : x = MaxTerm - term[m]
  BY <1>3
<1>5. ASSUME NEW n \in Node PROVE term[n] <= term[m]
  <2>1. MaxTerm - term[m] <= MaxTerm - term[n]
    BY <1>3, <1>4
  <2> QED
    BY <1>1, <2>1
<1> QED
  BY <1>5

\* A round that ends late can make a leader that neither beats nor runs for election,
\* but never of every node: the node that sought the highest term is none of them.
THEOREM SomebodyGoesOn == Spec => []NotAllStuck
<1>1. ASSUME BumpTerms = {} PROVE Spec => []NotAllStuck
  <2>1. TypeOK /\ VotesAccounted /\ HintInv /\ SoughtInv /\ StandInv => NotAllStuck
    <3> SUFFICES ASSUME TypeOK, VotesAccounted, HintInv, SoughtInv, StandInv,
                        \A n \in Node : Stuck(n)
                 PROVE  FALSE
      BY DEF NotAllStuck
    <3>1. PICK m \in Node : \A n \in Node : term[n] <= term[m]
      BY HighestTerm
    <3>2. /\ term \in [Node -> Nat] /\ grants \subseteq Node \X Term \X Node
      BY TermsNatural DEF TypeOK, FieldsOK
    <3>3. term[m] > 0
      <4>1. Backed(won, m, term[m]) /\ term[m] \in Nat
        BY <3>2 DEF HintInv, Stuck
      <4>2. PICK t \in 1..term[m] : <<m, t>> \in won
        BY <4>1 DEF Backed
      <4> QED
        BY <4>1, <4>2
    <3>4. PICK c \in Node : <<c, term[m], c>> \in grants
      BY <3>3 DEF SoughtInv, Sought
    <3>5. term[m] <= term[c]
      BY <3>4 DEF VotesAccounted, GrantsReached
    <3>6. term[c] = term[m]
      BY <3>1, <3>2, <3>5
    <3>7. role[c] = "leader" /\ ~task[Beat(c, term[c])].active
      BY DEF Stuck
    <3> QED
      BY <3>4, <3>6, <3>7 DEF StandInv
  <2> QED
    BY <1>1, <2>1, TypeCorrect, VotesAlwaysAccounted, HintAlways, StandsAlways, PTL
<1>2. ASSUME BumpTerms # {} PROVE Spec => []NotAllStuck
  <2>1. NotAllStuck
    BY <1>2 DEF NotAllStuck
  <2> QED
    BY <2>1, PTL
<1> QED
  BY <1>1, <1>2
=============================================================================
