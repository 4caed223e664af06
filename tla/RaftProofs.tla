------------------------------ MODULE RaftProofs ------------------------------
(***************************************************************************)
(* Proofs about RaftNode, for every cluster, every order of peers, every   *)
(* choice of injected bugs and every bound.                                *)
(***************************************************************************)
EXTENDS RaftProps, FiniteSetTheorems, TLAPS

-----------------------------------------------------------------------------
\* Goroutines.

\* A goroutine's name tells its kind, node and number apart.
LEMMA ThreadFacts ==
    /\ \A n \in Node : Round(n) \in Thread /\ Round(n).node = n
    /\ \A n \in Node, t \in Term : Beat(n, t) \in Thread /\ Beat(n, t).node = n
    /\ \A n \in Node, c \in Caller :
          Proposal(n, c) \in Thread /\ Proposal(n, c) \in Proposals /\ Proposal(n, c).node = n
    /\ \A th \in Thread : th.node \in Node
    /\ \A n \in Node : Round(n) \notin Proposals
    /\ \A n \in Node, t \in Term : Beat(n, t) \notin Proposals
    /\ \A m, n \in Node, t \in Term : Round(m) # Beat(n, t)
    /\ \A m, n \in Node, c \in Caller : Round(m) # Proposal(n, c)
    /\ \A m, n \in Node : Round(m) = Round(n) => m = n
<1>1. \A n : Round(n).node = n /\ Round(n).kind = "round"
  BY DEF Round
<1>2. \A n, t : Beat(n, t).node = n /\ Beat(n, t).kind = "beat"
  BY DEF Beat
<1>3. \A n, c : Proposal(n, c).node = n /\ Proposal(n, c).kind = "propose"
  BY DEF Proposal
<1>4. \A th \in Thread : \/ \E n \in Node : th = Round(n)
                         \/ \E n \in Node, t \in Term : th = Beat(n, t)
                         \/ \E n \in Node, c \in Caller : th = Proposal(n, c)
  BY DEF Thread, Rounds, Beats, Proposals
<1>5. \A th \in Proposals : th.kind = "propose"
  BY <1>3 DEF Proposals
<1>6. \A th \in Thread : th.node \in Node
  BY <1>1, <1>2, <1>3, <1>4
<1>7. /\ \A n \in Node : Round(n) \in Thread
      /\ \A n \in Node, t \in Term : Beat(n, t) \in Thread
      /\ \A n \in Node, c \in Caller : Proposal(n, c) \in Thread /\ Proposal(n, c) \in Proposals
  BY DEF Thread, Rounds, Beats, Proposals
<1>8. /\ \A n \in Node : Round(n) \notin Proposals
      /\ \A n \in Node, t \in Term : Beat(n, t) \notin Proposals
  BY <1>1, <1>2, <1>5
<1>9. /\ \A m, n \in Node, t \in Term : Round(m) # Beat(n, t)
      /\ \A m, n \in Node, c \in Caller : Round(m) # Proposal(n, c)
      /\ \A m, n \in Node : Round(m) = Round(n) => m = n
  BY <1>1, <1>2, <1>3
<1> QED
  BY <1>1, <1>2, <1>3, <1>6, <1>7, <1>8, <1>9

\* The zero value of a task, a request and an answer are well formed.
LEMMA ZeroValues == Idle \in Task /\ NoRequest \in Request /\ NoReply \in Reply
<1>1. 0 \in Term
  BY BoundAssumption DEF Term
<1>2. NoRequest \in Request
  BY <1>1 DEF NoRequest, Request
<1>3. NoReply \in Reply
  BY <1>1 DEF NoReply, Reply
<1> QED
  BY <1>2, <1>3 DEF Idle, Task

-----------------------------------------------------------------------------
\* Logs.

\* The metadata of the last entry are a term and an index.
LEMMA LastType ==
    ASSUME NEW l \in Seq(Entry)
    PROVE  LastTerm(l) \in Term /\ LastIndex(l) \in Nat
<1>1. CASE l = <<>>
  BY <1>1, BoundAssumption DEF LastTerm, LastIndex, Term
<1>2. CASE l # <<>>
  <2>1. l[Len(l)] \in Entry
    BY <1>2
  <2> QED
    BY <2>1, <1>2 DEF LastTerm, LastIndex, Entry
<1> QED
  BY <1>1, <1>2

\* handleAppendEntries leaves a log of entries.
LEMMA LogAfterType ==
    ASSUME NEW l \in Seq(Entry), NEW m \in Request
    PROVE  LogAfter(l, m) \in Seq(Entry)
<1>1. CASE m.entries = <<>>
  BY <1>1 DEF LogAfter
<1>2. CASE m.entries # <<>>
  <2> DEFINE e == m.entries[1]
  <2>1. e \in Entry
    BY <1>2 DEF Request
  <2>2. e.index \in Nat
    BY <2>1 DEF Entry
  <2> HIDE DEF e
  <2>3. Append(l, e) \in Seq(Entry)
    BY <2>1
  <2>4. e.index \in DOMAIN l => /\ [l EXCEPT ![e.index] = e] \in Seq(Entry)
                                /\ Append(SubSeq(l, 1, e.index - 1), e) \in Seq(Entry)
    BY <2>1, <2>2
  <2>5. e.index = 0 \/ e.index > Len(l) \/ e.index \in DOMAIN l
    BY <2>2
  <2>6. Store(l, e) \in Seq(Entry)
    BY <2>2, <2>3, <2>4, <2>5 DEF Store
  <2> QED
    BY <2>6, <1>2 DEF LogAfter, e
<1> QED
  BY <1>1, <1>2

\* What a node holds are entries.
LEMMA HeldType ==
    ASSUME NEW n \in Node, NEW l \in Seq(Entry)
    PROVE  Held(n, l) \subseteq Node \X Entry
  BY DEF Held

-----------------------------------------------------------------------------
\* Types.

\* A handler leaves well-formed fields and answers in its own name.
LEMMA HandleType ==
    ASSUME FieldsOK, NEW p \in Node, NEW m \in Request, m.from \in Node, Handle(p, m)
    PROVE  FieldsOK' /\ ReplyTo(p, m) \in Reply /\ ReplyTo(p, m).from = p
<1> USE DEF FieldsOK
<1>1. m.term \in Term /\ m.commit \in Nat
  BY DEF Request
<1>2. ReplyTo(p, m) \in Reply /\ ReplyTo(p, m).from = p
  <2>1. StaleVote(p, m) \in BOOLEAN /\ StaleAppend(p, m) \in BOOLEAN
    BY DEF StaleVote, StaleAppend
  <2>2. VoteReply(p, m) \in Reply /\ VoteReply(p, m).from = p
    BY <1>1, <2>1 DEF VoteReply, Reply, Grants
  <2>3. AppendReply(p, m) \in Reply /\ AppendReply(p, m).from = p
    BY <1>1, <2>1 DEF AppendReply, Reply, LogAccepts
  <2> QED
    BY <2>2, <2>3 DEF ReplyTo
<1>3. CASE RejectStale(p, m)
  BY <1>2, <1>3 DEF RejectStale, fields, history
<1>4. CASE HandleRequestVote(p, m)
  <2>1. role' \in [Node -> Role]
    BY <1>4 DEF HandleRequestVote, Role
  <2>2. term' \in [Node -> Term] /\ votedFor' \in [Node -> Node \union {NoNode}]
    BY <1>1, <1>4 DEF HandleRequestVote
  <2>3. grants' \subseteq Node \X Term \X Node
    BY <1>1, <1>4 DEF HandleRequestVote
  <2> QED
    BY <1>2, <1>4, <2>1, <2>2, <2>3 DEF HandleRequestVote
<1>5. CASE HandleAppendEntries(p, m)
  <2>1. /\ role' \in [Node -> Role] /\ term' \in [Node -> Term]
        /\ votedFor' \in [Node -> Node \union {NoNode}]
    BY <1>1, <1>5 DEF HandleAppendEntries, Role
  <2>2. leaderID' \in [Node -> Node \union {NoNode}]
    BY <1>5 DEF HandleAppendEntries
  <2>3. LogAfter(log[p], m) \in Seq(Entry)
    BY LogAfterType
  <2>4. log' \in [Node -> Seq(Entry)]
    BY <1>5, <2>3 DEF HandleAppendEntries
  <2>5. Least(m.commit, Len(LogAfter(log[p], m))) \in Nat
    BY <1>1, <2>3 DEF Least
  <2>6. commitIndex' \in [Node -> Nat]
    BY <1>5, <2>5 DEF HandleAppendEntries
  <2>7. held' \subseteq Node \X Entry
    BY <1>5, <2>3, HeldType DEF HandleAppendEntries
  <2>8. cleared' \subseteq Node \X Term
    BY <1>1, <1>5 DEF HandleAppendEntries
  <2>9. UNCHANGED <<grants, won, made>>
    BY <1>5 DEF HandleAppendEntries
  <2> QED
    BY <1>2, <2>1, <2>2, <2>4, <2>6, <2>7, <2>8, <2>9
<1> QED
  BY <1>3, <1>4, <1>5 DEF Handle

\* A critical section that replaces one task by a well-formed one leaves the
\* tasks well formed.
WellFormed(th, k) ==
    /\ k \in Task
    /\ ~k.active => k = Idle
    /\ k.active => k.req.from \in Node
    /\ k.reply # NoReply => k.reply.from \in Node
    /\ th \in Proposals /\ k.active => Len(k.req.entries) = 1

\* A step that moves one goroutine to a well-formed task keeps all tasks well formed.
LEMMA TaskUpdate ==
    ASSUME task \in [Thread -> Task], TasksOK,
           NEW th \in Thread, NEW k, WellFormed(th, k),
           task' = [task EXCEPT ![th] = k],
           \A m \in late' : m.req.from \in Node
    PROVE  task' \in [Thread -> Task] /\ TasksOK'
  BY DEF TasksOK, WellFormed

\* An active task is well formed and still is when its loop moves on.
LEMMA MovesOn ==
    ASSUME task \in [Thread -> Task], TasksOK, NEW th \in Thread, task[th].active,
           NEW s \in Seq(Node), NEW y \in SUBSET Node, NEW r \in Reply,
           r # NoReply => r.from \in Node
    PROVE  WellFormed(th, [task[th] EXCEPT !.todo = s, !.yes = y, !.reply = r])
<1> DEFINE k == [task[th] EXCEPT !.todo = s, !.yes = y, !.reply = r]
<1>1. task[th] \in Task
  OBVIOUS
<1>2. k \in Task /\ k.active = task[th].active /\ k.req = task[th].req /\ k.reply = r
  BY <1>1 DEF Task
<1> QED
  BY <1>2 DEF WellFormed, TasksOK

\* An awaited answer belongs to an active task.
LEMMA RepliesAwaited ==
    ASSUME TasksOK, NEW th \in Thread, task[th].reply # NoReply
    PROVE  task[th].active
  BY DEF TasksOK, Idle

\* The five steps of an RPC loop.
LEMMA RpcType ==
    ASSUME TypeOK, NEW th \in Thread, Rpc(th)
    PROVE  TypeOK'
<1> DEFINE k == task[th]
<1>1. /\ FieldsOK /\ TasksOK /\ task \in [Thread -> Task] /\ late \subseteq Envelope
      /\ k \in Task /\ \A m \in late : m.req.from \in Node
  BY DEF TypeOK, TasksOK
<1>2. /\ k.active \in BOOLEAN /\ k.req \in Request /\ k.todo \in Seq(Node)
      /\ k.yes \in SUBSET Node /\ k.reply \in Reply
  BY <1>1 DEF Task
<1>3. Sending(th) => /\ k.active /\ k.reply = NoReply /\ k.req.from \in Node
                     /\ Target(th) \in Node /\ Tail(k.todo) \in Seq(Node)
  BY <1>1, <1>2 DEF Sending, Target, TasksOK
<1>4. k = [active |-> k.active, req |-> k.req, todo |-> k.todo, yes |-> k.yes, reply |-> k.reply]
  BY <1>1 DEF Task
<1>5. ASSUME UNCHANGED <<fields, history>>
      PROVE  FieldsOK'
  BY <1>1, <1>5 DEF FieldsOK, fields, history
<1>6. CASE Deliver(th)
  <2> DEFINE r == ReplyTo(Target(th), k.req)
  <2>1. Sending(th) /\ Handle(Target(th), k.req) /\ UNCHANGED late
        /\ task' = [task EXCEPT ![th].todo = Tail(@), ![th].reply = r]
    BY <1>6 DEF Deliver
  <2>2. FieldsOK' /\ r \in Reply /\ r.from \in Node
    BY <1>1, <1>2, <1>3, <2>1, HandleType
  <2> HIDE DEF r
  <2>3. task' = [task EXCEPT ![th] = [k EXCEPT !.todo = Tail(k.todo), !.yes = k.yes, !.reply = r]]
    BY <1>1, <1>2, <2>1 DEF Task
  <2>4. WellFormed(th, [k EXCEPT !.todo = Tail(k.todo), !.yes = k.yes, !.reply = r])
    BY <1>1, <1>2, <1>3, <2>1, <2>2, MovesOn
  <2>5. task' \in [Thread -> Task] /\ TasksOK'
    BY <1>1, <2>1, <2>3, <2>4, TaskUpdate
  <2> QED
    BY <1>1, <2>1, <2>2, <2>5 DEF TypeOK
<1>7. CASE Lose(th)
  <2>1. Sending(th) /\ UNCHANGED late /\ UNCHANGED <<fields, history>>
        /\ task' = [task EXCEPT ![th].todo = Tail(@)]
    BY <1>7 DEF Lose
  <2>2. task' = [task EXCEPT ![th] = [k EXCEPT !.todo = Tail(k.todo), !.yes = k.yes, !.reply = k.reply]]
    BY <1>1, <1>2, <2>1 DEF Task
  <2>3. WellFormed(th, [k EXCEPT !.todo = Tail(k.todo), !.yes = k.yes, !.reply = k.reply])
    BY <1>1, <1>2, <1>3, <2>1, MovesOn
  <2>4. task' \in [Thread -> Task] /\ TasksOK'
    BY <1>1, <2>1, <2>2, <2>3, TaskUpdate
  <2> QED
    BY <1>1, <1>5, <2>1, <2>4 DEF TypeOK
<1>8. CASE Abandon(th)
  <2>1. Sending(th) /\ UNCHANGED <<fields, history>>
        /\ late' = late \union {[to |-> Target(th), req |-> k.req]}
        /\ task' = [task EXCEPT ![th].todo = Tail(@)]
    BY <1>8 DEF Abandon
  <2>2. task' = [task EXCEPT ![th] = [k EXCEPT !.todo = Tail(k.todo), !.yes = k.yes, !.reply = k.reply]]
    BY <1>1, <1>2, <2>1 DEF Task
  <2>3. WellFormed(th, [k EXCEPT !.todo = Tail(k.todo), !.yes = k.yes, !.reply = k.reply])
    BY <1>1, <1>2, <1>3, <2>1, MovesOn
  <2>4. late' \subseteq Envelope /\ \A m \in late' : m.req.from \in Node
    BY <1>1, <1>2, <1>3, <2>1 DEF Envelope
  <2>5. task' \in [Thread -> Task] /\ TasksOK'
    BY <1>1, <2>2, <2>3, <2>4, TaskUpdate
  <2> QED
    BY <1>5, <2>1, <2>4, <2>5 DEF TypeOK
<1>9. CASE LoseReply(th)
  <2>1. k.reply # NoReply /\ UNCHANGED late /\ UNCHANGED <<fields, history>>
        /\ task' = [task EXCEPT ![th].reply = NoReply]
    BY <1>9 DEF LoseReply
  <2>2. k.active
    BY <1>1, <2>1, RepliesAwaited
  <2>3. task' = [task EXCEPT ![th] = [k EXCEPT !.todo = k.todo, !.yes = k.yes, !.reply = NoReply]]
    BY <1>1, <1>2, <2>1 DEF Task
  <2>4. WellFormed(th, [k EXCEPT !.todo = k.todo, !.yes = k.yes, !.reply = NoReply])
    BY <1>1, <1>2, <2>2, MovesOn, ZeroValues
  <2>5. task' \in [Thread -> Task] /\ TasksOK'
    BY <1>1, <2>1, <2>3, <2>4, TaskUpdate
  <2> QED
    BY <1>1, <1>5, <2>1, <2>5 DEF TypeOK
<1>10. CASE Return(th)
  <2> DEFINE n == th.node
             r == k.reply
             quits == r.term > k.req.term /\ StepsDown(n, r.term)
             y == IF r.success /\ th.kind # "beat" THEN k.yes \union {r.from} ELSE k.yes
  <2>1. /\ r # NoReply /\ UNCHANGED <<log, commitIndex, late, history>>
        /\ IF quits
           THEN /\ term' = [term EXCEPT ![n] = r.term]
                /\ role' = [role EXCEPT ![n] = "follower"]
                /\ votedFor' = [votedFor EXCEPT ![n] = NoNode]
                /\ leaderID' = [leaderID EXCEPT ![n] = NoNode]
                /\ task' = [task EXCEPT ![th] = Idle]
           ELSE /\ task' = [task EXCEPT ![th].reply = NoReply, ![th].yes =
                              IF r.success /\ th.kind # "beat" THEN @ \union {r.from} ELSE @]
                /\ UNCHANGED <<term, role, votedFor, leaderID>>
    BY <1>10 DEF Return
  <2>2. k.active /\ r \in Reply /\ r.from \in Node /\ r.term \in Term /\ n \in Node
        /\ y \in SUBSET Node
    BY <1>1, <1>2, <2>1, RepliesAwaited, ThreadFacts DEF TasksOK, Reply
  <2>3. CASE quits
    <3>1. FieldsOK'
      BY <1>1, <2>1, <2>2, <2>3 DEF FieldsOK, Role, history
    <3>2. WellFormed(th, Idle)
      BY ZeroValues DEF WellFormed, Idle
    <3>3. task' \in [Thread -> Task] /\ TasksOK'
      BY <1>1, <2>1, <2>3, <3>2, TaskUpdate
    <3> QED
      BY <1>1, <2>1, <3>1, <3>3 DEF TypeOK
  <2>4. CASE ~quits
    <3>1. FieldsOK'
      BY <1>1, <2>1, <2>4 DEF FieldsOK, history
    <3>2. task' = [task EXCEPT ![th] = [k EXCEPT !.todo = k.todo, !.yes = y, !.reply = NoReply]]
      BY <1>1, <1>2, <2>1, <2>4 DEF Task
    <3>3. WellFormed(th, [k EXCEPT !.todo = k.todo, !.yes = y, !.reply = NoReply])
      BY <1>1, <1>2, <2>2, MovesOn, ZeroValues
    <3>4. task' \in [Thread -> Task] /\ TasksOK'
      BY <1>1, <2>1, <3>2, <3>3, TaskUpdate
    <3> QED
      BY <1>1, <2>1, <3>1, <3>4 DEF TypeOK
  <2> QED
    BY <2>3, <2>4
<1> QED
  BY <1>6, <1>7, <1>8, <1>9, <1>10 DEF Rpc

\* A goroutine that enters its loop with a request of its node is well formed.
LEMMA StartWellFormed ==
    ASSUME NEW th \in Thread, NEW m \in Request, m.from \in Node, NEW y \in SUBSET Node,
           th \in Proposals => Len(m.entries) = 1
    PROVE  WellFormed(th, Start(th, m, y))
<1>1. Order[th.node] \in Seq(Node)
  BY ThreadFacts, OrderAssumption
<1>2. Start(th, m, y) \in Task
  BY <1>1, ZeroValues DEF Start, Task
<1> QED
  BY <1>2 DEF WellFormed, Start

\* So is one that is done.
LEMMA IdleWellFormed == ASSUME NEW th PROVE WellFormed(th, Idle)
  BY ZeroValues DEF WellFormed, Idle

\* A heartbeat is a request of its leader.
LEMMA HeartbeatType ==
    ASSUME FieldsOK, NEW n \in Node, NEW t \in Term
    PROVE  Heartbeat(n, t) \in Request /\ Heartbeat(n, t).from = n
<1>1. commitIndex[n] \in Nat /\ 0 \in Term /\ <<>> \in {s \in Seq(Entry) : Len(s) <= 1}
  BY BoundAssumption DEF FieldsOK, Term
<1> QED
  BY <1>1 DEF Heartbeat, NoRequest, Request

\* An election that starts (runElectionRound) leaves everything well formed.
LEMMA StartElectionType ==
    ASSUME TypeOK, NEW n \in Node, StartElection(n)
    PROVE  TypeOK'
<1> DEFINE t == term[n] + 1
           m == [NoRequest EXCEPT !.type = "vote", !.from = n, !.term = t,
                   !.lastTerm = LastTerm(log[n]), !.lastIndex = LastIndex(log[n])]
<1>1. /\ FieldsOK /\ TasksOK /\ task \in [Thread -> Task] /\ late \subseteq Envelope
      /\ UNCHANGED late /\ \A e \in late : e.req.from \in Node
  BY DEF TypeOK, TasksOK, StartElection
<1>2. t \in Term /\ LastTerm(log[n]) \in Term /\ LastIndex(log[n]) \in Nat
  BY <1>1, LastType, BoundAssumption DEF FieldsOK, StartElection, Term
<1>3. m \in Request /\ m.from = n
  <2> HIDE DEF t
  <2> QED
    BY <1>2, ZeroValues DEF Request, NoRequest
<1>4. FieldsOK'
  BY <1>1, <1>2 DEF FieldsOK, StartElection, Role
<1>5. task' = [task EXCEPT ![Round(n)] = Start(Round(n), m, {n})]
  BY DEF StartElection
<1>6. WellFormed(Round(n), Start(Round(n), m, {n}))
  <2> HIDE DEF m
  <2> QED
    BY <1>3, StartWellFormed, ThreadFacts
<1>7. task' \in [Thread -> Task] /\ TasksOK'
  BY <1>1, <1>5, <1>6, TaskUpdate, ThreadFacts
<1> QED
  BY <1>1, <1>4, <1>7 DEF TypeOK

\* So does the end of a round, lost, won or overtaken by a later term.
LEMMA EndRoundType ==
    ASSUME TypeOK, NEW n \in Node, EndRound(n)
    PROVE  TypeOK'
<1> DEFINE t == task[Round(n)].req.term
           elected == IsMajority(task[Round(n)].yes)
           b == [Idle EXCEPT !.active = TRUE, !.req = Heartbeat(n, t)]
<1>1. /\ FieldsOK /\ TasksOK /\ task \in [Thread -> Task] /\ late \subseteq Envelope
      /\ UNCHANGED late /\ \A e \in late : e.req.from \in Node
  BY DEF TypeOK, TasksOK, EndRound
<1>2. t \in Term
  BY <1>1, ThreadFacts DEF Task, Request
<1>3. FieldsOK'
  <2>1. role' \in [Node -> Role]
    BY <1>1 DEF FieldsOK, EndRound, Role
  <2>2. leaderID' \in [Node -> Node \union {NoNode}] /\ won' \subseteq Node \X Term
    <3>1. CASE elected
      <4>1. leaderID' = [leaderID EXCEPT ![n] = n] /\ won' = won \union {<<n, t>>}
        BY <3>1 DEF EndRound
      <4> QED
        BY <1>1, <1>2, <4>1 DEF FieldsOK
    <3>2. CASE ~elected
      <4>1. UNCHANGED <<leaderID, won>>
        BY <3>2 DEF EndRound
      <4> QED
        BY <1>1, <4>1 DEF FieldsOK
    <3> QED
      BY <3>1, <3>2
  <2>3. UNCHANGED <<term, votedFor, log, commitIndex, grants, made, cleared, held>>
    BY DEF EndRound
  <2> QED
    BY <1>1, <2>1, <2>2, <2>3 DEF FieldsOK
<1>4. WellFormed(Round(n), Idle) /\ WellFormed(Beat(n, t), b)
  <2>1. b \in Task /\ b.active /\ b.req.from = n /\ b.reply = NoReply
    BY <1>1, <1>2, HeartbeatType, ZeroValues DEF Task, Idle
  <2>2. Beat(n, t) \notin Proposals
    BY <1>2, ThreadFacts
  <2> QED
    BY <2>1, <2>2, IdleWellFormed DEF WellFormed
<1>5. CASE elected
  <2>1. task' = [task EXCEPT ![Round(n)] = Idle, ![Beat(n, t)] = b]
    BY <1>5 DEF EndRound
  <2>2. Round(n) \in Thread /\ Beat(n, t) \in Thread /\ Round(n) # Beat(n, t)
    BY <1>2, ThreadFacts
  <2> HIDE DEF b, t
  <2>3. task' \in [Thread -> Task]
    BY <1>1, <1>4, <2>1, <2>2 DEF WellFormed
  <2>4. \A th \in Thread : th # Round(n) /\ th # Beat(n, t) => task'[th] = task[th]
    BY <1>1, <2>1, <2>2
  <2>5. task'[Round(n)] = Idle /\ task'[Beat(n, t)] = b
    BY <1>1, <2>1, <2>2
  <2>6. \A th \in Thread : WellFormed(th, task[th])
    BY <1>1 DEF TasksOK, WellFormed
  <2>7. \A th \in Thread : WellFormed(th, task'[th])
    BY <1>4, <2>4, <2>5, <2>6
  <2>8. TasksOK'
    BY <1>1, <2>7 DEF TasksOK, WellFormed
  <2> QED
    BY <1>1, <1>3, <2>3, <2>8 DEF TypeOK
<1>6. CASE ~elected
  <2>1. task' = [task EXCEPT ![Round(n)] = Idle]
    BY <1>6 DEF EndRound
  <2>2. task' \in [Thread -> Task] /\ TasksOK'
    BY <1>1, <1>4, <2>1, TaskUpdate, ThreadFacts
  <2> QED
    BY <1>1, <1>3, <2>2 DEF TypeOK
<1> QED
  BY <1>5, <1>6

\* So does a tick of heartbeatLoop, which ends the loop or sends again.
LEMMA TickType ==
    ASSUME TypeOK, NEW n \in Node, NEW t \in Term, Tick(n, t)
    PROVE  TypeOK'
<1> DEFINE th == Beat(n, t)
           k == IF role[n] = "leader" /\ term[n] = t
                THEN Start(th, Heartbeat(n, t), {}) ELSE Idle
<1>1. /\ FieldsOK /\ TasksOK /\ task \in [Thread -> Task] /\ late \subseteq Envelope
      /\ UNCHANGED late /\ \A e \in late : e.req.from \in Node
  BY DEF TypeOK, TasksOK, Tick
<1>2. FieldsOK'
  BY <1>1 DEF FieldsOK, Tick, fields, history
<1>3. task' = [task EXCEPT ![th] = k]
  BY DEF Tick
<1>4. WellFormed(th, k)
  BY <1>1, HeartbeatType, StartWellFormed, IdleWellFormed, ThreadFacts
<1>5. task' \in [Thread -> Task] /\ TasksOK'
  BY <1>1, <1>3, <1>4, TaskUpdate, ThreadFacts
<1> QED
  BY <1>1, <1>2, <1>5 DEF TypeOK

\* So does the prologue of Propose, which appends the entry.
LEMMA ProposeType ==
    ASSUME TypeOK, NEW n \in Node, NEW c \in Caller, NEW d \in Data, Propose(n, c, d)
    PROVE  TypeOK'
<1> DEFINE l == log[n]
           e == [index |-> Len(l) + 1, term |-> term[n], data |-> d]
           m == [NoRequest EXCEPT !.type = "append", !.from = n, !.term = term[n],
                   !.prevIndex = Len(l), !.prevTerm = IF l = <<>> THEN 0 ELSE l[Len(l)].term,
                   !.entries = <<e>>, !.commit = commitIndex[n]]
           th == Proposal(n, c)
<1>1. /\ FieldsOK /\ TasksOK /\ task \in [Thread -> Task] /\ late \subseteq Envelope
      /\ UNCHANGED late /\ \A x \in late : x.req.from \in Node
  BY DEF TypeOK, TasksOK, Propose
<1>2. l \in Seq(Entry) /\ term[n] \in Term /\ commitIndex[n] \in Nat
  BY <1>1 DEF FieldsOK
<1>3. e \in Entry
  BY <1>2 DEF Entry
<1>4. (IF l = <<>> THEN 0 ELSE l[Len(l)].term) \in Term
  BY <1>2, LastType DEF LastTerm
<1>5. m \in Request /\ m.from = n /\ Len(m.entries) = 1
  <2> HIDE DEF e, l
  <2>1. <<e>> \in {s \in Seq(Entry) : Len(s) <= 1} /\ Len(<<e>>) = 1
    BY <1>3
  <2>2. Len(l) \in Nat
    BY <1>2
  <2> QED
    BY <1>2, <1>4, <2>1, <2>2, ZeroValues DEF Request, NoRequest
<1>6. FieldsOK'
  <2>1. Append(l, e) \in Seq(Entry)
    BY <1>2, <1>3
  <2>2. Held(n, Append(l, e)) \subseteq Node \X Entry
    BY <2>1, HeldType
  <2> HIDE DEF e, l
  <2>3. /\ log' = [log EXCEPT ![n] = Append(l, e)] /\ made' = made \union {<<n, e>>}
        /\ held' = held \union Held(n, Append(l, e))
        /\ UNCHANGED <<role, term, votedFor, leaderID, commitIndex, grants, won, cleared>>
    BY DEF Propose, e, l
  <2> QED
    BY <1>1, <1>3, <2>1, <2>2, <2>3 DEF FieldsOK
<1>7. task' = [task EXCEPT ![th] = Start(th, m, {n})]
  BY DEF Propose
<1>8. WellFormed(th, Start(th, m, {n}))
  <2> HIDE DEF m
  <2> QED
    BY <1>5, StartWellFormed, ThreadFacts
<1>9. task' \in [Thread -> Task] /\ TasksOK'
  <2> HIDE DEF m
  <2> QED
    BY <1>1, <1>7, <1>8, TaskUpdate, ThreadFacts
<1> QED
  BY <1>1, <1>6, <1>9 DEF TypeOK

\* So does its end, which commits or gives up.
LEMMA EndProposeType ==
    ASSUME TypeOK, NEW n \in Node, NEW c \in Caller, EndPropose(n, c)
    PROVE  TypeOK'
<1> DEFINE th == Proposal(n, c)
<1>1. /\ FieldsOK /\ TasksOK /\ task \in [Thread -> Task] /\ late \subseteq Envelope
      /\ UNCHANGED late /\ \A e \in late : e.req.from \in Node
  BY DEF TypeOK, TasksOK, EndPropose
<1>2. task[th].req.entries[1].index \in Nat
  <2>1. task[th].req \in Request /\ Len(task[th].req.entries) = 1
    BY <1>1, ThreadFacts DEF Task, TasksOK, EndPropose, LoopDone
  <2>2. task[th].req.entries \in Seq(Entry)
    BY <2>1 DEF Request
  <2>3. task[th].req.entries[1] \in Entry
    BY <2>1, <2>2
  <2> QED
    BY <2>3 DEF Entry
<1>3. FieldsOK'
  BY <1>1, <1>2 DEF FieldsOK, EndPropose, history
<1>4. task' = [task EXCEPT ![th] = Idle]
  BY DEF EndPropose
<1>5. task' \in [Thread -> Task] /\ TasksOK'
  BY <1>1, <1>4, IdleWellFormed, TaskUpdate, ThreadFacts
<1> QED
  BY <1>1, <1>3, <1>5 DEF TypeOK

\* No critical section breaks the types.
LEMMA StepTypes == ASSUME TypeOK, [Next]_vars PROVE TypeOK'
<1>1. ASSUME NEW th \in Thread, Rpc(th) PROVE TypeOK'
  BY <1>1, RpcType
<1>2. ASSUME NEW m \in late, DeliverLate(m) PROVE TypeOK'
  <2>1. /\ FieldsOK /\ TasksOK /\ task \in [Thread -> Task] /\ late \subseteq Envelope
        /\ m.to \in Node /\ m.req \in Request /\ m.req.from \in Node
    BY DEF TypeOK, TasksOK, Envelope
  <2>2. Handle(m.to, m.req) /\ late' = late \ {m} /\ UNCHANGED task
    BY <1>2 DEF DeliverLate
  <2>3. FieldsOK'
    BY <2>1, <2>2, HandleType
  <2> QED
    BY <2>1, <2>2, <2>3 DEF TypeOK, TasksOK
<1>3. ASSUME NEW n \in Node, StartElection(n) PROVE TypeOK'
  BY <1>3, StartElectionType
<1>4. ASSUME NEW n \in Node, EndRound(n) PROVE TypeOK'
  BY <1>4, EndRoundType
<1>5. ASSUME NEW n \in Node, NEW t \in Term, Tick(n, t) PROVE TypeOK'
  BY <1>5, TickType
<1>6. ASSUME NEW n \in Node, NEW c \in Caller, EndPropose(n, c) PROVE TypeOK'
  BY <1>6, EndProposeType
<1>7. ASSUME NEW n \in Node, NEW c \in Caller, NEW d \in Data, Propose(n, c, d) PROVE TypeOK'
  BY <1>7, ProposeType
<1>8. ASSUME NEW n \in Node, NEW t \in BumpTerms, BumpTerm(n, t) PROVE TypeOK'
  <2>1. t \in Term
    BY BoundAssumption DEF Term
  <2> QED
    BY <1>8, <2>1 DEF BumpTerm, TypeOK, FieldsOK, TasksOK, Role, history
<1>9. CASE UNCHANGED vars
  BY <1>9 DEF vars, TypeOK, FieldsOK, TasksOK
<1> QED
  BY <1>1, <1>2, <1>3, <1>4, <1>5, <1>6, <1>7, <1>8, <1>9 DEF Next

\* A cluster starts with well-formed fields.
LEMMA InitTypes == ASSUME Init PROVE TypeOK
<1>1. 0 \in Term
  BY BoundAssumption DEF Term
<1>2. FieldsOK
  BY <1>1 DEF Init, FieldsOK, Role
<1>3. task \in [Thread -> Task] /\ late \subseteq Envelope /\ TasksOK
  BY ZeroValues DEF Init, TasksOK, Idle
<1> QED
  BY <1>2, <1>3 DEF TypeOK

\* Every value the program stores is of the kind node.go declares: no handler,
\* loop or test breaks the types, whatever bugs are injected.
THEOREM TypeCorrect == Spec => []TypeOK
<1>1. Init => TypeOK
  BY InitTypes
<1>2. TypeOK /\ [Next]_vars => TypeOK'
  BY StepTypes
<1> QED
  BY <1>1, <1>2, PTL DEF Spec

-----------------------------------------------------------------------------
\* Terms.

\* Terms are natural numbers.
LEMMA TermsNatural == Term \subseteq Nat /\ \A f \in [Node -> Term] : f \in [Node -> Nat]
  BY BoundAssumption DEF Term

\* No handler lowers a term.
LEMMA HandleTerm ==
    ASSUME FieldsOK, NEW p \in Node, NEW m \in Request, Handle(p, m)
    PROVE  \A n \in Node : term'[n] >= term[n]
<1>1. term \in [Node -> Nat] /\ m.term \in Nat
  BY TermsNatural DEF FieldsOK, Request
<1>2. CASE RejectStale(p, m)
  BY <1>1, <1>2 DEF RejectStale, fields
<1>3. CASE HandleRequestVote(p, m)
  BY <1>1, <1>3 DEF HandleRequestVote, StaleVote
<1>4. CASE HandleAppendEntries(p, m)
  BY <1>1, <1>4 DEF HandleAppendEntries
<1> QED
  BY <1>2, <1>3, <1>4 DEF Handle

\* No critical section does: not a handler of a stale or late request, not a loop
\* that looks at an answer, not an election that starts.
LEMMA StepTerm ==
    ASSUME TypeOK, [Next]_vars
    PROVE  \A n \in Node : term'[n] >= term[n]
<1> DEFINE Mono == \A n \in Node : term'[n] >= term[n]
<1> SUFFICES Mono
  OBVIOUS
<1> USE DEF Mono
<1>1. /\ FieldsOK /\ TasksOK /\ task \in [Thread -> Task] /\ late \subseteq Envelope
      /\ term \in [Node -> Nat]
  BY TermsNatural DEF TypeOK, FieldsOK
<1>2. ASSUME UNCHANGED term PROVE Mono
  BY <1>1, <1>2
<1>3. ASSUME NEW th \in Thread, Rpc(th) PROVE Mono
  <2>1. CASE Deliver(th)
    <3>1. Target(th) \in Node /\ task[th].req \in Request
      BY <1>1, <2>1 DEF Deliver, Sending, Target, Task
    <3> QED
      BY <1>1, <2>1, <3>1, HandleTerm DEF Deliver
  <2>2. CASE Lose(th) \/ Abandon(th) \/ LoseReply(th)
    BY <1>2, <2>2 DEF Lose, Abandon, LoseReply, fields
  <2>3. CASE Return(th)
    <3>1. task[th].reply.term \in Nat
      BY <1>1, TermsNatural DEF Task, Reply
    <3>2. \/ UNCHANGED term
          \/ /\ task[th].reply.term > term[th.node]
             /\ term' = [term EXCEPT ![th.node] = task[th].reply.term]
      BY <2>3 DEF Return, StepsDown
    <3> QED
      BY <1>1, <3>1, <3>2
  <2> QED
    BY <1>3, <2>1, <2>2, <2>3 DEF Rpc
<1>4. ASSUME NEW m \in late, DeliverLate(m) PROVE Mono
  BY <1>1, <1>4, HandleTerm DEF DeliverLate, Envelope
<1>5. ASSUME NEW n \in Node, StartElection(n) PROVE Mono
  BY <1>1, <1>5 DEF StartElection
<1>6. ASSUME NEW n \in Node, EndRound(n) PROVE Mono
  BY <1>2, <1>6 DEF EndRound
<1>7. ASSUME NEW n \in Node, NEW t \in Term, Tick(n, t) PROVE Mono
  BY <1>2, <1>7 DEF Tick, fields
<1>8. ASSUME NEW n \in Node, NEW c \in Caller, EndPropose(n, c) PROVE Mono
  BY <1>2, <1>8 DEF EndPropose
<1>9. ASSUME NEW n \in Node, NEW c \in Caller, NEW d \in Data, Propose(n, c, d) PROVE Mono
  BY <1>2, <1>9 DEF Propose
<1>10. ASSUME NEW n \in Node, NEW t \in BumpTerms, BumpTerm(n, t) PROVE Mono
  BY <1>1, <1>10, BoundAssumption DEF BumpTerm
<1>11. CASE UNCHANGED vars
  BY <1>2, <1>11 DEF vars
<1> QED
  BY <1>3, <1>4, <1>5, <1>6, <1>7, <1>8, <1>9, <1>10, <1>11 DEF Next

\* A node's term never goes down.
THEOREM TermNeverDrops == Spec => TermMonotone
<1> DEFINE Mono == \A n \in Node : term'[n] >= term[n]
<1>1. TypeOK /\ [Next]_vars => [Mono]_vars
  BY StepTerm
<1> HIDE DEF Mono
<1>2. Spec => [][Mono]_vars
  BY <1>1, TypeCorrect, PTL DEF Spec
<1> QED
  BY <1>2 DEF TermMonotone, Mono

-----------------------------------------------------------------------------
\* Votes.

\* Any two majorities of the cluster share a node, and a superset of a majority
\* is one.
LEMMA Majorities ==
    /\ \A S, T \in SUBSET Node : IsMajority(S) /\ IsMajority(T) => S \intersect T # {}
    /\ \A S, T \in SUBSET Node : IsMajority(S) /\ S \subseteq T => IsMajority(T)
<1>1. IsFiniteSet(Node) /\ Cardinality(Node) \in Nat
  BY NodeAssumption, FS_CardinalityType
<1>2. \A S \in SUBSET Node : IsFiniteSet(S) /\ Cardinality(S) \in Nat
  BY <1>1, FS_Subset, FS_CardinalityType
<1>3. ASSUME NEW S \in SUBSET Node, NEW T \in SUBSET Node, IsMajority(S), IsMajority(T)
      PROVE  S \intersect T # {}
  <2>1. Cardinality(S) + Cardinality(T) > Cardinality(Node)
    BY <1>1, <1>2, <1>3 DEF IsMajority, Majority
  <2> QED
    BY <1>1, <2>1, FS_MajoritiesIntersect
<1>4. ASSUME NEW S \in SUBSET Node, NEW T \in SUBSET Node, IsMajority(S), S \subseteq T
      PROVE  IsMajority(T)
  <2>1. Cardinality(S) <= Cardinality(T)
    BY <1>2, <1>4, FS_Subset
  <2> QED
    BY <1>1, <1>2, <1>4, <2>1 DEF IsMajority, Majority
<1> QED
  BY <1>3, <1>4

\* The part of VotesAccounted that is about voters alone.
VotersOK == GrantsReached /\ VoteKept /\ GrantedOnce

\* What a handler does to the votes: it grants at most the vote it is asked for,
\* and answers yes to a vote request only if the grant is on record.
LEMMA HandleVotes ==
    ASSUME FieldsOK, VotersOK, NEW p \in Node, NEW m \in Request, m.from \in Node, Handle(p, m)
    PROVE  /\ VotersOK'
           /\ grants \subseteq grants' /\ won' = won
           /\ m.type = "vote" /\ ReplyTo(p, m).success => <<p, m.term, m.from>> \in grants'
<1>1. /\ term \in [Node -> Nat] /\ m.term \in Nat /\ votedFor \in [Node -> Node \union {NoNode}]
      /\ grants \subseteq Node \X Term \X Node /\ m.from # NoNode
  BY TermsNatural, NodeAssumption DEF FieldsOK, Request
<1>2. \A g \in grants : g[1] \in Node /\ g[2] \in Nat /\ g[3] \in Node /\ g[3] # NoNode
  <2>1. \A g \in grants : g[1] \in Node /\ g[2] \in Term /\ g[3] \in Node
    BY <1>1
  <2> QED
    BY <2>1, TermsNatural, NodeAssumption
<1> USE DEF VotersOK, GrantsReached, VoteKept, GrantedOnce
<1>3. CASE RejectStale(p, m)
  <2>1. UNCHANGED <<grants, won, term, votedFor, cleared>>
    BY <1>3 DEF RejectStale, fields, history
  <2>2. m.type = "vote" => ~ReplyTo(p, m).success
    BY <1>3 DEF RejectStale, ReplyTo, VoteReply, StaleAppend
  <2> QED
    BY <2>1, <2>2
<1>4. CASE HandleRequestVote(p, m)
  <2>1. /\ m.type = "vote" /\ ~StaleVote(p, m) /\ UNCHANGED <<won, cleared>>
        /\ term' = [term EXCEPT ![p] = m.term] /\ m.term >= term[p]
    BY <1>1, <1>4 DEF HandleRequestVote, StaleVote
  <2>2. CASE Grants(p, m)
    <3>1. /\ votedFor' = [votedFor EXCEPT ![p] = m.from]
          /\ grants' = grants \union {<<p, m.term, m.from>>}
      BY <1>4, <2>2 DEF HandleRequestVote
    <3>2. m.term > term[p] \/ votedFor[p] = NoNode \/ votedFor[p] = m.from
      BY <2>2 DEF Grants
    <3>3. \A g \in grants : g[1] = p /\ g[2] = m.term /\ g[3] # m.from =>
             <<p, m.term>> \in cleared
      BY <1>1, <1>2, <2>1, <3>2
    <3>4. GrantsReached'
      BY <1>1, <1>2, <2>1, <3>1
    <3>5. VoteKept'
      BY <1>1, <1>2, <2>1, <3>1, <3>3
    <3>6. GrantedOnce'
      BY <1>1, <1>2, <2>1, <3>1, <3>3
    <3> QED
      BY <2>1, <3>1, <3>4, <3>5, <3>6
  <2>3. CASE ~Grants(p, m)
    <3>1. /\ votedFor' = [votedFor EXCEPT ![p] = IF m.term > term[p] THEN NoNode ELSE @]
          /\ UNCHANGED grants
      BY <1>4, <2>3 DEF HandleRequestVote
    <3>2. ~ReplyTo(p, m).success
      BY <2>1, <2>3 DEF ReplyTo, VoteReply
    <3> QED
      BY <1>1, <1>2, <2>1, <3>1, <3>2
  <2> QED
    BY <2>2, <2>3
<1>5. CASE HandleAppendEntries(p, m)
  <2>1. /\ m.type = "append" /\ UNCHANGED <<won, grants>> /\ cleared \subseteq cleared'
        /\ m.term = term[p] /\ votedFor[p] # NoNode => <<p, m.term>> \in cleared'
        /\ IF m.term >= term[p]
           THEN /\ term' = [term EXCEPT ![p] = m.term]
                /\ votedFor' = [votedFor EXCEPT ![p] = NoNode]
           ELSE UNCHANGED <<term, votedFor>>
    BY <1>5 DEF HandleAppendEntries
  <2>2. GrantsReached' /\ GrantedOnce'
    BY <1>1, <1>2, <2>1
  <2>3. VoteKept'
    BY <1>1, <1>2, <2>1
  <2> QED
    BY <2>1, <2>2, <2>3
<1> QED
  BY <1>3, <1>4, <1>5 DEF Handle

\* A node that moves to a term it has not voted in breaks nothing.
LEMMA TermRaised ==
    ASSUME FieldsOK, VotersOK, NEW n \in Node, NEW t \in Nat, t > term[n],
           term' = [term EXCEPT ![n] = t], votedFor' = [votedFor EXCEPT ![n] = NoNode],
           UNCHANGED <<grants, cleared>>
    PROVE  VotersOK'
<1>1. /\ term \in [Node -> Nat] /\ votedFor \in [Node -> Node \union {NoNode}]
      /\ \A g \in grants : g[1] \in Node /\ g[2] \in Term
  BY TermsNatural DEF FieldsOK
<1>2. \A g \in grants : g[1] \in Node /\ g[2] \in Nat
  BY <1>1, TermsNatural
<1> QED
  BY <1>1, <1>2 DEF VotersOK, GrantsReached, VoteKept, GrantedOnce

\* Winners keep their majorities.
LEMMA WonKept ==
    ASSUME WonByMajority, grants \subseteq grants', won' = won
    PROVE  WonByMajority'
<1>1. ASSUME NEW w \in won
      PROVE  IsMajority({v \in Node : <<v, w[2], w[1]>> \in grants'})
  <2> DEFINE S == {v \in Node : <<v, w[2], w[1]>> \in grants}
             T == {v \in Node : <<v, w[2], w[1]>> \in grants'}
  <2>1. S \in SUBSET Node /\ T \in SUBSET Node /\ S \subseteq T /\ IsMajority(S)
    BY DEF WonByMajority
  <2> HIDE DEF S, T
  <2>2. IsMajority(T)
    BY <2>1, Majorities
  <2> QED
    BY <2>2 DEF T
<1> QED
  BY <1>1 DEF WonByMajority

\* What RoundHonest says of one round, with the votes in G.
Honest(n, k, G) ==
    /\ k.active => k.req.type = "vote" /\ k.req.from = n
    /\ \A v \in k.yes : <<v, k.req.term, n>> \in G
    /\ k.reply.success => <<k.reply.from, k.req.term, n>> \in G

\* The rounds are honest if each node's round task is.
LEMMA HonestRounds ==
    /\ RoundHonest <=> \A n \in Node : Honest(n, task[Round(n)], grants)
    /\ RoundHonest' <=> \A n \in Node : Honest(n, task'[Round(n)], grants')
    /\ \A n : Honest(n, Idle, grants)
<1>1. /\ RoundHonest <=> \A n \in Node : Honest(n, task[Round(n)], grants)
      /\ RoundHonest' <=> \A n \in Node : Honest(n, task'[Round(n)], grants')
  BY DEF RoundHonest, Honest
<1>2. \A n : Honest(n, Idle, grants)
  BY DEF Honest, Idle, NoReply
<1> QED
  BY <1>1, <1>2

\* A critical section that replaces one task keeps the rounds honest if the new
\* task is, in case it is a round.
LEMMA RoundUpdate ==
    ASSUME RoundHonest, task \in [Thread -> Task], grants \subseteq grants',
           NEW th \in Thread, NEW k, task' = [task EXCEPT ![th] = k],
           \A n \in Node : th = Round(n) => Honest(n, k, grants')
    PROVE  RoundHonest'
<1>1. ASSUME NEW n \in Node PROVE Honest(n, task'[Round(n)], grants')
  <2>1. CASE th = Round(n)
    BY <2>1
  <2>2. CASE th # Round(n)
    <3>1. task'[Round(n)] = task[Round(n)]
      BY <2>2, ThreadFacts
    <3> QED
      BY <3>1, HonestRounds DEF Honest
  <2> QED
    BY <2>1, <2>2
<1> QED
  BY <1>1, HonestRounds

\* The five steps of an RPC loop.
LEMMA RpcVotes ==
    ASSUME TypeOK, VotesAccounted, NEW th \in Thread, Rpc(th)
    PROVE  VotesAccounted'
<1> DEFINE k == task[th]
<1>1. /\ FieldsOK /\ TasksOK /\ task \in [Thread -> Task] /\ k \in Task
      /\ VotersOK /\ RoundHonest /\ WonByMajority
      /\ \A n \in Node : th = Round(n) => Honest(n, k, grants)
  BY HonestRounds DEF TypeOK, VotesAccounted, VotersOK
<1>2. ASSUME VotersOK', RoundHonest', WonByMajority' PROVE VotesAccounted'
  BY <1>2 DEF VotesAccounted, VotersOK
<1>3. CASE Deliver(th)
  <2> DEFINE p == Target(th)
             r == ReplyTo(p, k.req)
             j == [k EXCEPT !.todo = Tail(k.todo), !.reply = r]
  <2>1. /\ k.active /\ p \in Node /\ k.req \in Request /\ k.req.from \in Node
        /\ Handle(p, k.req)
    <3>1. k.active /\ k.todo # <<>> /\ Handle(p, k.req)
      BY <1>3 DEF Deliver, Sending
    <3>2. k.todo \in Seq(Node) /\ k.req \in Request
      BY <1>1 DEF Task
    <3>3. p = Head(k.todo)
      BY DEF Target
    <3>4. k.req.from \in Node
      BY <1>1, <3>1 DEF TasksOK
    <3> QED
      BY <3>1, <3>2, <3>3, <3>4
  <2>2. r.from = p
    BY <1>1, <2>1, HandleType
  <2>3. /\ VotersOK' /\ grants \subseteq grants' /\ won' = won
        /\ k.req.type = "vote" /\ r.success => <<p, k.req.term, k.req.from>> \in grants'
    BY <1>1, <2>1, HandleVotes
  <2>4. task' = [task EXCEPT ![th] = j]
    BY <1>1, <1>3 DEF Deliver
  <2> HIDE DEF r, p
  <2>5. j.active = k.active /\ j.req = k.req /\ j.yes = k.yes /\ j.reply = r
    BY <1>1 DEF Task
  <2>6. \A n \in Node : th = Round(n) => Honest(n, j, grants')
    <3> HIDE DEF j
    <3> QED
      BY <1>1, <2>1, <2>2, <2>3, <2>5 DEF Honest
  <2>7. RoundHonest'
    <3> HIDE DEF j
    <3> QED
      BY <1>1, <2>3, <2>4, <2>6, RoundUpdate
  <2> QED
    BY <1>1, <1>2, <2>3, <2>7, WonKept
<1>4. CASE Lose(th) \/ Abandon(th) \/ LoseReply(th)
  <2>1. UNCHANGED <<term, votedFor, grants, won, cleared>>
    BY <1>4 DEF Lose, Abandon, LoseReply, fields, history
  <2>2. \E s \in {k.todo, Tail(k.todo)}, r \in {k.reply, NoReply} :
           task' = [task EXCEPT ![th] = [k EXCEPT !.todo = s, !.reply = r]]
    <3>1. CASE Lose(th) \/ Abandon(th)
      <4>1. task' = [task EXCEPT ![th] = [k EXCEPT !.todo = Tail(k.todo), !.reply = k.reply]]
        BY <1>1, <3>1 DEF Lose, Abandon, Task
      <4> QED
        BY <4>1
    <3>2. CASE LoseReply(th)
      <4>1. task' = [task EXCEPT ![th] = [k EXCEPT !.todo = k.todo, !.reply = NoReply]]
        BY <1>1, <3>2 DEF LoseReply, Task
      <4> QED
        BY <4>1
    <3> QED
      BY <1>4, <3>1, <3>2
  <2>3. PICK s \in {k.todo, Tail(k.todo)}, r \in {k.reply, NoReply} :
           task' = [task EXCEPT ![th] = [k EXCEPT !.todo = s, !.reply = r]]
    BY <2>2
  <2> DEFINE j == [k EXCEPT !.todo = s, !.reply = r]
  <2>4. j.active = k.active /\ j.req = k.req /\ j.yes = k.yes /\ j.reply = r
    BY <1>1 DEF Task
  <2>5. \A n \in Node : th = Round(n) => Honest(n, j, grants')
    <3>1. r.success => r = k.reply
      BY DEF NoReply
    <3> HIDE DEF j, k
    <3> QED
      BY <1>1, <2>1, <2>4, <3>1 DEF Honest
  <2>6. RoundHonest'
    <3> HIDE DEF j
    <3>1. task' = [task EXCEPT ![th] = j]
      BY <2>3 DEF j
    <3> QED
      BY <1>1, <2>1, <2>5, <3>1, RoundUpdate
  <2>7. VotersOK' /\ WonByMajority'
    BY <1>1, <2>1 DEF VotersOK, GrantsReached, VoteKept, GrantedOnce, WonByMajority
  <2> QED
    BY <1>2, <2>6, <2>7
<1>5. CASE Return(th)
  <2> DEFINE n == th.node
             r == k.reply
             quits == r.term > k.req.term /\ StepsDown(n, r.term)
             y == IF r.success /\ th.kind # "beat" THEN k.yes \union {r.from} ELSE k.yes
  <2>1. n \in Node /\ r.term \in Nat
    BY <1>1, TermsNatural, ThreadFacts DEF Task, Reply
  <2>2. UNCHANGED <<grants, won, cleared>>
    BY <1>5 DEF Return, history
  <2>3. WonByMajority'
    BY <1>1, <2>2, WonKept
  <2>4. CASE quits
    <3>1. /\ r.term > term[n] /\ task' = [task EXCEPT ![th] = Idle]
          /\ term' = [term EXCEPT ![n] = r.term] /\ votedFor' = [votedFor EXCEPT ![n] = NoNode]
      BY <1>5, <2>4 DEF Return, StepsDown
    <3>2. VotersOK'
      BY <1>1, <2>1, <2>2, <3>1, TermRaised
    <3>3. RoundHonest'
      BY <1>1, <2>2, <3>1, RoundUpdate, HonestRounds
    <3> QED
      BY <1>2, <2>3, <3>2, <3>3
  <2>5. CASE ~quits
    <3> DEFINE j == [k EXCEPT !.yes = y, !.reply = NoReply]
    <3>1. task' = [task EXCEPT ![th] = j] /\ UNCHANGED <<term, votedFor>>
      BY <1>1, <1>5, <2>5 DEF Return, Task
    <3>2. j.active = k.active /\ j.req = k.req /\ j.yes = y /\ j.reply = NoReply
      BY <1>1 DEF Task
    <3>3. \A m \in Node : th = Round(m) => Honest(m, j, grants')
      <4>1. ~j.reply.success /\ \A v \in y : v \in k.yes \/ (k.reply.success /\ v = k.reply.from)
        BY <3>2 DEF NoReply
      <4> HIDE DEF j, k, y
      <4> QED
        BY <1>1, <2>2, <3>2, <4>1 DEF Honest
    <3>4. RoundHonest'
      <4> HIDE DEF j
      <4> QED
        BY <1>1, <2>2, <3>1, <3>3, RoundUpdate
    <3>5. VotersOK'
      BY <1>1, <2>2, <3>1 DEF VotersOK, GrantsReached, VoteKept, GrantedOnce
    <3> QED
      BY <1>2, <2>3, <3>4, <3>5
  <2> QED
    BY <2>4, <2>5
<1> QED
  BY <1>3, <1>4, <1>5 DEF Rpc

\* A candidate that votes for itself (runElectionRound) keeps the votes accounted.
LEMMA StartElectionVotes ==
    ASSUME TypeOK, VotesAccounted, NEW n \in Node, StartElection(n)
    PROVE  VotesAccounted'
<1> DEFINE t == term[n] + 1
           m == [NoRequest EXCEPT !.type = "vote", !.from = n, !.term = t,
                   !.lastTerm = LastTerm(log[n]), !.lastIndex = LastIndex(log[n])]
           k == Start(Round(n), m, {n})
<1>1. /\ FieldsOK /\ task \in [Thread -> Task] /\ VotersOK /\ RoundHonest /\ WonByMajority
  BY DEF TypeOK, VotesAccounted, VotersOK
<1>2. /\ term \in [Node -> Nat] /\ votedFor \in [Node -> Node \union {NoNode}]
      /\ \A g \in grants : g[1] \in Node /\ g[2] \in Nat
  <2>1. \A g \in grants : g[1] \in Node /\ g[2] \in Term
    BY <1>1 DEF FieldsOK
  <2> QED
    BY <1>1, <2>1, TermsNatural DEF FieldsOK
<1>3. /\ term' = [term EXCEPT ![n] = t] /\ votedFor' = [votedFor EXCEPT ![n] = n]
      /\ grants' = grants \union {<<n, t, n>>} /\ UNCHANGED <<won, cleared>>
      /\ task' = [task EXCEPT ![Round(n)] = k]
  BY DEF StartElection
<1>4. \A g \in grants : g[1] = n => g[2] < t
  BY <1>1, <1>2 DEF VotersOK, GrantsReached
<1>5. VotersOK'
  <2>1. GrantsReached' /\ VoteKept'
    BY <1>1, <1>2, <1>3, <1>4 DEF VotersOK, GrantsReached, VoteKept
  <2>2. GrantedOnce'
    BY <1>1, <1>2, <1>3, <1>4 DEF VotersOK, GrantedOnce
  <2> QED
    BY <2>1, <2>2 DEF VotersOK
<1>6. Honest(n, k, grants')
  <2>1. m.type = "vote" /\ m.from = n /\ m.term = t
    BY DEF NoRequest
  <2>2. k.req = m /\ k.yes = {n} /\ k.reply = NoReply /\ ~NoReply.success
    BY DEF Start, NoReply
  <2> HIDE DEF m, k, t
  <2> QED
    BY <1>3, <2>1, <2>2 DEF Honest
<1>7. RoundHonest'
  <2>1. \A p \in Node : Round(n) = Round(p) => Honest(p, k, grants')
    BY <1>6, ThreadFacts
  <2> HIDE DEF k
  <2> QED
    BY <1>1, <1>3, <2>1, RoundUpdate, ThreadFacts
<1>8. WonByMajority'
  BY <1>1, <1>3, WonKept
<1> QED
  BY <1>5, <1>7, <1>8 DEF VotesAccounted, VotersOK

\* So does the end of a round: who wins holds the votes it counted.
LEMMA EndRoundVotes ==
    ASSUME TypeOK, VotesAccounted, NEW n \in Node, EndRound(n)
    PROVE  VotesAccounted'
<1> DEFINE k == task[Round(n)]
           t == k.req.term
<1>1. /\ FieldsOK /\ task \in [Thread -> Task] /\ VotersOK /\ RoundHonest /\ WonByMajority
      /\ Honest(n, k, grants) /\ k \in Task
  BY HonestRounds, ThreadFacts DEF TypeOK, VotesAccounted, VotersOK
<1>2. UNCHANGED <<term, votedFor, grants, cleared>>
  BY DEF EndRound
<1>3. VotersOK'
  BY <1>1, <1>2 DEF VotersOK, GrantsReached, VoteKept, GrantedOnce
<1>4. k.yes \in SUBSET Node /\ t \in Term
  BY <1>1 DEF Task, Request
<1>5. CASE IsMajority(k.yes)
  <2>1. /\ won' = won \union {<<n, t>>}
        /\ task' = [task EXCEPT ![Round(n)] = Idle,
                                ![Beat(n, t)] = [Idle EXCEPT !.active = TRUE,
                                                            !.req = Heartbeat(n, t)]]
    BY <1>5 DEF EndRound
  <2>2. \A p \in Node : task'[Round(p)] = task[Round(p)] \/ task'[Round(p)] = Idle
    BY <1>1, <1>4, <2>1, ThreadFacts
  <2>3. RoundHonest'
    <3>1. ASSUME NEW p \in Node PROVE Honest(p, task'[Round(p)], grants')
      BY <1>1, <1>2, <2>2, HonestRounds
    <3> QED
      BY <3>1, HonestRounds
  <2>4. IsMajority({v \in Node : <<v, t, n>> \in grants})
    <3> DEFINE T == {v \in Node : <<v, t, n>> \in grants}
    <3>1. k.yes \subseteq T /\ T \in SUBSET Node
      BY <1>1, <1>4 DEF Honest
    <3> HIDE DEF T
    <3>2. IsMajority(T)
      BY <1>4, <1>5, <3>1, Majorities
    <3> QED
      BY <3>2 DEF T
  <2>5. WonByMajority'
    <3>1. ASSUME NEW w \in won' PROVE IsMajority({v \in Node : <<v, w[2], w[1]>> \in grants'})
      <4>1. CASE w \in won
        BY <1>1, <1>2, <4>1 DEF WonByMajority
      <4>2. CASE w = <<n, t>>
        BY <1>2, <2>4, <4>2
      <4> QED
        BY <2>1, <4>1, <4>2
    <3> QED
      BY <3>1 DEF WonByMajority
  <2> QED
    BY <1>3, <2>3, <2>5 DEF VotesAccounted, VotersOK
<1>6. CASE ~IsMajority(k.yes)
  <2>1. won' = won /\ task' = [task EXCEPT ![Round(n)] = Idle]
    BY <1>6 DEF EndRound
  <2>2. RoundHonest'
    BY <1>1, <1>2, <2>1, RoundUpdate, HonestRounds, ThreadFacts
  <2>3. WonByMajority'
    BY <1>1, <1>2, <2>1, WonKept
  <2> QED
    BY <1>3, <2>2, <2>3 DEF VotesAccounted, VotersOK
<1> QED
  BY <1>5, <1>6

\* Critical sections that neither vote nor touch a round.
LEMMA OthersVotes ==
    ASSUME VotesAccounted, UNCHANGED <<term, votedFor, grants, won, cleared>>,
           \A n \in Node : task'[Round(n)] = task[Round(n)]
    PROVE  VotesAccounted'
  BY DEF VotesAccounted, GrantsReached, VoteKept, GrantedOnce, RoundHonest, WonByMajority

\* No critical section makes the votes on record disagree with what voters and
\* rounds remember.
LEMMA StepVotes == ASSUME TypeOK, VotesAccounted, [Next]_vars PROVE VotesAccounted'
<1>1. /\ FieldsOK /\ TasksOK /\ task \in [Thread -> Task] /\ late \subseteq Envelope
      /\ VotersOK /\ RoundHonest /\ WonByMajority
  BY DEF TypeOK, VotesAccounted, VotersOK
<1>2. ASSUME NEW th \in Thread, NEW k, task' = [task EXCEPT ![th] = k],
             \A n \in Node : th # Round(n)
      PROVE  \A n \in Node : task'[Round(n)] = task[Round(n)]
  BY <1>1, <1>2, ThreadFacts
<1>3. ASSUME NEW th \in Thread, Rpc(th) PROVE VotesAccounted'
  BY <1>3, RpcVotes
<1>4. ASSUME NEW m \in late, DeliverLate(m) PROVE VotesAccounted'
  <2>1. /\ m.to \in Node /\ m.req \in Request /\ m.req.from \in Node
        /\ Handle(m.to, m.req) /\ task' = task
    BY <1>1, <1>4 DEF DeliverLate, Envelope, TasksOK
  <2>2. VotersOK' /\ grants \subseteq grants' /\ won' = won
    BY <1>1, <2>1, HandleVotes
  <2>3. RoundHonest'
    BY <1>1, <2>1, <2>2, HonestRounds DEF Honest
  <2>4. WonByMajority'
    BY <1>1, <2>2, WonKept
  <2> QED
    BY <2>2, <2>3, <2>4 DEF VotesAccounted, VotersOK
<1>5. ASSUME NEW n \in Node, StartElection(n) PROVE VotesAccounted'
  BY <1>5, StartElectionVotes
<1>6. ASSUME NEW n \in Node, EndRound(n) PROVE VotesAccounted'
  BY <1>6, EndRoundVotes
<1>7. ASSUME NEW n \in Node, NEW t \in Term, Tick(n, t) PROVE VotesAccounted'
  <2>1. UNCHANGED <<term, votedFor, grants, won, cleared>>
    BY <1>7 DEF Tick, fields, history
  <2>2. \A p \in Node : task'[Round(p)] = task[Round(p)]
    BY <1>2, <1>7, ThreadFacts DEF Tick
  <2> QED
    BY <2>1, <2>2, OthersVotes
<1>8. ASSUME NEW n \in Node, NEW c \in Caller, EndPropose(n, c) PROVE VotesAccounted'
  <2>1. UNCHANGED <<term, votedFor, grants, won, cleared>>
    BY <1>8 DEF EndPropose, history
  <2>2. \A p \in Node : task'[Round(p)] = task[Round(p)]
    BY <1>2, <1>8, ThreadFacts DEF EndPropose
  <2> QED
    BY <2>1, <2>2, OthersVotes
<1>9. ASSUME NEW n \in Node, NEW c \in Caller, NEW d \in Data, Propose(n, c, d)
      PROVE  VotesAccounted'
  <2>1. UNCHANGED <<term, votedFor, grants, won, cleared>>
    BY <1>9 DEF Propose
  <2>2. \A p \in Node : task'[Round(p)] = task[Round(p)]
    BY <1>2, <1>9, ThreadFacts DEF Propose
  <2> QED
    BY <2>1, <2>2, OthersVotes
<1>10. ASSUME NEW n \in Node, NEW t \in BumpTerms, BumpTerm(n, t) PROVE VotesAccounted'
  <2>1. /\ t \in Nat /\ UNCHANGED <<task, grants, won, cleared>> /\ t > term[n]
        /\ term' = [term EXCEPT ![n] = t] /\ votedFor' = [votedFor EXCEPT ![n] = NoNode]
    BY <1>10, BoundAssumption DEF BumpTerm, history
  <2>2. VotersOK'
    BY <1>1, <2>1, TermRaised
  <2>3. RoundHonest' /\ WonByMajority'
    BY <1>1, <2>1, HonestRounds, WonKept
  <2> QED
    BY <2>2, <2>3 DEF VotesAccounted, VotersOK
<1>11. CASE UNCHANGED vars
  BY <1>11, OthersVotes DEF vars
<1> QED
  BY <1>3, <1>4, <1>5, <1>6, <1>7, <1>8, <1>9, <1>10, <1>11 DEF Next

\* No vote is on record when a cluster starts.
LEMMA InitVotes == ASSUME Init PROVE VotesAccounted
<1>1. \A n \in Node : task[Round(n)] = Idle
  BY ThreadFacts DEF Init
<1>2. RoundHonest
  BY <1>1, HonestRounds DEF Init
<1> QED
  BY <1>2 DEF Init, VotesAccounted, GrantsReached, VoteKept, GrantedOnce, WonByMajority

\* The votes on record fit together at every moment: the inductive invariant.
THEOREM VotesAlwaysAccounted == Spec => []VotesAccounted
<1>1. Init => VotesAccounted
  BY InitVotes
<1>2. TypeOK /\ VotesAccounted /\ [Next]_vars => VotesAccounted'
  BY StepVotes
<1> QED
  BY <1>1, <1>2, TypeCorrect, PTL DEF Spec

\* Two majorities share a voter, so two winners of a term share one whose vote was
\* cleared.
LEMMA SharedVoter == ASSUME TypeOK, VotesAccounted PROVE OneWinnerUnlessCleared
<1> SUFFICES ASSUME NEW w1 \in won, NEW w2 \in won, w1[2] = w2[2], w1[1] # w2[1]
             PROVE  \E v \in Node : /\ <<v, w1[2]>> \in cleared
                                   /\ <<v, w1[2], w1[1]>> \in grants
                                   /\ <<v, w1[2], w2[1]>> \in grants
  BY DEF OneWinnerUnlessCleared
<1> DEFINE S == {v \in Node : <<v, w1[2], w1[1]>> \in grants}
           T == {v \in Node : <<v, w2[2], w2[1]>> \in grants}
<1>1. IsMajority(S) /\ IsMajority(T) /\ S \in SUBSET Node /\ T \in SUBSET Node
  BY DEF VotesAccounted, WonByMajority
<1>2. S \intersect T # {}
  <2> HIDE DEF S, T
  <2> QED
    BY <1>1, Majorities
<1>3. PICK v \in S : v \in T
  BY <1>2
<1>4. <<v, w1[2], w1[1]>> \in grants /\ <<v, w1[2], w2[1]>> \in grants
  BY <1>3
<1>5. <<v, w1[2]>> \in cleared
  BY <1>4 DEF VotesAccounted, GrantedOnce
<1> QED
  BY <1>3, <1>4, <1>5

\* Two nodes that win one term share a voter who voted for both, and that vote
\* had been erased by an AppendEntries of the same term.
THEOREM OneWinner == Spec => []OneWinnerUnlessCleared
<1>1. TypeOK /\ VotesAccounted => OneWinnerUnlessCleared
  BY SharedVoter
<1> QED
  BY <1>1, TypeCorrect, VotesAlwaysAccounted, PTL
=============================================================================
