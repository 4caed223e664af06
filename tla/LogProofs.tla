------------------------------ MODULE LogProofs ------------------------------
(***************************************************************************)
(* Proofs about the logs and the commit indexes of RaftNode, for every     *)
(* cluster, every fault and every bound. The bug that truncates logs       *)
(* unsafely is left out, and where a proof says so, others.                *)
(***************************************************************************)
EXTENDS ElectionProofs

\* What a leader of its term sends: its entry follows the one before it.
SoundRequest(m) ==
    m.entries # <<>> =>
        /\ m.type = "append"
        /\ m.entries[1].index = m.prevIndex + 1
        /\ m.entries[1].term = m.term /\ m.term > 0
        /\ m.prevTerm <= m.term

\* A request that some goroutine sends, or that has outlived its caller.
Sent(m) == (\E th \in Thread : m = task[th].req) \/ \E e \in late : m = e.req

RequestsSound == \A m : Sent(m) => SoundRequest(m)

\* The log l of a node that has reached term t.
Shape(l, t) ==
    \A i \in DOMAIN l :
        /\ l[i].index = i
        /\ l[i].term \in 1..t
        /\ i > 1 => l[i - 1].term <= l[i].term

-----------------------------------------------------------------------------
\* Steps.

\* What is sent is a request of a node.
LEMMA SentType ==
    ASSUME TypeOK, NEW m, Sent(m)
    PROVE  m \in Request
  BY DEF TypeOK, Sent, Task, Envelope

\* A request without entries that announces a commit index of its sender.
Plain(m) == m.entries = <<>> /\ (m.commit = 0 \/ \E n \in Node : m.commit = commitIndex[n])

\* A proposal adds one request to what is sent.
LEMMA ProposeSends ==
    ASSUME TypeOK, NEW n \in Node, NEW c \in Caller, NEW d \in Data, Propose(n, c, d),
           NEW m, Sent(m)'
    PROVE  Sent(m) \/ m = task'[Proposal(n, c)].req
<1>1. late' = late /\ \A th \in Thread : th # Proposal(n, c) => task'[th] = task[th]
  BY DEF TypeOK, Propose
<1> QED
  BY <1>1 DEF Sent

\* A step adds nothing to what is sent but plain requests and the entry of a proposal.
LEMMA StepRequests ==
    ASSUME TypeOK, [Next]_vars, NEW m, Sent(m)'
    PROVE  \/ Sent(m) \/ Plain(m)
           \/ \E n \in Node, c \in Caller, d \in Data :
                 Propose(n, c, d) /\ m = task'[Proposal(n, c)].req
<1>1. task \in [Thread -> Task] /\ Plain(Idle.req)
  BY DEF TypeOK, Idle, NoRequest, Plain
<1> DEFINE Old == \A th \in Thread :
              task'[th].req = task[th].req \/ Plain(task'[th].req)
<1>2. ASSUME Old, \A e \in late' : e \in late \/ Sent(e.req) PROVE Sent(m) \/ Plain(m)
  BY <1>2 DEF Sent
<1>3. \A n \in Node, t \in Term : Plain(Heartbeat(n, t))
  BY DEF Plain, Heartbeat, NoRequest
<1>4. ASSUME NEW th \in Thread, Rpc(th) PROVE Sent(m) \/ Plain(m)
  <2>1. Old
    <3>1. task[th] \in Task
      BY <1>1
    <3>2. CASE Deliver(th) \/ Lose(th) \/ Abandon(th) \/ LoseReply(th)
      <4> DEFINE Keeps(k) == task' = [task EXCEPT ![th] = k] /\ k.req = task[th].req
      <4>1. ASSUME NEW k, Keeps(k) PROVE Old
        BY <1>1, <4>1
      <4>2. ASSUME Deliver(th) PROVE \E k : Keeps(k)
        <5> DEFINE k == [task[th] EXCEPT !.todo = Tail(@),
                                         !.reply = ReplyTo(Target(th), task[th].req)]
        <5>1. k.req = task[th].req
          BY <3>1 DEF Task
        <5>2. task' = [task EXCEPT ![th] = k]
          BY <1>1, <4>2 DEF Deliver
        <5> HIDE DEF k
        <5> QED
          BY <5>1, <5>2
      <4>3. ASSUME Lose(th) \/ Abandon(th) PROVE \E k : Keeps(k)
        <5> DEFINE k == [task[th] EXCEPT !.todo = Tail(@)]
        <5>1. k.req = task[th].req
          BY <3>1 DEF Task
        <5>2. task' = [task EXCEPT ![th] = k]
          BY <1>1, <4>3 DEF Lose, Abandon
        <5> HIDE DEF k
        <5> QED
          BY <5>1, <5>2
      <4>4. ASSUME LoseReply(th) PROVE \E k : Keeps(k)
        <5> DEFINE k == [task[th] EXCEPT !.reply = NoReply]
        <5>1. k.req = task[th].req
          BY <3>1 DEF Task
        <5>2. task' = [task EXCEPT ![th] = k]
          BY <1>1, <4>4 DEF LoseReply
        <5> HIDE DEF k
        <5> QED
          BY <5>1, <5>2
      <4> HIDE DEF Old, Keeps
      <4> QED
        BY <3>2, <4>1, <4>2, <4>3, <4>4
    <3>3. CASE Return(th) /\ task' = [task EXCEPT ![th] = Idle]
      BY <1>1, <3>3
    <3>4. CASE Return(th) /\ task' # [task EXCEPT ![th] = Idle]
      BY <1>1, <3>1, <3>4 DEF Return, Task
    <3> QED
      BY <1>4, <3>2, <3>3, <3>4 DEF Rpc
  <2>2. \A e \in late' : e \in late \/ Sent(e.req)
    BY <1>4 DEF Rpc, Deliver, Lose, Abandon, LoseReply, Return, Sent
  <2> HIDE DEF Old
  <2> QED
    BY <1>2, <2>1, <2>2
<1>5. ASSUME NEW e \in late, DeliverLate(e) PROVE Sent(m)
  BY <1>5 DEF DeliverLate, Sent
<1>6. ASSUME NEW n \in Node, StartElection(n) PROVE Sent(m) \/ Plain(m)
  <2> DEFINE r == [NoRequest EXCEPT !.type = "vote", !.from = n, !.term = term[n] + 1,
                     !.lastTerm = LastTerm(log[n]), !.lastIndex = LastIndex(log[n])]
             k == Start(Round(n), r, {n})
  <2>1. task' = [task EXCEPT ![Round(n)] = k] /\ late' = late
    BY <1>6 DEF StartElection
  <2>2. Plain(k.req)
    BY DEF Start, NoRequest, Plain
  <2> HIDE DEF k
  <2> QED
    BY <1>1, <1>2, <2>1, <2>2
<1>7. ASSUME NEW n \in Node, EndRound(n) PROVE Sent(m) \/ Plain(m)
  <2> DEFINE t == task[Round(n)].req.term
             b == [Idle EXCEPT !.active = TRUE, !.req = Heartbeat(n, t)]
  <2>1. t \in Term
    BY <1>1, ThreadFacts DEF Task, Request
  <2>2. Plain(b.req)
    BY <1>3, <2>1 DEF Idle
  <2>3. late' = late
    BY <1>7 DEF EndRound
  <2>4. \/ task' = [task EXCEPT ![Round(n)] = Idle, ![Beat(n, t)] = b]
        \/ task' = [task EXCEPT ![Round(n)] = Idle]
    BY <1>7 DEF EndRound
  <2> HIDE DEF b, t
  <2>5. Old
    BY <1>1, <2>2, <2>4
  <2> QED
    BY <1>2, <2>3, <2>5
<1>8. ASSUME NEW n \in Node, NEW t \in Term, Tick(n, t) PROVE Sent(m) \/ Plain(m)
  <2> DEFINE k == Start(Beat(n, t), Heartbeat(n, t), {})
  <2>1. Plain(k.req)
    BY <1>3 DEF Start
  <2>2. /\ late' = late
        /\ \/ task' = [task EXCEPT ![Beat(n, t)] = k]
           \/ task' = [task EXCEPT ![Beat(n, t)] = Idle]
    BY <1>8 DEF Tick
  <2> HIDE DEF k
  <2> QED
    BY <1>1, <1>2, <2>1, <2>2
<1>9. ASSUME NEW n \in Node, NEW c \in Caller, EndPropose(n, c) PROVE Sent(m) \/ Plain(m)
  BY <1>1, <1>2, <1>9 DEF EndPropose
<1>10. ASSUME NEW n \in Node, NEW c \in Caller, NEW d \in Data, Propose(n, c, d)
       PROVE  Sent(m) \/ m = task'[Proposal(n, c)].req
  BY <1>10, ProposeSends
<1>11. ASSUME NEW n \in Node, NEW t \in BumpTerms, BumpTerm(n, t) PROVE Sent(m)
  BY <1>11 DEF BumpTerm, Sent
<1>12. CASE UNCHANGED vars
  BY <1>12 DEF vars, Sent
<1> QED
  BY <1>4, <1>5, <1>6, <1>7, <1>8, <1>9, <1>10, <1>11, <1>12 DEF Next

\* Logs and commit indexes change when a request is handled, and when a proposal
\* begins or ends.
LEMMA StepKinds ==
    ASSUME TypeOK, [Next]_vars
    PROVE  \/ \E p \in Node, m \in Request : Sent(m) /\ Handle(p, m)
           \/ \E n \in Node, c \in Caller, d \in Data : Propose(n, c, d)
           \/ \E n \in Node, c \in Caller : EndPropose(n, c)
           \/ UNCHANGED <<log, commitIndex, made, held>>
<1>1. ASSUME NEW th \in Thread, Rpc(th), ~Deliver(th)
      PROVE  UNCHANGED <<log, commitIndex, made, held>>
  BY <1>1 DEF Rpc, Lose, Abandon, LoseReply, Return, fields, history
<1>2. ASSUME NEW th \in Thread, Deliver(th)
      PROVE  \E p \in Node, m \in Request : Sent(m) /\ Handle(p, m)
  BY <1>2, Delivered DEF Deliver, Sent
<1>3. ASSUME NEW e \in late, DeliverLate(e)
      PROVE  \E p \in Node, m \in Request : Sent(m) /\ Handle(p, m)
  BY <1>3, Delivered DEF DeliverLate, Sent
<1>4. ASSUME NEW n \in Node, StartElection(n) \/ EndRound(n)
      PROVE  UNCHANGED <<log, commitIndex, made, held>>
  BY <1>4 DEF StartElection, EndRound
<1>5. ASSUME NEW n \in Node, NEW t \in Term, Tick(n, t)
      PROVE  UNCHANGED <<log, commitIndex, made, held>>
  BY <1>5 DEF Tick, fields, history
<1>6. ASSUME NEW n \in Node, NEW t \in BumpTerms, BumpTerm(n, t)
      PROVE  UNCHANGED <<log, commitIndex, made, held>>
  BY <1>6 DEF BumpTerm, history
<1>7. CASE UNCHANGED vars
  BY <1>7 DEF vars
<1> QED
  BY <1>1, <1>2, <1>3, <1>4, <1>5, <1>6, <1>7 DEF Next

-----------------------------------------------------------------------------
\* The shape of logs.

\* What handleAppendEntries makes of a log that accepts a sound request.
LEMMA LogAfterShape ==
    ASSUME "UnsafeLogTruncation" \notin Bugs,
           NEW l \in Seq(Entry), NEW t \in Nat, Shape(l, t),
           NEW m \in Request, SoundRequest(m), m.term <= t, LogAccepts(l, m)
    PROVE  Shape(LogAfter(l, m), t)
<1>1. CASE m.entries = <<>>
  BY <1>1 DEF LogAfter
<1>2. CASE m.entries # <<>>
  <2> DEFINE e == m.entries[1]
  <2>1. /\ e \in Entry /\ m.prevIndex \in Nat /\ m.prevTerm \in Nat /\ m.term \in Nat
        /\ \A i \in DOMAIN l : l[i] \in Entry
    <3>1. m.entries \in Seq(Entry) /\ m.prevTerm \in Term /\ m.term \in Term /\ m.prevIndex \in Nat
      BY DEF Request
    <3>2. e \in Entry /\ \A i \in DOMAIN l : l[i] \in Entry
      BY <1>2, <3>1
    <3> QED
      BY <3>1, <3>2, TermsNatural
  <2>2. /\ e.index = m.prevIndex + 1 /\ e.term = m.term /\ m.term > 0 /\ m.prevTerm <= m.term
    BY <1>2 DEF SoundRequest
  <2>3. PrevMatches(l, m) /\ e.index <= Len(l) + 1
    BY <1>2, <2>1, <2>2 DEF LogAccepts, Gap, Entry
  <2>4. e.term \in 1..t
    BY <2>1, <2>2
  <2>5. e.index > 1 => e.index - 1 \in DOMAIN l /\ l[e.index - 1].term <= e.term
    <3> SUFFICES ASSUME e.index > 1
                 PROVE  e.index - 1 \in DOMAIN l /\ l[e.index - 1].term <= e.term
      OBVIOUS
    <3>1. e.index - 1 = m.prevIndex /\ m.prevIndex # 0
      BY <2>1, <2>2
    <3>2. m.prevIndex <= Len(l) /\ l[m.prevIndex].term = m.prevTerm
      BY <2>3, <3>1 DEF PrevMatches
    <3> QED
      BY <2>1, <2>2, <3>1, <3>2
  <2>6. LogAfter(l, m) = Store(l, e) /\ e.index \in Nat /\ e.index # 0
    BY <1>2, <2>1, <2>2 DEF LogAfter
  <2> HIDE DEF e
  <2>7. CASE e.index > Len(l)
    <3>1. Store(l, e) = Append(l, e) /\ e.index = Len(l) + 1
      BY <2>3, <2>6, <2>7 DEF Store
    <3> DEFINE k == Append(l, e)
    <3>2. /\ DOMAIN k = 1..(Len(l) + 1) /\ k[Len(l) + 1] = e
          /\ \A i \in DOMAIN l : k[i] = l[i]
          /\ DOMAIN l = 1..Len(l) /\ Len(l) \in Nat
      BY <2>1
    <3> HIDE DEF k
    <3>3. Shape(k, t)
      BY <2>4, <2>5, <3>1, <3>2 DEF Shape
    <3> QED
      BY <2>6, <3>1, <3>3 DEF k
  <2>8. CASE e.index <= Len(l) /\ SameEntry(l[e.index], e)
    <3>1. Store(l, e) = l
      BY <2>6, <2>8 DEF Store
    <3> QED
      BY <2>6, <3>1
  <2>9. CASE e.index <= Len(l) /\ ~SameEntry(l[e.index], e)
    <3> DEFINE s == SubSeq(l, 1, e.index - 1)
               k == Append(s, e)
    <3>1. Store(l, e) = k
      BY <2>6, <2>9 DEF Store
    <3>2. /\ s \in Seq(Entry) /\ Len(s) = e.index - 1
          /\ \A i \in 1..(e.index - 1) : s[i] = l[i] /\ i \in DOMAIN l
      BY <2>1, <2>6, <2>9
    <3> HIDE DEF s
    <3>3. /\ DOMAIN k = 1..e.index /\ k[e.index] = e
          /\ \A i \in 1..(e.index - 1) : k[i] = l[i] /\ i \in DOMAIN l
      <4>1. /\ DOMAIN k = 1..(Len(s) + 1) /\ k[Len(s) + 1] = e
            /\ \A i \in 1..Len(s) : k[i] = s[i]
        BY <2>1, <3>2
      <4>2. Len(s) + 1 = e.index
        BY <2>6, <3>2
      <4> HIDE DEF k
      <4> QED
        BY <3>2, <4>1, <4>2
    <3> HIDE DEF k
    <3>4. Shape(k, t)
      BY <2>4, <2>5, <2>6, <3>3 DEF Shape
    <3> QED
      BY <2>6, <3>1, <3>4
  <2> QED
    BY <2>6, <2>7, <2>8, <2>9
<1> QED
  BY <1>1, <1>2

\* A log keeps its shape when its node moves to a later term.
LEMMA ShapeKept ==
    ASSUME NEW l, NEW t \in Nat, NEW u \in Nat, t <= u, Shape(l, t)
    PROVE  Shape(l, u)
  BY DEF Shape

\* The request and the log of a proposal.
LEMMA ProposeFacts ==
    ASSUME TypeOK, NEW n \in Node, NEW c \in Caller, NEW d \in Data, Propose(n, c, d)
    PROVE  LET e == [index |-> Len(log[n]) + 1, term |-> term[n], data |-> d]
               k == task'[Proposal(n, c)]
           IN /\ role[n] = "leader" /\ e \in Entry
              /\ log' = [log EXCEPT ![n] = Append(log[n], e)]
              /\ made' = made \union {<<n, e>>}
              /\ held' = held \union Held(n, Append(log[n], e))
              /\ task' = [task EXCEPT ![Proposal(n, c)] = k]
              /\ k.active /\ k.yes = {n} /\ k.reply = NoReply
              /\ k.req.type = "append" /\ k.req.term = term[n]
              /\ k.req.entries = <<e>> /\ k.req.commit = commitIndex[n]
              /\ k.req.prevIndex = Len(log[n])
              /\ k.req.prevTerm = IF log[n] = <<>> THEN 0 ELSE log[n][Len(log[n])].term
              /\ UNCHANGED <<term, role, commitIndex, late>>
<1> DEFINE l == log[n]
           e == [index |-> Len(l) + 1, term |-> term[n], data |-> d]
           m == [NoRequest EXCEPT !.type = "append", !.from = n, !.term = term[n],
                   !.prevIndex = Len(l), !.prevTerm = IF l = <<>> THEN 0 ELSE l[Len(l)].term,
                   !.entries = <<e>>, !.commit = commitIndex[n]]
           k == Start(Proposal(n, c), m, {n})
<1>1. /\ task \in [Thread -> Task] /\ log \in [Node -> Seq(Entry)] /\ term \in [Node -> Term]
      /\ Proposal(n, c) \in Thread
  BY ThreadFacts DEF TypeOK, FieldsOK
<1>2. l \in Seq(Entry)
  BY <1>1
<1>3. e \in Entry
  BY <1>1, <1>2 DEF Entry
<1>4. task' = [task EXCEPT ![Proposal(n, c)] = k]
  BY DEF Propose
<1>5. task'[Proposal(n, c)] = k
  BY <1>1, <1>4
<1>6. /\ k.active /\ k.yes = {n} /\ k.reply = NoReply /\ k.req = m
  BY DEF Start
<1>7. /\ m.type = "append" /\ m.term = term[n] /\ m.entries = <<e>> /\ m.commit = commitIndex[n]
      /\ m.prevIndex = Len(l) /\ m.prevTerm = IF l = <<>> THEN 0 ELSE l[Len(l)].term
  BY DEF NoRequest
<1>8. /\ role[n] = "leader"
      /\ log' = [log EXCEPT ![n] = Append(l, e)]
      /\ made' = made \union {<<n, e>>}
      /\ held' = held \union Held(n, Append(l, e))
      /\ UNCHANGED <<term, role, commitIndex, late>>
  BY DEF Propose
<1> HIDE DEF k, m
<1> QED
  BY <1>3, <1>4, <1>5, <1>6, <1>7, <1>8

LogInv == LogShape /\ RequestsSound

\* LogShape, node by node.
LEMMA Shapes ==
    /\ LogShape <=> \A n \in Node : Shape(log[n], term[n])
    /\ LogShape' <=> \A n \in Node : Shape(log'[n], term'[n])
  BY DEF LogShape, Shape

\* A handler keeps the shape of logs.
LEMMA HandleShape ==
    ASSUME "UnsafeLogTruncation" \notin Bugs, TypeOK, LogShape, [Next]_vars,
           NEW p \in Node, NEW m \in Request, SoundRequest(m), Handle(p, m)
    PROVE  LogShape'
<1>1. /\ term \in [Node -> Nat] /\ m.term \in Nat /\ log \in [Node -> Seq(Entry)]
      /\ FieldsOK
  BY TermsNatural DEF TypeOK, FieldsOK, Request
<1>2. CASE RejectStale(p, m)
  BY <1>2 DEF RejectStale, fields, LogShape
<1>3. CASE HandleRequestVote(p, m)
  <2>1. log' = log /\ \A n \in Node : term'[n] \in Nat /\ term'[n] >= term[n]
    BY <1>1, <1>3, HandleTerm DEF HandleRequestVote, Handle
  <2> QED
    BY <1>1, <2>1, Shapes, ShapeKept
<1>4. CASE HandleAppendEntries(p, m)
  <2>1. \A n \in Node : term'[n] \in Nat /\ term'[n] >= term[n]
    BY <1>1, <1>4, HandleTerm DEF HandleAppendEntries, Handle
  <2>2. term'[p] >= m.term
    BY <1>1, <1>4 DEF HandleAppendEntries
  <2>3. Shape(log[p], term'[p])
    BY <1>1, <2>1, Shapes, ShapeKept
  <2>4. CASE LogAccepts(log[p], m)
    <3>1. log' = [log EXCEPT ![p] = LogAfter(log[p], m)]
      BY <1>4, <2>4 DEF HandleAppendEntries
    <3>2. Shape(LogAfter(log[p], m), term'[p])
      BY <1>1, <2>1, <2>2, <2>3, <2>4, LogAfterShape
    <3>3. ASSUME NEW n \in Node PROVE Shape(log'[n], term'[n])
      BY <1>1, <2>1, <3>1, <3>2, Shapes, ShapeKept
    <3> QED
      BY <3>3, Shapes
  <2>5. CASE ~LogAccepts(log[p], m)
    <3>1. log' = log
      BY <1>4, <2>5 DEF HandleAppendEntries
    <3> QED
      BY <1>1, <2>1, <3>1, Shapes, ShapeKept
  <2> QED
    BY <2>4, <2>5
<1> QED
  BY <1>2, <1>3, <1>4 DEF Handle

\* Logs and what is sent fit together at every moment: the inductive invariant.
LEMMA LogsInvariant ==
    ASSUME "UnsafeLogTruncation" \notin Bugs
    PROVE  Spec => []LogInv
<1>1. Init => LogInv
  <2> SUFFICES ASSUME Init PROVE LogInv
    OBVIOUS
  <2>1. \A th \in Thread : task[th] = Idle
    BY DEF Init
  <2>2. SoundRequest(Idle.req) /\ late = {}
    BY DEF SoundRequest, Idle, NoRequest, Init
  <2> QED
    BY <2>1, <2>2 DEF Init, LogInv, LogShape, RequestsSound, Sent
<1>2. TypeOK /\ TypeOK' /\ HintInv /\ LogInv /\ [Next]_vars => LogInv'
  <2> SUFFICES ASSUME TypeOK, TypeOK', HintInv, LogInv, [Next]_vars PROVE LogInv'
    OBVIOUS
  <2>1. /\ term \in [Node -> Nat] /\ log \in [Node -> Seq(Entry)]
        /\ \A n \in Node : term'[n] >= term[n]
    BY TermsNatural, StepTerm DEF TypeOK, FieldsOK
  <2>2. ASSUME NEW n \in Node, NEW c \in Caller, NEW d \in Data, Propose(n, c, d)
        PROVE  LogShape' /\ SoundRequest(task'[Proposal(n, c)].req)
    <3> DEFINE e == [index |-> Len(log[n]) + 1, term |-> term[n], data |-> d]
               m == task'[Proposal(n, c)].req
               l == log[n]
               k == Append(l, e)
    <3>1. /\ role[n] = "leader" /\ e \in Entry /\ term' = term
          /\ log' = [log EXCEPT ![n] = k]
          /\ m.type = "append" /\ m.term = term[n] /\ m.entries = <<e>>
          /\ m.prevIndex = Len(l)
          /\ m.prevTerm = IF l = <<>> THEN 0 ELSE l[Len(l)].term
      BY <2>2, ProposeFacts
    <3>2. e.index = Len(l) + 1 /\ e.term = term[n]
      OBVIOUS
    <3> HIDE DEF e, m, k
    <3>3. term[n] \in Nat /\ term[n] > 0
      <4>1. term[n] \in Nat
        BY <2>1
      <4>2. Backed(won, n, term[n])
        BY <3>1 DEF HintInv
      <4> QED
        BY <4>1, <4>2 DEF Backed
    <3>4. l \in Seq(Entry) /\ Len(l) \in Nat /\ Shape(l, term[n])
      BY <2>1, Shapes DEF LogInv
    <3>5. l # <<>> => Len(l) \in DOMAIN l /\ l[Len(l)].term \in 1..term[n]
      BY <3>4 DEF Shape
    <3>6. /\ DOMAIN k = 1..(Len(l) + 1) /\ k[Len(l) + 1] = e
          /\ \A i \in 1..Len(l) : k[i] = l[i]
      BY <3>1, <3>4 DEF k
    <3>7. <<e>>[1] = e
      OBVIOUS
    <3> HIDE DEF l
    <3>8. SoundRequest(m)
      BY <3>1, <3>2, <3>3, <3>4, <3>5, <3>7 DEF SoundRequest
    <3>9. Shape(k, term[n])
      <4>1. ASSUME NEW i \in DOMAIN k
            PROVE  /\ k[i].index = i /\ k[i].term \in 1..term[n]
                   /\ i > 1 => k[i - 1].term <= k[i].term
        <5>1. CASE i = Len(l) + 1
          <6>1. i > 1 => k[i - 1] = l[Len(l)] /\ l # <<>>
            BY <3>4, <3>6, <5>1
          <6> QED
            BY <3>2, <3>3, <3>4, <3>5, <3>6, <5>1, <6>1
        <5>2. CASE i # Len(l) + 1
          <6>1. i \in DOMAIN l /\ k[i] = l[i] /\ (i > 1 => k[i - 1] = l[i - 1])
            BY <3>4, <3>6, <5>2
          <6> QED
            BY <3>4, <6>1 DEF Shape
        <5> QED
          BY <5>1, <5>2
      <4> QED
        BY <4>1 DEF Shape
    <3>10. \A i \in Node : Shape(log'[i], term'[i])
      BY <2>1, <3>1, <3>9, Shapes DEF LogInv
    <3> QED
      BY <3>8, <3>10, Shapes DEF m
  <2>3. RequestsSound'
    <3>1. ASSUME NEW m, Sent(m)' PROVE SoundRequest(m)
      <4>1. Plain(m) => SoundRequest(m)
        BY DEF Plain, SoundRequest
      <4> QED
        BY <2>2, <3>1, <4>1, StepRequests DEF LogInv, RequestsSound
    <3> QED
      BY <3>1 DEF RequestsSound
  <2>4. LogShape'
    <3>1. ASSUME log' = log PROVE LogShape'
      <4>1. \A n \in Node : term'[n] \in Nat
        BY TermsNatural DEF TypeOK, FieldsOK
      <4> QED
        BY <2>1, <3>1, <4>1, Shapes, ShapeKept DEF LogInv
    <3>2. ASSUME NEW p \in Node, NEW m \in Request, Sent(m), Handle(p, m) PROVE LogShape'
      BY <3>2, HandleShape DEF LogInv, RequestsSound
    <3>3. ASSUME NEW n \in Node, NEW c \in Caller, EndPropose(n, c) PROVE log' = log
      BY <3>3 DEF EndPropose
    <3> QED
      BY <2>2, <3>1, <3>2, <3>3, StepKinds
  <2> QED
    BY <2>3, <2>4 DEF LogInv
<1> QED
  BY <1>1, <1>2, TypeCorrect, HintAlways, PTL DEF Spec

\* What the oracle calls valid and contiguous logs: no truncation, gap, late
\* request or proposal of a leader that has moved on breaks them.
THEOREM LogsValid ==
    ASSUME "UnsafeLogTruncation" \notin Bugs
    PROVE  Spec => []LogShape
<1>1. LogInv => LogShape
  BY DEF LogInv
<1> QED
  BY <1>1, LogsInvariant, PTL

\* A node that leads before and after a step, in one term, keeps its entries.
LEMMA LeaderStep ==
    ASSUME "AcceptStaleLeader" \notin Bugs, TypeOK, [Next]_vars,
           NEW n \in Node, role[n] = "leader", role'[n] = "leader", term'[n] = term[n]
    PROVE  /\ Len(log'[n]) >= Len(log[n])
           /\ \A i \in DOMAIN log[n] : log'[n][i] = log[n][i]
<1>1. /\ role \in [Node -> Role] /\ log \in [Node -> Seq(Entry)]
      /\ term \in [Node -> Nat] /\ log[n] \in Seq(Entry) /\ Len(log[n]) \in Nat
  <2>1. FieldsOK
    BY DEF TypeOK
  <2>2. term \in [Node -> Nat] /\ log[n] \in Seq(Entry)
    BY <2>1, TermsNatural DEF FieldsOK
  <2> QED
    BY <2>1, <2>2 DEF FieldsOK
<1>2. CASE log'[n] = log[n]
  BY <1>1, <1>2
<1>3. ASSUME NEW p \in Node, NEW m \in Request, Handle(p, m) PROVE log'[n] = log[n]
  <2>1. CASE RejectStale(p, m) \/ HandleRequestVote(p, m)
    BY <2>1 DEF RejectStale, HandleRequestVote, fields
  <2>2. CASE HandleAppendEntries(p, m) /\ p # n
    <3>1. log' = [log EXCEPT ![p] = LogAfter(log[p], m)] \/ log' = log
      BY <2>2 DEF HandleAppendEntries
    <3> QED
      BY <1>1, <2>2, <3>1
  <2>3. CASE HandleAppendEntries(n, m)
    <3>1. m.term \in Nat /\ term[n] \in Nat
      BY <1>1, TermsNatural DEF Request
    <3>2. ~(m.term < term[n])
      BY <2>3 DEF HandleAppendEntries, StaleAppend
    <3>3. role' = [role EXCEPT ![n] = "follower"]
      BY <2>3, <3>1, <3>2 DEF HandleAppendEntries
    <3> QED
      BY <1>1, <3>3
  <2> QED
    BY <1>3, <2>1, <2>2, <2>3 DEF Handle
<1>4. ASSUME NEW p \in Node, NEW c \in Caller, NEW d \in Data, Propose(p, c, d)
      PROVE  /\ Len(log'[n]) >= Len(log[n])
             /\ \A i \in DOMAIN log[n] : log'[n][i] = log[n][i]
  <2> DEFINE e == [index |-> Len(log[p]) + 1, term |-> term[p], data |-> d]
  <2>1. log' = [log EXCEPT ![p] = Append(log[p], e)] /\ e \in Entry
    BY <1>4, ProposeFacts
  <2> HIDE DEF e
  <2> QED
    BY <1>1, <2>1
<1>5. ASSUME NEW p \in Node, NEW c \in Caller, EndPropose(p, c) PROVE log'[n] = log[n]
  BY <1>5 DEF EndPropose
<1> QED
  BY <1>2, <1>3, <1>4, <1>5, StepKinds

\* While a node leads in a term its log only grows, if leaders of older terms
\* are not accepted: to take another's entries it must give up its role.
THEOREM LeaderOnlyAppends ==
    ASSUME "AcceptStaleLeader" \notin Bugs
    PROVE  Spec => LeaderAppendOnly
<1> DEFINE Grows ==
      \A n \in Node :
          role[n] = "leader" /\ role'[n] = "leader" /\ term'[n] = term[n] =>
              /\ Len(log'[n]) >= Len(log[n])
              /\ \A i \in DOMAIN log[n] : log'[n][i] = log[n][i]
<1>1. TypeOK /\ [Next]_vars => [Grows]_vars
  BY LeaderStep
<1> HIDE DEF Grows
<1>2. Spec => [][Grows]_vars
  BY <1>1, TypeCorrect, PTL DEF Spec
<1> QED
  BY <1>2 DEF Grows, LeaderAppendOnly

-----------------------------------------------------------------------------
\* Commit indexes.

\* A majority has held an entry of a proposal that is at index k or after it.
Covers(P, H, k) ==
    \E p \in P : p[2].index >= k /\ IsMajority({m \in Node : <<m, p[2]>> \in H})

\* What goroutine k, a proposal of node n, has counted was acknowledged.
Acked(n, k, P, H) ==
    k.active =>
        /\ k.req.type = "append"
        /\ <<n, k.req.entries[1]>> \in P
        /\ \A v \in k.yes : <<v, k.req.entries[1]>> \in H
        /\ k.reply.success => <<k.reply.from, k.req.entries[1]>> \in H

ProposalsAcked ==
    \A n \in Node, c \in Caller : Acked(n, task[Proposal(n, c)], made, held)

CommitInv ==
    /\ \A n \in Node : commitIndex[n] > 0 => Covers(made, held, commitIndex[n])
    /\ \A m : Sent(m) /\ m.commit > 0 => Covers(made, held, m.commit)
    /\ ProposalsAcked

\* Proposals and holders are recorded for good.
LEMMA CoversKept ==
    ASSUME NEW P, NEW Q, P \subseteq Q, NEW H, NEW K, H \subseteq K,
           \A p \in P : p[2].index \in Nat,
           NEW j \in Nat, NEW k \in Nat, k <= j, Covers(P, H, j)
    PROVE  Covers(Q, K, k)
<1>1. PICK p \in P : p[2].index >= j /\ IsMajority({m \in Node : <<m, p[2]>> \in H})
  BY DEF Covers
<1>2. IsMajority({m \in Node : <<m, p[2]>> \in K})
  <2> DEFINE S == {m \in Node : <<m, p[2]>> \in H}
             T == {m \in Node : <<m, p[2]>> \in K}
  <2>1. S \in SUBSET Node /\ T \in SUBSET Node /\ S \subseteq T
    OBVIOUS
  <2> HIDE DEF S, T
  <2>2. IsMajority(S) => IsMajority(T)
    BY <2>1, Majorities
  <2> QED
    BY <1>1, <2>2 DEF S, T
<1>3. p[2].index >= k
  BY <1>1
<1> QED
  BY <1>1, <1>2, <1>3 DEF Covers

\* A step never takes a proposal or a holder off the record.
LEMMA StepRecords ==
    ASSUME TypeOK, [Next]_vars
    PROVE  made \subseteq made' /\ held \subseteq held'
<1>1. ASSUME NEW p \in Node, NEW m \in Request, Handle(p, m)
      PROVE  made \subseteq made' /\ held \subseteq held'
  <2>1. CASE RejectStale(p, m) \/ HandleRequestVote(p, m)
    BY <2>1 DEF RejectStale, HandleRequestVote, history
  <2>2. CASE HandleAppendEntries(p, m)
    BY <2>2 DEF HandleAppendEntries
  <2> QED
    BY <1>1, <2>1, <2>2 DEF Handle
<1>2. ASSUME NEW n \in Node, NEW c \in Caller, NEW d \in Data, Propose(n, c, d)
      PROVE  made \subseteq made' /\ held \subseteq held'
  BY <1>2 DEF Propose
<1>3. ASSUME NEW n \in Node, NEW c \in Caller, EndPropose(n, c)
      PROVE  made \subseteq made' /\ held \subseteq held'
  BY <1>3 DEF EndPropose, history
<1> QED
  BY <1>1, <1>2, <1>3, StepKinds

\* A node that answers an entry with success holds it, at its index.
LEMMA SuccessHolds ==
    ASSUME "UnsafeLogTruncation" \notin Bugs, TypeOK, LogShape,
           NEW p \in Node, NEW m \in Request, SoundRequest(m), Handle(p, m),
           m.entries # <<>>, ReplyTo(p, m).success
    PROVE  <<p, m.entries[1]>> \in held'
<1> DEFINE e == m.entries[1]
           l == log[p]
<1>1. /\ l \in Seq(Entry) /\ Len(l) \in Nat /\ m.type = "append"
      /\ m.prevIndex \in Nat /\ e.index = m.prevIndex + 1 /\ e.term = m.term
  BY DEF TypeOK, FieldsOK, SoundRequest, Request
<1>2. e \in Entry
  <2>1. m.entries \in Seq(Entry)
    BY DEF Request
  <2> QED
    BY <2>1
<1>3. ~StaleAppend(p, m) /\ LogAccepts(l, m)
  BY <1>1 DEF ReplyTo, AppendReply
<1>4. held' = held \union Held(p, LogAfter(l, m))
  BY <1>1, <1>3 DEF Handle, RejectStale, StaleVote, HandleRequestVote, HandleAppendEntries
<1>5. LogAfter(l, m) = Store(l, e)
  BY DEF LogAfter
<1>6. e.index \in Nat /\ e.index > 0 /\ e.index <= Len(l) + 1
  BY <1>1, <1>3 DEF LogAccepts, Gap
<1> HIDE DEF e
<1>7. e.index \in DOMAIN Store(l, e) /\ Store(l, e)[e.index] = e
  <2>1. CASE e.index > Len(l)
    <3>1. Store(l, e) = Append(l, e) /\ e.index = Len(l) + 1
      BY <1>1, <1>6, <2>1 DEF Store
    <3> HIDE DEF l
    <3> QED
      BY <1>1, <1>2, <3>1
  <2>2. CASE e.index <= Len(l) /\ SameEntry(l[e.index], e)
    <3>1. Store(l, e) = l /\ e.index \in DOMAIN l
      BY <1>1, <1>6, <2>2 DEF Store
    <3>2. l[e.index].index = e.index /\ l[e.index] \in Entry
      BY <1>1, <3>1 DEF LogShape
    <3>3. l[e.index] = e
      BY <1>2, <2>2, <3>2 DEF SameEntry, Entry
    <3> QED
      BY <3>1, <3>3
  <2>3. CASE e.index <= Len(l) /\ ~SameEntry(l[e.index], e)
    <3> DEFINE s == SubSeq(l, 1, e.index - 1)
    <3>1. Store(l, e) = Append(s, e)
      BY <1>1, <1>6, <2>3 DEF Store
    <3> HIDE DEF l
    <3>2. s \in Seq(Entry) /\ Len(s) = e.index - 1
      BY <1>1, <1>6, <2>3
    <3> HIDE DEF s
    <3> QED
      BY <1>2, <1>6, <3>1, <3>2
  <2> QED
    BY <1>1, <1>6, <2>1, <2>2, <2>3
<1>8. <<p, e>> \in Held(p, Store(l, e))
  BY <1>7 DEF Held
<1> QED
  BY <1>4, <1>5, <1>8 DEF e

\* A handler raises a commit index at most to the one the request announces.
LEMMA HandleCommits ==
    ASSUME TypeOK, NEW p \in Node, NEW m \in Request, Handle(p, m), NEW n \in Node
    PROVE  \/ commitIndex'[n] = commitIndex[n]
           \/ commitIndex'[n] <= m.commit
<1>1. /\ commitIndex \in [Node -> Nat] /\ log \in [Node -> Seq(Entry)] /\ m.commit \in Nat
  BY DEF TypeOK, FieldsOK, Request
<1>2. CASE RejectStale(p, m) \/ HandleRequestVote(p, m)
  BY <1>2 DEF RejectStale, HandleRequestVote, fields
<1>3. CASE HandleAppendEntries(p, m)
  <2> DEFINE l == LogAfter(log[p], m)
             j == IF m.commit > commitIndex[p] THEN Least(m.commit, Len(l)) ELSE commitIndex[p]
  <2>1. commitIndex' = [commitIndex EXCEPT ![p] = j] \/ commitIndex' = commitIndex
    BY <1>3 DEF HandleAppendEntries
  <2>2. l \in Seq(Entry)
    BY <1>1, LogAfterType
  <2> HIDE DEF l
  <2>3. j = commitIndex[p] \/ j <= m.commit
    BY <1>1, <2>2 DEF Least
  <2> HIDE DEF j
  <2> QED
    BY <1>1, <2>1, <2>3
<1> QED
  BY <1>2, <1>3 DEF Handle

\* What was acknowledged stays so.
LEMMA AckedKept ==
    ASSUME NEW n, NEW k, NEW P, NEW Q, P \subseteq Q, NEW H, NEW K, H \subseteq K,
           Acked(n, k, P, H)
    PROVE  Acked(n, k, Q, K)
  BY DEF Acked

\* A proposal counts an answer as an acknowledgement only if its entry was stored.
LEMMA RpcAcked ==
    ASSUME "UnsafeLogTruncation" \notin Bugs, TypeOK, LogInv, CommitInv, [Next]_vars,
           NEW n \in Node, NEW c \in Caller, Rpc(Proposal(n, c))
    PROVE  Acked(n, task'[Proposal(n, c)], made', held')
<1> DEFINE th == Proposal(n, c)
           k == task[th]
<1>1. /\ th \in Thread /\ th \in Proposals /\ th.kind # "beat"
      /\ task \in [Thread -> Task] /\ k \in Task /\ TasksOK /\ FieldsOK
  BY ThreadFacts DEF TypeOK, Proposal
<1>2. made \subseteq made' /\ held \subseteq held'
  BY StepRecords
<1>3. Acked(n, k, made, held) /\ Acked(n, k, made', held')
  BY <1>2, AckedKept DEF CommitInv, ProposalsAcked
<1>4. k.active
  BY <1>1, RepliesAwaited DEF Rpc, Deliver, Lose, Abandon, LoseReply, Return, Sending
<1>5. ~Idle.active /\ ~NoReply.success
  BY DEF Idle, NoReply
<1> HIDE DEF k, th
<1>6. CASE Deliver(th)
  <2> DEFINE p == Target(th)
             r == ReplyTo(p, task[th].req)
  <2>1. /\ p \in Node /\ k.req \in Request /\ k.req.from \in Node /\ Handle(p, k.req)
        /\ task' = [task EXCEPT ![th].todo = Tail(@), ![th].reply = r]
    BY <1>1, <1>6, Delivered DEF Deliver, k
  <2>2. k.req.entries # <<>>
    BY <1>1, <1>4 DEF TasksOK, k
  <2>3. Sent(k.req) /\ SoundRequest(k.req)
    BY <1>1 DEF LogInv, RequestsSound, Sent, k
  <2>4. r.success => <<p, k.req.entries[1]>> \in held'
    BY <2>1, <2>2, <2>3, SuccessHolds DEF LogInv, k
  <2>5. r.from = p
    BY <1>1, <2>1, HandleType DEF k
  <2> HIDE DEF r, p
  <2>6. /\ task'[th].req = k.req /\ task'[th].yes = k.yes /\ task'[th].reply = r
        /\ task'[th].active
    BY <1>1, <1>4, <2>1 DEF k, Task
  <2> QED
    BY <1>3, <1>4, <2>4, <2>5, <2>6 DEF Acked, th
<1>7. CASE Lose(th) \/ Abandon(th) \/ LoseReply(th)
  <2>1. /\ task'[th].req = k.req /\ task'[th].yes = k.yes
        /\ task'[th].reply \in {k.reply, NoReply}
    BY <1>1, <1>7 DEF Lose, Abandon, LoseReply, k, Task
  <2> QED
    BY <1>3, <1>4, <1>5, <2>1 DEF Acked, th
<1>8. CASE Return(th)
  <2>1. CASE task' = [task EXCEPT ![th] = Idle]
    <3>1. ~task'[th].active
      BY <1>1, <1>5, <2>1
    <3> QED
      BY <3>1 DEF Acked, th
  <2>2. CASE task' # [task EXCEPT ![th] = Idle]
    <3>1. task' = [task EXCEPT ![th].reply = NoReply,
                     ![th].yes = IF k.reply.success THEN @ \union {k.reply.from} ELSE @]
      BY <1>1, <1>8, <2>2 DEF Return, k
    <3>2. /\ task'[th].req = k.req /\ task'[th].reply = NoReply
          /\ task'[th].yes = IF k.reply.success THEN k.yes \union {k.reply.from} ELSE k.yes
      BY <1>1, <3>1 DEF k, Task
    <3> QED
      BY <1>3, <1>4, <1>5, <3>2 DEF Acked, th
  <2> QED
    BY <2>1, <2>2
<1> QED
  BY <1>6, <1>7, <1>8 DEF Rpc, th

\* Every step keeps what proposals have counted.
LEMMA StepAcked ==
    ASSUME "UnsafeLogTruncation" \notin Bugs, TypeOK, LogInv, CommitInv, [Next]_vars
    PROVE  ProposalsAcked'
<1> SUFFICES ASSUME NEW n \in Node, NEW c \in Caller
             PROVE  Acked(n, task'[Proposal(n, c)], made', held')
  BY DEF ProposalsAcked
<1> DEFINE th == Proposal(n, c)
<1>1. th \in Thread /\ th \in Proposals /\ th.node = n /\ task \in [Thread -> Task]
  BY ThreadFacts DEF TypeOK
<1>2. made \subseteq made' /\ held \subseteq held'
  BY StepRecords
<1>3. Acked(n, task[th], made', held') /\ Acked(n, Idle, made', held')
  BY <1>2, AckedKept DEF CommitInv, ProposalsAcked, Idle, Acked
<1>4. ASSUME task'[th] \in {task[th], Idle} PROVE Acked(n, task'[th], made', held')
  BY <1>3, <1>4
<1>5. /\ \A m \in Node : Round(m) # th
      /\ \A m \in Node, t \in Term : Beat(m, t) # th
  BY <1>1, ThreadFacts
<1> HIDE DEF th
<1>6. ASSUME NEW u \in Thread, Rpc(u) PROVE Acked(n, task'[th], made', held')
  <2>1. CASE u = th
    BY <1>6, <2>1, RpcAcked DEF th
  <2>2. CASE u # th
    <3>1. task'[th] = task[th]
      BY <1>1, <1>6, <2>2 DEF Rpc, Deliver, Lose, Abandon, LoseReply, Return
    <3> QED
      BY <1>4, <3>1
  <2> QED
    BY <2>1, <2>2
<1>7. ASSUME NEW m \in late, DeliverLate(m) PROVE task'[th] = task[th]
  BY <1>7 DEF DeliverLate
<1>8. ASSUME NEW m \in Node, StartElection(m) PROVE task'[th] = task[th]
  BY <1>1, <1>5, <1>8 DEF StartElection
<1>9. ASSUME NEW m \in Node, EndRound(m) PROVE task'[th] = task[th]
  <2>1. task[Round(m)].req.term \in Term
    BY <1>1, ThreadFacts DEF Task, Request
  <2> QED
    BY <1>1, <1>5, <1>9, <2>1 DEF EndRound
<1>10. ASSUME NEW m \in Node, NEW t \in Term, Tick(m, t) PROVE task'[th] = task[th]
  BY <1>1, <1>5, <1>10 DEF Tick
<1>11. ASSUME NEW m \in Node, NEW b \in Caller, EndPropose(m, b)
       PROVE  task'[th] \in {task[th], Idle}
  BY <1>1, <1>11 DEF EndPropose
<1>12. ASSUME NEW m \in Node, NEW b \in Caller, NEW d \in Data, Propose(m, b, d)
       PROVE  Acked(n, task'[th], made', held')
  <2>1. CASE Proposal(m, b) # th
    <3>1. task'[th] = task[th]
      BY <1>1, <1>12, <2>1 DEF Propose
    <3> QED
      BY <1>4, <3>1
  <2>2. CASE Proposal(m, b) = th
    <3> DEFINE l == log[n]
               e == [index |-> Len(l) + 1, term |-> term[n], data |-> d]
               k == task'[th]
    <3>1. m = n
      BY <1>1, <2>2, ThreadFacts
    <3>2. /\ e \in Entry /\ made' = made \union {<<n, e>>}
          /\ held' = held \union Held(n, Append(l, e))
          /\ k.yes = {n} /\ k.reply = NoReply
          /\ k.req.type = "append" /\ k.req.entries = <<e>>
      BY <1>12, <2>2, <3>1, ProposeFacts
    <3>3. l \in Seq(Entry) /\ e.index = Len(l) + 1
      BY DEF TypeOK, FieldsOK
    <3> HIDE DEF e, l, k
    <3>4. Len(l) + 1 \in DOMAIN Append(l, e) /\ Append(l, e)[Len(l) + 1] = e
      BY <3>2, <3>3
    <3>5. <<n, e>> \in Held(n, Append(l, e))
      BY <3>3, <3>4 DEF Held
    <3>6. k.req.entries[1] = e /\ ~k.reply.success
      BY <3>2 DEF NoReply
    <3>7. Acked(n, k, made', held')
      BY <3>2, <3>5, <3>6 DEF Acked
    <3> QED
      BY <3>7 DEF k
  <2> QED
    BY <2>1, <2>2
<1>13. ASSUME NEW m \in Node, NEW t \in BumpTerms, BumpTerm(m, t) PROVE task'[th] = task[th]
  BY <1>13 DEF BumpTerm
<1>14. CASE UNCHANGED vars
  BY <1>3, <1>14 DEF vars, th
<1> QED
  BY <1>4, <1>6, <1>7, <1>8, <1>9, <1>10, <1>11, <1>12, <1>13, <1>14 DEF Next, th

\* Every step keeps what commit indexes, nodes' and announced ones, rest on.
LEMMA StepCommits ==
    ASSUME "UnsafeLogTruncation" \notin Bugs, "CommitOnSingleAck" \notin Bugs,
           TypeOK, TypeOK', LogInv, CommitInv, [Next]_vars
    PROVE  CommitInv'
<1>1. /\ commitIndex \in [Node -> Nat] /\ commitIndex' \in [Node -> Nat]
      /\ made \subseteq Node \X Entry /\ \A p \in made : p[2].index \in Nat
      /\ made \subseteq made' /\ held \subseteq held'
  <2>1. FieldsOK /\ FieldsOK'
    BY DEF TypeOK
  <2>2. \A p \in made : p[2].index \in Nat
    BY <2>1 DEF FieldsOK, Entry
  <2> QED
    BY <2>1, <2>2, StepRecords DEF FieldsOK
<1>2. ASSUME NEW j \in Nat, NEW k \in Nat, k <= j, Covers(made, held, j)
      PROVE  Covers(made', held', k)
  BY <1>1, <1>2, CoversKept
<1>3. ASSUME NEW n \in Node, commitIndex'[n] > 0
      PROVE  Covers(made', held', commitIndex'[n])
  <2>1. CASE commitIndex'[n] = commitIndex[n]
    BY <1>1, <1>2, <1>3, <2>1 DEF CommitInv
  <2>2. ASSUME NEW p \in Node, NEW m \in Request, Sent(m), Handle(p, m),
               commitIndex'[n] # commitIndex[n]
        PROVE  Covers(made', held', commitIndex'[n])
    <3>1. commitIndex'[n] <= m.commit /\ m.commit \in Nat /\ m.commit > 0
      BY <1>1, <1>3, <2>2, HandleCommits DEF Request
    <3>2. Covers(made, held, m.commit)
      BY <2>2, <3>1 DEF CommitInv
    <3> QED
      BY <1>1, <1>2, <3>1, <3>2
  <2>3. ASSUME NEW m \in Node, NEW c \in Caller, EndPropose(m, c),
               commitIndex'[n] # commitIndex[n]
        PROVE  Covers(made', held', commitIndex'[n])
    <3> DEFINE th == Proposal(m, c)
               e == task[th].req.entries[1]
    <3>1. /\ m = n /\ IsMajority(task[th].yes) /\ commitIndex'[n] = e.index
          /\ task[th].active
      BY <1>1, <2>3 DEF EndPropose, Commits, LoopDone
    <3>2. Acked(m, task[th], made, held) /\ task[th].yes \in SUBSET Node
      BY ThreadFacts DEF CommitInv, ProposalsAcked, TypeOK, Task
    <3>3. <<n, e>> \in made /\ \A v \in task[th].yes : <<v, e>> \in held
      BY <3>1, <3>2 DEF Acked
    <3> DEFINE T == {v \in Node : <<v, e>> \in held}
    <3>4. T \in SUBSET Node /\ task[th].yes \subseteq T
      BY <3>2, <3>3
    <3> HIDE DEF T, th
    <3>5. IsMajority(T)
      BY <3>1, <3>2, <3>4, Majorities
    <3>6. e.index \in Nat
      BY <1>1, <3>1
    <3>7. Covers(made, held, e.index)
      <4>1. <<n, e>>[2] = e
        OBVIOUS
      <4>2. {v \in Node : <<v, <<n, e>>[2]>> \in held} = T
        BY <4>1 DEF T
      <4>3. <<n, e>>[2].index >= e.index
        BY <3>6, <4>1
      <4> HIDE DEF e, T
      <4> QED
        BY <3>3, <3>5, <4>2, <4>3 DEF Covers
    <3> QED
      BY <1>2, <3>1, <3>6, <3>7
  <2>4. ASSUME NEW m \in Node, NEW c \in Caller, NEW d \in Data, Propose(m, c, d)
        PROVE  commitIndex'[n] = commitIndex[n]
    BY <2>4 DEF Propose
  <2> QED
    BY <2>1, <2>2, <2>3, <2>4, StepKinds
<1>4. ASSUME NEW m, Sent(m)', m.commit > 0 PROVE Covers(made', held', m.commit)
  <2>1. m.commit \in Nat
    BY <1>4 DEF Sent, TypeOK, Task, Envelope, Request
  <2>2. Sent(m) \/ \E n \in Node : m.commit = commitIndex[n]
    <3>1. ASSUME NEW n \in Node, NEW c \in Caller, NEW d \in Data, Propose(n, c, d)
          PROVE  task'[Proposal(n, c)].req.commit = commitIndex[n]
      BY <3>1, ProposeFacts
    <3>2. m.commit # 0
      BY <1>4, <2>1
    <3> QED
      BY <1>4, <3>1, <3>2, StepRequests DEF Plain
  <2>3. Covers(made, held, m.commit)
    BY <1>4, <2>2 DEF CommitInv
  <2> QED
    BY <1>2, <2>1, <2>3
<1>5. ProposalsAcked'
  BY StepAcked
<1> QED
  BY <1>3, <1>4, <1>5 DEF CommitInv

\* No commit index is an invention, a follower's included: a proposal at that
\* index or after it has been in the logs of a majority. It takes a bug
\* that truncates logs unsafely, or counts two acknowledgements as enough, to break it.
THEOREM CommitsBacked ==
    ASSUME "UnsafeLogTruncation" \notin Bugs, "CommitOnSingleAck" \notin Bugs
    PROVE  Spec => []CommitBacked
<1>1. Init => CommitInv
  <2> SUFFICES ASSUME Init PROVE CommitInv
    OBVIOUS
  <2>1. \A th \in Thread : task[th] = Idle
    BY DEF Init
  <2>2. ~Idle.active /\ ~(Idle.req.commit > 0) /\ late = {}
    BY DEF Idle, NoRequest, Init
  <2>3. \A n \in Node, c \in Caller : Proposal(n, c) \in Thread
    BY ThreadFacts
  <2>4. ProposalsAcked
    BY <2>1, <2>2, <2>3 DEF ProposalsAcked, Acked
  <2>5. \A n \in Node : ~(commitIndex[n] > 0)
    BY DEF Init
  <2>6. \A m : Sent(m) => ~(m.commit > 0)
    BY <2>1, <2>2 DEF Sent
  <2> QED
    BY <2>4, <2>5, <2>6 DEF CommitInv
<1>2. TypeOK /\ TypeOK' /\ LogInv /\ CommitInv /\ [Next]_vars => CommitInv'
  BY StepCommits
<1>3. CommitInv => CommitBacked
  <2>1. \A k : Covers(made, held, k) <=>
           \E p \in made : /\ p[2].index >= k
                           /\ IsMajority({m \in Node : <<m, p[2]>> \in held})
    BY DEF Covers
  <2> QED
    BY <2>1 DEF CommitInv, CommitBacked
<1> QED
  BY <1>1, <1>2, <1>3, TypeCorrect, LogsInvariant, PTL DEF Spec
=============================================================================
