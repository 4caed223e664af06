---------------------------- MODULE MatchingProofs ----------------------------
(***************************************************************************)
(* Log matching in RaftNode, for every cluster, every fault and every      *)
(* bound, without the bugs that truncate logs unsafely and that accept     *)
(* leaders of older terms. First, what a node proposes in a term it        *)
(* proposes once for each index; then, whatever holds an entry, a log or a *)
(* request on its way, agrees on what is before it.                        *)
(***************************************************************************)
EXTENDS LogProofs

-----------------------------------------------------------------------------
\* Proposals.

\* Proposals are of terms their nodes have reached; while a round runs, its node
\* does not lead and has proposed nothing in its current term; a leader has what it
\* proposed; and an index was given once in a term.
ProposalInv ==
    /\ \A p \in made : p[2].term <= term[p[1]]
    /\ \A n \in Node : task[Round(n)].active =>
          role[n] # "leader" /\ \A p \in made : p[1] = n => p[2].term # term[n]
    /\ LeaderKeepsProposals
    /\ \A p, q \in made :
          p[1] = q[1] /\ p[2].term = q[2].term /\ p[2].index = q[2].index => p[2] = q[2]

\* A step makes at most one proposal: that of a leader, after the last entry of its log.
LEMMA StepMakes ==
    ASSUME TypeOK, [Next]_vars
    PROVE  \/ made' = made
           \/ \E n \in Node, e \in Entry :
                /\ made' = made \union {<<n, e>>} /\ role[n] = "leader"
                /\ e.index = Len(log[n]) + 1 /\ e.term = term[n]
                /\ log' = [log EXCEPT ![n] = Append(log[n], e)]
                /\ UNCHANGED <<role, term>>
<1>1. ASSUME NEW p \in Node, NEW m \in Request, Handle(p, m) PROVE made' = made
  BY <1>1 DEF Handle, RejectStale, HandleRequestVote, HandleAppendEntries, history
<1>2. ASSUME NEW n \in Node, NEW c \in Caller, NEW d \in Data, Propose(n, c, d)
      PROVE  \E e \in Entry :
                /\ made' = made \union {<<n, e>>} /\ role[n] = "leader"
                /\ e.index = Len(log[n]) + 1 /\ e.term = term[n]
                /\ log' = [log EXCEPT ![n] = Append(log[n], e)]
                /\ UNCHANGED <<role, term>>
  <2> DEFINE e == [index |-> Len(log[n]) + 1, term |-> term[n], data |-> d]
  <2>1. e.index = Len(log[n]) + 1 /\ e.term = term[n]
    OBVIOUS
  <2>2. /\ e \in Entry /\ made' = made \union {<<n, e>>} /\ role[n] = "leader"
        /\ log' = [log EXCEPT ![n] = Append(log[n], e)] /\ UNCHANGED <<role, term>>
    BY <1>2, ProposeFacts
  <2> HIDE DEF e
  <2> QED
    BY <2>1, <2>2
<1>3. ASSUME NEW n \in Node, NEW c \in Caller, EndPropose(n, c) PROVE made' = made
  BY <1>3 DEF EndPropose, history
<1> QED
  BY <1>1, <1>2, <1>3, StepKinds

\* Each step preserves the invariant of the proposals.
LEMMA StepProposals ==
    ASSUME "AcceptStaleLeader" \notin Bugs, TypeOK, TypeOK', ProposalInv, [Next]_vars
    PROVE  ProposalInv'
<1>1. /\ term \in [Node -> Nat] /\ log \in [Node -> Seq(Entry)]
      /\ \A n \in Node : term[n] \in Nat /\ term'[n] \in Nat /\ term'[n] >= term[n]
      /\ \A p \in made : p[1] \in Node /\ p[2].term \in Nat /\ p[2].index \in Nat
  <2>1. FieldsOK /\ FieldsOK'
    BY DEF TypeOK
  <2>2. \A n \in Node : term'[n] >= term[n]
    BY StepTerm
  <2>3. \A p \in made : p[1] \in Node /\ p[2].term \in Nat /\ p[2].index \in Nat
    BY <2>1, TermsNatural DEF FieldsOK, Entry
  <2>4. term \in [Node -> Nat] /\ term' \in [Node -> Nat]
    BY <2>1, TermsNatural DEF FieldsOK
  <2> QED
    BY <2>1, <2>2, <2>3, <2>4 DEF FieldsOK
<1>2. ASSUME NEW n \in Node, NEW e \in Entry, made' = made \union {<<n, e>>}
      PROVE  \A p \in made' : p \in made \/ (p[1] = n /\ p[2] = e)
  BY <1>2
<1>3. \A p \in made' : p[2].term <= term'[p[1]]
  <2>1. \A p \in made : p[2].term <= term'[p[1]]
    BY <1>1 DEF ProposalInv
  <2>2. CASE made' = made
    BY <2>1, <2>2
  <2>3. ASSUME NEW n \in Node, NEW e \in Entry, made' = made \union {<<n, e>>},
               e.term = term[n], term' = term
        PROVE  \A p \in made' : p[2].term <= term'[p[1]]
    BY <1>1, <1>2, <2>1, <2>3
  <2> QED
    BY <2>2, <2>3, StepMakes
<1>4. ASSUME NEW n \in Node, task'[Round(n)].active
      PROVE  role'[n] # "leader" /\ \A p \in made' : p[1] = n => p[2].term # term'[n]
  <2>1. CASE StartElection(n)
    <3>1. /\ role' = [role EXCEPT ![n] = "candidate"] /\ made' = made
          /\ term' = [term EXCEPT ![n] = term[n] + 1]
      BY <2>1 DEF StartElection
    <3>2. role'[n] # "leader" /\ term'[n] = term[n] + 1
      BY <1>1, <3>1 DEF TypeOK, FieldsOK
    <3> QED
      BY <1>1, <3>1, <3>2 DEF ProposalInv
  <2>2. CASE ~StartElection(n)
    <3>1. task[Round(n)].active /\ ~EndRound(n)
      BY <1>4, <2>2, StepRounds
    <3>2. role[n] # "leader" /\ \A p \in made : p[1] = n => p[2].term # term[n]
      BY <3>1 DEF ProposalInv
    <3>3. role'[n] # "leader"
      BY <3>1, <3>2, StepLeads
    <3>4. ASSUME NEW p \in made', p[1] = n PROVE p \in made
      BY <1>2, <3>2, <3>4, StepMakes
    <3>5. ASSUME NEW p \in made, p[1] = n PROVE p[2].term # term'[n]
      <4>1. p[2].term <= term[n] /\ p[2].term # term[n]
        BY <3>2, <3>5 DEF ProposalInv
      <4> QED
        BY <1>1, <4>1
    <3> QED
      BY <3>3, <3>4, <3>5
  <2> QED
    BY <2>1, <2>2
<1>5. ASSUME NEW n \in Node, role'[n] = "leader",
             NEW p \in made', p[1] = n, p[2].term = term'[n]
      PROVE  p[2].index \in DOMAIN log'[n] /\ log'[n][p[2].index] = p[2]
  <2>1. CASE EndRound(n)
    <3>1. task[Round(n)].active /\ term' = term /\ made' = made
      BY <2>1 DEF EndRound, LoopDone
    <3> QED
      BY <1>5, <3>1 DEF ProposalInv
  <2>2. CASE ~EndRound(n)
    <3>1. role[n] = "leader" /\ term'[n] = term[n]
      BY <1>5, <2>2, StepLeads
    <3>2. CASE p \in made
      <4>1. p[2].index \in DOMAIN log[n] /\ log[n][p[2].index] = p[2]
        BY <1>5, <3>1, <3>2 DEF ProposalInv, LeaderKeepsProposals
      <4>2. /\ Len(log'[n]) >= Len(log[n])
            /\ \A i \in DOMAIN log[n] : log'[n][i] = log[n][i]
        BY <1>5, <3>1, LeaderStep
      <4>3. log[n] \in Seq(Entry) /\ log'[n] \in Seq(Entry)
        BY <1>1 DEF TypeOK, FieldsOK
      <4> QED
        BY <4>1, <4>2, <4>3
    <3>3. ASSUME NEW q \in Node, NEW e \in Entry, made' = made \union {<<q, e>>},
                 e.index = Len(log[q]) + 1, log' = [log EXCEPT ![q] = Append(log[q], e)],
                 p \notin made
          PROVE  p[2].index \in DOMAIN log'[n] /\ log'[n][p[2].index] = p[2]
      <4>1. q = n /\ p[2] = e
        BY <1>2, <1>5, <3>3
      <4>2. log'[n] = Append(log[n], e) /\ log[n] \in Seq(Entry)
        BY <1>1, <3>3, <4>1
      <4> QED
        BY <3>3, <4>1, <4>2
    <3> QED
      BY <3>2, <3>3, StepMakes
  <2> QED
    BY <2>1, <2>2
<1>6. ASSUME NEW p \in made', NEW q \in made',
             p[1] = q[1], p[2].term = q[2].term, p[2].index = q[2].index
      PROVE  p[2] = q[2]
  <2>1. CASE p \in made /\ q \in made
    BY <1>6, <2>1 DEF ProposalInv
  <2>2. ASSUME NEW n \in Node, NEW e \in Entry, made' = made \union {<<n, e>>},
               role[n] = "leader", e.index = Len(log[n]) + 1, e.term = term[n]
        PROVE  p[2] = q[2]
    <3>1. ASSUME NEW r \in made, r[1] = n, r[2].term = term[n] PROVE r[2].index # e.index
      <4>1. r[2].index \in DOMAIN log[n] /\ log[n] \in Seq(Entry)
        BY <1>1, <2>2, <3>1 DEF ProposalInv, LeaderKeepsProposals
      <4> QED
        BY <2>2, <4>1
    <3> QED
      BY <1>2, <1>6, <2>1, <2>2, <3>1
  <2> QED
    BY <2>1, <2>2, StepMakes
<1>7. LeaderKeepsProposals'
  BY <1>5 DEF LeaderKeepsProposals
<1> QED
  BY <1>3, <1>4, <1>6, <1>7 DEF ProposalInv

\* The invariant of the proposals holds in every reachable state.
LEMMA ProposalsInvariant ==
    ASSUME "AcceptStaleLeader" \notin Bugs
    PROVE  Spec => []ProposalInv
<1>1. Init => ProposalInv
  <2> SUFFICES ASSUME Init PROVE ProposalInv
    OBVIOUS
  <2>1. made = {} /\ \A n \in Node : role[n] # "leader" /\ ~task[Round(n)].active
    BY ThreadFacts DEF Init, Idle
  <2> QED
    BY <2>1 DEF ProposalInv, LeaderKeepsProposals
<1>2. TypeOK /\ TypeOK' /\ ProposalInv /\ [Next]_vars => ProposalInv'
  BY StepProposals
<1> QED
  BY <1>1, <1>2, TypeCorrect, PTL DEF Spec

\* A leader still holds what it has proposed in its term, if leaders of older
\* terms are not accepted: neither another leader of the term nor a round that ends
\* in a later term than it began in makes it propose twice at an index.
THEOREM ProposalsKept ==
    ASSUME "AcceptStaleLeader" \notin Bugs
    PROVE  Spec => []LeaderKeepsProposals
<1>1. ProposalInv => LeaderKeepsProposals
  BY DEF ProposalInv
<1> QED
  BY <1>1, ProposalsInvariant, PTL

-----------------------------------------------------------------------------
\* Logs and requests that hold the same entry.

\* Two logs that hold an entry of one term at an index are the same up to it.
Agree(k, l) ==
    \A i \in DOMAIN k \intersect DOMAIN l :
        k[i].term = l[i].term => \A j \in 1..i : k[j] = l[j]

\* A log that holds the entry of a request has before it what the request says.
Follows(l, m) ==
    /\ m.entries # <<>> /\ m.prevIndex > 0
    /\ m.prevIndex + 1 \in DOMAIN l /\ l[m.prevIndex + 1].term = m.term
    => l[m.prevIndex].term = m.prevTerm

\* Two requests with the same entry say the same of the one before it.
SamePrev(a, b) ==
    /\ a.entries # <<>> /\ b.entries # <<>>
    /\ a.prevIndex = b.prevIndex /\ a.term = b.term
    => a.prevTerm = b.prevTerm

\* Entry e is one of the proposals P, by some node.
Proposed(P, e) == \E p \in P : p[2] = e

AllProposed ==
    /\ \A n \in Node : \A i \in DOMAIN log[n] : Proposed(made, log[n][i])
    /\ \A m : Sent(m) /\ m.entries # <<>> => Proposed(made, m.entries[1])

MatchInv ==
    /\ AllProposed
    /\ SoleProposers =>
          /\ \A m, n \in Node : Agree(log[m], log[n])
          /\ \A n \in Node : \A m : Sent(m) => Follows(log[n], m)
          /\ \A a, b : Sent(a) /\ Sent(b) => SamePrev(a, b)

\* What a log has become that has accepted request m.
Extended(k, l, m) ==
    /\ m.prevIndex <= Len(l) /\ Len(k) = m.prevIndex + 1
    /\ k[m.prevIndex + 1] = m.entries[1]
    /\ \A i \in 1..m.prevIndex : k[i] = l[i]
    /\ m.prevIndex > 0 => l[m.prevIndex].term = m.prevTerm

\* An accepted request leaves the log as it is or extends what was before its entry.
LEMMA LogAfterCases ==
    ASSUME "UnsafeLogTruncation" \notin Bugs, NEW l \in Seq(Entry),
           NEW m \in Request, SoundRequest(m), LogAccepts(l, m)
    PROVE  LogAfter(l, m) = l \/ (m.entries # <<>> /\ Extended(LogAfter(l, m), l, m))
<1> SUFFICES ASSUME m.entries # <<>>, LogAfter(l, m) # l PROVE Extended(LogAfter(l, m), l, m)
  BY DEF LogAfter
<1> DEFINE e == m.entries[1]
           i == m.prevIndex
<1>1. e \in Entry /\ i \in Nat /\ e.index = i + 1 /\ Len(l) \in Nat
  <2>1. m.entries \in Seq(Entry)
    BY DEF Request
  <2> QED
    BY <2>1 DEF Request, SoundRequest
<1>2. i <= Len(l) /\ (i > 0 => l[i].term = m.prevTerm)
  BY <1>1 DEF LogAccepts, PrevMatches
<1>3. LogAfter(l, m) = Store(l, e)
  BY DEF LogAfter
<1> HIDE DEF e, i
<1>4. CASE e.index > Len(l)
  <2>1. Store(l, e) = Append(l, e) /\ Len(l) = i
    BY <1>1, <1>2, <1>4 DEF Store
  <2>2. Len(Append(l, e)) = i + 1 /\ Append(l, e)[i + 1] = e /\ \A j \in 1..i : Append(l, e)[j] = l[j]
    BY <1>1, <2>1
  <2> QED
    BY <1>2, <1>3, <2>1, <2>2 DEF Extended, e, i
<1>5. CASE e.index <= Len(l)
  <2> DEFINE s == SubSeq(l, 1, i)
  <2>1. Store(l, e) = Append(s, e)
    <3>1. Store(l, e) # l
      BY <1>3
    <3>2. e.index - 1 = i
      BY <1>1
    <3>3. Store(l, e) = Append(SubSeq(l, 1, e.index - 1), e)
      BY <1>1, <1>5, <3>1 DEF Store
    <3> QED
      BY <3>2, <3>3
  <2>2. s \in Seq(Entry) /\ Len(s) = i /\ \A j \in 1..i : s[j] = l[j]
    BY <1>1, <1>2, <1>5
  <2> HIDE DEF s
  <2>3. Len(Append(s, e)) = i + 1 /\ Append(s, e)[i + 1] = e /\ \A j \in 1..i : Append(s, e)[j] = s[j]
    BY <1>1, <2>2
  <2> QED
    BY <1>2, <1>3, <2>1, <2>2, <2>3 DEF Extended, e, i
<1> QED
  BY <1>1, <1>4, <1>5

\* The two relations on logs and on requests are symmetric.
LEMMA Symmetric ==
    /\ \A k, l : Agree(k, l) => Agree(l, k)
    /\ \A l : Agree(l, l)
    /\ \A a, b : a.prevIndex \in Nat /\ SamePrev(a, b) => SamePrev(b, a)
  BY DEF Agree, SamePrev

\* A log that has accepted a request still agrees with the others and follows the
\* other requests.
LEMMA ExtendedAgrees ==
    ASSUME NEW l \in Seq(Entry), NEW k \in Seq(Entry), NEW m \in Request, m.entries # <<>>,
           SoundRequest(m), Extended(k, l, m)
    PROVE  /\ \A q \in Seq(Entry) :
                 /\ Agree(l, q) /\ Follows(q, m)
                 /\ (m.prevIndex + 1 \in DOMAIN q /\ q[m.prevIndex + 1].term = m.term
                       => q[m.prevIndex + 1] = m.entries[1])
                 => Agree(k, q)
           /\ \A r \in Request : Follows(l, r) /\ SamePrev(m, r) => Follows(k, r)
<1> DEFINE i == m.prevIndex
           e == m.entries[1]
<1>1. i \in Nat /\ e.term = m.term
  BY DEF Request, SoundRequest
<1>2. /\ DOMAIN k = 1..(i + 1) /\ 1..i \subseteq DOMAIN l /\ k[i + 1] = e
      /\ \A j \in 1..i : k[j] = l[j]
      /\ i > 0 => l[i].term = m.prevTerm
  BY <1>1 DEF Extended
<1>3. ASSUME NEW q \in Seq(Entry), Agree(l, q), Follows(q, m),
             i + 1 \in DOMAIN q /\ q[i + 1].term = m.term => q[i + 1] = e
      PROVE  Agree(k, q)
  <2> SUFFICES ASSUME NEW x \in DOMAIN k \intersect DOMAIN q, k[x].term = q[x].term,
                      NEW j \in 1..x
               PROVE  k[j] = q[j]
    BY DEF Agree
  <2>0. x \in Nat /\ j \in Nat /\ DOMAIN q = 1..Len(q) /\ Len(q) \in Nat
    BY <1>2
  <2>1. CASE x \in 1..i
    <3>1. x \in DOMAIN l \intersect DOMAIN q /\ l[x].term = q[x].term
      BY <1>2, <2>1
    <3>2. l[j] = q[j]
      BY <1>3, <3>1 DEF Agree
    <3>3. j \in 1..i
      BY <1>1, <2>0, <2>1
    <3> QED
      BY <1>2, <3>2, <3>3
  <2>2. CASE x = i + 1
    <3>1. q[i + 1] = e
      BY <1>1, <1>2, <1>3, <2>2
    <3>2. CASE j = i + 1
      BY <1>2, <3>1, <3>2
    <3>3. CASE j \in 1..i
      <4>1. i > 0 /\ i \in DOMAIN q /\ i \in DOMAIN l
        BY <1>1, <1>2, <2>0, <2>2, <3>3
      <4>2. q[i].term = m.prevTerm
        BY <1>1, <1>3, <2>2, <3>1, <4>1 DEF Follows
      <4>3. l[j] = q[j]
        BY <1>2, <1>3, <3>3, <4>1, <4>2 DEF Agree
      <4> QED
        BY <1>2, <3>3, <4>3
    <3> QED
      BY <1>1, <2>0, <2>2, <3>2, <3>3
  <2> QED
    BY <1>1, <1>2, <2>1, <2>2
<1>4. ASSUME NEW r \in Request, Follows(l, r), SamePrev(m, r) PROVE Follows(k, r)
  <2> SUFFICES ASSUME r.entries # <<>>, r.prevIndex > 0, r.prevIndex + 1 \in DOMAIN k,
                      k[r.prevIndex + 1].term = r.term
               PROVE  k[r.prevIndex].term = r.prevTerm
    BY DEF Follows
  <2>1. r.prevIndex \in Nat
    BY DEF Request
  <2>2. CASE r.prevIndex = i
    <3>1. r.prevTerm = m.prevTerm
      BY <1>1, <1>2, <1>4, <2>2 DEF SamePrev
    <3> QED
      BY <1>1, <1>2, <2>2, <3>1
  <2>3. CASE r.prevIndex # i
    <3>1. r.prevIndex \in 1..i /\ r.prevIndex + 1 \in 1..i
      BY <1>1, <1>2, <2>1, <2>3
    <3>2. l[r.prevIndex].term = r.prevTerm
      BY <1>2, <1>4, <3>1 DEF Follows
    <3> QED
      BY <1>2, <3>1, <3>2
  <2> QED
    BY <2>2, <2>3
<1> QED
  BY <1>3, <1>4

\* Two proposals of one term at one index are the same, if each term has one proposer.
LEMMA ProposedUnique ==
    ASSUME ProposalInv, SoleProposers, NEW d, NEW e, Proposed(made, d), Proposed(made, e),
           d.term = e.term, d.index = e.index
    PROVE  d = e
  BY DEF ProposalInv, SoleProposers, Proposed

\* A step that makes proposals keeps the older ones.
LEMMA ProposedKept ==
    ASSUME TypeOK, [Next]_vars
    PROVE  \A e : Proposed(made, e) => Proposed(made', e)
  BY StepRecords DEF Proposed

\* A handler keeps logs and requests together.
LEMMA HandleMatches ==
    ASSUME "UnsafeLogTruncation" \notin Bugs, TypeOK, TypeOK', LogInv, ProposalInv, AllProposed,
           [Next]_vars, NEW p \in Node, NEW m \in Request, Sent(m), Handle(p, m)
    PROVE  /\ made' = made
           /\ \A n \in Node : \A i \in DOMAIN log'[n] : Proposed(made, log'[n][i])
           /\ SoleProposers /\ MatchInv =>
                 /\ \A q, n \in Node : Agree(log'[q], log'[n])
                 /\ \A n \in Node : \A r : Sent(r) => Follows(log'[n], r)
<1> DEFINE l == log[p]
           k == LogAfter(l, m)
<1>1. /\ log \in [Node -> Seq(Entry)] /\ log' \in [Node -> Seq(Entry)] /\ l \in Seq(Entry)
      /\ k \in Seq(Entry) /\ SoundRequest(m)
  BY LogAfterType DEF TypeOK, FieldsOK, LogInv, RequestsSound
<1>2. made' = made
  BY DEF Handle, RejectStale, HandleRequestVote, HandleAppendEntries, history
<1>3. \/ log' = log
      \/ log' = [log EXCEPT ![p] = k] /\ LogAccepts(l, m)
  BY DEF Handle, RejectStale, HandleRequestVote, HandleAppendEntries, fields
<1>4. log' = log \/ (log' = [log EXCEPT ![p] = k] /\ m.entries # <<>> /\ Extended(k, l, m))
  <2>1. k = l => [log EXCEPT ![p] = k] = log
    BY <1>1
  <2> QED
    BY <1>1, <1>3, <2>1, LogAfterCases
<1> HIDE DEF k, l
<1>5. CASE log' = log
  BY <1>2, <1>5 DEF AllProposed, MatchInv
<1>6. CASE log' = [log EXCEPT ![p] = k] /\ m.entries # <<>> /\ Extended(k, l, m)
  <2>1. /\ log'[p] = k /\ \A n \in Node : n # p => log'[n] = log[n]
        /\ l = log[p] /\ Proposed(made, m.entries[1])
    BY <1>1, <1>6 DEF AllProposed, l
  <2>2. \A n \in Node : \A i \in DOMAIN log'[n] : Proposed(made, log'[n][i])
    <3>1. ASSUME NEW i \in DOMAIN k PROVE Proposed(made, k[i])
      <4>1. /\ m.prevIndex \in Nat /\ DOMAIN k = 1..(m.prevIndex + 1) /\ m.prevIndex <= Len(l)
            /\ k[m.prevIndex + 1] = m.entries[1] /\ \A j \in 1..m.prevIndex : k[j] = l[j]
        BY <1>1, <1>6 DEF Extended, Request
      <4>2. CASE i = m.prevIndex + 1
        BY <2>1, <4>1, <4>2
      <4>3. CASE i # m.prevIndex + 1
        <5>1. i \in 1..m.prevIndex
          BY <4>1, <4>3
        <5>2. DOMAIN l = 1..Len(l) /\ Len(l) \in Nat
          BY <1>1
        <5>3. i \in DOMAIN l /\ k[i] = l[i]
          BY <4>1, <5>1, <5>2
        <5> QED
          BY <2>1, <5>3 DEF AllProposed
      <4> QED
        BY <4>2, <4>3
    <3> QED
      BY <2>1, <3>1 DEF AllProposed
  <2>3. ASSUME SoleProposers, MatchInv
        PROVE  /\ \A q, n \in Node : Agree(log'[q], log'[n])
               /\ \A n \in Node : \A r : Sent(r) => Follows(log'[n], r)
    <3>1. /\ \A q, n \in Node : Agree(log[q], log[n])
          /\ \A n \in Node : \A r : Sent(r) => Follows(log[n], r)
          /\ \A a, b : Sent(a) /\ Sent(b) => SamePrev(a, b)
      BY <2>3 DEF MatchInv
    <3>2. ASSUME NEW n \in Node, m.prevIndex + 1 \in DOMAIN log[n],
                 log[n][m.prevIndex + 1].term = m.term
          PROVE  log[n][m.prevIndex + 1] = m.entries[1]
      <4>1. log[n][m.prevIndex + 1].index = m.prevIndex + 1 /\ Proposed(made, log[n][m.prevIndex + 1])
        BY <3>2 DEF AllProposed, LogInv, LogShape
      <4>2. m.entries[1].index = m.prevIndex + 1 /\ m.entries[1].term = m.term
        BY <1>1, <1>6 DEF SoundRequest
      <4> QED
        BY <2>1, <2>3, <3>2, <4>1, <4>2, ProposedUnique
    <3>3. \A n \in Node : Agree(k, log[n])
      BY <1>1, <1>6, <2>1, <3>1, <3>2, ExtendedAgrees
    <3>4. \A r : Sent(r) => Follows(k, r)
      BY <1>1, <1>6, <2>1, <3>1, SentType, ExtendedAgrees
    <3> QED
      BY <2>1, <3>1, <3>3, <3>4, Symmetric
  <2> QED
    BY <1>2, <2>2, <2>3
<1> QED
  BY <1>4, <1>5, <1>6

\* A proposal begins something new, which nothing that is about holds.
LEMMA ProposeMatches ==
    ASSUME TypeOK, LogInv, ProposalInv, MatchInv, [Next]_vars, SoleProposers',
           NEW n \in Node, NEW c \in Caller, NEW d \in Data, Propose(n, c, d)
    PROVE  LET m == task'[Proposal(n, c)].req IN
           /\ SoleProposers
           /\ \A p, q \in Node : Agree(log'[p], log'[q])
           /\ \A q \in Node : \A r : Sent(r) \/ r = m => Follows(log'[q], r)
           /\ \A r : Sent(r) \/ r = m => SamePrev(m, r) /\ SamePrev(r, m)
<1> DEFINE l == log[n]
           e == [index |-> Len(l) + 1, term |-> term[n], data |-> d]
           k == Append(l, e)
           m == task'[Proposal(n, c)].req
<1>1. /\ log \in [Node -> Seq(Entry)] /\ l \in Seq(Entry) /\ Len(l) \in Nat
      /\ log' = [log EXCEPT ![n] = k] /\ made' = made \union {<<n, e>>} /\ e \in Entry
      /\ role[n] = "leader"
      /\ m.entries = <<e>> /\ m.term = term[n] /\ m.prevIndex = Len(l)
      /\ m.prevTerm = IF l = <<>> THEN 0 ELSE l[Len(l)].term
  <2>1. log \in [Node -> Seq(Entry)]
    BY DEF TypeOK, FieldsOK
  <2>2. l \in Seq(Entry) /\ Len(l) \in Nat
    BY <2>1
  <2> QED
    BY <2>1, <2>2, ProposeFacts
<1>2. e.index = Len(l) + 1 /\ e.term = term[n]
  OBVIOUS
<1> HIDE DEF e, m
<1>3. /\ k \in Seq(Entry) /\ DOMAIN k = 1..(Len(l) + 1) /\ k[Len(l) + 1] = e
      /\ \A i \in 1..Len(l) : k[i] = l[i]
      /\ DOMAIN l = 1..Len(l)
  BY <1>1
<1> HIDE DEF k
<1>4. log'[n] = k /\ \A q \in Node : q # n => log'[q] = log[q]
  BY <1>1
<1> HIDE DEF l
<1>5. SoleProposers
  BY <1>1 DEF SoleProposers
<1>6. ASSUME NEW x, Proposed(made, x), x.term = term[n] PROVE x.index # Len(l) + 1
  <2>1. PICK p \in made : p[2] = x
    BY <1>6 DEF Proposed
  <2>2. <<n, e>>[1] = n /\ <<n, e>>[2] = e
    OBVIOUS
  <2>3. p[1] = n
    <3>1. <<n, e>> \in made' /\ p \in made'
      BY <1>1, <2>1
    <3>2. p[2].term = <<n, e>>[2].term
      BY <1>2, <1>6, <2>1, <2>2
    <3> QED
      BY <2>2, <3>1, <3>2 DEF SoleProposers
  <2>4. x.index \in DOMAIN l
    BY <1>1, <1>6, <2>1, <2>3 DEF ProposalInv, LeaderKeepsProposals, l
  <2> QED
    BY <1>1, <1>3, <2>4
<1>7. ASSUME NEW q \in Node, Len(l) + 1 \in DOMAIN log[q]
      PROVE  log[q][Len(l) + 1].term # term[n]
  <2>1. log[q][Len(l) + 1].index = Len(l) + 1 /\ Proposed(made, log[q][Len(l) + 1])
    BY <1>7 DEF MatchInv, AllProposed, LogInv, LogShape
  <2> QED
    BY <1>6, <2>1
<1>8. ASSUME NEW r, Sent(r), r.entries # <<>>
      PROVE  ~(r.prevIndex = Len(l) /\ r.term = term[n])
  <2>1. /\ Proposed(made, r.entries[1]) /\ r.entries[1].index = r.prevIndex + 1
        /\ r.entries[1].term = r.term
    BY <1>8 DEF MatchInv, AllProposed, LogInv, RequestsSound, SoundRequest
  <2> QED
    BY <1>6, <2>1
<1>9. ASSUME NEW q \in Node, q # n PROVE Agree(k, log[q])
  <2> SUFFICES ASSUME NEW i \in DOMAIN k \intersect DOMAIN log[q], k[i].term = log[q][i].term,
                      NEW j \in 1..i
               PROVE  k[j] = log[q][j]
    BY DEF Agree
  <2>1. i # Len(l) + 1
    BY <1>2, <1>3, <1>7
  <2>2. i \in DOMAIN l /\ i \in Nat /\ j \in 1..Len(l)
    BY <1>1, <1>3, <2>1
  <2>3. l[j] = log[q][j]
    BY <1>3, <1>5, <2>2 DEF MatchInv, Agree, l
  <2> QED
    BY <1>3, <2>2, <2>3
<1>10. ASSUME NEW r \in Request, Sent(r) PROVE Follows(k, r)
  <2> SUFFICES ASSUME r.entries # <<>>, r.prevIndex > 0, r.prevIndex + 1 \in DOMAIN k,
                      k[r.prevIndex + 1].term = r.term
               PROVE  k[r.prevIndex].term = r.prevTerm
    BY DEF Follows
  <2>1. r.prevIndex \in Nat /\ r.prevIndex # Len(l)
    BY <1>2, <1>3, <1>8, <1>10 DEF Request
  <2>2. r.prevIndex \in 1..Len(l) /\ r.prevIndex + 1 \in 1..Len(l)
    BY <1>1, <1>3, <2>1
  <2>3. Follows(l, r)
    BY <1>5, <1>10 DEF MatchInv, l
  <2> QED
    BY <1>3, <2>2, <2>3 DEF Follows
<1>11. Follows(k, m)
  BY <1>1, <1>3 DEF Follows
<1>12. ASSUME NEW q \in Node, q # n PROVE Follows(log[q], m)
  BY <1>1, <1>7, <1>12 DEF Follows
<1>13. \A p, q \in Node : Agree(log'[p], log'[q])
  <2>1. \A p, q \in Node : Agree(log[p], log[q])
    BY <1>5 DEF MatchInv
  <2> QED
    BY <1>4, <1>9, <2>1, Symmetric
<1>14. ASSUME NEW q \in Node, NEW r, Sent(r) \/ r = m PROVE Follows(log'[q], r)
  <2>1. Sent(r) => r \in Request /\ Follows(log[q], r)
    BY <1>5, SentType DEF MatchInv
  <2> QED
    BY <1>4, <1>10, <1>11, <1>12, <1>14, <2>1
<1>15. ASSUME NEW r, Sent(r) \/ r = m PROVE SamePrev(m, r) /\ SamePrev(r, m)
  BY <1>1, <1>8, <1>15 DEF SamePrev
<1> QED
  BY <1>5, <1>13, <1>14, <1>15 DEF m

\* Each step preserves the invariant of logs and requests.
LEMMA StepMatches ==
    ASSUME "UnsafeLogTruncation" \notin Bugs, TypeOK, TypeOK', LogInv, ProposalInv, MatchInv,
           [Next]_vars
    PROVE  MatchInv'
<1>1. /\ AllProposed /\ log \in [Node -> Seq(Entry)]
      /\ \A m : Plain(m) => m.entries = <<>>
  BY DEF MatchInv, Plain, TypeOK, FieldsOK
<1>2. made \subseteq made'
  BY StepRecords
<1>3. ASSUME NEW n \in Node, NEW c \in Caller, NEW d \in Data, Propose(n, c, d)
      PROVE  /\ Proposed(made', task'[Proposal(n, c)].req.entries[1])
             /\ \A q \in Node : \A i \in DOMAIN log'[q] : Proposed(made', log'[q][i])
  <2> DEFINE l == log[n]
             e == [index |-> Len(l) + 1, term |-> term[n], data |-> d]
             m == task'[Proposal(n, c)].req
  <2>1. /\ l \in Seq(Entry) /\ e \in Entry /\ log' = [log EXCEPT ![n] = Append(l, e)]
        /\ made' = made \union {<<n, e>>} /\ m.entries = <<e>>
    BY <1>1, <1>3, ProposeFacts
  <2>2. <<n, e>>[2] = e /\ <<e>>[1] = e
    OBVIOUS
  <2> HIDE DEF e, m, l
  <2>3. Proposed(made', e) /\ m.entries[1] = e
    BY <2>1, <2>2 DEF Proposed
  <2>4. ASSUME NEW i \in DOMAIN Append(l, e) PROVE Proposed(made', Append(l, e)[i])
    <3>1. Append(l, e)[i] = e \/ (i \in DOMAIN l /\ Append(l, e)[i] = l[i])
      BY <2>1
    <3>2. i \in DOMAIN l => Proposed(made', l[i])
      BY <1>1, ProposedKept DEF AllProposed, l
    <3> QED
      BY <2>3, <3>1, <3>2
  <2>5. \A q \in Node : q # n => log'[q] = log[q]
    BY <1>1, <2>1
  <2>6. log'[n] = Append(l, e)
    BY <1>1, <2>1
  <2> QED
    BY <1>1, <2>3, <2>4, <2>5, <2>6, ProposedKept DEF AllProposed, m
<1>4. AllProposed'
  <2>1. ASSUME NEW q \in Node, NEW i \in DOMAIN log'[q] PROVE Proposed(made', log'[q][i])
    <3>1. CASE log' = log
      BY <1>1, <3>1, ProposedKept DEF AllProposed
    <3>2. ASSUME NEW p \in Node, NEW m \in Request, Sent(m), Handle(p, m)
          PROVE  Proposed(made', log'[q][i])
      BY <1>1, <3>2, HandleMatches, ProposedKept
    <3>3. ASSUME NEW n \in Node, NEW c \in Caller, EndPropose(n, c) PROVE log' = log
      BY <3>3 DEF EndPropose
    <3> QED
      BY <1>3, <3>1, <3>2, <3>3, StepKinds
  <2>2. ASSUME NEW m, Sent(m)', m.entries # <<>> PROVE Proposed(made', m.entries[1])
    <3>1. Sent(m) => Proposed(made', m.entries[1])
      BY <1>1, <2>2, ProposedKept DEF AllProposed
    <3> QED
      BY <1>1, <1>3, <2>2, <3>1, StepRequests
  <2> QED
    BY <2>1, <2>2 DEF AllProposed
<1>5. ASSUME SoleProposers'
      PROVE  /\ \A m, n \in Node : Agree(log'[m], log'[n])
             /\ \A n \in Node : \A m : Sent(m)' => Follows(log'[n], m)
             /\ \A a, b : Sent(a)' /\ Sent(b)' => SamePrev(a, b)
  <2>1. SoleProposers
    BY <1>2, <1>5 DEF SoleProposers
  <2>2. /\ \A m, n \in Node : Agree(log[m], log[n])
        /\ \A n \in Node : \A m : Sent(m) => Follows(log[n], m)
        /\ \A a, b : Sent(a) /\ Sent(b) => SamePrev(a, b)
    BY <2>1 DEF MatchInv
  <2>3. \A m, l : Plain(m) => Follows(l, m)
    BY <1>1 DEF Follows
  <2>4. \A a, b : Plain(a) \/ Plain(b) => SamePrev(a, b)
    BY <1>1 DEF SamePrev
  <2>5. CASE \E n \in Node, c \in Caller, d \in Data : Propose(n, c, d)
    <3>1. PICK n \in Node, c \in Caller, d \in Data : Propose(n, c, d)
      BY <2>5
    <3> DEFINE m == task'[Proposal(n, c)].req
    <3>2. \A r : Sent(r)' => Sent(r) \/ r = m
      BY <3>1, ProposeSends
    <3> QED
      BY <1>5, <2>2, <3>1, <3>2, ProposeMatches
  <2>6. CASE ~\E n \in Node, c \in Caller, d \in Data : Propose(n, c, d)
    <3>1. \A m : Sent(m)' => Sent(m) \/ Plain(m)
      BY <2>6, StepRequests
    <3>2. \A a, b : Sent(a)' /\ Sent(b)' => SamePrev(a, b)
      BY <2>2, <2>4, <3>1
    <3>3. /\ \A m, n \in Node : Agree(log'[m], log'[n])
          /\ \A n \in Node : \A m : Sent(m) => Follows(log'[n], m)
      <4>1. CASE log' = log
        BY <2>2, <4>1
      <4>2. ASSUME NEW p \in Node, NEW m \in Request, Sent(m), Handle(p, m)
            PROVE  /\ \A q, n \in Node : Agree(log'[q], log'[n])
                   /\ \A n \in Node : \A r : Sent(r) => Follows(log'[n], r)
        BY <1>1, <2>1, <4>2, HandleMatches
      <4>3. ASSUME NEW n \in Node, NEW c \in Caller, EndPropose(n, c) PROVE log' = log
        BY <4>3 DEF EndPropose
      <4> QED
        BY <2>6, <4>1, <4>2, <4>3, StepKinds
    <3> QED
      BY <2>3, <3>1, <3>2, <3>3
  <2> QED
    BY <2>5, <2>6
<1> QED
  BY <1>4, <1>5 DEF MatchInv

\* Nodes that hold an entry of one term at one index hold the same log up to it,
\* whatever is lost, late or interleaved, as long as each term has one proposer.
THEOREM LogsMatch ==
    ASSUME "UnsafeLogTruncation" \notin Bugs, "AcceptStaleLeader" \notin Bugs
    PROVE  Spec => []LogMatching
<1>1. Init => MatchInv
  <2> SUFFICES ASSUME Init PROVE MatchInv
    OBVIOUS
  <2>1. \A th \in Thread : task[th] = Idle
    BY DEF Init
  <2>2. \A m : Sent(m) => m.entries = <<>>
    BY <2>1 DEF Init, Sent, Idle, NoRequest
  <2>3. \A n \in Node : log[n] = <<>>
    BY DEF Init
  <2> QED
    BY <2>2, <2>3 DEF MatchInv, AllProposed, Agree, Follows, SamePrev
<1>2. TypeOK /\ TypeOK' /\ LogInv /\ ProposalInv /\ MatchInv /\ [Next]_vars => MatchInv'
  BY StepMatches
<1>3. MatchInv => LogMatching
  BY DEF MatchInv, LogMatching, Agree
<1> QED
  BY <1>1, <1>2, <1>3, TypeCorrect, LogsInvariant, ProposalsInvariant, PTL DEF Spec
=============================================================================
