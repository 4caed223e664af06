------------------------------ MODULE RaftProps ------------------------------
(***************************************************************************)
(* What the nodes of RaftNode keep true, and what the repository says they *)
(* keep true but they do not.                                              *)
(***************************************************************************)
EXTENDS RaftNode

-----------------------------------------------------------------------------
\* Types.

\* A goroutine outside its loop carries nothing over, every request and answer
\* names its sender, and a proposal is of one entry.
TasksOK ==
    /\ \A th \in Thread :
        /\ ~task[th].active => task[th] = Idle
        /\ task[th].active => task[th].req.from \in Node
        /\ task[th].reply # NoReply => task[th].reply.from \in Node
        /\ th \in Proposals /\ task[th].active => Len(task[th].req.entries) = 1
    /\ \A m \in late : m.req.from \in Node

FieldsOK ==
    /\ role \in [Node -> Role]
    /\ term \in [Node -> Term]
    /\ votedFor \in [Node -> Node \union {NoNode}]
    /\ leaderID \in [Node -> Node \union {NoNode}]
    /\ log \in [Node -> Seq(Entry)]
    /\ commitIndex \in [Node -> Nat]
    /\ grants \subseteq Node \X Term \X Node
    /\ won \subseteq Node \X Term
    /\ made \subseteq Node \X Entry
    /\ cleared \subseteq Node \X Term
    /\ held \subseteq Node \X Entry

\* The fields of every node, every goroutine's RPC loop and the history hold
\* values of the kinds node.go declares.
TypeOK ==
    /\ FieldsOK
    /\ task \in [Thread -> Task]
    /\ late \subseteq Envelope
    /\ TasksOK

-----------------------------------------------------------------------------
\* Elections.

\* Two nodes win the same term (two "leader_elected" events) only if some node
\* voted for both, after an AppendEntries of that very term had erased its
\* first vote (handleAppendEntries resets votedFor when req.Term >= n.term).
\* Whatever the flags, lost or late requests and interleaved rounds do, nothing
\* else elects two leaders in a term.
OneWinnerUnlessCleared ==
    \A w1, w2 \in won :
        w1[2] = w2[2] /\ w1[1] # w2[1] =>
            \E v \in Node : /\ <<v, w1[2]>> \in cleared
                            /\ <<v, w1[2], w1[1]>> \in grants
                            /\ <<v, w1[2], w2[1]>> \in grants

\* Why it holds. A grant is of a term its voter has reached; the vote of the
\* voter's current term is still in votedFor, or was erased; two grants of a
\* voter in a term take an erasure; a round counts only granted votes; and who
\* has won a term was granted a majority of votes in it.
GrantsReached == \A g \in grants : g[2] <= term[g[1]]
VoteKept ==
    \A g \in grants : g[2] = term[g[1]] =>
        votedFor[g[1]] = g[3] \/ <<g[1], g[2]>> \in cleared
GrantedOnce ==
    \A g, h \in grants : g[1] = h[1] /\ g[2] = h[2] /\ g[3] # h[3] =>
        <<g[1], g[2]>> \in cleared
RoundHonest ==
    \A n \in Node : LET k == task[Round(n)] IN
        /\ k.active => k.req.type = "vote" /\ k.req.from = n
        /\ \A v \in k.yes : <<v, k.req.term, n>> \in grants
        /\ k.reply.success => <<k.reply.from, k.req.term, n>> \in grants
WonByMajority ==
    \A w \in won : IsMajority({v \in Node : <<v, w[2], w[1]>> \in grants})

\* The inductive invariant behind OneWinnerUnlessCleared: votedFor, the votes a
\* round has counted and the votes on record fit together at every moment
\* between two critical sections.
VotesAccounted ==
    /\ GrantsReached /\ VoteKept /\ GrantedOnce
    /\ RoundHonest /\ WonByMajority

\* A vote that a node remembers is one it cast, in its current term.
VoteRemembered ==
    \A n \in Node : votedFor[n] # NoNode => <<n, term[n], votedFor[n]>> \in grants

\* Handlers and loops, seen through the votes and victories of the event log,
\* behave like Elections: no node votes in a term it has left or twice in one,
\* unless an AppendEntries erased the vote, and nobody wins without a majority of
\* votes cast for it - whatever is lost, late or interleaved.
E == INSTANCE Elections WITH votes <- grants, winners <- won,
                             Quorum <- {S \in SUBSET Node : IsMajority(S)}
ImplementsElections == E!Spec

\* The leader a node names (Snapshot, "not leader (leader=...)") has won an
\* election, in a term the node has reached.
LeaderHint ==
    \A n \in Node : leaderID[n] # NoNode =>
        \E t \in 1..term[n] : <<leaderID[n], t>> \in won

\* A leader whose heartbeat loop for its current term is gone neither sends
\* heartbeats nor starts elections. runElectionRound can make such a leader,
\* because it does not look at n.term again before it sets RoleLeader; but never
\* of every node at once, as long as no test raises terms: one of the nodes
\* either beats or still runs election timers.
Stuck(n) == role[n] = "leader" /\ ~task[Beat(n, term[n])].active
NotAllStuck == BumpTerms = {} => \E n \in Node : ~Stuck(n)

\* No critical section lowers a node's term, in particular not a handler that
\* works on a request read from an old connection.
TermMonotone == [][\A n \in Node : term'[n] >= term[n]]_vars

-----------------------------------------------------------------------------
\* Logs.

\* The oracle's "valid/contiguous logs": entry i has index i, and terms are
\* positive, do not decrease and are none the node has not reached. Truncation,
\* gaps and proposals of a leader that has moved to another term keep it.
LogShape ==
    \A n \in Node : \A i \in DOMAIN log[n] :
        /\ log[n][i].index = i
        /\ log[n][i].term \in 1..term[n]
        /\ i > 1 => log[n][i - 1].term <= log[n][i].term

\* Nodes that hold an entry of the same term at the same index hold the same
\* log up to it, provided that no two nodes proposed in one term (which two
\* leaders of a term, or a leader that slipped into another's term, would do).
SoleProposers ==
    \A p, q \in made : p[2].term = q[2].term => p[1] = q[1]
LogMatching ==
    SoleProposers =>
        \A m, n \in Node : \A i \in DOMAIN log[m] \intersect DOMAIN log[n] :
            log[m][i].term = log[n][i].term =>
                \A j \in 1..i : log[m][j] = log[n][j]

\* A commit index is never an invention: a proposal with at least that index
\* has been in the logs of a majority. It covers the follower's
\* min(LeaderCommit, len(log)) and acknowledgements counted by a leader that
\* has lost its role meanwhile.
CommitBacked ==
    \A n \in Node : commitIndex[n] > 0 =>
        \E p \in made : /\ p[2].index >= commitIndex[n]
                        /\ IsMajority({m \in Node : <<m, p[2]>> \in held})

\* While a node leads in a term its log only grows: a node that accepts
\* another's entries has given up its role in the same critical section.
LeaderAppendOnly ==
    [][\A n \in Node :
          role[n] = "leader" /\ role'[n] = "leader" /\ term'[n] = term[n] =>
              /\ Len(log'[n]) >= Len(log[n])
              /\ \A i \in DOMAIN log[n] : log'[n][i] = log[n][i]]_vars

\* What a leader has proposed in its current term is in its log, at its index.
\* A round of an older term may make a node leader of the term it has reached
\* meanwhile, next to the one who won that term; no append of such a rival, nor
\* one of an earlier term, lets a leader give an index to two entries of a term.
LeaderKeepsProposals ==
    \A n \in Node : role[n] = "leader" =>
        \A p \in made : p[1] = n /\ p[2].term = term[n] =>
            p[2].index \in DOMAIN log[n] /\ log[n][p[2].index] = p[2]

-----------------------------------------------------------------------------
\* Progress.

\* A heartbeat loop whose node has moved to another term ends: a deposed leader
\* does not beat for ever next to its successor.
OutdatedBeatEnds ==
    \A n \in Node, t \in Term :
        task[Beat(n, t)].active /\ term[n] # t ~> ~task[Beat(n, t)].active

\* An election round and a proposal end, whatever the answers, losses and
\* late requests: electionLoop is not stuck in a round, nor a caller in Propose.
LoopsEnd ==
    \A th \in Rounds \union Proposals : task[th].active ~> ~task[th].active

-----------------------------------------------------------------------------
\* What the repository says of a cluster without injected bugs, and the code
\* does not keep.

\* demos/raftsim/README.md: "single leader per term".
SingleLeaderPerTerm ==
    \A w1, w2 \in won : w1[2] = w2[2] => w1[1] = w2[1]

\* demos/raftsim/README.md: "committed-entry consistency".
CommittedEntriesAgree ==
    \A m, n \in Node : \A i \in DOMAIN log[m] \intersect DOMAIN log[n] :
        i <= commitIndex[m] /\ i <= commitIndex[n] => log[m][i] = log[n][i]

\* The oracle looks up a.Log[idx-1] for every idx up to a.CommitIndex
\* (scenarios.go): a committed index must be one of the log.
CommitIndexInLog == \A n \in Node : commitIndex[n] <= Len(log[n])

\* demos/raftsim/patch-series/stages.tsv: "Force leaders/candidates to step down
\* when observing higher-term responses": a round that is handed an answer of a
\* higher term does not elect its node.
HigherTermEndsRound ==
    \A n \in Node, t \in Term :
        [](/\ task[Round(n)].active /\ task[Round(n)].req.term = t
           /\ task[Round(n)].reply.term > t
           => [](<<n, t>> \notin won))

=============================================================================
