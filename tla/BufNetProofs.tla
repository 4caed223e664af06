---------------------------- MODULE BufNetProofs ----------------------------
(***************************************************************************)
(* Proofs about BufNet, for every cluster, every set of loops, every choice*)
(* of fault hooks and every number of dials.                               *)
(***************************************************************************)
EXTENDS BufNet, TLAPS

\* The life of a cluster: what the table, the listeners, the goroutines and the
\* P are like while the goroutine of the scenario is at each of its calls.
Phases ==
    /\ test = "listen" => /\ \A c \in Loop : loop[c].at = "unborn"
                          /\ \A n \in Node : serve[n] = "unborn"
    /\ test \in {"start", "scenario"} => entries = Node
    /\ test \in {"listen", "start", "scenario"} => ~isClosing /\ open = entries
    /\ test \in {"closing", "cancel", "over"} => isClosing
    /\ test = "closing" => open = items
    /\ test \in {"cancel", "over"} => open = {}
    /\ test = "over" => done
    /\ ~preemptive /\ test \in {"closing", "cancel"} => cpu = Test

\* A dial that is on its way has a number.
Dialling == {"dialled", "connecting", "talking"}
Numbered == \A c \in Loop : loop[c].at \in Dialling => loop[c].seq > 0

IInv == TypeOK /\ Phases /\ Numbered

Where == [at : Places, to : Node, seq : 0..MaxDials]

-----------------------------------------------------------------------------

\* A loop that waits for its timer again is well formed.
LEMMA NowhereType ==
    ASSUME Loop # {}, NEW place \in Places
    PROVE  Nowhere(place) \in Where /\ Nowhere(place).at = place
<1>1. Node # {}
  BY NodesAssumption
<1>2. 0 \in 0..MaxDials
  BY DialAssumption
<1> QED
  BY <1>1, <1>2 DEF Nowhere, Where

\* The processor never goes by itself from the deferred calls to a goroutine of
\* the cluster.
LEMMA DeferredCallsKeepP ==
    ASSUME Phases, NEW g, g # Test, Runs(g), ~preemptive
    PROVE  test \notin {"closing", "cancel"}
  BY DEF Phases, Runs, CanRun, TestCanRun

\* The goroutine of the scenario takes the cluster from one phase to the next.
LEMMA TestStepInv ==
    ASSUME IInv, TestStep
    PROVE  IInv'
<1> USE DEF IInv
<1>1. loop \in [Loop -> Where] /\ serve \in [Node -> {"unborn", "accepting", "ended"}]
  BY DEF TypeOK, Where
<1>2. ASSUME NEW n \in Node, Listen(n) PROVE IInv'
  <2>1. TypeOK' /\ Numbered'
    BY <1>2 DEF TypeOK, Phases, Numbered, Listen, Runs
  <2>2. Phases'
    BY <1>2 DEF Phases, Listen, Runs
  <2> QED
    BY <2>1, <2>2
<1>3. ASSUME NEW n \in Node, Start(n) PROVE IInv'
  <2>1. \A c \in Loop : Nowhere("timer") \in Where /\ Nowhere("timer").at = "timer"
    BY NowhereType DEF Places
  <2>2. loop' \in [Loop -> Where] /\ Numbered'
    BY <1>1, <1>3, <2>1 DEF Start, Numbered, Dialling
  <2>3. serve' \in [Node -> {"unborn", "accepting", "ended"}]
    BY <1>1, <1>3 DEF Start
  <2>4. TypeOK'
    BY <1>3, <2>2, <2>3 DEF TypeOK, Where, Start, Runs, net
  <2>5. Phases'
    BY <1>3 DEF Phases, Start, Runs, net
  <2> QED
    BY <2>2, <2>4, <2>5
<1>4. CASE CloseTable
  <2>1. TypeOK' /\ Numbered'
    BY <1>4 DEF TypeOK, Phases, Numbered, CloseTable, Runs
  <2>2. Phases'
    BY <1>4 DEF Phases, CloseTable, Runs
  <2> QED
    BY <2>1, <2>2
<1>5. ASSUME NEW n \in Node, CloseListener(n) PROVE IInv'
  <2>1. TypeOK' /\ Numbered'
    BY <1>5 DEF TypeOK, Numbered, CloseListener, Runs
  <2>2. Phases'
    BY <1>5 DEF Phases, CloseListener, Runs
  <2> QED
    BY <2>1, <2>2
<1>6. CASE Cancel
  <2>1. TypeOK' /\ Numbered'
    BY <1>6 DEF TypeOK, Numbered, Cancel, Runs, net
  <2>2. Phases'
    BY <1>6 DEF Phases, Cancel, Runs, net
  <2> QED
    BY <2>1, <2>2
<1> QED
  BY <1>2, <1>3, <1>4, <1>5, <1>6 DEF TestStep

\* A loop or a handler that runs and leaves the table, the listeners and the
\* servers alone keeps the phase, provided that the loops had been started.
LEMMA PhaseKept ==
    ASSUME Phases, test # "listen", NEW g, g # Test, Runs(g),
           UNCHANGED <<entries, isClosing, open, items, test, done, serve>>
    PROVE  Phases'
  BY DeferredCallsKeepP DEF Phases, Runs

\* A loop that goes to a legal place keeps the invariant.
LEMMA GoesInv ==
    ASSUME IInv, NEW c \in Loop, loop[c].at # "unborn", NEW g, g # Test, Runs(g),
           NEW w \in Where, w.at \in Dialling => w.seq > 0,
           Goes(c, w), serving' \subseteq 1..MaxDials
    PROVE  IInv'
<1>1. loop \in [Loop -> Where]
  BY DEF IInv, TypeOK, Where
<1>2. loop' \in [Loop -> Where] /\ Numbered'
  BY <1>1 DEF IInv, Numbered, Goes
<1>3. TypeOK'
  BY <1>2 DEF IInv, TypeOK, Where, Goes, net, Runs
<1>4. test # "listen"
  BY DEF IInv, Phases
<1>5. Phases'
  BY <1>4, PhaseKept DEF IInv, Goes, net
<1> QED
  BY <1>2, <1>3, <1>5 DEF IInv

\* The steps of a loop, one by one.
LEMMA LoopStepInv ==
    ASSUME IInv, NEW c \in Loop, LoopStep(c)
    PROVE  IInv'
<1>1. /\ loop \in [Loop -> Where] /\ loop[c] \in Where
      /\ loop[c].at \in Dialling => loop[c].seq > 0
      /\ serving \subseteq 1..MaxDials
  BY DEF IInv, TypeOK, Where, Numbered
<1>2. /\ Nowhere("timer") \in Where /\ Nowhere("timer").at = "timer"
      /\ Nowhere("ended") \in Where /\ Nowhere("ended").at = "ended"
  BY NowhereType DEF Places
<1>3. Client(c) # Test /\ \A n \in Node : Server(n) # Test
  BY DEF Client, Server, Test
<1>4. CASE DialFails(c)
  BY <1>1, <1>2, <1>3, <1>4, GoesInv DEF DialFails, Dialling
<1>5. CASE DialGoesOn(c)
  <2> DEFINE w == [loop[c] EXCEPT !.at = "connecting"]
  <2>1. w \in Where /\ w.seq = loop[c].seq /\ w.seq > 0
    BY <1>1, <1>5 DEF Where, Places, DialGoesOn, Dialling
  <2>2. Goes(c, w) /\ UNCHANGED serving /\ Runs(Client(c)) /\ loop[c].at = "dialled"
    BY <1>5 DEF DialGoesOn
  <2> HIDE DEF w
  <2> QED
    BY <1>1, <1>3, <2>1, <2>2, GoesInv
<1>6. CASE Connect(c)
  <2> DEFINE w == [loop[c] EXCEPT !.at = "talking"]
  <2>1. w \in Where /\ w.seq = loop[c].seq /\ w.seq > 0
    BY <1>1, <1>6 DEF Where, Places, Connect, Dialling
  <2>2. /\ Goes(c, w) /\ serving' = serving \union {loop[c].seq}
        /\ loop[c].at = "connecting"
        /\ Runs(Client(c)) \/ Runs(Server(loop[c].to))
    BY <1>6 DEF Connect
  <2>3. serving' \subseteq 1..MaxDials
    BY <1>1, <2>1, <2>2, DialAssumption DEF Where
  <2>4. loop[c].to \in Node
    BY <1>1 DEF Where
  <2> HIDE DEF w
  <2> QED
    BY <1>1, <1>3, <2>1, <2>2, <2>3, <2>4, GoesInv
<1>7. CASE ConnectFails(c)
  BY <1>1, <1>2, <1>3, <1>7, GoesInv DEF ConnectFails, Dialling
<1>8. CASE Deadline(c)
  BY <1>1, <1>2, <1>3, <1>8, GoesInv DEF Deadline, Dialling
<1>9. CASE EndLoop(c)
  BY <1>1, <1>2, <1>3, <1>9, GoesInv DEF EndLoop, Dialling
<1> QED
  BY <1>4, <1>5, <1>6, <1>7, <1>8, <1>9 DEF LoopStep

\* resolveDial numbers the dial.
LEMMA ResolveDialInv ==
    ASSUME IInv, NEW c \in Loop, NEW n \in Node, ResolveDial(c, n)
    PROVE  IInv'
<1> DEFINE w == [at |-> "dialled", to |-> n, seq |-> nextDial + 1]
<1>1. nextDial + 1 \in 1..MaxDials /\ nextDial' = nextDial + 1 /\ nextDial' \in 0..MaxDials
  BY DialAssumption DEF IInv, TypeOK, ResolveDial
<1>2. w \in Where /\ w.seq > 0
  BY <1>1 DEF Where, Places
<1>3. loop' = [loop EXCEPT ![c] = w]
  BY <1>1 DEF ResolveDial
<1>4. loop' \in [Loop -> Where] /\ Numbered'
  BY <1>2, <1>3 DEF IInv, TypeOK, Where, Numbered
<1>5. TypeOK'
  BY <1>1, <1>4 DEF IInv, TypeOK, Where, ResolveDial, Runs
<1>6. Client(c) # Test /\ test # "listen"
  BY DEF Client, Test, IInv, Phases, ResolveDial
<1>7. Phases'
  BY <1>6, PhaseKept DEF IInv, ResolveDial
<1> QED
  BY <1>4, <1>5, <1>7 DEF IInv

\* A handler that ends lets its caller go on.
LEMMA HandleConnInv ==
    ASSUME IInv, NEW s \in serving, HandleConn(s)
    PROVE  IInv'
<1>1. loop \in [Loop -> Where]
  BY DEF IInv, TypeOK, Where
<1>2. \A c \in Loop : Nowhere("timer") \in Where /\ Nowhere("timer").at = "timer"
  BY NowhereType DEF Places
<1>3. \A c \in Loop : loop'[c] = IF loop[c].at = "talking" /\ loop[c].seq = s
                                 THEN Nowhere("timer") ELSE loop[c]
  BY DEF HandleConn
<1>4. loop' \in [Loop -> Where]
  BY <1>1, <1>2 DEF HandleConn
<1>5. Numbered'
  BY <1>2, <1>3 DEF IInv, Numbered, Dialling
<1>6. TypeOK'
  BY <1>4 DEF IInv, TypeOK, Where, HandleConn, net, Runs
<1>7. CASE test = "listen"
  <2>1. \A c \in Loop : loop'[c].at = "unborn"
    BY <1>3, <1>7 DEF IInv, Phases
  <2> QED
    BY <1>5, <1>6, <1>7, <2>1 DEF IInv, Phases, HandleConn, net
<1>8. CASE test # "listen"
  <2>1. Handler(s) # Test
    BY DEF Handler, Test
  <2>2. Phases'
    BY <1>8, <2>1, PhaseKept DEF IInv, HandleConn, net
  <2> QED
    BY <1>5, <1>6, <2>2 DEF IInv
<1> QED
  BY <1>7, <1>8

\* A server whose listener is closed.
LEMMA AcceptFailsInv ==
    ASSUME IInv, NEW n \in Node, AcceptFails(n)
    PROVE  IInv'
<1>1. serve \in [Node -> {"unborn", "accepting", "ended"}]
  BY DEF IInv, TypeOK
<1>2. serve' \in [Node -> {"unborn", "accepting", "ended"}]
  BY <1>1 DEF AcceptFails
<1>3. TypeOK' /\ Numbered'
  BY <1>2 DEF IInv, TypeOK, Numbered, AcceptFails, net, Runs
<1>4. Server(n) # Test /\ test # "listen"
  BY DEF Server, Test, IInv, Phases, AcceptFails
<1>5. Phases'
  BY <1>4, DeferredCallsKeepP DEF IInv, Phases, AcceptFails, net, Runs
<1> QED
  BY <1>3, <1>5 DEF IInv

\* The inductive invariant.
LEMMA Inductive == Spec => []IInv
<1>1. Init => IInv
  <2> SUFFICES ASSUME Init PROVE IInv
    OBVIOUS
  <2>1. \A c \in Loop : Nowhere("unborn") \in Where /\ Nowhere("unborn").at = "unborn"
    BY NowhereType DEF Places
  <2>2. loop \in [Loop -> Where] /\ \A c \in Loop : loop[c].at = "unborn"
    BY <2>1 DEF Init
  <2>3. serve \in [Node -> {"unborn", "accepting", "ended"}] /\ 0 \in 0..MaxDials
    BY DialAssumption DEF Init
  <2>4. {isClosing, done, preemptive} \subseteq BOOLEAN
    BY DEF Init
  <2>5. TypeOK
    BY <2>2, <2>3, <2>4 DEF Init, TypeOK, Where
  <2>6. Phases /\ Numbered
    BY <2>2 DEF Init, Phases, Numbered, Dialling
  <2> QED
    BY <2>5, <2>6 DEF IInv
<1>2. IInv /\ [Next]_vars => IInv'
  <2> SUFFICES ASSUME IInv, [Next]_vars PROVE IInv'
    OBVIOUS
  <2>1. CASE UNCHANGED vars
    BY <2>1 DEF vars, net, IInv, TypeOK, Phases, Numbered
  <2>2. CASE Next
    BY <2>2, TestStepInv, LoopStepInv, ResolveDialInv, HandleConnInv, AcceptFailsInv DEF Next
  <2> QED
    BY <2>1, <2>2
<1> QED
  BY <1>1, <1>2, PTL DEF Spec

\* The table, the listeners, the servers, the loops and the handlers hold what
\* bufnet.go and node.go can put there.
THEOREM TypeCorrect == Spec => []TypeOK
<1>1. IInv => TypeOK
  BY DEF IInv
<1> QED
  BY <1>1, Inductive, PTL

\* No dial of a cluster meets an unknown address: Cluster.Start starts no loop
\* before NewCluster has registered every address.
THEOREM EveryAddressKnown == Spec => []AddressesKnown
<1>1. IInv => AddressesKnown
  BY DEF IInv, TypeOK, Phases, AddressesKnown
<1> QED
  BY <1>1, Inductive, PTL

\* No connection comes about once Close has returned: it has closed all the
\* listeners that the table held, and no listener was opened meanwhile.
THEOREM ClosedForGood == Spec => NoLateConnection
<1> DEFINE Quiet == \A c \in Loop :
              test \in {"cancel", "over"} /\ loop[c].at # "talking" => loop'[c].at # "talking"
<1>1. IInv /\ [Next]_vars => [Quiet]_vars
  <2> SUFFICES ASSUME IInv, [Next]_vars, NEW c \in Loop,
                      test \in {"cancel", "over"}, loop[c].at # "talking"
               PROVE  loop'[c].at # "talking"
    OBVIOUS
  <2>1. /\ open = {} /\ loop \in [Loop -> Where]
        /\ \A p \in Places : Nowhere(p).at = p
    BY NowhereType DEF IInv, TypeOK, Phases, Where
  <2>2. CASE UNCHANGED vars
    BY <2>2 DEF vars
  <2>3. CASE TestStep
    BY <2>3 DEF TestStep, Cancel, CloseTable, Listen, Start, CloseListener
  <2>4. ASSUME NEW d \in Loop, LoopStep(d) PROVE loop'[c].at # "talking"
    <3>1. ~Connect(d)
      BY <2>1 DEF Connect
    <3>2. CASE DialGoesOn(d)
      BY <2>1, <3>2 DEF DialGoesOn, Goes, Where
    <3>3. CASE DialFails(d) \/ ConnectFails(d) \/ Deadline(d) \/ EndLoop(d)
      BY <2>1, <3>3 DEF DialFails, ConnectFails, Deadline, EndLoop, Goes, Places
    <3> QED
      BY <2>4, <3>1, <3>2, <3>3 DEF LoopStep
  <2>5. ASSUME NEW d \in Loop, NEW n \in Node, ResolveDial(d, n) PROVE loop'[c].at # "talking"
    BY <2>1, <2>5 DEF ResolveDial
  <2>6. ASSUME NEW s \in serving, HandleConn(s) PROVE loop'[c].at # "talking"
    BY <2>1, <2>6 DEF HandleConn
  <2>7. ASSUME NEW n \in Node, AcceptFails(n) PROVE loop'[c].at # "talking"
    BY <2>7 DEF AcceptFails
  <2> QED
    BY <2>2, <2>3, <2>4, <2>5, <2>6, <2>7 DEF Next
<1> HIDE DEF Quiet
<1>2. Spec => [][Quiet]_vars
  BY <1>1, Inductive, PTL DEF Spec
<1> QED
  BY <1>2 DEF Quiet, NoLateConnection

\* With a cooperative scheduler no server ever spins with the P between Close
\* and cancel: the deferred calls of the scenario keep the P until the context
\* is done.
THEOREM ServersGiveWay == Spec => []NoSpinningServer
<1>1. Init => NoSpinningServer
  BY DEF Init, NoSpinningServer, Test, Server
<1>2. IInv /\ NoSpinningServer /\ [Next]_vars => NoSpinningServer'
  <2> SUFFICES ASSUME IInv, NoSpinningServer, [Next]_vars,
                      NEW n \in Node, ~preemptive', cpu' = Server(n)
               PROVE  n \in open' \/ done'
    BY DEF NoSpinningServer
  <2>1. CASE UNCHANGED vars
    BY <2>1 DEF vars, net, NoSpinningServer
  <2>2. CASE TestStep
    <3>1. Runs(Test)
      BY <2>2 DEF TestStep, Cancel, CloseTable, Listen, Start, CloseListener
    <3> QED
      BY <3>1 DEF Runs, Test, Server
  <2>3. ASSUME NEW c \in Loop, LoopStep(c) PROVE n \in open' \/ done'
    <3>1. CASE Connect(c)
      <4>1. Runs(Server(loop[c].to)) /\ UNCHANGED open /\ loop[c].to \in open
        BY <3>1 DEF Connect, Goes, net, Runs, Client, Server
      <4> QED
        BY <4>1 DEF Runs, Server
    <3>2. CASE ~Connect(c)
      <4>1. Runs(Client(c))
        BY <2>3, <3>2 DEF LoopStep, DialFails, DialGoesOn, ConnectFails, Deadline, EndLoop
      <4> QED
        BY <4>1 DEF Runs, Client, Server
    <3> QED
      BY <3>1, <3>2
  <2>4. ASSUME NEW c \in Loop, NEW m \in Node, ResolveDial(c, m) PROVE n \in open' \/ done'
    BY <2>4 DEF ResolveDial, Runs, Client, Server
  <2>5. ASSUME NEW s \in serving, HandleConn(s) PROVE n \in open' \/ done'
    BY <2>5 DEF HandleConn, Runs, Handler, Server
  <2>6. ASSUME NEW m \in Node, AcceptFails(m) PROVE n \in open' \/ done'
    <3>1. Runs(Server(m)) /\ m \notin open /\ m \in Node /\ serve[m] = "accepting" /\ UNCHANGED done
      BY <2>6 DEF AcceptFails
    <3>2. ~preemptive /\ Server(m) # Test
      BY <3>1 DEF Runs, Server, Test
    <3>3. test \notin {"closing", "cancel"}
      BY <3>1, <3>2, DeferredCallsKeepP DEF IInv
    <3> QED
      BY <3>1, <3>3 DEF IInv, TypeOK, Phases
  <2> QED
    BY <2>1, <2>2, <2>3, <2>4, <2>5, <2>6 DEF Next
<1> QED
  BY <1>1, <1>2, Inductive, PTL DEF Spec
=============================================================================
