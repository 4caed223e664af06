-------------------------------- MODULE BufNet --------------------------------
(***************************************************************************)
(* The in-memory transport of demos/raftsim (internal/transport/bufnet.go),*)
(* the goroutines of the nodes that use it (serveLoop, handleConn, the     *)
(* loops that send RPCs), and the life of a cluster: NewCluster, Start, a  *)
(* scenario, and its deferred Close and cancel.                            *)
(*                                                                         *)
(* The listeners are bufconn's: dialling blocks until the other side       *)
(* accepts, and a closed listener fails both sides with an error that is   *)
(* not net.ErrClosed.                                                      *)
(*                                                                         *)
(* Goroutines are scheduled in one of two ways. In a stock Go runtime any  *)
(* goroutine may run next. With detsched there is one P and nothing        *)
(* preempts: a goroutine that can go on keeps the P.                       *)
(***************************************************************************)
EXTENDS Naturals, FiniteSets

CONSTANTS
    Node,          \* the members; a node's address is "node://" and its ID
    Loop,          \* election and heartbeat loops
    Owner,         \* the node each loop belongs to
    DialFaults,    \* what FaultConfig's hooks do: drop dials, delay dials
    MaxDials       \* bound: dials that are resolved

ASSUME NodesAssumption == IsFiniteSet(Node) /\ Owner \in [Loop -> Node]
ASSUME DialAssumption == DialFaults \subseteq {"drop", "delay"} /\ MaxDials \in Nat

VARIABLES
    entries, isClosing, nextDial,    \* fields of BufNet
    open,          \* bufconn listeners that are not closed
    items,         \* listeners that Close has still to close
    test,          \* where the goroutine of the scenario is
    done,          \* the context of Start is cancelled
    serve,         \* where each node's serveLoop is
    loop,          \* where each RPC loop is, and the dial it waits for
    serving,       \* numbers of the dials whose handleConn runs
    preemptive,    \* how goroutines are scheduled, fixed for good
    cpu            \* without preemption: the goroutine that ran last

net == <<entries, isClosing, nextDial, open, items>>
vars == <<entries, isClosing, nextDial, open, items, test, done,
          serve, loop, serving, preemptive, cpu>>

Places == {"unborn", "timer", "dialled", "connecting", "talking", "ended"}
Nowhere(place) == [at |-> place, to |-> CHOOSE n \in Node : TRUE, seq |-> 0]

Test == <<"test", 0>>
Server(n) == <<"serve", n>>
Client(c) == <<"loop", c>>
Handler(s) == <<"handler", s>>

Init ==
    /\ entries = {} /\ isClosing = FALSE /\ nextDial = 0
    /\ open = {} /\ items = {}
    /\ test = "listen" /\ done = FALSE
    /\ serve = [n \in Node |-> "unborn"]
    /\ loop = [c \in Loop |-> Nowhere("unborn")]
    /\ serving = {}
    /\ preemptive \in BOOLEAN /\ cpu = Test

-----------------------------------------------------------------------------
\* Who runs.

\* Mutant: Close returns only when the handlers have drained.
MutTestCanRun ==
    test \in {"listen", "start", "closing"} \/ (test = "cancel" /\ serving = {})

\* The scenario waits now and then; set-up and the deferred calls do not.
TestCanRun == test \in {"listen", "start", "closing", "cancel"}

ServeCanRun(n) ==
    /\ serve[n] = "accepting"
    /\ n \notin open \/ \E c \in Loop : loop[c].at = "connecting" /\ loop[c].to = n

LoopCanRun(c) ==
    \/ loop[c].at = "timer" /\ done
    \/ loop[c].at = "dialled" /\ "delay" \notin DialFaults
    \/ /\ loop[c].at = "connecting"
       /\ done \/ loop[c].to \notin open \/ serve[loop[c].to] = "accepting"

CanRun(g) ==
    \/ g = Test /\ TestCanRun
    \/ \E n \in Node : g = Server(n) /\ ServeCanRun(n)
    \/ \E c \in Loop : g = Client(c) /\ LoopCanRun(c)
    \/ \E s \in serving : g = Handler(s)

Runs(g) ==
    /\ preemptive \/ cpu = g \/ ~CanRun(cpu)
    /\ cpu' = IF preemptive THEN cpu ELSE g
    /\ UNCHANGED preemptive

-----------------------------------------------------------------------------
\* The goroutine of the scenario.

\* NewCluster registers every address, ...
Listen(n) ==
    /\ test = "listen" /\ Runs(Test)
    /\ ~isClosing /\ n \notin entries
    /\ entries' = entries \union {n}
    /\ open' = open \union {n}
    /\ test' = IF entries' = Node THEN "start" ELSE test
    /\ UNCHANGED <<isClosing, nextDial, items, done, serve, loop, serving>>

\* Mutant: a node starts as soon as it has its own listener.
MutStart(n) ==
    /\ test \in {"listen", "start"} /\ Runs(Test)
    /\ serve[n] = "unborn" /\ n \in entries
    /\ serve' = [serve EXCEPT ![n] = "accepting"]
    /\ loop' = [c \in Loop |-> IF Owner[c] = n THEN Nowhere("timer") ELSE loop[c]]
    /\ test' = IF \A m \in Node : serve'[m] = "accepting" THEN "scenario" ELSE test
    /\ UNCHANGED <<net, done, serving>>

\* ... Cluster.Start starts the loops of one node after another, ...
Start(n) ==
    /\ test = "start" /\ Runs(Test)
    /\ serve[n] = "unborn"
    /\ serve' = [serve EXCEPT ![n] = "accepting"]
    /\ loop' = [c \in Loop |-> IF Owner[c] = n THEN Nowhere("timer") ELSE loop[c]]
    /\ test' = IF \A m \in Node : serve'[m] = "accepting" THEN "scenario" ELSE test
    /\ UNCHANGED <<net, done, serving>>

\* Mutant: the table is emptied before its entries are collected.
MutCloseTable ==
    /\ test = "scenario" /\ Runs(Test)
    /\ isClosing' = TRUE
    /\ items' = {}
    /\ entries' = {}
    /\ test' = "cancel"
    /\ UNCHANGED <<nextDial, open, done, serve, loop, serving>>

\* ... and the scenario's deferred calls run in reverse order: Close empties the
\* table under the mutex, ...
CloseTable ==
    /\ test = "scenario" /\ Runs(Test)
    /\ isClosing' = TRUE
    /\ items' = entries
    /\ entries' = {}
    /\ test' = "closing"
    /\ UNCHANGED <<nextDial, open, done, serve, loop, serving>>

\* ... closes the listeners one by one without it, ...
CloseListener(n) ==
    /\ test = "closing" /\ Runs(Test)
    /\ n \in items
    /\ items' = items \ {n}
    /\ open' = open \ {n}
    /\ test' = IF items' = {} THEN "cancel" ELSE test
    /\ UNCHANGED <<entries, isClosing, nextDial, done, serve, loop, serving>>

\* ... and cancel ends the context.
Cancel ==
    /\ test = "cancel" /\ Runs(Test)
    /\ done' = TRUE
    /\ test' = "over"
    /\ UNCHANGED <<net, serve, loop, serving>>

TestStep == Cancel \/ CloseTable \/ \E n \in Node : Listen(n) \/ Start(n) \/ CloseListener(n)

-----------------------------------------------------------------------------
\* An RPC loop: between two RPCs it waits for its timer or the context.

Goes(c, where) ==
    /\ loop' = [loop EXCEPT ![c] = where]
    /\ UNCHANGED <<net, test, done, serve>>

\* Mutant: the number is taken before it is counted up.
MutResolveDial(c, n) ==
    /\ loop[c].at = "timer" /\ Runs(Client(c))
    /\ n # Owner[c]
    /\ ~isClosing /\ n \in entries
    /\ nextDial < MaxDials
    /\ nextDial' = nextDial + 1
    /\ loop' = [loop EXCEPT ![c] = [at |-> "dialled", to |-> n, seq |-> nextDial]]
    /\ UNCHANGED <<entries, isClosing, open, items, test, done, serve, serving>>

\* resolveDial. When it fails the loop goes on to its next peer or timer.
ResolveDial(c, n) ==
    /\ loop[c].at = "timer" /\ Runs(Client(c))
    /\ n # Owner[c]
    /\ ~isClosing /\ n \in entries
    /\ nextDial < MaxDials
    /\ nextDial' = nextDial + 1
    /\ loop' = [loop EXCEPT ![c] = [at |-> "dialled", to |-> n, seq |-> nextDial']]
    /\ UNCHANGED <<entries, isClosing, open, items, test, done, serve, serving>>

\* DropDial, or the context ends during DialDelay.
DialFails(c) ==
    /\ loop[c].at = "dialled" /\ Runs(Client(c))
    /\ "drop" \in DialFaults \/ ("delay" \in DialFaults /\ done)
    /\ Goes(c, Nowhere("timer")) /\ UNCHANGED serving

DialGoesOn(c) ==
    /\ loop[c].at = "dialled" /\ Runs(Client(c))
    /\ Goes(c, [loop[c] EXCEPT !.at = "connecting"]) /\ UNCHANGED serving

\* DialContext meets Accept, and serveLoop starts a handleConn.
Connect(c) ==
    LET n == loop[c].to
    IN /\ loop[c].at = "connecting"
       /\ n \in open /\ serve[n] = "accepting"
       /\ Runs(Client(c)) \/ Runs(Server(n))
       /\ serving' = serving \union {loop[c].seq}
       /\ Goes(c, [loop[c] EXCEPT !.at = "talking"])

ConnectFails(c) ==
    /\ loop[c].at = "connecting" /\ Runs(Client(c))
    /\ done \/ loop[c].to \notin open
    /\ Goes(c, Nowhere("timer")) /\ UNCHANGED serving

\* The deadline of the connection passes: the caller closes it.
Deadline(c) ==
    /\ loop[c].at = "talking" /\ Runs(Client(c))
    /\ Goes(c, Nowhere("timer")) /\ UNCHANGED serving

EndLoop(c) ==
    /\ loop[c].at = "timer" /\ done /\ Runs(Client(c))
    /\ Goes(c, Nowhere("ended")) /\ UNCHANGED serving

LoopStep(c) ==
    DialFails(c) \/ DialGoesOn(c) \/ Connect(c) \/ ConnectFails(c) \/ Deadline(c) \/ EndLoop(c)

-----------------------------------------------------------------------------
\* The servers.

\* handleConn answers, or fails because its caller has closed the connection.
HandleConn(s) ==
    /\ s \in serving /\ Runs(Handler(s))
    /\ serving' = serving \ {s}
    /\ loop' = [c \in Loop |-> IF loop[c].at = "talking" /\ loop[c].seq = s
                               THEN Nowhere("timer") ELSE loop[c]]
    /\ UNCHANGED <<net, test, done, serve>>

\* Mutant: the error alone decides.
MutAcceptFails(n) ==
    /\ serve[n] = "accepting" /\ n \notin open /\ Runs(Server(n))
    /\ UNCHANGED <<net, test, done, serve, loop, serving>>

\* Accept fails at once when the listener is closed: the loop ends if the
\* context is cancelled, else it records the error and tries again.
AcceptFails(n) ==
    /\ serve[n] = "accepting" /\ n \notin open /\ Runs(Server(n))
    /\ serve' = [serve EXCEPT ![n] = IF done THEN "ended" ELSE @]
    /\ UNCHANGED <<net, test, done, loop, serving>>

-----------------------------------------------------------------------------

Next ==
    \/ TestStep
    \/ \E c \in Loop : LoopStep(c) \/ \E n \in Node : ResolveDial(c, n)
    \/ \E s \in serving : HandleConn(s)
    \/ \E n \in Node : AcceptFails(n)

Spec == Init /\ [][Next]_vars

\* A goroutine that can go on does: every scenario returns by its timeout,
\* every connection has a deadline, a blocked select sees the context end.
Fairness ==
    /\ WF_vars(TestStep)
    /\ \A c \in Loop : WF_vars(LoopStep(c))
    /\ \A s \in 1..MaxDials : WF_vars(HandleConn(s))
    /\ \A n \in Node : WF_vars(AcceptFails(n))

FairSpec == Spec /\ Fairness

-----------------------------------------------------------------------------

\* The table, the listeners and the goroutines are where the code can put them.
TypeOK ==
    /\ entries \subseteq Node /\ open \subseteq Node /\ items \subseteq open
    /\ {isClosing, done, preemptive} \subseteq BOOLEAN
    /\ nextDial \in 0..MaxDials
    /\ test \in {"listen", "start", "scenario", "closing", "cancel", "over"}
    /\ serve \in [Node -> {"unborn", "accepting", "ended"}]
    /\ loop \in [Loop -> [at : Places, to : Node, seq : 0..MaxDials]]
    /\ serving \subseteq 1..MaxDials

\* No dial fails with "unknown address" (resolveDial): by the time the first
\* loop of the first node may dial, every member is in the table, until Close
\* makes every dial fail with "bufnet is closed" instead.
AddressesKnown ==
    (\E c \in Loop : loop[c].at # "unborn") /\ ~isClosing => entries = Node

\* Once Close has returned no connection comes about any more, although dials
\* that were resolved before it may still be on their way to a listener.
NoLateConnection ==
    [][\A c \in Loop : test \in {"cancel", "over"} /\ loop[c].at # "talking" =>
          loop'[c].at # "talking"]_vars

\* Between Close and cancel a serveLoop that runs would record errors and retry
\* without end, and with detsched nothing would take the P from it. It never
\* gets the P there: the deferred calls do not block in between.
NoSpinningServer ==
    \A n \in Node :
        ~preemptive /\ cpu = Server(n) => n \in open \/ done

\* Everything that NewCluster and Start began ends: a synctest bubble, which
\* waits for all its goroutines, is left.
EverythingEnds ==
    <>[](/\ test = "over" /\ serving = {}
         /\ \A n \in Node : serve[n] = "ended"
         /\ \A c \in Loop : loop[c].at = "ended")
=============================================================================
