-------------------------------- MODULE GoSched --------------------------------
(***************************************************************************)
(* What a program relies on when its goroutines share one P: a goroutine   *)
(* waits, is runnable or runs, one runs at a time, it gives way by itself, *)
(* and the P does not stay idle while there is work. In which order the    *)
(* runnable goroutines get their turn is open; the run queues of RunQueue  *)
(* implement this contract whatever they shuffle.                          *)
(***************************************************************************)
CONSTANT G        \* goroutines

VARIABLE status   \* what each goroutine is doing

Status == {"waiting", "runnable", "running"}
Idle == \A g \in G : status[g] # "running"

Init == status = [g \in G |-> "waiting"]

Run(g) ==
    /\ Idle /\ status[g] = "runnable"
    /\ status' = [status EXCEPT ![g] = "running"]

Wake(g) ==
    /\ status[g] = "waiting"
    /\ status' = [status EXCEPT ![g] = "runnable"]

\* Nobody has anything to do until some events come in: one of the goroutines
\* that waited for them runs at once.
Poll ==
    /\ \A g \in G : status[g] = "waiting"
    /\ status' \in [G -> Status]
    /\ \E g \in G : /\ status'[g] = "running"
                    /\ \A h \in G \ {g} : status'[h] # "running"

\* The running goroutine blocks or yields.
GiveWay(g) ==
    /\ status[g] = "running"
    /\ \E s \in Status \ {"running"} : status' = [status EXCEPT ![g] = s]

Next ==
    \/ \E g \in G : Run(g) \/ Wake(g) \/ GiveWay(g)
    \/ Poll

\* Work does not wait for ever on an idle P.
WorkConserving == Idle /\ (\E g \in G : status[g] = "runnable") ~> ~Idle

Spec == Init /\ [][Next]_status /\ WorkConserving
=============================================================================
