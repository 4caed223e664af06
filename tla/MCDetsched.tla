----------------------------- MODULE MCDetsched -----------------------------
(***************************************************************************)
(* Instances of Detsched for TLC: two processes to compare, a seed of three  *)
(* bits converted to a word of five, and one argument of each kind of        *)
(* decision.                                                                 *)
(***************************************************************************)
EXTENDS Detsched, TLC

CONSTANTS p1, p2, s1, q1, m1, r1, r2

On(d, f, s, t) == [detsched |-> d, fuzz |-> f, seed |-> s, timer |-> t]

Off == On(FALSE, FALSE, 0, 1)

\* Each of the three ways to ask, the seeds at the edges of the width and one
\* beyond it.
Asking ==
    {On(TRUE, FALSE, 0, 1), On(FALSE, TRUE, 0, 1), On(FALSE, TRUE, 1, 0)}
    \union {On(FALSE, FALSE, s, 0) : s \in {-4, -1, 1, 3}}
    \union {On(TRUE, FALSE, 4, 0)}

\* One process at most does without the mode: two of them promise nothing.
Settings == {g \in [Proc -> Asking \union {Off}] : \E p \in Proc : g[p] # Off}

Twin == Permutations({p1, p2})
=============================================================================
