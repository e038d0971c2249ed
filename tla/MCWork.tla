------------------------------- MODULE MCWork -------------------------------
(***************************************************************************)
(* A small instance of each part of what a worker does.                    *)
(***************************************************************************)
EXTENDS Work, TLC

CONSTANTS operator, strategist

\* A text that quotes a whole number of its own: InOnes(0) of Checks, a whole being 500.
ZeroMentioned == {[of |-> 500, count |-> 0]}

SameSellers == Permutations({operator, strategist})

ASSUME WorkAssumption
=============================================================================
