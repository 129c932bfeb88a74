------------------------------- MODULE MCMail -------------------------------
(* TLC instances of Mail. *)
EXTENDS Mail, TLC

CONSTANTS n1, n2, u1, u2

\* Letters to one user, and to both.
SomeMailings == {[to |-> <<u2>>, multi |-> FALSE], [to |-> <<u1, u2>>, multi |-> TRUE]}

\* Messages and the places of texts are interchangeable.
Symmetry == Permutations(Messages) \union Permutations(Places)

\* What happens after a place behind the end was written to is not looked at.
InBounds == ~astray
=============================================================================
