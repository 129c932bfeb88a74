---------------------------- MODULE MCSubBoard ----------------------------
(* TLC instances of SubBoard. *)
EXTENDS SubBoard

\* Instances are interchangeable, and so are messages.
Symmetry == Permutations(Nodes) \union Permutations(Messages)

\* No post on the board is marked as not to be deleted.
Unmarked == \A i \in Slots : recs[i] # NoRecord => ~recs[i].no_delete
=============================================================================
