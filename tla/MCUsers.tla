------------------------------ MODULE MCUsers ------------------------------
(* TLC instances of Users. *)
EXTENDS UserLookup, TLC

CONSTANTS n1, n2

\* Instances are interchangeable.
Symmetry == Permutations(Nodes)

\* At most MaxDeleted users are deleted at a time.
MaxDeleted == 1

CarefulFew == Careful /\ Cardinality(Deleted) <= MaxDeleted
=============================================================================
