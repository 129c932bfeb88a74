----------------------------- MODULE Directory -----------------------------
(***************************************************************************)
(* What the users of a board are promised by its index of names: a number  *)
(* is one user's, a name is one user's, and a user keeps both until he is  *)
(* deleted or renamed, whatever happens to others.                         *)
(***************************************************************************)

CONSTANTS Numbers, Names

VARIABLE members    \* who has which number

Member(s, k) == [name |-> s, number |-> k]

Init == \E s \in Names, k \in Numbers : members = {Member(s, k)}

Nameless(s) == \A m \in members : m.name # s
Vacant(k) == \A m \in members : m.number # k

\* A new user, or a deleted one who is restored.
Join(s, k) == /\ Nameless(s) /\ Vacant(k)
              /\ members' = members \union {Member(s, k)}

Leave(m) == members' = members \ {m}

Rename(m, s) == /\ Nameless(s)
                /\ members' = (members \ {m}) \union {Member(s, m.number)}

Next == \/ \E m \in members : Leave(m)
        \/ \E s \in Names : \/ \E k \in Numbers : Join(s, k)
                            \/ \E m \in members : Rename(m, s)

Spec == Init /\ [][Next]_members
=============================================================================
