------------------------------ MODULE Mailbox ------------------------------
(***************************************************************************)
(* What the messages between instances promise.  A message that was sent   *)
(* is shown once, on the instance it was sent to and while somebody is on  *)
(* line there, or is thrown away once, and only while nobody is who could  *)
(* see it.  A message that shuts an instance down is obeyed once; what was *)
(* thrown away with it, nobody could have seen any more.                   *)
(***************************************************************************)
EXTENDS FiniteSets

CONSTANTS Nodes, Nobody, Messages, Shutdowns

VARIABLES
    fate,       \* message -> "new", "sent", "shown", "obeyed" or "gone"
    to,         \* message -> the instance it was sent to
    live        \* the instances with a user on line who has not hung up

vars == <<fate, to, live>>

Init == /\ fate = [m \in Messages |-> "new"]
        /\ to = [m \in Messages |-> Nobody]
        /\ live = {}

Send(m) == /\ fate[m] = "new"
           /\ fate' = [fate EXCEPT ![m] = "sent"]
           /\ \E n \in Nodes : to' = [to EXCEPT ![m] = n]
           /\ UNCHANGED live

Show(m) == /\ fate[m] = "sent" /\ to[m] \in live /\ m \notin Shutdowns
           /\ fate' = [fate EXCEPT ![m] = "shown"]
           /\ UNCHANGED <<to, live>>

Discard(m) == /\ fate[m] = "sent" /\ to[m] \notin live
              /\ fate' = [fate EXCEPT ![m] = "gone"]
              /\ UNCHANGED <<to, live>>

\* S is what was to be shown after m.
Obey(m, S) == /\ m \in Shutdowns /\ fate[m] = "sent"
              /\ \A k \in S : fate[k] = "sent" /\ to[k] = to[m]
              /\ fate' = [k \in Messages |-> IF k = m THEN "obeyed"
                                             ELSE IF k \in S THEN "gone" ELSE fate[k]]
              /\ live' = live \ {to[m]}
              /\ UNCHANGED to

\* Users come and go.
Move == /\ live' \in SUBSET Nodes
        /\ UNCHANGED <<fate, to>>

Next == \/ Move
        \/ \E m \in Messages : \/ Send(m) \/ Show(m) \/ Discard(m)
                               \/ \E S \in SUBSET (Messages \ {m}) : Obey(m, S)

Spec == Init /\ [][Next]_vars
=============================================================================
