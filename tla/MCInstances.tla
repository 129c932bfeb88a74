---------------------------- MODULE MCInstances ----------------------------
(* TLC instances of Instances. *)
EXTENDS Instances, TLC

CONSTANTS n1, n2

\* Messages that are shown are interchangeable.
Symmetry == Permutations(Messages \ Shutdowns)

\* Questions are asked and doors are run until the first message is sent.  From
\* then on only sysops log on, who are asked nothing, all messages go to n1, and
\* n2 logs on, is in menus where it cannot be told anything, logs off, or shuts
\* all instances down.
OneAfterTheOther ==
    \/ \A m \in Messages : to[m] = Nobody
    \/ /\ \A n \in Nodes : node[n].pc \notin {"name", "look", "check", "door"}
       /\ \A m \in Messages : to[m] \in {Nobody, n1}
       /\ ~dir[n2].avail /\ node[n2].pc \in {"logon", "menu", "all", "bye"}
       /\ node[n2].hangup => node[n2].pc = "bye"
=============================================================================
