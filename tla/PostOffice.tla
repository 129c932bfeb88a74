----------------------------- MODULE PostOffice -----------------------------
(***************************************************************************)
(* What e-mail promises its users.  A letter comes into the boxes of those *)
(* it was sent to, once and with the text that was written; there it stays *)
(* as it is, whatever happens to other letters, until somebody removes it. *)
(* It comes back neither in that box nor in another.                       *)
(***************************************************************************)
EXTENDS Naturals

CONSTANTS Users, Messages

VARIABLES
    box,        \* user -> the letters in his box
    daten       \* the time of the last letter

vars == <<box, daten>>

Init == box = [u \in Users |-> {}] /\ daten = 0

\* A letter is sent to the users of one list.
Deliver(fromuser, m, list) ==
    LET l == [fromuser |-> fromuser, daten |-> daten + 1, text |-> m]
    IN  /\ daten' = daten + 1
        /\ box' = [u \in Users |-> IF u \in list THEN box[u] \union {l} ELSE box[u]]

\* Letters of one sender are taken out of one box: by the one they were sent
\* to, the one who sent them, or the sysop.
Remove(u, sender) ==
    /\ UNCHANGED daten
    /\ \E gone \in SUBSET {l \in box[u] : l.fromuser = sender} :
        box' = [box EXCEPT ![u] = @ \ gone]

Next == \/ \E u \in Users, m \in Messages, list \in SUBSET Users : Deliver(u, m, list)
        \/ \E u, sender \in Users : Remove(u, sender)

Spec == Init /\ [][Next]_vars
=============================================================================
