------------------------------- MODULE Board -------------------------------
(***************************************************************************)
(* What a message board promises its users, whichever instances work on it *)
(* and in whichever order: a list of posts.  A message is written once; it *)
(* then becomes the newest post of the list or is dropped; a post keeps    *)
(* its place among the others until it is removed, and a message that has  *)
(* left the list does not come back.                                       *)
(***************************************************************************)
EXTENDS Naturals, Sequences, SequencesExt

CONSTANT Messages

VARIABLES
    board,      \* the posts, oldest first
    state       \* state[m]: where message m is in its life

Status == {"unwritten", "written", "posted", "gone"}

Init ==
    /\ board = <<>>
    /\ state = [m \in Messages |-> "unwritten"]

Moves(m, from, to) ==
    /\ state[m] = from
    /\ state' = [state EXCEPT ![m] = to]

Write(m) == Moves(m, "unwritten", "written") /\ UNCHANGED board

Post(m) == Moves(m, "written", "posted") /\ board' = Append(board, m)

Drop(m) == Moves(m, "written", "gone") /\ UNCHANGED board

Delete(i) == Moves(board[i], "posted", "gone") /\ board' = RemoveAt(board, i)

Next ==
    \/ \E m \in Messages : Write(m) \/ Post(m) \/ Drop(m)
    \/ \E i \in DOMAIN board : Delete(i)

Spec == Init /\ [][Next]_<<board, state>>
=============================================================================
