------------------------------ MODULE MCTcpser ------------------------------
(* TLC instances of Tcpser. *)
EXTENDS Tcpser, TLC

Manual == [i \in Modems |-> 0]     \* AT S0=0: the DTE answers with ATA
Auto == [i \in Modems |-> 1]       \* run_bbs.sh: -i "s0=1"
Mixed == [i \in Modems |-> IF i = 1 THEN 0 ELSE 1]

\* Callers are interchangeable.
Symmetry == Permutations(Callers)

\* With two modems: nobody reads the sockets, so callers only come, ring, are
\* answered, hung up on and turned away.
Quiet == unread = {} /\ \A i \in Modems : ipc[i] = "arm"
=============================================================================
