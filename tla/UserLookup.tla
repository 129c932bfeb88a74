----------------------------- MODULE UserLookup -----------------------------
(***************************************************************************)
(* Users with two history variables, for what finduser (UTILITY.C) may     *)
(* return when a caller types a name.  It reads the count of names under   *)
(* the lock, the names after it has let the lock go, and searches later    *)
(* still; meanwhile others insert, delete and rename.  The histories only  *)
(* record what Users does, and no step of Users depends on them.           *)
(***************************************************************************)
EXTENDS Users

VARIABLES
    was,    \* instance -> the numbers that had the name in the index, at some
            \* moment since it was typed there
    short   \* instances that since then read fewer names than they had counted

lvars == <<vars, was, short>>

\* A caller typed a name at instance n, and has not been read yet.
Asked(n) == node[n].s # NoName /\ node[n].why = "logon"

\* Who is in the index as s.
OwnersOf(s) == {k \in Numbers : [name |-> s, number |-> k] \in Listed}

\* NAMES.LST has become shorter since n read the count.
IsShort(n) == At(n, "load") /\ users < node[n].cnt

LookupInit == Init /\ was = [n \in Nodes |-> {}] /\ short = {}

Remember ==
    /\ was' = [n \in Nodes |-> IF Asked(n)' THEN was[n] \union OwnersOf(node[n].s)'
                                             ELSE {}]
    /\ short' = {n \in Nodes : Asked(n)' /\ (n \in short \/ (IsShort(n) /\ ~At(n, "load")'))}

LookupNext == Next /\ Remember

LookupSpec == LookupInit /\ [][LookupNext]_lvars

\* What finduser returns for a typed name is a number that was in the index under
\* this name at some moment since it was typed, although count, names and records
\* are read at three times, without a lock, while other instances insert, delete
\* and rename; unless NAMES.LST became shorter between the first two (UTILITY.C
\* 1703-1731, 940-953), when names from long before stand behind its end.
LogonWasListed ==
    Careful => \A n \in Nodes \ short :
        At(n, "found") /\ Asked(n) => node[n].un \in was[n]
=============================================================================
