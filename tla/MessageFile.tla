---------------------------- MODULE MessageFile ----------------------------
(***************************************************************************)
(* The text file of a message board, MSGS\<board>.DAT (MSGBASE.C), as      *)
(* operators.  The file is a row of sections; a section has a table, the   *)
(* GAT, and the sectors the table describes.  gat[s] is                    *)
(*                                                                         *)
(*     Unused        sector s is free                                      *)
(*     a sector      the next sector of the text that s belongs to         *)
(*     EndOfText     s is the last sector of its text                      *)
(*                                                                         *)
(* A text never leaves its section, and messagerec.stored_as names its     *)
(* section and its first sector.  Sector 0 of a section holds the GAT, so  *)
(* 0 can stand for Unused.                                                 *)
(***************************************************************************)
EXTENDS Integers, FiniteSets

CONSTANTS
    LastSection,    \* sections are 0 .. LastSection (1023 in savefile)
    LastSector      \* sectors are 1 .. LastSector (2047)

ASSUME FileAssumption == LastSection \in Nat /\ LastSector \in Nat \ {0}

Sections == 0 .. LastSection
Sectors == 1 .. LastSector
Unused == 0
EndOfText == -1
Gat == [Sectors -> Sectors \union {Unused, EndOfText}]
Address == [section : Sections, sector : Sectors]

EmptyGat == [s \in Sectors |-> Unused]

---------------------------------------------------------------------------
(* Following the links *)

\* A set of sectors that no link leaves.
LinkClosed(g, S) == \A s \in S : g[s] \in Sectors => g[s] \in S

\* The sectors that readfile and remove_link visit from s on: the least set
\* that holds s and that no link leaves.
Chain(g, s) ==
    {t \in Sectors : \A S \in SUBSET Sectors :
                        s \in S /\ LinkClosed(g, S) => t \in S}

---------------------------------------------------------------------------
(* savefile *)

UnusedSectors(g) == {s \in Sectors : g[s] = Unused}

UnusedOrLast(g) == {s \in Sectors : g[s] \notin Sectors}

\* The n lowest members of S.
Lowest(S, n) == {s \in S : Cardinality({t \in S : t < s}) < n}

Least(S) == CHOOSE s \in S : \A t \in S : s <= t

HasRoom(g, n) == Cardinality(UnusedSectors(g)) >= n

\* The sections a text of n sectors fits into; savefile takes the first.
Roomy(gats, n) == {x \in Sections : HasRoom(gats[x], n)}

\* A savefile that takes a text's last sector for a free one.
PlaceOnLast(gats, n) ==
    Lowest(UnusedOrLast(gats[Least(Roomy(gats, n))]), n)

\* Where savefile puts a text of n sectors.
Place(gats, n) == Lowest(UnusedSectors(gats[Least(Roomy(gats, n))]), n)

\* savefile links the sectors it found from the lowest to the highest.
Link(g, A) ==
    [s \in Sectors |->
        IF s \notin A THEN g[s]
        ELSE IF \E t \in A : t > s THEN Least({t \in A : t > s})
        ELSE EndOfText]

---------------------------------------------------------------------------
(* remove_link *)

Unlink(g, s) ==
    [t \in Sectors |-> IF t \in Chain(g, s) THEN Unused ELSE g[t]]

=============================================================================
