-------------------------------- MODULE Users --------------------------------
(***************************************************************************)
(* Users: USER.LST, a record for every number; NAMES.LST, the index of     *)
(* names, which every instance has in memory too (smallist); and the count *)
(* of names in STATUS.DAT (UTILITY.C, NEWUSER.C, UEDIT.C, SYSOPF.C, LILO.C).*)
(*                                                                         *)
(* The index is changed under the lock of STATUS.DAT (isr, dsr), and a     *)
(* counter there tells the other instances to read it again.  Nothing      *)
(* holds index and records together, or a record from when an instance     *)
(* reads it until it writes it back: whoever logs on keeps his record in   *)
(* memory until he leaves, an editor keeps the one on display, deluser     *)
(* writes it twice.  Careful says which of these must not overlap for the  *)
(* rest to be right.                                                       *)
(*                                                                         *)
(* A step is what is done while one of the files is open.  Abstracted: a   *)
(* record is a name and whether it is deleted; strcmp is < on numbers.     *)
(* Left out: that a sysop who is on line edits others, so that an instance *)
(* has one record at hand; changes to record 1, the sysop's; a file that   *)
(* does not open within sh_open's tries.                                   *)
(***************************************************************************)
EXTENDS Integers, FiniteSets

CONSTANTS
    Nodes,      \* instances
    Names,      \* numbered in the order of strcmp
    MaxUsers,   \* syscfg.maxusers
    SysopName,
    Resetters,  \* instances on which //resetf is used
    NoRecord

Sysop == 1
Numbers == 1 .. MaxUsers
Slots == 0 .. MaxUsers - 1      \* of smallist

ASSUME UsersAssumption ==
    /\ MaxUsers \in Nat \ {0}
    /\ Names \subseteq Nat \ {0} /\ SysopName \in Names
    /\ Resetters \subseteq Nodes

NoName == 0                                 \* "", before every name
NoEntry == [name |-> NoName, number |-> 0]  \* mallocx clears smallist

Entries == [name : Names, number : Numbers] \union {NoEntry}
Records == [name : Names, inact : BOOLEAN]
ASSUME NoRecordAssumption == NoRecord \notin Records

VARIABLES
    userlst, nu,    \* USER.LST, and the number of its last record
    names, users,   \* NAMES.LST, and status.users
    changed,        \* those whose filechange_names is not that of STATUS.DAT
    node            \* what each instance has in memory

vars == <<userlst, nu, names, users, changed, node>>

\* idle; finduser has read the count ("load": it reads the names next); has a
\* number; on line; new: has a name, is recorded, is listed; uedit; the two halves
\* of a new name, of a restored user; the three of deluser; the two of //resetf.
Steps == {"idle", "load", "look", "found", "on", "named", "enter", "joined", "edit",
          "unlist", "relist", "restore", "rewrite", "delist", "delete", "forget", "reset"}

Instance == [pc : Steps,
             list : [Slots -> Entries],    \* smallist
             cnt : 0 .. MaxUsers,   \* its own status.users, while it matters
             s : Names \union {NoName},     \* the name that was typed
             why : {"logon", "newuser", "uedit"},
             un : Numbers \union {0},
             u : Records \union {NoRecord}] \* thisuser, or the u of uedit

TypeOK == /\ userlst \in [Numbers -> Records \union {NoRecord}]
          /\ nu \in Numbers
          /\ \A k \in Numbers : userlst[k] \in Records <=> k <= nu
          /\ names \in [Slots -> Entries]
          /\ users \in 0 .. MaxUsers
          /\ changed \subseteq Nodes
          /\ node \in [Nodes -> Instance]

OneName == [i \in Slots |-> IF i = 0 THEN [name |-> SysopName, number |-> Sysop]
                                     ELSE NoEntry]

\* A board with its sysop; read_names has read the index.
Init == /\ userlst = [k \in Numbers |-> IF k = Sysop
                         THEN [name |-> SysopName, inact |-> FALSE]
                         ELSE NoRecord]
        /\ nu = 1 /\ names = OneName /\ users = 1 /\ changed = {}
        /\ node = [n \in Nodes |->
                      [pc |-> "idle", list |-> OneName, cnt |-> 0, s |-> NoName,
                       why |-> "logon", un |-> 0, u |-> NoRecord]]

---------------------------------------------------------------------------
(* The index *)

\* huge_xfer reads k names; where the file is shorter, smallist stays as it was.
ReadNames(l, k) == [i \in Slots |-> IF i < k /\ names[i] # NoEntry THEN names[i] ELSE l[i]]

\* smallist of n once the status is locked.
Locked(n) == IF n \in changed THEN ReadNames(node[n].list, users) ELSE node[n].list

\* The place cp of isr comes after i.
Below(l, k, s, i) == i < k /\ \A j \in 0 .. i : l[j].name < s

Inserted(l, k, e) ==
    [i \in Slots |-> IF i > k \/ Below(l, k, e.name, i) THEN l[i]
                     ELSE IF i = 0 \/ Below(l, k, e.name, i - 1) THEN e
                     ELSE l[i - 1]]

\* dsr finds the name.  It looks at the place behind the last name as well.
InList(l, k, s) == \E i \in Slots : i <= k /\ l[i].name = s

\* The place cp of dsr comes after i.
Other(l, k, s, i) == i < k /\ \A j \in 0 .. i : l[j].name # s

Removed(l, k, s) ==
    [i \in Slots |-> IF i >= k - 1 \/ Other(l, k, s, i) THEN l[i] ELSE l[i + 1]]

\* n writes the first k names of l, and raises the counter.
WriteNames(n, l, k) == /\ names' = [i \in Slots |-> IF i < k THEN l[i] ELSE NoEntry]
                       /\ users' = k
                       /\ changed' = Nodes \ {n}

\* Instance n goes on as nd, with the list it has now.
Goes(n, nd, l) == node' = [node EXCEPT ![n] = [nd EXCEPT !.list = l]]

\* Mutant: smallist is not read again.
IsrStale(n, s, nd) ==
    LET l == Inserted(node[n].list, users, [name |-> s, number |-> nd.un])
    IN  users < MaxUsers /\ WriteNames(n, l, users + 1) /\ Goes(n, nd, l)

\* isr(nd.un, s).  smallist has no room for more than MaxUsers.
Isr(n, s, nd) ==
    LET l == Inserted(Locked(n), users, [name |-> s, number |-> nd.un])
    IN  users < MaxUsers /\ WriteNames(n, l, users + 1) /\ Goes(n, nd, l)

\* Mutant: status.users is not lowered.
DsrKeepsCount(n, s, nd) ==
    IF InList(Locked(n), users, s)
    THEN LET l == Removed(Locked(n), users, s)
         IN  WriteNames(n, l, users) /\ Goes(n, nd, l)
    ELSE /\ changed' = changed \ {n} /\ Goes(n, nd, Locked(n))
         /\ UNCHANGED <<names, users>>

\* dsr(s)
Dsr(n, s, nd) ==
    IF InList(Locked(n), users, s)
    THEN LET l == Removed(Locked(n), users, s)
         IN  WriteNames(n, l, users - 1) /\ Goes(n, nd, l)
    ELSE /\ changed' = changed \ {n} /\ Goes(n, nd, Locked(n))
         /\ UNCHANGED <<names, users>>

---------------------------------------------------------------------------
(* finduser *)

At(n, pc) == node[n].pc = pc
Do(n, nd) == node' = [node EXCEPT ![n] = nd]
Idle(n) == [node[n] EXCEPT !.pc = "idle", !.cnt = 0, !.s = NoName, !.why = "logon",
                           !.un = 0, !.u = NoRecord]

\* read_status closes STATUS.DAT before it reads the names.
ReadStatus(n, s, why) ==
    /\ Do(n, [node[n] EXCEPT !.pc = IF n \in changed THEN "load" ELSE "look",
                             !.cnt = users, !.s = s, !.why = why])
    /\ changed' = changed \ {n}
    /\ UNCHANGED <<userlst, nu, names, users>>

\* Mutant: the counter is noted, and the names are not read.
LoadNothing(n) == /\ At(n, "load")
                  /\ Do(n, [node[n] EXCEPT !.pc = "look"])
                  /\ UNCHANGED <<userlst, nu, names, users, changed>>

Load(n) == /\ At(n, "load")
           /\ Do(n, [node[n] EXCEPT !.pc = "look",
                                    !.list = ReadNames(node[n].list, node[n].cnt)])
           /\ UNCHANGED <<userlst, nu, names, users, changed>>

\* The numbers that bsearch may find.
Candidates(nd) == {nd.list[i].number : i \in {j \in Slots :
                      j < nd.cnt /\ nd.list[j].name = nd.s}}

IsUser(k) == k <= nu /\ ~userlst[k].inact

\* Back at the record on display.
Resume(n) == [node[n] EXCEPT !.pc = "edit", !.cnt = 0, !.s = NoName, !.why = "logon"]

Found(n, k) ==
    CASE node[n].why = "logon"   -> [node[n] EXCEPT !.pc = "found", !.cnt = 0, !.un = k]
      [] node[n].why = "newuser" -> Idle(n)
      [] node[n].why = "uedit"   -> Resume(n)

NotFound(n) ==
    CASE node[n].why = "logon"   -> Idle(n)
      [] node[n].why = "newuser" -> [node[n] EXCEPT !.pc = "named", !.cnt = 0]
      [] node[n].why = "uedit"   -> [node[n] EXCEPT !.pc = "unlist", !.cnt = 0]

Look(n) ==
    /\ At(n, "look")
    /\ \/ \E k \in Candidates(node[n]) : IsUser(k) /\ Do(n, Found(n, k))
       \/ /\ \/ Candidates(node[n]) = {}
             \/ \E k \in Candidates(node[n]) : ~IsUser(k)
          /\ Do(n, NotFound(n))
    /\ UNCHANGED <<userlst, nu, names, users, changed>>

---------------------------------------------------------------------------
(* Sessions *)

\* Mutant: the file is as long as before.
WriteUserWithin(k, u) == /\ userlst' = [userlst EXCEPT ![k] = u]
                         /\ nu' = nu

WriteUser(k, u) == /\ userlst' = [userlst EXCEPT ![k] = u]
                   /\ nu' = IF k > nu THEN k ELSE nu

AskUser(n) == At(n, "idle") /\ \E s \in Names : ReadStatus(n, s, "logon")

\* A number was typed.
AskNumber(n) ==
    /\ At(n, "idle")
    /\ \E k \in Numbers : IsUser(k) /\ Do(n, [node[n] EXCEPT !.pc = "found", !.un = k])
    /\ UNCHANGED <<userlst, nu, names, users, changed>>

\* getuser reads the record of the number that finduser returned.
ReadUser(n) == /\ At(n, "found")
               /\ Do(n, [node[n] EXCEPT !.pc = "on", !.s = NoName,
                                        !.u = userlst[node[n].un]])
               /\ UNCHANGED <<userlst, nu, names, users, changed>>

\* Doors, messages and much else write thisuser while he is on line.
SaveUser(n) == /\ At(n, "on") /\ WriteUser(node[n].un, node[n].u)
               /\ UNCHANGED <<names, users, changed, node>>

\* logoff, and a wrong password.
LogOff(n) == /\ At(n, "on") /\ WriteUser(node[n].un, node[n].u)
             /\ Do(n, Idle(n))
             /\ UNCHANGED <<names, users, changed>>

---------------------------------------------------------------------------
(* New users *)

\* input_name
AskNew(n) == At(n, "idle") /\ \E s \in Names : ReadStatus(n, s, "newuser")

Deleted == {k \in Numbers : k <= nu /\ userlst[k].inact}

\* Mutant: a record is taken for deleted because the index is shorter.
FirstUnlisted == IF nu = users THEN nu + 1 ELSE users + 1

\* The number that find_new_usernum arrives at; USER.LST is open all the time.
NewNumber == IF nu = users \/ Deleted = {} THEN nu + 1
             ELSE CHOOSE k \in Deleted : \A j \in Deleted : k <= j

\* find_new_usernum, but for isr; the names it may read meanwhile are read again
\* by isr.
FindNewUsernum(n) ==
    LET u == [name |-> node[n].s, inact |-> FALSE]
    IN  /\ At(n, "named")
        /\ \/ /\ NewNumber <= MaxUsers
              /\ WriteUser(NewNumber, u)
              /\ Goes(n, [node[n] EXCEPT !.pc = "enter", !.un = NewNumber, !.u = u],
                      Locked(n))
           \/ /\ NewNumber > MaxUsers
              /\ Goes(n, Idle(n), Locked(n))
              /\ UNCHANGED <<userlst, nu>>
        /\ changed' = changed \ {n}
        /\ UNCHANGED <<names, users>>

Enter(n) == /\ At(n, "enter")
            /\ Isr(n, node[n].u.name, [node[n] EXCEPT !.pc = "joined", !.s = NoName,
                                                      !.why = "logon"])
            /\ UNCHANGED <<userlst, nu>>

Welcome(n) == /\ At(n, "joined") /\ Do(n, [node[n] EXCEPT !.pc = "on"])
              /\ UNCHANGED <<userlst, nu, names, users, changed>>

\* The carrier is lost, or he is on line elsewhere, before logon().
HangUp(n) == /\ \E pc \in {"on", "named", "joined"} : At(n, pc)
             /\ Do(n, Idle(n))
             /\ UNCHANGED <<userlst, nu, names, users, changed>>

---------------------------------------------------------------------------
(* Deleting *)

\* deluser reads the record anew; when it is done, so does uedit.
DelUser(n) == LET u == userlst[node[n].un]
              IN  IF u.inact THEN Do(n, Idle(n))
                  ELSE Do(n, [node[n] EXCEPT !.pc = "delist", !.u = u])

\* The new user sent no feedback, or a sysop deletes the user on display.
Kill(n) == /\ At(n, "joined") \/ At(n, "edit")
           /\ DelUser(n)
           /\ UNCHANGED <<userlst, nu, names, users, changed>>

Delist(n) == /\ At(n, "delist")
             /\ Dsr(n, node[n].u.name, [node[n] EXCEPT !.pc = "delete", !.u.inact = TRUE])
             /\ UNCHANGED <<userlst, nu>>

Delete(n) == /\ At(n, "delete")
             /\ WriteUser(node[n].un, node[n].u)
             /\ Do(n, [node[n] EXCEPT !.pc = "forget"])
             /\ UNCHANGED <<names, users, changed>>

\* The record is written once more, without the user's votes.
Forget(n) == /\ At(n, "forget") /\ WriteUser(node[n].un, node[n].u)
             /\ Do(n, Idle(n))
             /\ UNCHANGED <<names, users, changed>>

---------------------------------------------------------------------------
(* uedit *)

Edit(n) == /\ At(n, "idle")
           /\ \E k \in Numbers \ {Sysop} :
                 /\ k <= nu
                 /\ Do(n, [node[n] EXCEPT !.pc = "edit", !.un = k, !.u = userlst[k]])
           /\ UNCHANGED <<userlst, nu, names, users, changed>>

\* Most commands change some other field, and all of the record is written.
Change(n) == /\ At(n, "edit") /\ WriteUser(node[n].un, node[n].u)
             /\ UNCHANGED <<names, users, changed, node>>

AskName(n) == At(n, "edit") /\ \E s \in Names : ReadStatus(n, s, "uedit")

\* Mutant: dsr is called for the new name.
UnlistNew(n) == /\ At(n, "unlist")
                /\ Dsr(n, node[n].s, [node[n] EXCEPT !.pc = "relist"])
                /\ UNCHANGED <<userlst, nu>>

Unlist(n) == /\ At(n, "unlist")
             /\ Dsr(n, node[n].u.name, [node[n] EXCEPT !.pc = "relist"])
             /\ UNCHANGED <<userlst, nu>>

Relist(n) == /\ At(n, "relist")
             /\ Isr(n, node[n].s, [node[n] EXCEPT !.pc = "rewrite", !.u.name = node[n].s])
             /\ UNCHANGED <<userlst, nu>>

Rewrite(n) == /\ At(n, "rewrite")
              /\ WriteUser(node[n].un, node[n].u)
              /\ Do(n, Resume(n))
              /\ UNCHANGED <<names, users, changed>>

\* Whether the name has another owner by now is not asked.
Restore(n) == /\ At(n, "edit") /\ node[n].u.inact
              /\ Do(n, [node[n] EXCEPT !.pc = "restore", !.u.inact = FALSE])
              /\ UNCHANGED <<userlst, nu, names, users, changed>>

RestoreName(n) == /\ At(n, "restore")
                  /\ Isr(n, node[n].u.name, [node[n] EXCEPT !.pc = "rewrite"])
                  /\ UNCHANGED <<userlst, nu>>

Quit(n) == /\ At(n, "edit") /\ Do(n, Idle(n))
           /\ UNCHANGED <<userlst, nu, names, users, changed>>

---------------------------------------------------------------------------
(* //resetf *)

Living == {k \in Numbers : IsUser(k)}

\* Where isr1 puts user k.
Place(k) == Cardinality({j \in Living : \/ userlst[j].name < userlst[k].name
                                        \/ userlst[j].name = userlst[k].name /\ j > k})

\* smallist is built from USER.LST, which the code reads ten records at a time.
ScanUsers(n) ==
    /\ n \in Resetters /\ At(n, "idle")
    /\ Goes(n, [node[n] EXCEPT !.pc = "reset", !.cnt = Cardinality(Living)],
            [i \in Slots |->
                IF \E k \in Living : Place(k) = i
                THEN LET k == CHOOSE j \in Living : Place(j) = i
                     IN  [name |-> userlst[k].name, number |-> k]
                ELSE node[n].list[i]])
    /\ changed' = changed \ {n}
    /\ UNCHANGED <<userlst, nu, names, users>>

\* lock_status brings back the count that was in STATUS.DAT, and so many names
\* are written; the count becomes the new one; the others are not told.
ResetFiles(n) ==
    /\ At(n, "reset")
    /\ names' = [i \in Slots |-> IF i < users THEN Locked(n)[i] ELSE NoEntry]
    /\ users' = node[n].cnt
    /\ changed' = changed \ {n}
    /\ Goes(n, Idle(n), Locked(n))
    /\ UNCHANGED <<userlst, nu>>

---------------------------------------------------------------------------

Next == \E n \in Nodes :
    \/ Load(n) \/ Look(n)
    \/ AskUser(n) \/ AskNumber(n) \/ ReadUser(n) \/ SaveUser(n) \/ LogOff(n)
    \/ AskNew(n) \/ FindNewUsernum(n) \/ Enter(n) \/ Welcome(n) \/ HangUp(n)
    \/ Kill(n) \/ Delist(n) \/ Delete(n) \/ Forget(n)
    \/ Edit(n) \/ Change(n) \/ AskName(n) \/ Unlist(n) \/ Relist(n) \/ Rewrite(n)
    \/ Restore(n) \/ RestoreName(n) \/ Quit(n)
    \/ ScanUsers(n) \/ ResetFiles(n)

Spec == Init /\ [][Next]_vars

---------------------------------------------------------------------------
(* What must not overlap *)

\* The records instance n keeps or is about to write; whoever logs on has none
\* before getuser reads it.
AtHand(n) == (IF node[n].un = 0 \/ At(n, "found") THEN {} ELSE {node[n].un})
             \union (IF At(n, "look") /\ node[n].why # "logon"
                     THEN Candidates(node[n]) ELSE {})

\* The names it found free, or is about to put into the index.
NamesAtHand(n) ==
    (IF node[n].why # "logon" /\ node[n].s # NoName THEN {node[n].s} ELSE {})
    \union (IF node[n].pc \in {"restore", "relist"} THEN {node[n].u.name} ELSE {})

IsListed(s) == \E i \in Slots : i < users /\ names[i].name = s

\* Records between the two writes that take a user into the index and USER.LST,
\* or out of them.
InTransit == {node[n].un : n \in {k \in Nodes :
                 node[k].pc \in {"enter", "delete", "relist", "rewrite"}}}

\* No two instances have the same record or the same name at hand, no deleted user
\* is renamed, nobody is restored whose name has another owner, the index does not
\* change between finduser's two reads when it is asked for a name that is to be
\* given to somebody, and //resetf runs while nobody is added or removed.  The code
\* leaves all of this to its users.
Careful ==
    /\ \A n, k \in Nodes : n # k => /\ AtHand(n) \intersect AtHand(k) = {}
                                    /\ NamesAtHand(n) \intersect NamesAtHand(k) = {}
    /\ \A n \in Nodes : /\ At(n, "unlist") => ~node[n].u.inact
                        /\ At(n, "restore") => ~IsListed(node[n].u.name)
                        /\ At(n, "load") /\ node[n].why # "logon" => n \notin changed
                        /\ At(n, "reset") => InTransit = {}

---------------------------------------------------------------------------
(* Properties *)

\* isr, dsr and the counter of STATUS.DAT: the index is in order, as bsearch wants
\* it, and has no name twice, whichever instances insert and remove.
NamesInOrder ==
    Careful => \A i, j \in Slots : i < j /\ j < users => names[i].name < names[j].name

\* find_new_usernum, deluser, uedit: whoever has a record that is not deleted is in
\* the index under his name, and nobody else is, but for the user who is being
\* added, deleted or renamed.
FoundByName ==
    Careful => \A k \in Numbers \ InTransit, s \in Names :
        (\E i \in Slots : i < users /\ names[i] = [name |-> s, number |-> k])
            <=> IsUser(k) /\ userlst[k].name = s

\* isr never writes behind the end of smallist, which has maxusers entries
\* (XINIT.C:711), although it does not look.
RoomForName ==
    Careful => \A n \in Nodes :
        node[n].pc \in {"enter", "relist", "restore"} => users < MaxUsers

Listed == {names[i] : i \in {j \in Slots : j < users}}

\* He is between dsr and isr.
Renamed == {[name |-> node[n].u.name, number |-> node[n].un] :
                n \in {k \in Nodes : At(k, "relist")}}

\* The instances together implement Directory: NAMES.LST says who is a user.
D == INSTANCE Directory WITH members <- Listed \union Renamed

IsDirectory == D!Spec
=============================================================================
