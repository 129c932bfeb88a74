----------------------------- MODULE Instances -----------------------------
(***************************************************************************)
(* The instances of the BBS and what they know of each other: the session  *)
(* of each of them (BBS.C, LILO.C), the directory INSTANCE.DAT in which    *)
(* each writes what it is doing (write_inst), the questions that are       *)
(* answered from it (user_online, inst_ok), and the files in which they    *)
(* leave messages for each other (INSTMSG.C).                              *)
(*                                                                         *)
(* An instance writes only its own record, and reads the others one after  *)
(* the other; each read and each write is a step.  A message is appended   *)
(* to TMSG<from>.<to>, which is then renamed to the first free name        *)
(* MSG<number>.<to>.  The instance it is for looks for such files whenever *)
(* it prints a line or waits, opens one after the other, handles the       *)
(* messages in it, and removes it.  Meanwhile others write, and its user   *)
(* may hang up.                                                            *)
(*                                                                         *)
(* Abstracted: what is said in a message; where in the menus a user is, of *)
(* which the directory keeps whether he can be told something; the last    *)
(* user of an instance where nobody is on line, who is only displayed.     *)
(* A MSG file that does not open is tried until it does (INSTMSG.C:185),   *)
(* which changes nothing.  Left out: no memory for a message, when the     *)
(* rest of its file is lost (INSTMSG.C:194); a program that is started for *)
(* a user who is on line already (BBS.C:741), about whom nobody is asked.  *)
(***************************************************************************)
EXTENDS Naturals, Sequences, FiniteSets

CONSTANTS
    Nodes,      \* instances
    Users,
    Exempt,     \* users of security level 255, who may be on line twice
    Nobody,     \* no user, no instance
    Doors,      \* chains that only one user at a time may run
    NoDoor,
    Names,      \* the numbers of MSG files, 0..999 in the code
    NoName,
    Messages,   \* what is sent, each of them once, a bound
    Shutdowns   \* those that shut an instance down

ASSUME InstancesAssumption ==
    /\ Nobody \notin Users \union Nodes /\ NoDoor \notin Doors /\ NoName \notin Names
    /\ Exempt \subseteq Users /\ Shutdowns \subseteq Messages

VARIABLES
    dir,        \* INSTANCE.DAT
    box,        \* the MSG files of each instance, <<>> where there is none
    tmp,        \* the TMSG files, by sender and addressee
    to,         \* not in the code: to whom each message was sent
    shown,      \* not in the code: the messages that were shown, or obeyed
    met,        \* not in the code: pairs of instances that asked at the same time
    node        \* what each instance has in memory

vars == <<dir, box, tmp, to, shown, met, node>>

\* A record of INSTANCE.DAT: is the instance up (its loc is not INST_LOC_DOWN),
\* who is on line (INST_FLAGS_ONLINE), which door is open, may it be told something.
Entries == [up : BOOLEAN, user : Users \union {Nobody}, door : Doors \union {NoDoor},
            avail : BOOLEAN]
Down == [up |-> FALSE, user |-> Nobody, door |-> NoDoor, avail |-> FALSE]
Idle == [Down EXCEPT !.up = TRUE]

\* write_inst with a user on line, in door d, in a menu where he is available or not.
At(u, d, avail) == [up |-> TRUE, user |-> u, door |-> d, avail |-> avail]

Steps == {"down", "wfc", "name", "look", "logon", "menu", "check", "door", "bye",
          "all", "idle", "ending"}

Instance == [pc : Steps,
             user : Users \union {Nobody},
             hangup : BOOLEAN,
             left : SUBSET Nodes,               \* of a loop over the instances
             door : Doors \union {NoDoor},
             scan : {"no", "find", "file"},     \* process_inst_msgs: where it is,
             todo : SUBSET Names,               \* the files findfirst saw,
             file : Names \union {NoName},      \* the one that is open,
             done : Nat]                        \* and how much of it was handled

OffLine == [pc |-> "down", user |-> Nobody, hangup |-> FALSE, left |-> {},
            door |-> NoDoor, scan |-> "no", todo |-> {}, file |-> NoName, done |-> 0]

\* useron: from logon to frequent_init, or to the end of the program.
OnLine(n) == node[n].user # Nobody /\ node[n].pc # "look"

TypeOK == /\ dir \in [Nodes -> Entries]
          /\ box \in [Nodes -> [Names -> Seq(Messages)]]
          /\ tmp \in [Nodes -> [Nodes -> Seq(Messages)]]
          /\ to \in [Messages -> Nodes \union {Nobody}]
          /\ shown \subseteq Messages
          /\ met \in [{"look", "check"} -> SUBSET SUBSET Nodes]
          /\ node \in [Nodes -> Instance]
          /\ \A n \in Nodes :
                node[n].scan = "file" =>
                    /\ node[n].file # NoName
                    /\ node[n].done \in 0 .. Len(box[n][node[n].file])

Init == /\ dir = [n \in Nodes |-> Down]
        /\ box = [n \in Nodes |-> [f \in Names |-> <<>>]]
        /\ tmp = [n \in Nodes |-> [d \in Nodes |-> <<>>]]
        /\ to = [m \in Messages |-> Nobody]
        /\ shown = {}
        /\ met = [k \in {"look", "check"} |-> {}]
        /\ node = [n \in Nodes |-> OffLine]

---------------------------------------------------------------------------

Do(n, nd) == node' = [node EXCEPT ![n] = nd]

\* While an instance handles its messages it does nothing else.
Free(n, pc) == node[n].pc = pc /\ node[n].scan = "no"

Others(n) == Nodes \ {n}

\* n starts to ask the others: of those that ask for the same now, it is
\* remembered that they do.
Meet(n, kind, same) ==
    met' = [met EXCEPT ![kind] = {p \in @ : n \notin p} \union {{n, j} : j \in same \ {n}}]

\* end_bbs is called while the user, if there is one, is still on line.
Leaving(n) == [OffLine EXCEPT !.pc = "ending", !.user = node[n].user, !.hangup = TRUE]

---------------------------------------------------------------------------
(* Messages *)

\* send_inst_msg: the new message goes behind those that found no name before.
Send(n, d, m) ==
    LET msgs == Append(tmp[n][d], m)
    IN  /\ to[m] = Nobody /\ to' = [to EXCEPT ![m] = d]
        /\ \/ \E f \in Names :
                 /\ box[d][f] = <<>>
                 /\ box' = [box EXCEPT ![d][f] = msgs]
                 /\ tmp' = [tmp EXCEPT ![n][d] = <<>>]
           \/ /\ \A f \in Names : box[d][f] # <<>>
              /\ tmp' = [tmp EXCEPT ![n][d] = msgs]
              /\ UNCHANGED box

\* A message is sent, or the file could not be opened.
SendOne(n, d, kind) == \/ \E m \in kind : Send(n, d, m)
                       \/ UNCHANGED <<box, tmp, to>>

Files(n) == {f \in Names : box[n][f] # <<>>}

\* process_inst_msgs, unless it was told not to look (setiia), a door runs or
\* nothing is echoed.
FindFirst(n) ==
    /\ node[n].scan = "no" /\ node[n].pc \in {"wfc", "name", "logon", "menu", "idle"}
    /\ Files(n) # {}
    /\ Do(n, [node[n] EXCEPT !.scan = "find", !.todo = Files(n)])
    /\ UNCHANGED <<dir, box, tmp, to, shown, met>>

\* Files that came after findfirst may be found as well.
OpenFile(n) ==
    /\ node[n].scan = "find" /\ ~node[n].hangup
    /\ \E f \in Files(n) : Do(n, [node[n] EXCEPT !.scan = "file", !.file = f, !.done = 0])
    /\ UNCHANGED <<dir, box, tmp, to, shown, met>>

FindNoMore(n) ==
    /\ node[n].scan = "find" /\ (node[n].hangup \/ node[n].todo = {})
    /\ Do(n, [node[n] EXCEPT !.scan = "no", !.todo = {}])
    /\ UNCHANGED <<dir, box, tmp, to, shown, met>>

\* The messages of the open file, and the next of them.
Contents(n) == box[n][node[n].file]
Current(n) == Contents(n)[node[n].done + 1]
InFile(n) == node[n].scan = "file" /\ node[n].done < Len(Contents(n))

\* handle_inst_msg: it is displayed if there is somebody to see it.
Handle(n) ==
    /\ InFile(n) /\ Current(n) \notin Shutdowns
    /\ shown' = IF OnLine(n) /\ ~node[n].hangup THEN shown \union {Current(n)} ELSE shown
    /\ Do(n, [node[n] EXCEPT !.done = @ + 1])
    /\ UNCHANGED <<dir, box, tmp, to, met>>

\* Mutant: the file is removed, but the program goes on.
ObeyGoesOn(n) ==
    /\ InFile(n) /\ Current(n) \in Shutdowns
    /\ shown' = shown \union {Current(n)}
    /\ box' = [box EXCEPT ![n][node[n].file] = <<>>]
    /\ Do(n, [node[n] EXCEPT !.done = @ + 1])
    /\ UNCHANGED <<dir, tmp, to, met>>

\* The file is removed with what is left in it.
ObeyShutdown(n) ==
    /\ InFile(n) /\ Current(n) \in Shutdowns
    /\ shown' = shown \union {Current(n)}
    /\ box' = [box EXCEPT ![n][node[n].file] = <<>>]
    /\ Do(n, Leaving(n))
    /\ UNCHANGED <<dir, tmp, to, met>>

\* Mutant: the file stays if the user hung up meanwhile.
CloseFileKept(n) ==
    /\ node[n].scan = "file" /\ node[n].done = Len(Contents(n))
    /\ box' = [box EXCEPT ![n][node[n].file] = IF node[n].hangup THEN @ ELSE <<>>]
    /\ Do(n, [node[n] EXCEPT !.scan = "find", !.todo = @ \ {node[n].file},
                             !.file = NoName, !.done = 0])
    /\ UNCHANGED <<dir, tmp, to, shown, met>>

CloseFile(n) ==
    /\ node[n].scan = "file" /\ node[n].done = Len(Contents(n))
    /\ box' = [box EXCEPT ![n][node[n].file] = <<>>]
    /\ Do(n, [node[n] EXCEPT !.scan = "find", !.todo = @ \ {node[n].file},
                             !.file = NoName, !.done = 0])
    /\ UNCHANGED <<dir, tmp, to, shown, met>>

ProcessInstMsgs(n) == \/ FindFirst(n) \/ OpenFile(n) \/ FindNoMore(n)
                      \/ Handle(n) \/ ObeyShutdown(n) \/ CloseFile(n)

---------------------------------------------------------------------------
(* From the start of the program to the logon *)

Start(n) ==
    /\ node[n].pc = "down" /\ Do(n, [OffLine EXCEPT !.pc = "wfc"])
    /\ dir' = [dir EXCEPT ![n] = Idle]
    /\ UNCHANGED <<box, tmp, to, shown, met>>

\* Somebody calls, or sits down at the keyboard, and is asked for his name.
Call(n) ==
    /\ Free(n, "wfc") /\ Do(n, [OffLine EXCEPT !.pc = "name"])
    /\ dir' = [dir EXCEPT ![n] = Idle]
    /\ UNCHANGED <<box, tmp, to, shown, met>>

\* Who asks for u as n does.
Asking(u) == {j \in Nodes : node[j].pc = "look" /\ node[j].user = u}

\* getuser: user_online is asked before the password is.
Name(n, u) ==
    /\ Free(n, "name") /\ ~node[n].hangup
    /\ Do(n, [node[n] EXCEPT !.pc = "look", !.user = u,
                             !.left = IF u \in Exempt THEN {} ELSE Others(n)])
    /\ Meet(n, "look", Asking(u))
    /\ UNCHANGED <<dir, box, tmp, to, shown>>

\* user_online reads the record of i: "You are already online on instance ..."
Look(n, i) ==
    /\ node[n].pc = "look" /\ i \in node[n].left
    /\ Do(n, IF dir[i].user = node[n].user
             THEN [node[n] EXCEPT !.pc = "name", !.user = Nobody, !.left = {}]
             ELSE [node[n] EXCEPT !.left = @ \ {i}])
    /\ UNCHANGED <<dir, box, tmp, to, shown, met>>

WrongPassword(n) ==
    /\ node[n].pc = "look" /\ node[n].left = {}
    /\ Do(n, [node[n] EXCEPT !.pc = "name", !.user = Nobody])
    /\ UNCHANGED <<dir, box, tmp, to, shown, met>>

\* After three names, or when he hung up.
GiveUp(n) ==
    /\ Free(n, "name") /\ Do(n, [OffLine EXCEPT !.pc = "idle"])
    /\ UNCHANGED <<dir, box, tmp, to, shown, met>>

\* To whom broadcast() goes: nobody, if neither a caller nor a sysop is on line.
Audience(n) == {{}, Others(n)}

\* Mutant: the record is written when the user comes to the main menu.
LogonLate(n) ==
    /\ node[n].pc = "look" /\ node[n].left = {} /\ ~node[n].hangup
    /\ \E a \in Audience(n) : Do(n, [node[n] EXCEPT !.pc = "logon", !.left = a])
    /\ UNCHANGED <<dir, box, tmp, to, shown, met>>

Logon(n) ==
    /\ node[n].pc = "look" /\ node[n].left = {} /\ ~node[n].hangup
    /\ dir' = [dir EXCEPT ![n] = At(node[n].user, NoDoor, FALSE)]
    /\ \E a \in Audience(n) : Do(n, [node[n] EXCEPT !.pc = "logon", !.left = a])
    /\ UNCHANGED <<box, tmp, to, shown, met>>

\* The sysop logs on from the keyboard with a digit (getcaller); nothing is asked.
FastLogon(n, u) ==
    /\ Free(n, "wfc") /\ u \in Exempt
    /\ dir' = [dir EXCEPT ![n] = At(u, NoDoor, FALSE)]
    /\ \E a \in Audience(n) :
          Do(n, [OffLine EXCEPT !.pc = "logon", !.user = u, !.left = a])
    /\ UNCHANGED <<box, tmp, to, shown, met>>

---------------------------------------------------------------------------
(* On line *)

Reachable(n, d) == IF node[n].pc = "all" THEN dir[d].up ELSE dir[d].avail

\* broadcast() at logon and logoff; "Shut Down ALL Instances" of instance_edit.
Tell(n, d) ==
    /\ node[n].pc \in {"logon", "bye", "all"} /\ node[n].scan = "no" /\ d \in node[n].left
    /\ Do(n, [node[n] EXCEPT !.left = @ \ {d}])
    /\ IF Reachable(n, d)
       THEN SendOne(n, d, IF node[n].pc = "all" THEN Shutdowns ELSE Messages \ Shutdowns)
       ELSE UNCHANGED <<box, tmp, to>>
    /\ UNCHANGED <<dir, shown, met>>

\* In the main menu, or anywhere else that writes where the user is.
Walk(n) ==
    /\ \/ Free(n, "logon") /\ node[n].left = {}
       \/ Free(n, "menu")
    /\ Do(n, [node[n] EXCEPT !.pc = "menu"])
    /\ \E avail \in BOOLEAN : dir' = [dir EXCEPT ![n] = At(node[n].user, NoDoor, avail)]
    /\ UNCHANGED <<box, tmp, to, shown, met>>

\* Mail was sent to somebody who is on line on instance d.
TellOfMail(n, d) ==
    /\ Free(n, "menu") /\ d \in Others(n) /\ dir[d].user # Nobody
    /\ \E m \in Messages \ Shutdowns : Send(n, d, m)
    /\ UNCHANGED <<dir, shown, met, node>>

\* The carrier is lost, or the user says good-bye.
HangUp(n) ==
    /\ node[n].pc \notin {"down", "wfc", "bye", "idle", "ending", "all"} /\ ~node[n].hangup
    /\ Do(n, [node[n] EXCEPT !.hangup = TRUE])
    /\ UNCHANGED <<dir, box, tmp, to, shown, met>>

---------------------------------------------------------------------------
(* Doors *)

\* run_chain, for a chain that is not multi-user.
RunChain(n, c) ==
    /\ Free(n, "menu")
    /\ Do(n, [node[n] EXCEPT !.pc = "check", !.door = c, !.left = Others(n)])
    /\ Meet(n, "check", {j \in Nodes : node[j].pc = "check" /\ node[j].door = c})
    /\ UNCHANGED <<dir, box, tmp, to, shown>>

\* inst_ok reads the record of i: "... is in use on instance ..."
CheckDoor(n, i) ==
    /\ node[n].pc = "check" /\ i \in node[n].left
    /\ Do(n, IF dir[i].door = node[n].door
             THEN [node[n] EXCEPT !.pc = "menu", !.door = NoDoor, !.left = {}]
             ELSE [node[n] EXCEPT !.left = @ \ {i}])
    /\ UNCHANGED <<dir, box, tmp, to, shown, met>>

\* Mutant: the directory says that a door runs, and not which.
OpenDoorAny(n) ==
    /\ node[n].pc = "check" /\ node[n].left = {}
    /\ Do(n, [node[n] EXCEPT !.pc = "door"])
    /\ dir' = [dir EXCEPT ![n] = At(node[n].user, NoDoor, FALSE)]
    /\ UNCHANGED <<box, tmp, to, shown, met>>

OpenDoor(n) ==
    /\ node[n].pc = "check" /\ node[n].left = {}
    /\ Do(n, [node[n] EXCEPT !.pc = "door"])
    /\ dir' = [dir EXCEPT ![n] = At(node[n].user, node[n].door, FALSE)]
    /\ UNCHANGED <<box, tmp, to, shown, met>>

\* extern_prog returns; nothing is written.
LeaveDoor(n) ==
    /\ node[n].pc = "door" /\ Do(n, [node[n] EXCEPT !.pc = "menu", !.door = NoDoor])
    /\ UNCHANGED <<dir, box, tmp, to, shown, met>>

---------------------------------------------------------------------------
(* Logoff and the end of the program *)

Logoff(n) ==
    /\ \/ Free(n, "logon") /\ node[n].left = {}
       \/ Free(n, "menu")
    /\ node[n].hangup
    /\ \E a \in Audience(n) : Do(n, [node[n] EXCEPT !.pc = "bye", !.left = a])
    /\ UNCHANGED <<dir, box, tmp, to, shown, met>>

\* frequent_init; the record still says that the user is on line ...
FrequentInit(n) ==
    /\ node[n].pc = "bye" /\ node[n].left = {}
    /\ Do(n, [OffLine EXCEPT !.pc = "idle"])
    /\ UNCHANGED <<dir, box, tmp, to, shown, met>>

\* ... until the instance waits for the next caller.
GetCaller(n) ==
    /\ Free(n, "idle") /\ Do(n, [OffLine EXCEPT !.pc = "wfc"])
    /\ dir' = [dir EXCEPT ![n] = Idle]
    /\ UNCHANGED <<box, tmp, to, shown, met>>

\* instance_edit: another instance is shut down, all are, or this one is, which
\* ends for other reasons as well.
InstanceEdit(n) == (Free(n, "wfc") \/ Free(n, "menu")) /\ ~node[n].hangup

ShutOther(n, d) ==
    /\ InstanceEdit(n) /\ d \in Others(n) /\ dir[d].up
    /\ \E m \in Shutdowns : Send(n, d, m)
    /\ UNCHANGED <<dir, shown, met, node>>

ShutAll(n) ==
    /\ InstanceEdit(n)
    /\ Do(n, [node[n] EXCEPT !.pc = "all", !.left = Others(n)])
    /\ UNCHANGED <<dir, box, tmp, to, shown, met>>

Stop(n) ==
    /\ InstanceEdit(n) \/ Free(n, "idle") \/ (node[n].pc = "all" /\ node[n].left = {})
    /\ Do(n, Leaving(n))
    /\ UNCHANGED <<dir, box, tmp, to, shown, met>>

\* The record of an instance that ended with its user on line keeps him: useron
\* is still set when end_bbs calls write_inst.
EndBbs(n) ==
    /\ node[n].pc = "ending" /\ Do(n, OffLine)
    /\ dir' = [dir EXCEPT ![n] = [Down EXCEPT !.user = node[n].user]]
    /\ UNCHANGED <<box, tmp, to, shown, met>>

---------------------------------------------------------------------------

SessionStep(n) ==
    \/ Start(n) \/ Call(n) \/ (\E u \in Users : Name(n, u) \/ FastLogon(n, u))
    \/ WrongPassword(n) \/ GiveUp(n) \/ Logon(n) \/ Walk(n) \/ HangUp(n)
    \/ Logoff(n) \/ FrequentInit(n) \/ GetCaller(n) \/ ShutAll(n) \/ Stop(n) \/ EndBbs(n)
    \/ (\E c \in Doors : RunChain(n, c)) \/ OpenDoor(n) \/ LeaveDoor(n)
    \/ \E i \in Nodes : Look(n, i) \/ CheckDoor(n, i)

Next == \E n \in Nodes :
            \/ SessionStep(n) \/ ProcessInstMsgs(n)
            \/ \E d \in Nodes : Tell(n, d) \/ TellOfMail(n, d) \/ ShutOther(n, d)

Spec == Init /\ [][Next]_vars

---------------------------------------------------------------------------
(* Properties *)

\* A user is on line on two instances only if both asked user_online for him at
\* the same time (or he may be): who is on line when it asks is found.
TwiceOnlyAtOnce ==
    \A n, j \in Nodes :
        n # j /\ OnLine(n) /\ OnLine(j) /\ node[n].user = node[j].user /\ node[n].user \notin Exempt
            => {n, j} \in met["look"]

\* A chain that is not multi-user runs on two instances only if both asked
\* inst_ok for it at the same time.
DoorOnlyAtOnce ==
    \A n, j \in Nodes :
        n # j /\ node[n].pc = "door" /\ node[j].pc = "door" /\ node[n].door = node[j].door
            => {n, j} \in met["check"]

\* What is in a file, and was not handled.
Handled(n) == IF node[n].scan = "file" THEN {Contents(n)[k] : k \in 1 .. node[n].done} ELSE {}
Within(s) == {s[k] : k \in DOMAIN s}
InBox(d) == (UNION {Within(box[d][f]) : f \in Names}) \ Handled(d)
Queued == UNION {InBox(d) \union UNION {Within(tmp[n][d]) : n \in Nodes} : d \in Nodes}

\* For Mailbox.
Fate(m) == IF to[m] = Nobody THEN "new"
           ELSE IF m \in Queued THEN "sent"
           ELSE IF m \notin shown THEN "gone"
           ELSE IF m \in Shutdowns THEN "obeyed" ELSE "shown"
Live == {n \in Nodes : OnLine(n) /\ ~node[n].hangup}
Mail == INSTANCE Mailbox WITH fate <- [m \in Messages |-> Fate(m)], live <- Live

\* Messages between instances are shown or obeyed once and not lost on the way,
\* however files are appended to, renamed, found and removed meanwhile.
IsMailbox == Mail!Spec
=============================================================================
