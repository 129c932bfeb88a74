-------------------------------- MODULE Mail --------------------------------
(***************************************************************************)
(* E-mail: EMAIL.DAT, a file of letters that all instances share           *)
(* (MSGBASE.C, MSGBASE1.C, READMAIL.C, MULTMAIL.C), and the logoff that    *)
(* closes the gaps in it (LILO.C).                                         *)
(*                                                                         *)
(* A reader lists his letters once (readmail) and from then on goes by     *)
(* their places in the file, while other instances write behind the last   *)
(* letter, empty records in the middle, and move all of them when a user   *)
(* logs off.  Every use of a place is checked with same_email; if another  *)
(* letter is found there, the counter filechange_email of STATUS.DAT tells *)
(* whether letters were moved, and resynch_email looks for them again.     *)
(* Behind the end of the file, where sh_read reads nothing, the check sees *)
(* the letter that was read before.  The texts lie in a file of their own; *)
(* all copies of a letter to several users have one text.                  *)
(*                                                                         *)
(* EMAIL.DAT is open to one writer or some readers at a time, so what      *)
(* happens between open_email and sh_close is a step.  Abstracted: a text  *)
(* is a message and a place where it is stored (MessageFile has the        *)
(* details), letters are told apart by the time they were sent, of the     *)
(* counter an instance keeps whether it differs from its copy.             *)
(***************************************************************************)
EXTENDS Integers, Sequences, FiniteSets

CONSTANTS
    Nodes,      \* instances
    Users,
    Sysop,      \* the user who may read and remove all mail (//MAILR)
    Nobody,     \* no user, no instance
    Messages,   \* what users write, each of them once
    Mailings,   \* to whom letters are written, and whether by multimail
    Readers,    \* instances whose users read their mail, a bound
    Removers,   \* instances whose users remove letters they sent, a bound
    Places,     \* where a text can be stored
    NoText,
    NoLetter,   \* an empty record of EMAIL.DAT
    LastSlot,   \* EMAIL.DAT is not filled beyond this record
    MaxTime     \* no more letters are sent than this

Slots == 0 .. LastSlot

\* Whom a letter is sent to.
Lists == {l \in UNION {[1 .. k -> Users] : k \in 0 .. Cardinality(Users)} :
              \A i, j \in DOMAIN l : l[i] = l[j] => i = j}

ASSUME MailAssumption ==
    /\ LastSlot \in Nat /\ MaxTime \in Nat
    /\ IsFiniteSet(Users) /\ Sysop \in Users /\ Nobody \notin Users \union Nodes
    /\ NoText \notin Messages /\ Readers \subseteq Nodes /\ Removers \subseteq Nodes
    /\ Mailings \subseteq [to : Lists, multi : BOOLEAN]
    /\ \A w \in Mailings : w.multi \/ Len(w.to) = 1

VARIABLES
    email, size,    \* EMAIL.DAT: its records, and how many it has
    text,           \* place -> the message stored there
    daten,          \* the time the last letter was sent
    written,        \* messages that somebody wrote
    stuck,          \* the instance that left EMAIL.DAT open
    changed,        \* those on line whose filechange_email is not that of STATUS.DAT
    node,           \* what each instance has in memory
    astray          \* not in the code: a place behind the end was written to

vars == <<email, size, text, daten, written, stuck, changed, node, astray>>

Letters == [fromuser : Users, touser : Users, daten : 1 .. MaxTime,
            msg : Places, multi : BOOLEAN]
ASSUME NoLetterAssumption == NoLetter \notin Letters

\* An entry of mloc: a letter, and where it is; -1 once it was not found.
Gone == -1
NoEntry == [fromuser |-> Nobody, daten |-> 0, index |-> Gone]
Entries == [fromuser : Users, daten : 1 .. MaxTime, index : Slots \union {Gone}]

\* A letter about to be sent: its author, its text, its list of users.
NoHand == [fromuser |-> Nobody]
Hands == [fromuser : Users, msg : Places, to : Lists, multi : BOOLEAN,
          back : {"main", "mail", "shown"}]

\* What a letter is looked for with read_same_email: to show or to mark it, which
\* is the same once it was found again, or to delete it.
Uses == {"show", "delete"}

Steps == {"off", "main", "mail", "shown", "lost", "resynch", "forward", "send", "kill", "pack"}

Instance == [pc : Steps,
             user : Users \union {Nobody},
             mloc : [Slots -> Entries \union {NoEntry}],    \* by place when listed
             emchg : BOOLEAN, mailcheck : BOOLEAN,
             rec : Slots, use : Uses,                       \* curmail, or cur of kill_old_email
             m : Letters \union {NoLetter},                 \* the letter read last
             hand : Hands \union {NoHand}]

NoList == [r \in Slots |-> NoEntry]
OffLine == [pc |-> "off", user |-> Nobody, mloc |-> NoList, emchg |-> FALSE,
            mailcheck |-> FALSE, rec |-> 0, use |-> "show", m |-> NoLetter,
            hand |-> NoHand]

TypeOK == /\ email \in [Slots -> Letters \union {NoLetter}]
          /\ size \in 0 .. LastSlot + 1
          /\ text \in [Places -> Messages \union {NoText}]
          /\ daten \in 0 .. MaxTime
          /\ written \subseteq Messages
          /\ stuck \in Nodes \union {Nobody}
          /\ changed \subseteq Nodes
          /\ node \in [Nodes -> Instance]
          /\ astray \in BOOLEAN

Init == /\ email = [i \in Slots |-> NoLetter] /\ size = 0
        /\ text = [p \in Places |-> NoText]
        /\ daten = 0 /\ written = {} /\ stuck = Nobody /\ changed = {}
        /\ node = [n \in Nodes |-> OffLine]
        /\ astray = FALSE

---------------------------------------------------------------------------
(* EMAIL.DAT *)

Used == {i \in Slots : email[i] # NoLetter}

\* open_email succeeds.  What its callers do when it gives up is left out.
CanOpen == stuck = Nobody

\* Mutant: the text of a letter goes with its first copy.
FreedAtOnce(S) == {email[i].msg : i \in S}

\* The texts that go when the letters at S do: one that a letter to several
\* users shares with a letter that stays is kept.
Freed(S) == {email[i].msg : i \in {j \in S : email[j].multi =>
                \A k \in Used \ S : email[k].msg # email[j].msg}}

\* delmail, for each record of S.
DelMail(S) ==
    /\ email' = [i \in Slots |-> IF i \in S THEN NoLetter ELSE email[i]]
    /\ text' = [p \in Places |-> IF p \in Freed(S) THEN NoText ELSE text[p]]
    /\ UNCHANGED size

\* The first record behind the last letter.
End == IF Used = {} THEN 0
       ELSE 1 + CHOOSE i \in Used : \A j \in Used : j <= i

\* Mutant: the file is taken to have one record more.
GrownPast(end) == IF end > size THEN end + 1 ELSE size

\* A record is written, behind the end as well.
Grown(end) == IF end > size THEN end ELSE size

\* A letter is written for each user on the list.
AppendLetters(l, list) ==
    /\ End + Len(list) <= LastSlot + 1
    /\ email' = [i \in Slots |->
                    IF i - End + 1 \in DOMAIN list
                    THEN [l EXCEPT !.touser = list[i - End + 1]] ELSE email[i]]
    /\ size' = IF list = <<>> THEN size ELSE Grown(End + Len(list))

\* Where a letter comes to stand when the gaps are closed.
Rank(i) == Cardinality({j \in Used : j < i})

\* Mutant: the records behind the last one that was moved stay.
PackedOnto == [k \in Slots |-> IF \E i \in Used : Rank(i) = k
                               THEN email[CHOOSE i \in Used : Rank(i) = k]
                               ELSE email[k]]

Packed == [k \in Slots |-> IF \E i \in Used : Rank(i) = k
                           THEN email[CHOOSE i \in Used : Rank(i) = k]
                           ELSE NoLetter]

---------------------------------------------------------------------------
(* The list of a reader *)

\* Mutant: any letter of that sender will do.
SameSender(nd, r, l) ==
    /\ nd.mloc[r] # NoEntry /\ l # NoLetter
    /\ l.touser = nd.user /\ l.fromuser = nd.mloc[r].fromuser

\* same_email: its comparison of the texts is of one byte that is the same in all.
SameEmail(nd, r, l) ==
    /\ nd.mloc[r] # NoEntry /\ l # NoLetter
    /\ l.touser = nd.user /\ l.fromuser = nd.mloc[r].fromuser
    /\ l.daten = nd.mloc[r].daten

Listed(nd) == {r \in Slots : nd.mloc[r].index # Gone}

InFile(nd, r) == nd.mloc[r].index < size

\* What is in m after sh_read at the place of entry r.
Read(nd, r) == IF InFile(nd, r) THEN email[nd.mloc[r].index] ELSE nd.m

Entry(l, i) == [fromuser |-> l.fromuser, daten |-> l.daten, index |-> i]

ListOf(u) == [i \in Slots |-> IF email[i] # NoLetter /\ email[i].touser = u
                              THEN Entry(email[i], i) ELSE NoEntry]

Lose(nd, r) == [nd EXCEPT !.mloc[r].index = Gone]

\* Nothing is on display.  What m holds does not count: behind the end, a letter
\* that was not on display is not believed to be there.
Prompt(nd) == [nd EXCEPT !.pc = "mail", !.rec = 0, !.use = "show", !.m = NoLetter]

\* resynch_email goes through file and list in one pass: it finds the letter at
\* r in record i if no record before that belongs to a later entry.
FoundAt(nd, r, i) ==
    /\ r \in Listed(nd) /\ SameEmail(nd, r, email[i])
    /\ \A j \in 0 .. i - 1 : \A s \in Listed(nd) : SameEmail(nd, s, email[j]) => s < r

Refound(nd) ==
    [r \in Slots |->
        IF \E i \in Slots : FoundAt(nd, r, i)
        THEN [nd.mloc[r] EXCEPT !.index = CHOOSE i \in Slots : FoundAt(nd, r, i)]
        ELSE [nd.mloc[r] EXCEPT !.index = Gone]]

---------------------------------------------------------------------------
(* Sessions *)

Do(n, nd) == node' = [node EXCEPT ![n] = nd]

\* get_status: another instance moved letters since n looked last.  Only a reader
\* asks for emchg, and it is cleared when his list is made.
Noted(n, nd) == [nd EXCEPT !.emchg = @ \/ (n \in changed /\ nd.mloc # NoList),
                           !.mailcheck = @ /\ n \notin changed]

\* Whatever else an instance does, it reads the status every now and then.
GetStatus(n) == /\ node[n].pc # "off" /\ n \in changed
                /\ Do(n, Noted(n, node[n])) /\ changed' = changed \ {n}
                /\ UNCHANGED <<email, size, text, daten, written, stuck, astray>>

\* A user may be on line twice: user_online is asked before the password is,
\* and not for the sysop.
LogOn(n) == /\ node[n].pc = "off"
            /\ \E u \in Users : Do(n, [OffLine EXCEPT !.pc = "main", !.user = u])
            /\ UNCHANGED <<email, size, text, daten, written, stuck, changed, astray>>

\* logoff reads the status, which forgets mailcheck if another instance has
\* closed the gaps meanwhile.
LogOff(n) == /\ node[n].pc \in {"main", "mail", "shown"}
             /\ Do(n, IF Noted(n, node[n]).mailcheck
                      THEN [OffLine EXCEPT !.pc = "pack", !.mailcheck = TRUE]
                      ELSE OffLine)
             /\ changed' = changed \ {n}
             /\ UNCHANGED <<email, size, text, daten, written, stuck, astray>>

\* Mutant: the other instances are not told.
PackSilently(n) ==
    /\ node[n].pc = "pack" /\ Do(n, OffLine)
    /\ IF CanOpen THEN email' = Packed /\ size' = Cardinality(Used)
                  ELSE UNCHANGED <<email, size>>
    /\ UNCHANGED <<text, daten, written, stuck, changed, astray>>

\* The gaps are closed, and the others are told before anybody can open the file.
Pack(n) == /\ node[n].pc = "pack" /\ Do(n, OffLine)
           /\ IF CanOpen
              THEN /\ email' = Packed /\ size' = Cardinality(Used)
                   /\ changed' = {k \in Nodes \ {n} : node[k].pc # "off"}
              ELSE UNCHANGED <<email, size, changed>>
           /\ UNCHANGED <<text, daten, written, stuck, astray>>

\* The program of an instance ends, wherever it is.
Crash(n) == /\ node[n].pc # "off" /\ Do(n, OffLine)
            /\ stuck' = IF stuck = n THEN Nobody ELSE stuck
            /\ changed' = changed \ {n}
            /\ UNCHANGED <<email, size, text, daten, written, astray>>

---------------------------------------------------------------------------
(* Sending *)

\* inmsg stores the text; email() has one user, multimail those of its list
\* that are not refused.
Write(n) ==
    /\ node[n].pc \in {"main", "shown"}
    /\ \E m \in Messages \ written, p \in Places, w \in Mailings :
          /\ text[p] = NoText
          /\ text' = [text EXCEPT ![p] = m]
          /\ written' = written \union {m}
          /\ Do(n, [node[n] EXCEPT !.pc = "send",
                        !.hand = [fromuser |-> node[n].user, msg |-> p, to |-> w.to,
                                  multi |-> w.multi, back |-> node[n].pc]])
    /\ UNCHANGED <<email, size, daten, stuck, changed, astray>>

\* sendout_email, or the end of multimail.
Send(n) ==
    LET h == node[n].hand
    IN  /\ node[n].pc = "send" /\ CanOpen /\ daten < MaxTime
        /\ daten' = daten + 1
        /\ AppendLetters([fromuser |-> h.fromuser, touser |-> h.fromuser,
                          daten |-> daten', msg |-> h.msg, multi |-> h.multi], h.to)
        /\ Do(n, [node[n] EXCEPT !.pc = h.back, !.hand = NoHand])
        /\ UNCHANGED <<text, written, stuck, changed, astray>>

---------------------------------------------------------------------------
(* Reading *)

\* The list is made.
ReadMail(n) ==
    /\ n \in Readers /\ node[n].pc = "main" /\ CanOpen /\ ListOf(node[n].user) # NoList
    /\ Do(n, [node[n] EXCEPT !.pc = "mail", !.mloc = ListOf(node[n].user),
                             !.emchg = FALSE])
    /\ UNCHANGED <<email, size, text, daten, written, stuck, changed, astray>>

\* The list is forgotten.
Quit(n) == /\ node[n].pc \in {"mail", "shown"}
           /\ Do(n, [OffLine EXCEPT !.pc = "main", !.user = node[n].user,
                                    !.mailcheck = node[n].mailcheck])
           /\ UNCHANGED <<email, size, text, daten, written, stuck, changed, astray>>

\* read_same_email for a use of entry r finds another letter, or none ...
Miss(n, r) ==
    LET l == Read(node[n], r)
    IN  /\ node[n].pc \in {"mail", "shown"} /\ CanOpen /\ r \in Listed(node[n])
        /\ ~SameEmail(node[n], r, l)
        /\ \E use \in Uses :
              /\ use = "show" \/ (node[n].pc = "shown" /\ r = node[n].rec)
              /\ Do(n, [node[n] EXCEPT !.pc = "lost", !.rec = r, !.use = use, !.m = NoLetter])
        /\ UNCHANGED <<email, size, text, daten, written, stuck, changed, astray>>

\* ... and looks whether letters were moved.
Lost(n) ==
    LET nd == Noted(n, node[n])
    IN  /\ node[n].pc = "lost"
        /\ Do(n, IF nd.emchg THEN [nd EXCEPT !.pc = "resynch"]
                             ELSE Prompt(Lose(nd, nd.rec)))
        /\ changed' = changed \ {n}
        /\ UNCHANGED <<email, size, text, daten, written, stuck, astray>>

ResynchEmail(n) ==
    LET nd == [node[n] EXCEPT !.mloc = Refound(node[n])]
        r == nd.rec
    IN  /\ node[n].pc = "resynch" /\ CanOpen
        /\ \/ r \notin Listed(nd) /\ Do(n, Prompt(nd)) /\ UNCHANGED <<email, size, text>>
           \/ /\ r \in Listed(nd) /\ nd.use # "delete"
              /\ Do(n, [nd EXCEPT !.pc = "shown", !.use = "show", !.m = email[nd.mloc[r].index]])
              /\ UNCHANGED <<email, size, text>>
           \/ /\ r \in Listed(nd) /\ nd.use = "delete" /\ DelMail({nd.mloc[r].index})
              /\ Do(n, [Prompt(Lose(nd, r)) EXCEPT !.mailcheck = TRUE])
        /\ UNCHANGED <<daten, written, stuck, changed, astray>>

\* A letter is there to be displayed, or before a command is obeyed.
Show(n, r) ==
    LET l == Read(node[n], r)
    IN  /\ node[n].pc \in {"mail", "shown"} /\ CanOpen /\ r \in Listed(node[n])
        /\ SameEmail(node[n], r, l)
        /\ Do(n, [node[n] EXCEPT !.pc = "shown", !.rec = r, !.m = l])
        /\ UNCHANGED <<email, size, text, daten, written, stuck, changed, astray>>

\* The letter on display is looked up again, and is there or believed to be.
Stands(n) == /\ CanOpen /\ node[n].rec \in Listed(node[n])
             /\ SameEmail(node[n], node[n].rec, Read(node[n], node[n].rec))

\* It is marked as read or as replied to, and written back as it was read.
Mark(n) ==
    LET nd == node[n]
        i == nd.mloc[nd.rec].index
    IN  /\ nd.pc = "shown" /\ Stands(n)
        /\ email' = [email EXCEPT ![i] = Read(nd, nd.rec)]
        /\ size' = Grown(i + 1)
        /\ astray' = (astray \/ ~InFile(nd, nd.rec))
        /\ UNCHANGED <<text, daten, written, stuck, changed, node>>

\* D or Z, and the end of a reply with A or O.
Delete(n) ==
    LET nd == node[n]
    IN  /\ nd.pc = "shown" /\ Stands(n) /\ InFile(nd, nd.rec)
        /\ DelMail({nd.mloc[nd.rec].index})
        /\ Do(n, [Prompt(Lose(nd, nd.rec)) EXCEPT !.mailcheck = TRUE])
        /\ UNCHANGED <<daten, written, stuck, changed, astray>>

\* delmail goes on with an uninitialized record: it takes it for an empty one,
\* or removes a text or none and writes an empty record behind the end.
DeleteBehindEnd(n) ==
    LET nd == node[n]
        i == nd.mloc[nd.rec].index
    IN  /\ nd.pc = "shown" /\ Stands(n) /\ ~InFile(nd, nd.rec)
        /\ \/ UNCHANGED <<text, size>> /\ Do(n, Prompt(Lose(nd, nd.rec)))
           \/ /\ \/ UNCHANGED text
                 \/ \E p \in Places : text' = [text EXCEPT ![p] = NoText]
              /\ size' = i + 1
              /\ Do(n, [Prompt(Lose(nd, nd.rec)) EXCEPT !.mailcheck = TRUE])
        /\ astray' = TRUE
        /\ UNCHANGED <<email, daten, written, stuck, changed>>

\* purgemail: all letters of the list that the sender of this one wrote.  Its
\* own m makes it skip places behind the end.
Purge(n) ==
    LET nd == node[n]
        hits == {s \in Listed(nd) : /\ InFile(nd, s) /\ SameEmail(nd, s, Read(nd, s))
                                    /\ Read(nd, s).fromuser = nd.m.fromuser}
    IN  /\ nd.pc = "shown" /\ CanOpen
        /\ DelMail({nd.mloc[s].index : s \in hits})
        /\ Do(n, [Prompt(nd) EXCEPT !.mailcheck = @ \/ hits # {},
                      !.mloc = [s \in Slots |-> IF s \in hits THEN [@[s] EXCEPT !.index = Gone]
                                                ELSE @[s]]])
        /\ UNCHANGED <<daten, written, stuck, changed, astray>>

---------------------------------------------------------------------------
(* Forwarding *)

\* Mutant: letters to several users are forwarded too.
AskForwardAny(n) ==
    /\ node[n].pc = "shown"
    /\ Do(n, [node[n] EXCEPT !.pc = "forward"])
    /\ UNCHANGED <<email, size, text, daten, written, stuck, changed, astray>>

\* F, and whom to.
AskForward(n) ==
    /\ node[n].pc = "shown" /\ ~node[n].m.multi
    /\ Do(n, [node[n] EXCEPT !.pc = "forward"])
    /\ UNCHANGED <<email, size, text, daten, written, stuck, changed, astray>>

\* Nobody, or one who may not be written to; or "no" when asked.
NoForward(n) ==
    /\ node[n].pc = "forward" /\ Do(n, [node[n] EXCEPT !.pc = "shown"])
    /\ UNCHANGED <<email, size, text, daten, written, stuck, changed, astray>>

\* The record is emptied before the letter is sent on.
Forward(n) ==
    LET nd == node[n]
        i == nd.mloc[nd.rec].index
        l == Read(nd, nd.rec)
    IN  /\ nd.pc = "forward" /\ Stands(n)
        /\ email' = [email EXCEPT ![i] = NoLetter]
        /\ size' = Grown(i + 1)
        /\ astray' = (astray \/ ~InFile(nd, nd.rec))
        /\ \E u \in Users :
              Do(n, [Prompt(nd) EXCEPT !.pc = "send", !.mailcheck = TRUE,
                         !.hand = [fromuser |-> l.fromuser, msg |-> l.msg, to |-> <<u>>,
                                   multi |-> FALSE, back |-> "mail"]])
        /\ UNCHANGED <<text, daten, written, stuck, changed>>

\* "Error, mail moved.": back to the prompt with EMAIL.DAT open.
ForwardMoved(n) ==
    /\ node[n].pc = "forward" /\ CanOpen
    /\ ~SameEmail(node[n], node[n].rec, Read(node[n], node[n].rec))
    /\ stuck' = n
    /\ Do(n, Prompt(node[n]))
    /\ UNCHANGED <<email, size, text, daten, written, changed, astray>>

---------------------------------------------------------------------------
(* kill_old_email and mailr *)

\* A letter that the user sent, or any for the sysop, is shown.
Look(n) ==
    /\ n \in Removers /\ node[n].pc = "main" /\ CanOpen
    /\ \E i \in Used : /\ node[n].user \in {email[i].fromuser, Sysop}
                       /\ Do(n, [node[n] EXCEPT !.pc = "kill", !.rec = i, !.m = email[i]])
    /\ UNCHANGED <<email, size, text, daten, written, stuck, changed, astray>>

\* It is removed if the record is what it was, the marks included.
Kill(n) ==
    LET nd == [node[n] EXCEPT !.pc = "main", !.rec = 0, !.m = NoLetter]
    IN  /\ node[n].pc = "kill" /\ CanOpen
        /\ \/ /\ node[n].rec < size /\ email[node[n].rec] = node[n].m
              /\ DelMail({node[n].rec}) /\ Do(n, [nd EXCEPT !.mailcheck = TRUE])
           \/ Do(n, nd) /\ UNCHANGED <<email, size, text>>
        /\ UNCHANGED <<daten, written, stuck, changed, astray>>

---------------------------------------------------------------------------

Reader(n) ==
    \/ ReadMail(n) \/ Quit(n) \/ (\E r \in Slots : Show(n, r) \/ Miss(n, r)) \/ Lost(n)
    \/ ResynchEmail(n) \/ Mark(n) \/ Delete(n) \/ DeleteBehindEnd(n) \/ Purge(n)
    \/ AskForward(n) \/ NoForward(n) \/ Forward(n) \/ ForwardMoved(n)

NodeStep(n) ==
    \/ LogOn(n) \/ GetStatus(n) \/ LogOff(n) \/ Pack(n) \/ Crash(n)
    \/ Write(n) \/ Send(n) \/ Reader(n) \/ Look(n) \/ Kill(n)

Next == \E n \in Nodes : NodeStep(n)

Spec == Init /\ [][Next]_vars

---------------------------------------------------------------------------
(* Properties, which hold until a place behind the end was written to. *)

\* Every letter has its text, and so has one that is about to be sent: no
\* removal of a letter takes a text that another one still needs (delmail).
LettersHaveTexts ==
    astray \/ /\ \A i \in Used : text[email[i].msg] # NoText
              /\ \A n \in Nodes : node[n].pc = "send" => text[node[n].hand.msg] # NoText

\* The letter of the same time in the same box.
Same(l, k) == l.touser = k.touser /\ l.daten = k.daten

\* No letter is in EMAIL.DAT twice, whatever is moved, forwarded or written
\* back in between (logoff, read_same_email).
OneCopy ==
    astray \/ \A i, j \in Used : Same(email[i], email[j]) => i = j

\* Where the letter of an entry is in EMAIL.DAT.
LetterOf(nd, r) == {i \in Used : SameEmail(nd, r, email[i])}

\* A letter that a reader is told is gone is gone: read_same_email loses no
\* letter that was only moved, and D removes what it says it does.
LostIsGone ==
    astray \/ \A n \in Nodes : \A r \in Slots :
                  node[n].mloc[r].index = Gone => LetterOf(node[n], r) = {}

\* What HELP.MSG says of D, "Delete the piece of mail.": the letter is not in the
\* file any more, also when it was behind the end that it was believed to be.
DeletedIsGone ==
    \A n \in Nodes : \A r \in Slots :
        node[n].mloc[r].index = Gone => LetterOf(node[n], r) = {}

\* Unless all letters of a sender are purged, no letter goes but the one that
\* the user of the instance had before him, wherever it was moved meanwhile.
Meant(nd) == IF nd.pc = "kill" THEN nd.m.daten ELSE nd.mloc[nd.rec].daten
Kept(l) == \E j \in Slots : email'[j] # NoLetter /\ Same(email'[j], l)
OnlyMeantGo ==
    [][\A i \in Used : \/ Kept(email[i]) \/ astray'
                       \/ \E n \in Nodes : /\ node'[n] # node[n]
                                           /\ Purge(n) \/ email[i].daten = Meant(node[n])]_vars

\* The boxes of the users, for PostOffice.
Box(u) == {[fromuser |-> email[i].fromuser, daten |-> email[i].daten,
            text |-> text[email[i].msg]] : i \in {j \in Used : email[j].touser = u}}
Post == INSTANCE PostOffice WITH box <- [u \in Users |-> Box(u)]

\* EMAIL.DAT and the file of texts are the boxes of PostOffice: letters come
\* into them with their texts and stay as they are until somebody removes them,
\* whatever the places where they are stored go through.
\* (The first disjunct is implied; it saves TLC the search for a removal of nothing.)
IsPostOffice == Post!Init /\ [][UNCHANGED Post!vars \/ Post!Next \/ astray']_(Post!vars)
=============================================================================
