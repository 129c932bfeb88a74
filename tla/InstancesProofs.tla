-------------------------- MODULE InstancesProofs --------------------------
(***************************************************************************)
(* What TLAPS proves of Instances, for any number of instances, users,     *)
(* doors, names of files and messages: it is type correct, users and doors *)
(* are doubled only by questions asked at the same time, and the message   *)
(* files implement Mailbox.                                                *)
(***************************************************************************)
EXTENDS Instances, TLAPS

---------------------------------------------------------------------------
(* The inductive invariant of the scan *)

\* Where an instance looks for messages.
Scanners == {"wfc", "name", "logon", "menu", "idle"}

ScanOK == \A n \in Nodes : node[n].scan # "no" => node[n].pc \in Scanners

TypeInv == TypeOK /\ ScanOK

---------------------------------------------------------------------------
(* What a step of the session does *)

\* It changes what n has in memory, its record and who asks with whom, and no
\* scan of its files.
Serves(n) ==
    /\ node' \in [Nodes -> Instance] /\ dir' \in [Nodes -> Entries]
    /\ met' \in [{"look", "check"} -> SUBSET SUBSET Nodes]
    /\ \A k \in Nodes : k # n => node'[k] = node[k] /\ dir'[k] = dir[k]
    /\ node'[n].scan = node[n].scan
    /\ node[n].scan = "file" => node'[n].file = node[n].file /\ node'[n].done = node[n].done
    /\ node'[n].scan # "no" => node'[n].pc \in Scanners

LEMMA EntryTypes ==
    ASSUME NEW u \in Users \union {Nobody}, NEW d \in Doors \union {NoDoor}, NEW a \in BOOLEAN
    PROVE  /\ Idle \in Entries /\ At(u, d, a) \in Entries
           /\ [Down EXCEPT !.user = u] \in Entries
           /\ Idle.user = Nobody /\ At(u, d, a).user = u /\ At(u, d, a).door = d
BY DEF Entries, Idle, Down, At

LEMMA DoType ==
    ASSUME TypeOK, NEW n \in Nodes, NEW nd \in Instance, Do(n, nd)
    PROVE  /\ node' \in [Nodes -> Instance] /\ node'[n] = nd
           /\ \A k \in Nodes : k # n => node'[k] = node[k]
BY DEF TypeOK, Do

LEMMA DirType ==
    ASSUME TypeOK, NEW n \in Nodes, NEW e \in Entries, dir' = [dir EXCEPT ![n] = e]
    PROVE  /\ dir' \in [Nodes -> Entries] /\ dir'[n] = e
           /\ \A k \in Nodes : k # n => dir'[k] = dir[k]
BY DEF TypeOK

\* Instances in memory that are not scanning.
LEMMA OffLineType ==
    ASSUME NEW p \in Steps, NEW u \in Users \union {Nobody}, NEW h \in BOOLEAN,
           NEW S \in SUBSET Nodes
    PROVE  /\ OffLine \in Instance
           /\ [OffLine EXCEPT !.pc = p] \in Instance
           /\ [OffLine EXCEPT !.pc = p, !.user = u, !.left = S] \in Instance
           /\ [OffLine EXCEPT !.pc = p, !.user = u, !.hangup = h] \in Instance
<1>1. "down" \in Steps
  BY DEF Steps
<1>2. OffLine \in Instance
  BY <1>1 DEF OffLine, Instance
<1>3. /\ [OffLine EXCEPT !.pc = p] \in Instance
      /\ [OffLine EXCEPT !.pc = p, !.user = u, !.left = S] \in Instance
  BY <1>2 DEF Instance
<1>4. [OffLine EXCEPT !.pc = p, !.user = u, !.hangup = h] \in Instance
  BY <1>2 DEF Instance
<1>5. QED
  BY <1>2, <1>3, <1>4

LEMMA MeetType ==
    ASSUME TypeOK, NEW n \in Nodes, NEW kind \in {"look", "check"}, NEW S \in SUBSET Nodes,
           Meet(n, kind, S)
    PROVE  met' \in [{"look", "check"} -> SUBSET SUBSET Nodes]
<1>1. {{n, j} : j \in S \ {n}} \subseteq SUBSET Nodes
  OBVIOUS
<1>2. QED
  BY <1>1 DEF TypeOK, Meet

LEMMA SessionServes ==
    ASSUME TypeInv, NEW n \in Nodes, SessionStep(n)
    PROVE  Serves(n) /\ UNCHANGED <<box, tmp, to, shown>>
<1>. DEFINE nd == node[n]
<1>. USE InstancesAssumption DEF TypeInv
<1>1. /\ nd \in Instance /\ dir \in [Nodes -> Entries] /\ node \in [Nodes -> Instance]
      /\ met \in [{"look", "check"} -> SUBSET SUBSET Nodes]
      /\ OffLine \in Instance /\ OffLine.scan = "no"
      /\ nd.scan # "no" => nd.pc \in Scanners
  BY OffLineType DEF TypeOK, OffLine, ScanOK, Steps
\* It is enough to look at what n has in memory, and at the record it writes.
<1>2. ASSUME NEW w \in Instance, Do(n, w),
             w.scan = nd.scan, nd.scan = "file" => w.file = nd.file /\ w.done = nd.done,
             w.scan # "no" => w.pc \in Scanners,
             UNCHANGED dir \/ \E e \in Entries : dir' = [dir EXCEPT ![n] = e],
             UNCHANGED met \/ met' \in [{"look", "check"} -> SUBSET SUBSET Nodes]
      PROVE  Serves(n)
  <2>1. dir' \in [Nodes -> Entries] /\ \A k \in Nodes : k # n => dir'[k] = dir[k]
    BY <1>1, <1>2, DirType
  <2>2. met' \in [{"look", "check"} -> SUBSET SUBSET Nodes]
    BY <1>1, <1>2
  <2>3. QED
    BY <1>2, <2>1, <2>2, DoType DEF Serves
\* Instances that do not scan stay so.
<1>3. ASSUME NEW p \in Steps, NEW u \in Users \union {Nobody}, NEW h \in BOOLEAN,
             NEW S \in SUBSET Nodes, nd.scan = "no",
             \/ Do(n, [OffLine EXCEPT !.pc = p])
             \/ Do(n, [OffLine EXCEPT !.pc = p, !.user = u, !.left = S])
             \/ Do(n, [OffLine EXCEPT !.pc = p, !.user = u, !.hangup = h])
             \/ Do(n, OffLine)
             \/ Do(n, [nd EXCEPT !.pc = p])
             \/ Do(n, [nd EXCEPT !.pc = p, !.left = S])
             \/ Do(n, [nd EXCEPT !.pc = p, !.user = u])
             \/ Do(n, [nd EXCEPT !.pc = p, !.user = u, !.left = S]),
             UNCHANGED dir \/ \E e \in Entries : dir' = [dir EXCEPT ![n] = e],
             UNCHANGED met \/ met' \in [{"look", "check"} -> SUBSET SUBSET Nodes]
      PROVE  Serves(n)
  <2>1. PICK w : Do(n, w) /\ w \in Instance /\ w.scan = "no"
    <3>1. /\ [nd EXCEPT !.pc = p] \in Instance
          /\ [nd EXCEPT !.pc = p, !.left = S] \in Instance
          /\ [nd EXCEPT !.pc = p, !.user = u] \in Instance
          /\ [nd EXCEPT !.pc = p, !.user = u, !.left = S] \in Instance
      BY <1>1 DEF Instance
    <3>2. /\ [nd EXCEPT !.pc = p].scan = "no"
          /\ [nd EXCEPT !.pc = p, !.left = S].scan = "no"
          /\ [nd EXCEPT !.pc = p, !.user = u].scan = "no"
          /\ [nd EXCEPT !.pc = p, !.user = u, !.left = S].scan = "no"
      BY <1>1, <1>3 DEF Instance
    <3>3. /\ [OffLine EXCEPT !.pc = p] \in Instance
          /\ [OffLine EXCEPT !.pc = p, !.user = u, !.left = S] \in Instance
          /\ [OffLine EXCEPT !.pc = p, !.user = u, !.hangup = h] \in Instance
      BY OffLineType
    <3>4. /\ [OffLine EXCEPT !.pc = p].scan = "no"
          /\ [OffLine EXCEPT !.pc = p, !.user = u, !.left = S].scan = "no"
          /\ [OffLine EXCEPT !.pc = p, !.user = u, !.hangup = h].scan = "no"
      BY DEF OffLine
    <3>5. QED
      BY <1>1, <1>3, <3>1, <3>2, <3>3, <3>4
  <2>2. QED
    BY <1>2, <1>3, <2>1
<1>4. \A u \in Users \union {Nobody}, d \in Doors \union {NoDoor}, a \in BOOLEAN :
         Idle \in Entries /\ At(u, d, a) \in Entries /\ [Down EXCEPT !.user = u] \in Entries
  BY EntryTypes
<1>5. nd.user \in Users \union {Nobody} /\ nd.door \in Doors \union {NoDoor}
      /\ nd.left \in SUBSET Nodes /\ Others(n) \in SUBSET Nodes
  BY <1>1 DEF Instance, Others
<1>6. \A a \in Audience(n) : a \in SUBSET Nodes
  BY DEF Audience, Others
<1>7. {"down", "wfc", "name", "look", "logon", "menu", "check", "door", "bye", "all",
       "idle", "ending"} = Steps
  BY DEF Steps
<1>8. nd.pc \in {"down", "look", "check", "door", "bye", "all", "ending"} => nd.scan = "no"
  BY <1>1 DEF Scanners
<1>10. CASE Start(n)
  BY <1>10, <1>3, <1>4, <1>5, <1>7, <1>8 DEF Start
<1>11. CASE Call(n)
  BY <1>11, <1>3, <1>4, <1>5, <1>7 DEF Call, Free
<1>12. CASE WrongPassword(n) \/ GiveUp(n)
  BY <1>12, <1>3, <1>5, <1>7, <1>8 DEF WrongPassword, GiveUp, Free
<1>13. CASE Logon(n)
  <2>1. PICK a \in Audience(n) : Do(n, [nd EXCEPT !.pc = "logon", !.left = a])
    BY <1>13 DEF Logon
  <2>2. nd.scan = "no" /\ "logon" \in Steps /\ a \in SUBSET Nodes
    BY <1>13, <1>6, <1>7, <1>8 DEF Logon
  <2>3. At(nd.user, NoDoor, FALSE) \in Entries
    BY <1>4, <1>5
  <2>4. QED
    BY <1>13, <1>3, <1>5, <2>1, <2>2, <2>3 DEF Logon
<1>14. CASE Walk(n)
  BY <1>14, <1>3, <1>4, <1>5, <1>7 DEF Walk, Free
<1>15. CASE HangUp(n)
  <2>1. [nd EXCEPT !.hangup = TRUE] \in Instance
    BY <1>1 DEF Instance
  <2>2. QED
    BY <1>1, <1>2, <1>15, <2>1 DEF HangUp, Instance
<1>16. CASE Logoff(n)
  BY <1>16, <1>3, <1>5, <1>6, <1>7 DEF Logoff, Free
<1>17. CASE FrequentInit(n) \/ GetCaller(n)
  BY <1>17, <1>3, <1>4, <1>5, <1>7, <1>8 DEF FrequentInit, GetCaller, Free
<1>18. CASE ShutAll(n)
  BY <1>18, <1>3, <1>5, <1>7 DEF ShutAll, InstanceEdit, Free
<1>19. CASE Stop(n)
  <2>1. nd.scan = "no" /\ "ending" \in Steps /\ nd.user \in Users \union {Nobody}
    BY <1>5, <1>7, <1>8, <1>19 DEF Stop, InstanceEdit, Free
  <2>2. Do(n, [OffLine EXCEPT !.pc = "ending", !.user = nd.user, !.hangup = TRUE])
    BY <1>19 DEF Stop, Leaving
  <2>3. UNCHANGED <<dir, met, box, tmp, to, shown>>
    BY <1>19 DEF Stop
  <2>4. QED
    BY <1>3, <2>1, <2>2, <2>3
<1>20. CASE EndBbs(n)
  BY <1>20, <1>3, <1>4, <1>5, <1>7, <1>8 DEF EndBbs
<1>21. CASE OpenDoor(n)
  BY <1>21, <1>3, <1>4, <1>5, <1>7, <1>8 DEF OpenDoor
<1>22. CASE LeaveDoor(n)
  <2>1. /\ [nd EXCEPT !.pc = "menu", !.door = NoDoor] \in Instance
        /\ nd.scan = "no"
    BY <1>1, <1>7, <1>8, <1>22 DEF Instance, LeaveDoor
  <2>2. QED
    BY <1>1, <1>2, <1>22, <2>1 DEF LeaveDoor, Instance
<1>23. ASSUME NEW u \in Users, Name(n, u)
       PROVE  Serves(n)
  <2>1. met' \in [{"look", "check"} -> SUBSET SUBSET Nodes]
    BY <1>23, MeetType DEF Name, Asking
  <2>2. (IF u \in Exempt THEN {} ELSE Others(n)) \in SUBSET Nodes
    BY <1>5
  <2>3. QED
    BY <1>23, <1>3, <1>7, <2>1, <2>2 DEF Name, Free
<1>24. ASSUME NEW u \in Users, FastLogon(n, u)
       PROVE  Serves(n)
  BY <1>24, <1>3, <1>4, <1>6, <1>7 DEF FastLogon, Free
<1>25. ASSUME NEW c \in Doors, RunChain(n, c)
       PROVE  Serves(n)
  <2>1. met' \in [{"look", "check"} -> SUBSET SUBSET Nodes]
    BY <1>25, MeetType DEF RunChain
  <2>2. [nd EXCEPT !.pc = "check", !.door = c, !.left = Others(n)] \in Instance
    BY <1>1, <1>5, <1>7 DEF Instance
  <2>3. QED
    BY <1>1, <1>2, <1>25, <2>1, <2>2 DEF RunChain, Free, Instance
<1>26. ASSUME NEW i \in Nodes, Look(n, i)
       PROVE  Serves(n)
  <2>1. /\ [nd EXCEPT !.left = @ \ {i}] \in Instance
        /\ [nd EXCEPT !.pc = "name", !.user = Nobody, !.left = {}] \in Instance
        /\ nd.scan = "no"
    BY <1>1, <1>7, <1>8, <1>26 DEF Instance, Look
  <2>2. QED
    BY <1>1, <1>2, <1>26, <2>1 DEF Look, Instance
<1>27. ASSUME NEW i \in Nodes, CheckDoor(n, i)
       PROVE  Serves(n)
  <2>1. /\ [nd EXCEPT !.left = @ \ {i}] \in Instance
        /\ [nd EXCEPT !.pc = "menu", !.door = NoDoor, !.left = {}] \in Instance
        /\ nd.scan = "no"
    BY <1>1, <1>7, <1>8, <1>27 DEF Instance, CheckDoor
  <2>2. QED
    BY <1>1, <1>2, <1>27, <2>1 DEF CheckDoor, Instance
<1>28. Serves(n)
  BY <1>10, <1>11, <1>12, <1>13, <1>14, <1>15, <1>16, <1>17, <1>18, <1>19, <1>20, <1>21,
     <1>22, <1>23, <1>24, <1>25, <1>26, <1>27 DEF SessionStep
<1>29. UNCHANGED <<box, tmp, to, shown>>
  BY DEF SessionStep, Start, Call, Name, FastLogon, WrongPassword, GiveUp, Logon, Walk, HangUp,
         Logoff, FrequentInit, GetCaller, ShutAll, Stop, EndBbs, RunChain, OpenDoor,
         LeaveDoor, Look, CheckDoor
<1>30. QED
  BY <1>28, <1>29

---------------------------------------------------------------------------
(* Type correctness *)

\* What a step that sends does to the files: it fills one, or leaves them.
LEMMA SendType ==
    ASSUME TypeOK, NEW n \in Nodes, NEW d \in Nodes, NEW m \in Messages, Send(n, d, m)
    PROVE  /\ box' \in [Nodes -> [Names -> Seq(Messages)]]
           /\ tmp' \in [Nodes -> [Nodes -> Seq(Messages)]]
           /\ to' \in [Messages -> Nodes \union {Nobody}]
           /\ \A k \in Nodes, f \in Names : box[k][f] # <<>> => box'[k][f] = box[k][f]
<1>. DEFINE msgs == Append(tmp[n][d], m)
<1>1. msgs \in Seq(Messages)
  BY DEF TypeOK
<1>2. CASE \E f \in Names : /\ box[d][f] = <<>>
                            /\ box' = [box EXCEPT ![d][f] = msgs]
                            /\ tmp' = [tmp EXCEPT ![n][d] = <<>>]
  BY <1>1, <1>2 DEF TypeOK, Send
<1>3. CASE tmp' = [tmp EXCEPT ![n][d] = msgs] /\ UNCHANGED box
  BY <1>1, <1>3 DEF TypeOK, Send
<1>4. QED
  BY <1>2, <1>3 DEF Send

LEMMA OpenStays ==
    ASSUME TypeOK, NEW k \in Nodes, node'[k].scan = "file" => node[k].scan = "file",
           node'[k].scan = "file" => /\ node'[k].file = node[k].file
                                     /\ node'[k].done = node[k].done,
           node' \in [Nodes -> Instance], box' \in [Nodes -> [Names -> Seq(Messages)]],
           \A f \in Names : box[k][f] # <<>> => box'[k][f] = box[k][f]
    PROVE  node'[k].scan = "file" =>
               /\ node'[k].file # NoName
               /\ node'[k].done \in 0 .. Len(box'[k][node'[k].file])
<1>. SUFFICES ASSUME node'[k].scan = "file"
              PROVE  /\ node'[k].file # NoName
                     /\ node'[k].done \in 0 .. Len(box'[k][node'[k].file])
  OBVIOUS
<1>. DEFINE f == node[k].file
<1>1. f # NoName /\ node[k].done \in 0 .. Len(box[k][f]) /\ f \in Names
  BY DEF TypeOK, Instance
<1>2. box[k][f] \in Seq(Messages) /\ box'[k][f] \in Seq(Messages)
  BY <1>1 DEF TypeOK
<1>3. CASE box[k][f] = <<>>
  BY <1>1, <1>2, <1>3
<1>4. CASE box[k][f] # <<>>
  BY <1>1, <1>4
<1>5. QED
  BY <1>3, <1>4

\* The steps that send.
Sends(n) == \E d \in Nodes : Tell(n, d) \/ TellOfMail(n, d) \/ ShutOther(n, d)

\* Two states of memory that differ in the loop over the instances at most.
Alike(w, nd) ==
    /\ w.pc = nd.pc /\ w.user = nd.user /\ w.hangup = nd.hangup /\ w.door = nd.door
    /\ w.scan = nd.scan /\ w.file = nd.file /\ w.done = nd.done
    /\ nd.pc \in {"look", "check"} => w.left = nd.left

\* They change nothing in memory that a scan uses.
LEMMA SendsAre ==
    ASSUME TypeInv, NEW n \in Nodes, Sends(n)
    PROVE  /\ node' \in [Nodes -> Instance]
           /\ \A k \in Nodes : Alike(node'[k], node[k])
           /\ UNCHANGED <<dir, shown, met>>
           /\ UNCHANGED <<box, tmp, to>> \/ \E d \in Nodes, m \in Messages : Send(n, d, m)
<1>. DEFINE nd == node[n]
<1>. USE InstancesAssumption
<1>1. nd \in Instance /\ node \in [Nodes -> Instance]
  BY DEF TypeInv, TypeOK
<1>2. PICK d \in Nodes : Tell(n, d) \/ TellOfMail(n, d) \/ ShutOther(n, d)
  BY DEF Sends
<1>3. CASE Tell(n, d)
  <2>1. [nd EXCEPT !.left = @ \ {d}] \in Instance
    BY <1>1 DEF Instance
  <2>2. nd.pc \notin {"look", "check"}
    BY <1>3 DEF Tell
  <2>3. Alike([nd EXCEPT !.left = @ \ {d}], nd)
    BY <1>1, <2>2 DEF Instance, Alike
  <2>4. Do(n, [nd EXCEPT !.left = @ \ {d}]) /\ UNCHANGED <<dir, shown, met>>
    BY <1>3 DEF Tell
  <2>5. UNCHANGED <<box, tmp, to>> \/ \E m \in Messages : Send(n, d, m)
    BY <1>3 DEF Tell, SendOne
  <2>6. /\ node' \in [Nodes -> Instance] /\ node'[n] = [nd EXCEPT !.left = @ \ {d}]
        /\ \A k \in Nodes : k # n => node'[k] = node[k]
    BY <2>1, <2>4, DoType DEF TypeInv
  <2>7. \A k \in Nodes : Alike(node'[k], node[k])
    BY <2>3, <2>6 DEF Alike
  <2>8. QED
    BY <2>4, <2>5, <2>6, <2>7
<1>4. CASE TellOfMail(n, d)
  BY <1>1, <1>4 DEF TellOfMail, Alike
<1>5. CASE ShutOther(n, d)
  BY <1>1, <1>5 DEF ShutOther, Alike
<1>6. QED
  BY <1>2, <1>3, <1>4, <1>5

\* A scan changes its own instance, which stays what it was to the others or is
\* about to end, and empties the open file at most.
Scans(n) ==
    /\ node' \in [Nodes -> Instance] /\ box' \in [Nodes -> [Names -> Seq(Messages)]]
    /\ shown' \in SUBSET Messages
    /\ UNCHANGED <<dir, tmp, to, met>>
    /\ \A k \in Nodes : k # n => node'[k] = node[k] /\ box'[k] = box[k]
    /\ node'[n].user = node[n].user
    /\ node[n].pc \in Scanners /\ node'[n].pc \in {node[n].pc, "ending"}
    /\ node'[n].scan # "no" => node'[n].pc \in Scanners
    /\ node'[n].scan = "file" => /\ node'[n].file # NoName
                                 /\ node'[n].done \in 0 .. Len(box'[n][node'[n].file])

LEMMA ScanScans ==
    ASSUME TypeInv, NEW n \in Nodes, ProcessInstMsgs(n)
    PROVE  Scans(n)
<1>. DEFINE nd == node[n]
<1>. USE InstancesAssumption DEF TypeInv
<1>1. /\ nd \in Instance /\ node \in [Nodes -> Instance] /\ shown \in SUBSET Messages
      /\ box \in [Nodes -> [Names -> Seq(Messages)]]
      /\ nd.scan # "no" => nd.pc \in Scanners
      /\ nd.scan = "file" => /\ nd.file # NoName /\ nd.file \in Names
                             /\ nd.done \in 0 .. Len(box[n][nd.file])
  BY DEF TypeOK, ScanOK, Instance
<1>2. ASSUME NEW w \in Instance, Do(n, w), w.user = nd.user,
             nd.pc \in Scanners, w.pc \in {nd.pc, "ending"},
             w.scan # "no" => w.pc \in Scanners,
             w.scan = "file" => /\ w.file # NoName
                                /\ w.done \in 0 .. Len(box'[n][w.file]),
             UNCHANGED <<dir, tmp, to, met>>,
             UNCHANGED shown \/ \E m \in Messages : shown' = shown \union {m},
             UNCHANGED box \/ \E f \in Names : box' = [box EXCEPT ![n][f] = <<>>]
      PROVE  Scans(n)
  <2>1. shown' \in SUBSET Messages
    BY <1>1, <1>2
  <2>2. /\ box' \in [Nodes -> [Names -> Seq(Messages)]]
        /\ \A k \in Nodes : k # n => box'[k] = box[k]
    <3>1. CASE UNCHANGED box
      BY <1>1, <3>1
    <3>2. ASSUME NEW f \in Names, box' = [box EXCEPT ![n][f] = <<>>]
          PROVE  /\ box' \in [Nodes -> [Names -> Seq(Messages)]]
                 /\ \A k \in Nodes : k # n => box'[k] = box[k]
      <4>1. <<>> \in Seq(Messages)
        OBVIOUS
      <4>2. [box[n] EXCEPT ![f] = <<>>] \in [Names -> Seq(Messages)]
        BY <1>1, <4>1
      <4>3. QED
        BY <1>1, <3>2, <4>2
    <3>3. QED
      BY <1>2, <3>1, <3>2
  <2>3. /\ node' \in [Nodes -> Instance] /\ node'[n] = w
        /\ \A k \in Nodes : k # n => node'[k] = node[k]
    BY <1>2, DoType
  <2>4. QED
    BY <1>2, <2>1, <2>2, <2>3 DEF Scans
<1>3. CASE FindFirst(n)
  <2>. DEFINE w == [nd EXCEPT !.scan = "find", !.todo = Files(n)]
  <2>1. w \in Instance /\ w.user = nd.user /\ w.pc = nd.pc /\ w.scan = "find"
    BY <1>1 DEF Instance, Files
  <2>2. QED
    BY <1>2, <1>3, <2>1 DEF FindFirst, Scanners
<1>4. CASE OpenFile(n)
  <2>1. PICK f \in Names : Do(n, [nd EXCEPT !.scan = "file", !.file = f, !.done = 0])
    BY <1>4 DEF OpenFile, Files
  <2>. DEFINE w == [nd EXCEPT !.scan = "file", !.file = f, !.done = 0]
  <2>2. /\ w \in Instance /\ w.user = nd.user /\ w.pc = nd.pc
        /\ w.file = f /\ w.done = 0
    BY <1>1 DEF Instance
  <2>3. /\ UNCHANGED <<dir, box, tmp, to, shown, met>> /\ nd.pc \in Scanners
    BY <1>1, <1>4 DEF OpenFile
  <2>4. f # NoName
    BY <2>1
  <2>5. box'[n][f] \in Seq(Messages)
    BY <1>1, <2>3
  <2>6. 0 \in 0 .. Len(box'[n][f])
    BY <2>5
  <2>. HIDE DEF w
  <2>7. QED
    BY <1>2, <2>1, <2>2, <2>3, <2>4, <2>6 DEF w
<1>5. CASE FindNoMore(n)
  <2>. DEFINE w == [nd EXCEPT !.scan = "no", !.todo = {}]
  <2>1. w \in Instance /\ w.user = nd.user /\ w.pc = nd.pc /\ w.scan = "no"
    BY <1>1 DEF Instance
  <2>2. QED
    BY <1>1, <1>2, <1>5, <2>1 DEF FindNoMore
<1>6. CASE Handle(n)
  <2>. DEFINE w == [nd EXCEPT !.done = @ + 1]
  <2>1. /\ w \in Instance /\ w.user = nd.user /\ w.pc = nd.pc
        /\ w.scan = nd.scan /\ w.file = nd.file /\ w.done = nd.done + 1
    <3>1. nd.done + 1 \in Nat
      BY <1>1 DEF Instance
    <3>2. QED
      BY <1>1, <3>1 DEF Instance
  <2>2. /\ nd.done + 1 \in 0 .. Len(box[n][nd.file]) /\ nd.scan = "file"
        /\ Current(n) = box[n][nd.file][nd.done + 1]
    BY <1>1, <1>6 DEF Handle, InFile, Contents, Current, Instance
  <2>3. Current(n) \in Messages
    BY <1>1, <2>2
  <2>4. /\ UNCHANGED shown \/ \E m \in Messages : shown' = shown \union {m}
        /\ Do(n, w) /\ UNCHANGED <<dir, box, tmp, to, met>>
    BY <1>6, <2>3 DEF Handle
  <2>. HIDE DEF w
  <2>5. QED
    BY <1>1, <1>2, <2>1, <2>2, <2>4
<1>7. CASE ObeyShutdown(n)
  <2>1. Leaving(n) \in Instance /\ Leaving(n).pc = "ending" /\ Leaving(n).scan = "no"
        /\ Leaving(n).user = nd.user
    <3>1. nd.user \in Users \union {Nobody} /\ "ending" \in Steps
      BY <1>1 DEF Instance, Steps
    <3>2. QED
      BY <3>1, OffLineType DEF Leaving, OffLine
  <2>2. nd.scan = "file" /\ Current(n) \in Messages
    BY <1>7 DEF ObeyShutdown, InFile
  <2>3. /\ shown' = shown \union {Current(n)} /\ box' = [box EXCEPT ![n][nd.file] = <<>>]
        /\ Do(n, Leaving(n)) /\ UNCHANGED <<dir, tmp, to, met>>
    BY <1>7 DEF ObeyShutdown
  <2>4. QED
    BY <1>1, <1>2, <2>1, <2>2, <2>3
<1>8. CASE CloseFile(n)
  <2>. DEFINE w == [nd EXCEPT !.scan = "find", !.todo = @ \ {nd.file}, !.file = NoName, !.done = 0]
  <2>1. w \in Instance /\ w.user = nd.user /\ w.pc = nd.pc /\ w.scan = "find"
    BY <1>1 DEF Instance
  <2>2. nd.scan = "file" /\ Do(n, w) /\ UNCHANGED <<dir, tmp, to, shown, met>>
        /\ box' = [box EXCEPT ![n][nd.file] = <<>>]
    BY <1>8 DEF CloseFile
  <2>. HIDE DEF w
  <2>3. QED
    BY <1>1, <1>2, <2>1, <2>2
<1>9. QED
  BY <1>3, <1>4, <1>5, <1>6, <1>7, <1>8 DEF ProcessInstMsgs

LEMMA TypeInit == Init => TypeInv
<1>. SUFFICES ASSUME Init PROVE TypeInv
  OBVIOUS
<1>1. OffLine \in Instance /\ OffLine.scan = "no" /\ Down \in Entries
  BY DEF OffLine, Instance, Steps, Down, Entries
<1>2. QED
  BY <1>1 DEF Init, TypeInv, TypeOK, ScanOK

LEMMA NextCases ==
    ASSUME Next
    PROVE  \E n \in Nodes : SessionStep(n) \/ ProcessInstMsgs(n) \/ Sends(n)
BY DEF Next, Sends

LEMMA TypeNext ==
    ASSUME TypeInv, [Next]_vars
    PROVE  TypeInv'
<1>. USE DEF TypeInv
<1>1. CASE UNCHANGED vars
  BY <1>1 DEF vars, TypeOK, ScanOK
<1>2. ASSUME NEW n \in Nodes, SessionStep(n)
      PROVE  TypeInv'
  <2>1. Serves(n) /\ UNCHANGED <<box, tmp, to, shown>>
    BY <1>2, SessionServes
  <2>2. ScanOK'
    BY <2>1 DEF Serves, ScanOK
  <2>3. \A k \in Nodes : node'[k].scan = "file" =>
            /\ node[k].scan = "file"
            /\ node'[k].file = node[k].file /\ node'[k].done = node[k].done
    BY <2>1 DEF Serves
  <2>4. \A k \in Nodes :
            node'[k].scan = "file" =>
                /\ node'[k].file # NoName
                /\ node'[k].done \in 0 .. Len(box'[k][node'[k].file])
    BY <2>1, <2>3 DEF TypeOK
  <2>5. TypeOK'
    BY <2>1, <2>4 DEF Serves, TypeOK
  <2>6. QED
    BY <2>2, <2>5
<1>3. ASSUME NEW n \in Nodes, ProcessInstMsgs(n)
      PROVE  TypeInv'
  <2>1. Scans(n)
    BY <1>3, ScanScans
  <2>2. ScanOK'
    BY <2>1 DEF Scans, ScanOK
  <2>3. ASSUME NEW k \in Nodes, node'[k].scan = "file"
        PROVE  node'[k].file # NoName /\ node'[k].done \in 0 .. Len(box'[k][node'[k].file])
    BY <2>1, <2>3 DEF Scans, TypeOK
  <2>4. TypeOK'
    BY <2>1, <2>3 DEF Scans, TypeOK
  <2>5. QED
    BY <2>2, <2>4
<1>4. ASSUME NEW n \in Nodes, Sends(n)
      PROVE  TypeInv'
  <2>1. /\ node' \in [Nodes -> Instance] /\ UNCHANGED <<dir, shown, met>>
        /\ \A k \in Nodes : Alike(node'[k], node[k])
    BY <1>4, SendsAre
  <2>2. /\ box' \in [Nodes -> [Names -> Seq(Messages)]]
        /\ tmp' \in [Nodes -> [Nodes -> Seq(Messages)]]
        /\ to' \in [Messages -> Nodes \union {Nobody}]
        /\ \A k \in Nodes, f \in Names : box[k][f] # <<>> => box'[k][f] = box[k][f]
    <3>1. CASE UNCHANGED <<box, tmp, to>>
      BY <3>1 DEF TypeOK
    <3>2. CASE \E d \in Nodes, m \in Messages : Send(n, d, m)
      BY <3>2, SendType
    <3>3. QED
      BY <1>4, <3>1, <3>2, SendsAre
  <2>3. ASSUME NEW k \in Nodes
        PROVE  node'[k].scan = "file" =>
                   node'[k].file # NoName /\ node'[k].done \in 0 .. Len(box'[k][node'[k].file])
    BY <2>1, <2>2, OpenStays DEF Alike
  <2>4. ScanOK'
    BY <2>1 DEF Alike, ScanOK
  <2>5. TypeOK'
    BY <2>1, <2>2, <2>3 DEF TypeOK
  <2>6. QED
    BY <2>4, <2>5
<1>5. QED
  BY <1>1, <1>2, <1>3, <1>4, NextCases

\* The directory, the files and what the instances have in memory have their
\* types, and an open file is never read behind its end.
THEOREM InstancesTypeCorrect == Spec => []TypeOK
<1>1. Spec => []TypeInv
  BY TypeInit, TypeNext, PTL DEF Spec
<1>2. TypeInv => TypeOK
  BY DEF TypeInv
<1>3. QED
  BY <1>1, <1>2, PTL

---------------------------------------------------------------------------
(* Users on line *)

\* The directory says who is on line where.
Known == \A n \in Nodes : OnLine(n) => dir[n].user = node[n].user

\* n looks for j's user, and has not found him where j is on line.
Passed(n, j) == node[n].pc = "look" /\ j \notin node[n].left /\ OnLine(j)

Asked(n, j) == \/ Passed(n, j) \/ Passed(j, n)
               \/ node[n].pc = "look" /\ node[j].pc = "look"
               \/ OnLine(n) /\ OnLine(j)

SameUser(n, j) == n # j /\ node[n].user = node[j].user /\ node[n].user \notin Exempt

\* Why a user is not on line twice, unless he may: who passed the other's
\* record before it was written asked when the other one did.
LookInv == \A n, j \in Nodes : SameUser(n, j) /\ Asked(n, j) => {n, j} \in met["look"]

\* Steps after which n knows no more, and is on line only if it was or may be.
LookQuiet(n) ==
    /\ met'["look"] = met["look"]
    /\ OnLine(n)' => dir'[n].user = node'[n].user
    /\ \/ node'[n].pc # "look" /\ (OnLine(n)' => \/ node'[n].user \in Exempt
                                                 \/ OnLine(n) /\ node'[n].user = node[n].user)
       \/ /\ node[n].pc = "look" /\ node'[n].pc = "look"
          /\ node'[n].user = node[n].user /\ node'[n].left = node[n].left

LEMMA MetOthers ==
    ASSUME TypeOK, NEW n \in Nodes, NEW kind \in {"look", "check"}, NEW S \in SUBSET Nodes,
           Meet(n, kind, S)
    PROVE  /\ \A other \in {"look", "check"} \ {kind} : met'[other] = met[other]
           /\ \A p \in met[kind] : n \notin p => p \in met'[kind]
           /\ \A j \in S : j # n => {n, j} \in met'[kind]
BY DEF TypeOK, Meet

LEMMA LookCases ==
    ASSUME TypeInv, Known, NEW n \in Nodes, SessionStep(n)
    PROVE  \/ LookQuiet(n) \/ (\E u \in Users : Name(n, u)) \/ Logon(n)
           \/ \E i \in Nodes : Look(n, i) /\ dir[i].user # node[n].user
<1>. DEFINE nd == node[n]
             w == node'[n]
<1>. USE DEF TypeInv
<1>1. /\ nd \in Instance /\ OffLine \in Instance /\ node \in [Nodes -> Instance]
      /\ OffLine.user = Nobody /\ OffLine.pc = "down"
      /\ dir \in [Nodes -> Entries] /\ met \in [{"look", "check"} -> SUBSET SUBSET Nodes]
  BY OffLineType DEF TypeOK, OffLine, Steps
<1>2. OnLine(n) => dir[n].user = nd.user
  BY DEF Known
\* Nobody is on line on n afterwards.
<1>3. ASSUME w.user = Nobody, w.pc # "look", UNCHANGED met
      PROVE  LookQuiet(n)
  BY <1>3 DEF LookQuiet, OnLine
\* The user stays, and the record is not written, or he is in it.
<1>4. ASSUME w.user = nd.user, w.pc # "look", nd.pc # "look", met'["look"] = met["look"],
             UNCHANGED dir \/ dir'[n].user = nd.user
      PROVE  LookQuiet(n)
  BY <1>2, <1>4 DEF LookQuiet, OnLine
<1>5. ASSUME NEW p \in Steps, Do(n, [OffLine EXCEPT !.pc = p])
      PROVE  w.user = Nobody /\ w.pc = p
  BY <1>1, <1>5 DEF Do, Instance
<1>6. ASSUME NEW p \in Steps, NEW S, Do(n, [nd EXCEPT !.pc = p]) \/ Do(n, [nd EXCEPT !.pc = p, !.left = S])
      PROVE  w.user = nd.user /\ w.pc = p
  <2>1. CASE Do(n, [nd EXCEPT !.pc = p])
    BY <1>1, <2>1 DEF Do, Instance
  <2>2. CASE Do(n, [nd EXCEPT !.pc = p, !.left = S])
    BY <1>1, <2>2 DEF Do, Instance
  <2>3. QED
    BY <1>6, <2>1, <2>2
<1>7. {"down", "wfc", "name", "look", "logon", "menu", "check", "door", "bye", "all",
       "idle", "ending"} = Steps
  BY DEF Steps
<1>8. nd.user \in Users \union {Nobody} /\ nd.door \in Doors \union {NoDoor}
  BY <1>1 DEF Instance
<1>10. CASE Start(n)
  BY <1>10, <1>3, <1>5, <1>7 DEF Start
<1>11. CASE Call(n)
  BY <1>11, <1>3, <1>5, <1>7 DEF Call
<1>12. CASE WrongPassword(n)
  <2>1. w.user = Nobody /\ w.pc = "name"
    BY <1>1, <1>12 DEF WrongPassword, Do, Instance
  <2>2. QED
    BY <1>3, <1>12, <2>1 DEF WrongPassword
<1>13. CASE GiveUp(n)
  BY <1>13, <1>3, <1>5, <1>7 DEF GiveUp
<1>14. CASE Walk(n)
  <2>1. dir'[n].user = nd.user
    <3>1. PICK avail \in BOOLEAN : dir' = [dir EXCEPT ![n] = At(nd.user, NoDoor, avail)]
      BY <1>14 DEF Walk
    <3>2. At(nd.user, NoDoor, avail).user = nd.user
      BY DEF At
    <3>3. QED
      BY <1>1, <3>1, <3>2
  <2>2. QED
    BY <1>4, <1>6, <1>7, <1>14, <2>1 DEF Walk, Free
<1>15. CASE HangUp(n)
  <2>1. w.user = nd.user /\ w.pc = nd.pc /\ w.left = nd.left
    BY <1>1, <1>15 DEF HangUp, Do, Instance
  <2>2. UNCHANGED <<dir, met>>
    BY <1>15 DEF HangUp
  <2>3. QED
    BY <1>2, <2>1, <2>2 DEF LookQuiet, OnLine
<1>16. CASE Logoff(n)
  BY <1>16, <1>4, <1>6, <1>7 DEF Logoff, Free
<1>17. CASE FrequentInit(n) \/ GetCaller(n)
  BY <1>17, <1>3, <1>5, <1>7 DEF FrequentInit, GetCaller
<1>18. CASE ShutAll(n)
  BY <1>18, <1>4, <1>6, <1>7 DEF ShutAll, InstanceEdit, Free
<1>19. CASE Stop(n)
  <2>1. w.user = nd.user /\ w.pc = "ending"
    BY <1>1, <1>19 DEF Stop, Do, Leaving, Instance
  <2>2. nd.pc # "look" /\ UNCHANGED <<dir, met>>
    BY <1>19 DEF Stop, InstanceEdit, Free
  <2>3. QED
    BY <1>4, <2>1, <2>2
<1>20. CASE EndBbs(n)
  <2>1. w = OffLine
    <3>1. node' = [node EXCEPT ![n] = OffLine]
      BY <1>20 DEF EndBbs, Do
    <3>2. QED
      BY <1>1, <3>1
  <2>2. w.user = Nobody /\ w.pc = "down"
    BY <1>1, <2>1
  <2>3. QED
    BY <1>3, <1>20, <2>2 DEF EndBbs
<1>21. CASE OpenDoor(n)
  <2>1. dir'[n].user = nd.user
    <3>1. dir' = [dir EXCEPT ![n] = At(nd.user, nd.door, FALSE)]
      BY <1>21 DEF OpenDoor
    <3>2. dir'[n] = At(nd.user, nd.door, FALSE)
      BY <1>1, <3>1
    <3>3. QED
      BY <3>2 DEF At
  <2>2. QED
    BY <1>4, <1>6, <1>7, <1>21, <2>1 DEF OpenDoor
<1>22. CASE LeaveDoor(n)
  <2>1. w.user = nd.user /\ w.pc = "menu"
    BY <1>1, <1>22 DEF LeaveDoor, Do, Instance
  <2>2. QED
    BY <1>4, <1>22, <2>1 DEF LeaveDoor
<1>24. ASSUME NEW u \in Users, FastLogon(n, u)
       PROVE  LookQuiet(n)
  <2>1. w.user = u /\ w.pc = "logon" /\ u \in Exempt
    BY <1>1, <1>24 DEF FastLogon, Do, Instance
  <2>2. dir'[n].user = u
    BY <1>1, <1>24, EntryTypes DEF FastLogon
  <2>3. UNCHANGED met
    BY <1>24 DEF FastLogon
  <2>4. QED
    BY <2>1, <2>2, <2>3 DEF LookQuiet, OnLine
<1>25. ASSUME NEW c \in Doors, RunChain(n, c)
       PROVE  LookQuiet(n)
  <2>1. w.user = nd.user /\ w.pc = "check"
    BY <1>1, <1>25 DEF RunChain, Do, Instance
  <2>2. met'["look"] = met["look"]
    BY <1>25, MetOthers DEF RunChain
  <2>3. QED
    BY <1>4, <1>25, <2>1, <2>2 DEF RunChain, Free
<1>26. ASSUME NEW i \in Nodes, Look(n, i), dir[i].user = nd.user
       PROVE  LookQuiet(n)
  <2>1. w.user = Nobody /\ w.pc = "name"
    BY <1>1, <1>26 DEF Look, Do, Instance
  <2>2. QED
    BY <1>3, <1>26, <2>1 DEF Look
<1>27. ASSUME NEW i \in Nodes, CheckDoor(n, i)
       PROVE  LookQuiet(n)
  <2>1. w.user = nd.user /\ w.pc \in {"menu", "check"}
    BY <1>1, <1>27 DEF CheckDoor, Do, Instance
  <2>2. QED
    BY <1>4, <1>27, <2>1 DEF CheckDoor
<1>28. QED
  BY <1>10, <1>11, <1>12, <1>13, <1>14, <1>15, <1>16, <1>17, <1>18, <1>19, <1>20, <1>21,
     <1>22, <1>24, <1>25, <1>26, <1>27 DEF SessionStep

\* A step of n leaves the others as they are.
Alone(n) == \A k \in Nodes : k # n => node'[k] = node[k] /\ dir'[k] = dir[k]

\* It is enough to look at the pairs n is in.
LEMMA LookPairs ==
    ASSUME LookInv, NEW n \in Nodes, Alone(n),
           \A p \in met["look"] : n \notin p => p \in met'["look"],
           \A j \in Nodes : SameUser(n, j)' /\ Asked(n, j)' => {n, j} \in met'["look"]
    PROVE  LookInv'
<1>1. ASSUME NEW k \in Nodes, NEW j \in Nodes, SameUser(k, j)', Asked(k, j)'
      PROVE  {k, j} \in met'["look"]
  <2>1. CASE k = n
    BY <1>1, <2>1
  <2>2. CASE j = n
    <3>1. SameUser(j, k)' /\ Asked(j, k)' /\ {k, j} = {j, k}
      BY <1>1 DEF SameUser, Asked
    <3>2. QED
      BY <2>2, <3>1
  <2>3. CASE k # n /\ j # n
    <3>1. SameUser(k, j) /\ Asked(k, j)
      BY <1>1, <2>3 DEF SameUser, Asked, Passed, OnLine, Alone
    <3>2. QED
      BY <2>3, <3>1 DEF LookInv
  <2>4. QED
    BY <2>1, <2>2, <2>3
<1>2. QED
  BY <1>1 DEF LookInv

LEMMA QuietLooks ==
    ASSUME LookInv, Known, NEW n \in Nodes, Alone(n), LookQuiet(n)
    PROVE  LookInv' /\ Known'
<1>1. Known'
  BY DEF Known, LookQuiet, Alone, OnLine
<1>2. ASSUME NEW j \in Nodes, SameUser(n, j)', Asked(n, j)'
      PROVE  {n, j} \in met'["look"]
  <2>1. node'[j] = node[j] /\ n # j /\ node'[n].user = node'[j].user
        /\ node'[n].user \notin Exempt
    BY <1>2 DEF SameUser, Alone
  <2>2. SameUser(n, j) /\ Asked(n, j)
    <3>1. CASE node'[n].pc # "look"
      <4>1. OnLine(n) /\ node'[n].user = node[n].user
        BY <1>2, <2>1, <3>1 DEF LookQuiet, Asked, Passed
      <4>2. QED
        BY <1>2, <2>1, <3>1, <4>1 DEF SameUser, Asked, Passed, OnLine, LookQuiet
    <3>2. CASE node'[n].pc = "look"
      BY <1>2, <2>1, <3>2 DEF SameUser, Asked, Passed, OnLine, LookQuiet
    <3>3. QED
      BY <3>1, <3>2
  <2>3. QED
    BY <2>2 DEF LookInv, LookQuiet
<1>3. QED
  BY <1>1, <1>2, LookPairs DEF LookQuiet

LEMMA LookSession ==
    ASSUME TypeInv, LookInv, Known, NEW n \in Nodes, SessionStep(n)
    PROVE  LookInv' /\ Known'
<1>. DEFINE nd == node[n]
             w == node'[n]
<1>1. Serves(n) /\ Alone(n)
  BY SessionServes DEF Serves, Alone
<1>2. /\ nd \in Instance /\ dir \in [Nodes -> Entries] /\ node \in [Nodes -> Instance]
      /\ nd.user \in Users \union {Nobody}
  BY DEF TypeInv, TypeOK, Instance
<1>3. CASE LookQuiet(n)
  BY <1>1, <1>3, QuietLooks
<1>4. ASSUME NEW u \in Users, Name(n, u)
      PROVE  LookInv' /\ Known'
  <2>. DEFINE S == IF u \in Exempt THEN {} ELSE Others(n)
  <2>1. w.pc = "look" /\ w.user = u /\ w.left = S /\ UNCHANGED dir
    BY <1>2, <1>4 DEF Name, Do, Instance
  <2>2. Meet(n, "look", Asking(u))
    BY <1>4 DEF Name
  <2>3. /\ \A p \in met["look"] : n \notin p => p \in met'["look"]
        /\ \A j \in Asking(u) : j # n => {n, j} \in met'["look"]
    BY <2>2, MetOthers DEF TypeInv, Asking
  <2>4. ASSUME NEW j \in Nodes, SameUser(n, j)', Asked(n, j)'
        PROVE  {n, j} \in met'["look"]
    <3>1. n # j /\ node'[j] = node[j] /\ node[j].user = u /\ u \notin Exempt
      BY <1>1, <2>1, <2>4 DEF SameUser, Alone
    <3>2. node[j].pc = "look"
      BY <2>1, <2>4, <3>1 DEF Asked, Passed, OnLine, Others
    <3>3. QED
      BY <2>3, <3>1, <3>2 DEF Asking
  <2>5. LookInv'
    BY <1>1, <2>3, <2>4, LookPairs
  <2>6. Known'
    BY <1>1, <2>1 DEF Known, OnLine, Alone
  <2>7. QED
    BY <2>5, <2>6
<1>5. ASSUME Logon(n)
      PROVE  LookInv' /\ Known'
  <2>1. PICK a \in Audience(n) : Do(n, [nd EXCEPT !.pc = "logon", !.left = a])
    BY <1>5 DEF Logon
  <2>2. w.user = nd.user /\ w.pc = "logon"
    BY <1>2, <2>1 DEF Do, Instance
  <2>3. nd.pc = "look" /\ nd.left = {} /\ UNCHANGED met /\ dir'[n].user = nd.user
    <3>1. dir' = [dir EXCEPT ![n] = At(nd.user, NoDoor, FALSE)]
      BY <1>5 DEF Logon
    <3>2. QED
      BY <1>2, <1>5, <3>1 DEF Logon, At
  <2>4. ASSUME NEW j \in Nodes, SameUser(n, j)', Asked(n, j)'
        PROVE  {n, j} \in met'["look"]
    <3>1. node'[j] = node[j] /\ SameUser(n, j)
      BY <1>1, <2>2, <2>4 DEF SameUser, Alone
    <3>2. Asked(n, j)
      <4>1. CASE OnLine(j)
        BY <2>3, <4>1 DEF Asked, Passed
      <4>2. CASE node[j].pc = "look"
        BY <2>3, <4>2 DEF Asked
      <4>3. QED
        BY <2>2, <2>4, <3>1, <4>1, <4>2 DEF Asked, Passed, OnLine
    <3>3. QED
      BY <2>3, <3>1, <3>2 DEF LookInv
  <2>5. LookInv'
    BY <1>1, <2>3, <2>4, LookPairs
  <2>6. Known'
    BY <1>1, <2>2, <2>3 DEF Known, OnLine, Alone
  <2>7. QED
    BY <2>5, <2>6
\* n passes the record of i, where its user is not on line.
<1>6. ASSUME NEW i \in Nodes, Look(n, i), dir[i].user # nd.user
      PROVE  LookInv' /\ Known'
  <2>1. Do(n, [nd EXCEPT !.left = @ \ {i}]) /\ nd.pc = "look" /\ UNCHANGED <<dir, met>>
    BY <1>6 DEF Look
  <2>2. w.user = nd.user /\ w.pc = "look" /\ w.left = nd.left \ {i}
    BY <1>2, <2>1 DEF Do, Instance
  <2>3. ASSUME NEW j \in Nodes, SameUser(n, j)', Asked(n, j)'
        PROVE  {n, j} \in met'["look"]
    <3>1. node'[j] = node[j] /\ SameUser(n, j)
      BY <1>1, <2>2, <2>3 DEF SameUser, Alone
    <3>2. j = i => ~OnLine(j)
      BY <1>6, <3>1 DEF Known, SameUser
    <3>3. Asked(n, j)
      BY <2>1, <2>2, <2>3, <3>1, <3>2 DEF Asked, Passed, OnLine
    <3>4. QED
      BY <2>1, <3>1, <3>3 DEF LookInv
  <2>4. LookInv'
    BY <1>1, <2>1, <2>3, LookPairs
  <2>5. Known'
    BY <1>1, <2>1, <2>2 DEF Known, OnLine, Alone
  <2>6. QED
    BY <2>4, <2>5
<1>7. QED
  BY <1>3, <1>4, <1>5, <1>6, LookCases

LEMMA LookNext ==
    ASSUME TypeInv, LookInv, Known, [Next]_vars
    PROVE  LookInv' /\ Known'
<1>1. CASE UNCHANGED vars
  BY <1>1 DEF vars, LookInv, Known, SameUser, Asked, Passed, OnLine
<1>2. ASSUME NEW n \in Nodes, ProcessInstMsgs(n)
      PROVE  LookInv' /\ Known'
  <2>1. Scans(n)
    BY <1>2, ScanScans
  <2>2. Alone(n) /\ LookQuiet(n)
    BY <2>1 DEF Scans, Scanners, Alone, LookQuiet, OnLine, Known
  <2>3. QED
    BY <2>2, QuietLooks
<1>3. ASSUME NEW n \in Nodes, Sends(n)
      PROVE  LookInv' /\ Known'
  <2>1. UNCHANGED <<dir, met>> /\ \A k \in Nodes : Alike(node'[k], node[k])
    BY <1>3, SendsAre
  <2>2. QED
    BY <2>1 DEF Alike, LookInv, Known, SameUser, Asked, Passed, OnLine
<1>4. QED
  BY <1>1, <1>2, <1>3, LookSession, NextCases

\* A user is on line on two instances only if both asked for him at the same
\* time (user_online, and the records that logon and end_bbs write).
THEOREM OnLineTwiceOnlyAtOnce == Spec => []TwiceOnlyAtOnce
<1>. DEFINE IInv == TypeInv /\ LookInv /\ Known
<1>1. Init => IInv
  BY TypeInit DEF Init, OffLine, LookInv, Known, Asked, Passed, OnLine
<1>2. IInv /\ [Next]_vars => IInv'
  BY TypeNext, LookNext
<1>3. IInv => TwiceOnlyAtOnce
  BY DEF LookInv, SameUser, Asked, TwiceOnlyAtOnce
<1>4. QED
  BY <1>1, <1>2, <1>3, PTL DEF Spec

---------------------------------------------------------------------------
(* Doors *)

\* The directory says which door is open where.
DoorKnown == \A n \in Nodes : node[n].pc = "door" => dir[n].door = node[n].door

DoorPassed(n, j) == node[n].pc = "check" /\ j \notin node[n].left /\ node[j].pc = "door"

DoorAsked(n, j) == \/ DoorPassed(n, j) \/ DoorPassed(j, n)
                   \/ node[n].pc = "check" /\ node[j].pc = "check"
                   \/ node[n].pc = "door" /\ node[j].pc = "door"

SameDoor(n, j) == n # j /\ node[n].door = node[j].door

\* Why a door is not open twice, as LookInv is for users.
DoorInv == \A n, j \in Nodes : SameDoor(n, j) /\ DoorAsked(n, j) => {n, j} \in met["check"]

DoorQuiet(n) ==
    /\ met'["check"] = met["check"]
    /\ \/ node'[n].pc \notin {"check", "door"}
       \/ /\ node[n].pc \in {"check", "door"} /\ node'[n].pc = node[n].pc
          /\ node'[n].door = node[n].door /\ node'[n].left = node[n].left
          /\ dir'[n] = dir[n]

LEMMA DoorCases ==
    ASSUME TypeInv, NEW n \in Nodes, SessionStep(n)
    PROVE  \/ DoorQuiet(n) \/ (\E c \in Doors : RunChain(n, c)) \/ OpenDoor(n)
           \/ \E i \in Nodes : CheckDoor(n, i) /\ dir[i].door # node[n].door
<1>. DEFINE nd == node[n]
             w == node'[n]
<1>. USE DEF TypeInv
<1>1. /\ nd \in Instance /\ OffLine \in Instance /\ node \in [Nodes -> Instance]
      /\ met \in [{"look", "check"} -> SUBSET SUBSET Nodes]
  BY OffLineType DEF TypeOK, Steps
<1>2. ASSUME NEW p, w.pc = p, p \notin {"check", "door"}, met'["check"] = met["check"]
      PROVE  DoorQuiet(n)
  BY <1>2 DEF DoorQuiet
<1>3. CASE Start(n) \/ Call(n) \/ GiveUp(n) \/ FrequentInit(n) \/ GetCaller(n)
  <2>1. PICK p \in {"wfc", "name", "idle"} : Do(n, [OffLine EXCEPT !.pc = p])
    BY <1>3 DEF Start, Call, GiveUp, FrequentInit, GetCaller
  <2>2. w.pc = p /\ UNCHANGED met
    BY <1>1, <1>3, <2>1 DEF Start, Call, GiveUp, FrequentInit, GetCaller, Do, Instance
  <2>3. QED
    BY <1>2, <2>2
<1>4. CASE WrongPassword(n)
  <2>1. w.pc = "name" /\ UNCHANGED met
    BY <1>1, <1>4 DEF WrongPassword, Do, Instance
  <2>2. QED
    BY <1>2, <2>1
<1>5. CASE Logon(n) \/ Logoff(n)
  <2>1. w.pc \in {"logon", "bye"} /\ UNCHANGED met
    <3>1. PICK a \in Audience(n), p \in {"logon", "bye"} : Do(n, [nd EXCEPT !.pc = p, !.left = a])
      BY <1>5 DEF Logon, Logoff
    <3>2. w.pc = p
      BY <1>1, <3>1 DEF Do, Instance
    <3>3. QED
      BY <1>5, <3>1, <3>2 DEF Logon, Logoff
  <2>2. QED
    BY <1>2, <2>1
<1>6. CASE Walk(n) \/ ShutAll(n)
  <2>1. w.pc \in {"menu", "all"} /\ UNCHANGED met
    <3>1. CASE Walk(n)
      BY <1>1, <3>1 DEF Walk, Do, Instance
    <3>2. CASE ShutAll(n)
      BY <1>1, <3>2 DEF ShutAll, Do, Instance
    <3>3. QED
      BY <1>6, <3>1, <3>2
  <2>2. QED
    BY <1>2, <2>1
<1>7. CASE HangUp(n)
  <2>1. w.pc = nd.pc /\ w.left = nd.left /\ w.door = nd.door /\ UNCHANGED <<dir, met>>
    BY <1>1, <1>7 DEF HangUp, Do, Instance
  <2>2. QED
    BY <2>1 DEF DoorQuiet
<1>8. CASE Stop(n) \/ EndBbs(n)
  <2>1. w.pc \in {"ending", "down"} /\ UNCHANGED met
    <3>1. CASE Stop(n)
      BY <1>1, <3>1 DEF Stop, Leaving, OffLine, Do
    <3>2. CASE EndBbs(n)
      BY <1>1, <3>2 DEF EndBbs, OffLine, Do
    <3>3. QED
      BY <1>8, <3>1, <3>2
  <2>2. QED
    BY <1>2, <2>1
<1>9. CASE LeaveDoor(n)
  <2>1. w.pc = "menu" /\ UNCHANGED met
    BY <1>1, <1>9 DEF LeaveDoor, Do, Instance
  <2>2. QED
    BY <1>2, <2>1
<1>10. ASSUME NEW u \in Users, Name(n, u)
       PROVE  DoorQuiet(n)
  <2>1. w.pc = "look"
    BY <1>1, <1>10 DEF Name, Do, Instance
  <2>2. met'["check"] = met["check"]
    BY <1>10, MetOthers DEF Name, Asking
  <2>3. QED
    BY <1>2, <2>1, <2>2
<1>11. ASSUME NEW u \in Users, FastLogon(n, u)
       PROVE  DoorQuiet(n)
  <2>1. w.pc = "logon" /\ UNCHANGED met
    BY <1>1, <1>11 DEF FastLogon, Do, Instance
  <2>2. QED
    BY <1>2, <2>1
<1>12. ASSUME NEW i \in Nodes, Look(n, i)
       PROVE  DoorQuiet(n)
  <2>1. w.pc \in {"name", "look"} /\ UNCHANGED met
    BY <1>1, <1>12 DEF Look, Do, Instance
  <2>2. QED
    BY <1>2, <2>1
<1>13. ASSUME NEW i \in Nodes, CheckDoor(n, i), dir[i].door = nd.door
       PROVE  DoorQuiet(n)
  <2>1. w.pc = "menu" /\ UNCHANGED met
    BY <1>1, <1>13 DEF CheckDoor, Do, Instance
  <2>2. QED
    BY <1>2, <2>1
<1>14. QED
  BY <1>3, <1>4, <1>5, <1>6, <1>7, <1>8, <1>9, <1>10, <1>11, <1>12, <1>13 DEF SessionStep

LEMMA DoorPairs ==
    ASSUME DoorInv, NEW n \in Nodes, Alone(n),
           \A p \in met["check"] : n \notin p => p \in met'["check"],
           \A j \in Nodes : SameDoor(n, j)' /\ DoorAsked(n, j)' => {n, j} \in met'["check"]
    PROVE  DoorInv'
<1>1. ASSUME NEW k \in Nodes, NEW j \in Nodes, SameDoor(k, j)', DoorAsked(k, j)'
      PROVE  {k, j} \in met'["check"]
  <2>1. CASE k = n
    BY <1>1, <2>1
  <2>2. CASE j = n
    <3>1. SameDoor(j, k)' /\ DoorAsked(j, k)' /\ {k, j} = {j, k}
      BY <1>1 DEF SameDoor, DoorAsked
    <3>2. QED
      BY <2>2, <3>1
  <2>3. CASE k # n /\ j # n
    <3>1. SameDoor(k, j) /\ DoorAsked(k, j)
      BY <1>1, <2>3 DEF SameDoor, DoorAsked, DoorPassed, Alone
    <3>2. QED
      BY <2>3, <3>1 DEF DoorInv
  <2>4. QED
    BY <2>1, <2>2, <2>3
<1>2. QED
  BY <1>1 DEF DoorInv

LEMMA QuietDoors ==
    ASSUME DoorInv, DoorKnown, NEW n \in Nodes, Alone(n), DoorQuiet(n)
    PROVE  DoorInv' /\ DoorKnown'
<1>1. DoorKnown'
  BY DEF DoorKnown, DoorQuiet, Alone
<1>2. ASSUME NEW j \in Nodes, SameDoor(n, j)', DoorAsked(n, j)'
      PROVE  {n, j} \in met'["check"]
  <2>1. node'[n].pc \in {"check", "door"} /\ n # j /\ node'[j] = node[j]
    BY <1>2 DEF SameDoor, DoorAsked, DoorPassed, Alone
  <2>2. SameDoor(n, j) /\ DoorAsked(n, j)
    BY <1>2, <2>1 DEF SameDoor, DoorAsked, DoorPassed, DoorQuiet
  <2>3. QED
    BY <2>2 DEF DoorInv, DoorQuiet
<1>3. QED
  BY <1>1, <1>2, DoorPairs DEF DoorQuiet

LEMMA DoorSession ==
    ASSUME TypeInv, DoorInv, DoorKnown, NEW n \in Nodes, SessionStep(n)
    PROVE  DoorInv' /\ DoorKnown'
<1>. DEFINE nd == node[n]
             w == node'[n]
<1>1. Serves(n) /\ Alone(n)
  BY SessionServes DEF Serves, Alone
<1>2. /\ nd \in Instance /\ dir \in [Nodes -> Entries] /\ node \in [Nodes -> Instance]
  BY DEF TypeInv, TypeOK
<1>3. CASE DoorQuiet(n)
  BY <1>1, <1>3, QuietDoors
<1>4. ASSUME NEW c \in Doors, RunChain(n, c)
      PROVE  DoorInv' /\ DoorKnown'
  <2>. DEFINE S == {j \in Nodes : node[j].pc = "check" /\ node[j].door = c}
  <2>1. w.pc = "check" /\ w.door = c /\ w.left = Others(n) /\ UNCHANGED dir
    BY <1>2, <1>4 DEF RunChain, Do, Instance
  <2>2. Meet(n, "check", S)
    BY <1>4 DEF RunChain
  <2>3. /\ \A p \in met["check"] : n \notin p => p \in met'["check"]
        /\ \A j \in S : j # n => {n, j} \in met'["check"]
    BY <2>2, MetOthers DEF TypeInv
  <2>4. ASSUME NEW j \in Nodes, SameDoor(n, j)', DoorAsked(n, j)'
        PROVE  {n, j} \in met'["check"]
    <3>1. n # j /\ node'[j] = node[j] /\ node[j].door = c
      BY <1>1, <2>1, <2>4 DEF SameDoor, Alone
    <3>2. node[j].pc = "check"
      BY <2>1, <2>4, <3>1 DEF DoorAsked, DoorPassed, Others
    <3>3. QED
      BY <2>3, <3>1, <3>2
  <2>5. DoorInv'
    BY <1>1, <2>3, <2>4, DoorPairs
  <2>6. DoorKnown'
    BY <1>1, <2>1 DEF DoorKnown, Alone
  <2>7. QED
    BY <2>5, <2>6
<1>5. ASSUME OpenDoor(n)
      PROVE  DoorInv' /\ DoorKnown'
  <2>1. w.door = nd.door /\ w.pc = "door"
    BY <1>2, <1>5 DEF OpenDoor, Do, Instance
  <2>2. nd.pc = "check" /\ nd.left = {} /\ UNCHANGED met /\ dir'[n].door = nd.door
    <3>1. dir' = [dir EXCEPT ![n] = At(nd.user, nd.door, FALSE)]
      BY <1>5 DEF OpenDoor
    <3>2. QED
      BY <1>2, <1>5, <3>1 DEF OpenDoor, At
  <2>3. ASSUME NEW j \in Nodes, SameDoor(n, j)', DoorAsked(n, j)'
        PROVE  {n, j} \in met'["check"]
    <3>1. node'[j] = node[j] /\ SameDoor(n, j)
      BY <1>1, <2>1, <2>3 DEF SameDoor, Alone
    <3>2. DoorAsked(n, j)
      BY <2>1, <2>2, <2>3, <3>1 DEF DoorAsked, DoorPassed
    <3>3. QED
      BY <2>2, <3>1, <3>2 DEF DoorInv
  <2>4. DoorInv'
    BY <1>1, <2>2, <2>3, DoorPairs
  <2>5. DoorKnown'
    BY <1>1, <2>1, <2>2 DEF DoorKnown, Alone
  <2>6. QED
    BY <2>4, <2>5
\* n passes the record of i, where the door is not open.
<1>6. ASSUME NEW i \in Nodes, CheckDoor(n, i), dir[i].door # nd.door
      PROVE  DoorInv' /\ DoorKnown'
  <2>1. Do(n, [nd EXCEPT !.left = @ \ {i}]) /\ nd.pc = "check" /\ UNCHANGED <<dir, met>>
    BY <1>6 DEF CheckDoor
  <2>2. w.door = nd.door /\ w.pc = "check" /\ w.left = nd.left \ {i}
    BY <1>2, <2>1 DEF Do, Instance
  <2>3. ASSUME NEW j \in Nodes, SameDoor(n, j)', DoorAsked(n, j)'
        PROVE  {n, j} \in met'["check"]
    <3>1. node'[j] = node[j] /\ SameDoor(n, j)
      BY <1>1, <2>2, <2>3 DEF SameDoor, Alone
    <3>2. j = i => node[j].pc # "door"
      BY <1>6, <3>1 DEF DoorKnown, SameDoor
    <3>3. DoorAsked(n, j)
      BY <2>1, <2>2, <2>3, <3>1, <3>2 DEF DoorAsked, DoorPassed
    <3>4. QED
      BY <2>1, <3>1, <3>3 DEF DoorInv
  <2>4. DoorInv'
    BY <1>1, <2>1, <2>3, DoorPairs
  <2>5. DoorKnown'
    BY <1>1, <2>1, <2>2 DEF DoorKnown, Alone
  <2>6. QED
    BY <2>4, <2>5
<1>7. QED
  BY <1>3, <1>4, <1>5, <1>6, DoorCases

LEMMA DoorNext ==
    ASSUME TypeInv, DoorInv, DoorKnown, [Next]_vars
    PROVE  DoorInv' /\ DoorKnown'
<1>1. CASE UNCHANGED vars
  BY <1>1 DEF vars, DoorInv, DoorKnown, SameDoor, DoorAsked, DoorPassed
<1>2. ASSUME NEW n \in Nodes, ProcessInstMsgs(n)
      PROVE  DoorInv' /\ DoorKnown'
  <2>1. Scans(n)
    BY <1>2, ScanScans
  <2>2. Alone(n) /\ DoorQuiet(n)
    BY <2>1 DEF Scans, Scanners, Alone, DoorQuiet
  <2>3. QED
    BY <2>2, QuietDoors
<1>3. ASSUME NEW n \in Nodes, Sends(n)
      PROVE  DoorInv' /\ DoorKnown'
  <2>1. UNCHANGED <<dir, met>> /\ \A k \in Nodes : Alike(node'[k], node[k])
    BY <1>3, SendsAre
  <2>2. QED
    BY <2>1 DEF Alike, DoorInv, DoorKnown, SameDoor, DoorAsked, DoorPassed
<1>4. QED
  BY <1>1, <1>2, <1>3, DoorSession, NextCases

\* A chain for one user runs on two instances only if both asked for it at the
\* same time (inst_ok, and the record that run_chain writes).
THEOREM DoorTwiceOnlyAtOnce == Spec => []DoorOnlyAtOnce
<1>. DEFINE IInv == TypeInv /\ DoorInv /\ DoorKnown
<1>1. Init => IInv
  BY TypeInit DEF Init, OffLine, DoorInv, DoorKnown, DoorAsked, DoorPassed
<1>2. IInv /\ [Next]_vars => IInv'
  BY TypeNext, DoorNext
<1>3. IInv => DoorOnlyAtOnce
  BY DEF DoorInv, SameDoor, DoorAsked, DoorOnlyAtOnce
<1>4. QED
  BY <1>1, <1>2, <1>3, PTL DEF Spec

---------------------------------------------------------------------------
(* Messages: where each of them is *)

Injective(s) == \A i, j \in DOMAIN s : s[i] = s[j] => i = j

\* A message is in one file at most, once, and that file is its addressee's.
Apart ==
    /\ \A d \in Nodes, f \in Names :
          Injective(box[d][f]) /\ \A m \in Within(box[d][f]) : to[m] = d
    /\ \A n, d \in Nodes :
          Injective(tmp[n][d]) /\ \A m \in Within(tmp[n][d]) : to[m] = d
    /\ \A d \in Nodes, f, g \in Names :
          f # g => Within(box[d][f]) \cap Within(box[d][g]) = {}
    /\ \A n, k, d \in Nodes : n # k => Within(tmp[n][d]) \cap Within(tmp[k][d]) = {}
    /\ \A n, d \in Nodes, f \in Names : Within(box[d][f]) \cap Within(tmp[n][d]) = {}

\* What was shown was sent, and waits no more.
ShownInv == \A m \in shown : to[m] # Nobody /\ m \notin Queued

MailInv == TypeInv /\ Apart /\ ShownInv

LEMMA WithinEmpty == Within(<<>>) = {} /\ Injective(<<>>)
BY DEF Within, Injective

LEMMA WithinAppend ==
    ASSUME NEW s \in Seq(Messages), NEW m \in Messages
    PROVE  /\ Within(Append(s, m)) = Within(s) \union {m}
           /\ Injective(s) /\ m \notin Within(s) => Injective(Append(s, m))
<1>. DEFINE t == Append(s, m)
<1>1. /\ Len(t) = Len(s) + 1 /\ Len(s) \in Nat /\ t[Len(s) + 1] = m
      /\ DOMAIN s = 1 .. Len(s) /\ DOMAIN t = 1 .. Len(s) + 1
      /\ \A i \in 1 .. Len(s) : t[i] = s[i]
  OBVIOUS
<1>. HIDE DEF t
<1>2. \A i \in 1 .. Len(s) + 1 : i \in 1 .. Len(s) \/ i = Len(s) + 1
  BY <1>1
<1>3. 1 .. Len(s) \subseteq 1 .. Len(s) + 1 /\ Len(s) + 1 \in 1 .. Len(s) + 1
  BY <1>1
<1>4. Within(t) = Within(s) \union {m}
  BY <1>1, <1>2, <1>3 DEF Within
<1>5. Injective(s) /\ m \notin Within(s) => Injective(t)
  BY <1>1, <1>2 DEF Within, Injective
<1>6. QED
  BY <1>4, <1>5 DEF t

LEMMA InQueued ==
    /\ \A x : x \in Queued <=>
           \E d \in Nodes : \/ x \notin Handled(d) /\ \E f \in Names : x \in Within(box[d][f])
                            \/ \E n \in Nodes : x \in Within(tmp[n][d])
    /\ \A x : x \in Queued' <=>
           \E d \in Nodes : \/ x \notin Handled(d)' /\ \E f \in Names : x \in Within(box'[d][f])
                            \/ \E n \in Nodes : x \in Within(tmp'[n][d])
<1>1. \A x, d : x \in InBox(d) <=> x \notin Handled(d) /\ \E f \in Names : x \in Within(box[d][f])
  BY DEF InBox
<1>2. \A x, d : x \in InBox(d)' <=> x \notin Handled(d)' /\ \E f \in Names : x \in Within(box'[d][f])
  BY DEF InBox, Within
<1>3. \A x : x \in Queued <=>
         \E d \in Nodes : x \in InBox(d) \/ \E n \in Nodes : x \in Within(tmp[n][d])
  BY DEF Queued
<1>4. \A x : x \in Queued' <=>
         \E d \in Nodes : x \in InBox(d)' \/ \E n \in Nodes : x \in Within(tmp'[n][d])
  BY DEF Queued, Within
<1>5. QED
  BY <1>1, <1>2, <1>3, <1>4

\* What was handled of an open file is in it.
LEMMA HandledIs ==
    ASSUME TypeInv, NEW n \in Nodes
    PROVE  /\ node[n].scan # "file" => Handled(n) = {}
           /\ node[n].scan = "file" =>
                 /\ node[n].file \in Names /\ Contents(n) = box[n][node[n].file]
                 /\ Contents(n) \in Seq(Messages) /\ node[n].done \in 0 .. Len(Contents(n))
                 /\ Handled(n) = {Contents(n)[k] : k \in 1 .. node[n].done}
                 /\ Handled(n) \subseteq Within(Contents(n))
                 /\ node[n].done = Len(Contents(n)) => Handled(n) = Within(Contents(n))
<1>1. CASE node[n].scan # "file"
  BY <1>1 DEF Handled
<1>2. CASE node[n].scan = "file"
  <2>1. /\ node[n].file \in Names /\ box[n][node[n].file] \in Seq(Messages)
        /\ node[n].done \in 0 .. Len(box[n][node[n].file])
    BY <1>2 DEF TypeInv, TypeOK, Instance
  <2>2. Handled(n) = {Contents(n)[k] : k \in 1 .. node[n].done} /\ Contents(n) = box[n][node[n].file]
    BY <1>2 DEF Handled, Contents
  <2>3. 1 .. node[n].done \subseteq 1 .. Len(Contents(n))
    BY <2>1, <2>2
  <2>4. Within(Contents(n)) = {Contents(n)[k] : k \in 1 .. Len(Contents(n))}
    BY <2>1, <2>2 DEF Within
  <2>5. QED
    BY <1>2, <2>1, <2>2, <2>3, <2>4
<1>3. QED
  BY <1>1, <1>2

\* Steps after which the same messages wait.
Stays == UNCHANGED <<to, shown>> /\ \A x : x \in Queued' <=> x \in Queued

LEMMA SameFiles ==
    ASSUME Apart, UNCHANGED <<box, tmp, to>>, \A k \in Nodes : Handled(k)' = Handled(k)
    PROVE  Apart' /\ \A x : x \in Queued' <=> x \in Queued
<1>1. Apart'
  BY DEF Apart
<1>2. \A x : x \in Queued' <=> x \in Queued
  BY InQueued
<1>3. QED
  BY <1>1, <1>2

LEMMA HandledSame ==
    ASSUME NEW n \in Nodes, box'[n] = box[n], node'[n].scan = "file" <=> node[n].scan = "file",
           node[n].scan = "file" => node'[n].file = node[n].file /\ node'[n].done = node[n].done
    PROVE  Handled(n)' = Handled(n)
<1>1. CASE node[n].scan = "file"
  <2>1. Contents(n)' = Contents(n)
    BY <1>1 DEF Contents
  <2>2. QED
    BY <1>1, <2>1 DEF Handled
<1>2. CASE node[n].scan # "file"
  BY <1>2 DEF Handled
<1>3. QED
  BY <1>1, <1>2

LEMMA SessionMail ==
    ASSUME MailInv, NEW n \in Nodes, SessionStep(n)
    PROVE  Apart' /\ Stays
<1>1. Serves(n) /\ UNCHANGED <<box, tmp, to, shown>>
  BY SessionServes DEF MailInv
<1>2. \A k \in Nodes : Handled(k)' = Handled(k)
  <2>1. ASSUME NEW k \in Nodes
        PROVE  Handled(k)' = Handled(k)
    <3>1. CASE k = n
      BY <1>1, <3>1, HandledSame DEF Serves
    <3>2. CASE k # n
      BY <1>1, <3>2, HandledSame DEF Serves
    <3>3. QED
      BY <3>1, <3>2
  <2>2. QED
    BY <2>1
<1>3. QED
  BY <1>1, <1>2, SameFiles DEF MailInv, Stays

\* Emptying a file.
LEMMA ApartWithout ==
    ASSUME TypeOK, Apart, NEW n \in Nodes, NEW f \in Names,
           box' = [box EXCEPT ![n][f] = <<>>], UNCHANGED <<tmp, to>>
    PROVE  Apart'
<1>1. \A d \in Nodes, g \in Names :
         /\ Within(box'[d][g]) \subseteq Within(box[d][g])
         /\ Injective(box'[d][g])
  <2>1. ASSUME NEW d \in Nodes, NEW g \in Names
        PROVE  box'[d][g] = <<>> \/ box'[d][g] = box[d][g]
    BY DEF TypeOK
  <2>2. QED
    BY <2>1, WithinEmpty DEF Apart
<1>2. /\ \A d \in Nodes, g \in Names :
            Injective(box'[d][g]) /\ \A m \in Within(box'[d][g]) : to'[m] = d
      /\ \A k, d \in Nodes :
            Injective(tmp'[k][d]) /\ \A m \in Within(tmp'[k][d]) : to'[m] = d
  BY <1>1 DEF Apart
<1>3. \A d \in Nodes, g, h \in Names : g # h => Within(box'[d][g]) \cap Within(box'[d][h]) = {}
  <2>1. ASSUME NEW d \in Nodes, NEW g \in Names, NEW h \in Names, g # h
        PROVE  Within(box'[d][g]) \cap Within(box'[d][h]) = {}
    <3>1. Within(box[d][g]) \cap Within(box[d][h]) = {}
      BY <2>1 DEF Apart
    <3>2. Within(box'[d][g]) \subseteq Within(box[d][g]) /\ Within(box'[d][h]) \subseteq Within(box[d][h])
      BY <1>1
    <3>3. QED
      BY <3>1, <3>2
  <2>2. QED
    BY <2>1
<1>4. /\ \A k, j, d \in Nodes : k # j => Within(tmp'[k][d]) \cap Within(tmp'[j][d]) = {}
      /\ \A k, d \in Nodes, g \in Names : Within(box'[d][g]) \cap Within(tmp'[k][d]) = {}
  <2>1. tmp' = tmp
    OBVIOUS
  <2>2. \A k, j, d \in Nodes : k # j => Within(tmp'[k][d]) \cap Within(tmp'[j][d]) = {}
    BY <2>1 DEF Apart
  <2>3. ASSUME NEW k \in Nodes, NEW d \in Nodes, NEW g \in Names
        PROVE  Within(box'[d][g]) \cap Within(tmp'[k][d]) = {}
    <3>1. Within(box[d][g]) \cap Within(tmp[k][d]) = {}
      BY DEF Apart
    <3>2. Within(box'[d][g]) \subseteq Within(box[d][g])
      BY <1>1
    <3>3. QED
      BY <2>1, <3>1, <3>2
  <2>4. QED
    BY <2>2, <2>3
<1>5. QED
  BY <1>2, <1>3, <1>4 DEF Apart

\* Where f is emptied and nothing is open afterwards, what f held and was not
\* handled waits no more.
LEMMA WaitsWithout ==
    ASSUME TypeInv, Apart, NEW n \in Nodes, node[n].scan = "file",
           box' = [box EXCEPT ![n][node[n].file] = <<>>], UNCHANGED tmp,
           \A k \in Nodes : k # n => node'[k] = node[k],
           node'[n].scan # "file"
    PROVE  \A x : x \in Queued' <=>
               x \in Queued /\ ~(x \in Within(Contents(n)) /\ x \notin Handled(n))
<1>. DEFINE f == node[n].file
<1>1. /\ f \in Names /\ Contents(n) = box[n][f] /\ Handled(n) \subseteq Within(Contents(n))
      /\ box[n] \in [Names -> Seq(Messages)] /\ box \in [Nodes -> [Names -> Seq(Messages)]]
  BY HandledIs DEF TypeInv, TypeOK
<1>2. /\ \A k \in Nodes : k # n => box'[k] = box[k] /\ Handled(k)' = Handled(k)
      /\ \A g \in Names : g # f => box'[n][g] = box[n][g]
      /\ box'[n][f] = <<>> /\ Handled(n)' = {}
  <2>1. /\ \A k \in Nodes : k # n => box'[k] = box[k]
        /\ \A g \in Names : g # f => box'[n][g] = box[n][g]
        /\ box'[n][f] = <<>>
    BY <1>1
  <2>2. \A k \in Nodes : k # n => Handled(k)' = Handled(k)
    BY <2>1, HandledSame
  <2>3. Handled(n)' = {}
    BY DEF Handled
  <2>4. QED
    BY <2>1, <2>2, <2>3
<1>3. /\ \A k \in Nodes, g \in Names : \A x \in Within(box[k][g]) : to[x] = k
      /\ \A k, d \in Nodes : \A x \in Within(tmp[k][d]) : to[x] = d
      /\ \A g \in Names : g # f => Within(box[n][f]) \cap Within(box[n][g]) = {}
      /\ \A k \in Nodes : Within(box[n][f]) \cap Within(tmp[k][n]) = {}
  BY <1>1 DEF Apart
<1>4. ASSUME NEW x, x \in Queued'
      PROVE  x \in Queued /\ ~(x \in Within(Contents(n)) /\ x \notin Handled(n))
  <2>1. PICK d \in Nodes : \/ x \notin Handled(d)' /\ \E g \in Names : x \in Within(box'[d][g])
                           \/ \E k \in Nodes : x \in Within(tmp[k][d])
    BY <1>4, InQueued
  <2>2. CASE \E k \in Nodes : x \in Within(tmp[k][d])
    <3>1. x \in Queued
      BY <2>2, InQueued
    <3>2. PICK k \in Nodes : x \in Within(tmp[k][d])
      BY <2>2
    <3>3. SUFFICES ASSUME x \in Within(box[n][f]) PROVE FALSE
      BY <1>1, <3>1
    <3>4. to[x] = d /\ to[x] = n
      BY <1>1, <1>3, <3>2, <3>3
    <3>5. x \in Within(tmp[k][n]) /\ Within(box[n][f]) \cap Within(tmp[k][n]) = {}
      BY <1>3, <3>2, <3>4
    <3>6. QED
      BY <3>3, <3>5
  <2>3. CASE x \notin Handled(d)' /\ \E g \in Names : x \in Within(box'[d][g])
    <3>1. PICK g \in Names : x \in Within(box'[d][g])
      BY <2>3
    <3>2. CASE d # n
      <4>1. x \in Within(box[d][g]) /\ x \notin Handled(d) /\ to[x] # n
        BY <1>2, <1>3, <2>3, <3>1, <3>2
      <4>2. x \notin Within(box[n][f]) /\ x \in Queued
        BY <1>1, <1>3, <4>1, InQueued
      <4>3. QED
        BY <1>1, <4>2
    <3>3. CASE d = n
      <4>1. g # f /\ x \in Within(box[n][g])
        BY <1>2, <3>1, <3>3, WithinEmpty
      <4>2. x \notin Within(box[n][f])
        BY <1>3, <4>1
      <4>3. x \notin Handled(n)
        BY <1>1, <4>2
      <4>4. x \in Queued
        BY <4>1, <4>3, InQueued
      <4>5. QED
        BY <1>1, <4>2, <4>4
    <3>4. QED
      BY <3>2, <3>3
  <2>4. QED
    BY <2>1, <2>2, <2>3
<1>5. ASSUME NEW x, x \in Queued, ~(x \in Within(Contents(n)) /\ x \notin Handled(n))
      PROVE  x \in Queued'
  <2>1. PICK d \in Nodes : \/ x \notin Handled(d) /\ \E g \in Names : x \in Within(box[d][g])
                           \/ \E k \in Nodes : x \in Within(tmp[k][d])
    BY <1>5, InQueued
  <2>2. CASE \E k \in Nodes : x \in Within(tmp[k][d])
    BY <2>2, InQueued
  <2>3. CASE x \notin Handled(d) /\ \E g \in Names : x \in Within(box[d][g])
    <3>1. PICK g \in Names : x \in Within(box[d][g])
      BY <2>3
    <3>2. ~(d = n /\ g = f)
      BY <1>1, <1>5, <2>3, <3>1
    <3>3. x \in Within(box'[d][g]) /\ x \notin Handled(d)'
      BY <1>2, <2>3, <3>1, <3>2
    <3>4. QED
      BY <3>3, InQueued
  <2>4. QED
    BY <2>1, <2>2, <2>3
<1>6. QED
  BY <1>4, <1>5

LEMMA NextIndex ==
    ASSUME NEW l \in Nat, NEW i \in Nat, i < l
    PROVE  i + 1 \in 1 .. l /\ 1 .. i \subseteq 1 .. l /\ i + 1 \notin 1 .. i
OBVIOUS

\* The next message of an open file waits for the instance that opened it.
LEMMA CurrentWaits ==
    ASSUME TypeInv, Apart, NEW n \in Nodes, InFile(n)
    PROVE  /\ Current(n) \in Within(Contents(n)) /\ Current(n) \notin Handled(n)
           /\ Current(n) \in Messages /\ Current(n) \in Queued /\ to[Current(n)] = n
           /\ node[n].done + 1 \in 1 .. Len(Contents(n))
<1>. DEFINE f == node[n].file
            i == node[n].done
            s == Contents(n)
<1>1. /\ f \in Names /\ s = box[n][f] /\ s \in Seq(Messages) /\ i \in 0 .. Len(s)
      /\ Handled(n) = {s[k] : k \in 1 .. i}
  BY HandledIs DEF InFile
<1>2. i < Len(s) /\ Current(n) = s[i + 1]
  BY DEF InFile, Current
<1>3. DOMAIN s = 1 .. Len(s) /\ i + 1 \in 1 .. Len(s) /\ 1 .. i \subseteq 1 .. Len(s) /\ i + 1 \notin 1 .. i
  <2>1. Len(s) \in Nat /\ i \in Nat /\ i < Len(s) /\ DOMAIN s = 1 .. Len(s)
    BY <1>1, <1>2
  <2>2. i + 1 \in 1 .. Len(s) /\ 1 .. i \subseteq 1 .. Len(s) /\ i + 1 \notin 1 .. i
    <3>. HIDE DEF s, i
    <3>1. QED
      BY <2>1, NextIndex
  <2>3. QED
    BY <2>1, <2>2
<1>4. Current(n) \in Within(s) /\ Current(n) \in Messages
  <2>1. i + 1 \in DOMAIN s
    BY <1>3
  <2>2. Current(n) \in Within(s)
    BY <1>2, <2>1 DEF Within
  <2>3. QED
    BY <1>1, <1>2, <2>1, <2>2
<1>5. Injective(s) /\ \A m \in Within(s) : to[m] = n
  BY <1>1 DEF Apart
<1>6. Current(n) \notin Handled(n)
  <2>1. \A k \in 1 .. i : s[k] # s[i + 1]
    BY <1>3, <1>5 DEF Injective
  <2>2. QED
    BY <1>1, <1>2, <2>1
<1>7. Current(n) \in Queued
  BY <1>1, <1>4, <1>6, InQueued
<1>8. QED
  BY <1>3, <1>4, <1>5, <1>6, <1>7

\* What the users of the instances see: m was handled, or S is lost with m.
SameLive == \A k \in Nodes : node'[k].user = node[k].user /\ node'[k].pc = node[k].pc
                             /\ node'[k].hangup = node[k].hangup

Handles(n, m) ==
    /\ m \in Messages \ Shutdowns /\ m \in Queued /\ to[m] = n
    /\ \A x : x \in Queued' <=> x \in Queued /\ x # m
    /\ shown' = IF OnLine(n) /\ ~node[n].hangup THEN shown \union {m} ELSE shown
    /\ to' = to /\ SameLive

Obeys(n, m, S) ==
    /\ m \in Messages \cap Shutdowns /\ m \in Queued /\ to[m] = n /\ m \notin S
    /\ S \subseteq Messages /\ \A x \in S : x \in Queued /\ to[x] = n
    /\ \A x : x \in Queued' <=> x \in Queued /\ x # m /\ x \notin S
    /\ shown' = shown \union {m}
    /\ to' = to /\ node'[n].hangup /\ \A k \in Nodes : k # n => node'[k] = node[k]

LEMMA HandleMail ==
    ASSUME MailInv, NEW n \in Nodes, Handle(n)
    PROVE  Apart' /\ Handles(n, Current(n))
<1>. DEFINE m == Current(n)
            nd == node[n]
            w == [nd EXCEPT !.done = @ + 1]
<1>1. UNCHANGED <<box, tmp, to>> /\ InFile(n) /\ m \notin Shutdowns
  BY DEF Handle
<1>2. /\ m \in Within(Contents(n)) /\ m \notin Handled(n) /\ m \in Messages /\ m \in Queued /\ to[m] = n
      /\ nd.done + 1 \in 1 .. Len(Contents(n))
  BY <1>1, CurrentWaits DEF MailInv
<1>3. nd.file \in Names /\ Contents(n) = box[n][nd.file] /\ nd.done \in Nat
  BY <1>1, HandledIs DEF InFile, MailInv, TypeInv, TypeOK, Instance
<1>4. node \in [Nodes -> Instance] /\ nd \in Instance
  BY DEF MailInv, TypeInv, TypeOK
<1>5. /\ w.user = nd.user /\ w.pc = nd.pc /\ w.hangup = nd.hangup /\ w.scan = nd.scan
      /\ w.file = nd.file /\ w.done = nd.done + 1
  BY <1>4 DEF Instance
<1>6. node'[n] = w /\ \A k \in Nodes : k # n => node'[k] = node[k]
  BY <1>4 DEF Handle, Do
<1>. HIDE DEF w
<1>7. SameLive
  BY <1>5, <1>6 DEF SameLive
<1>8. \A k \in Nodes : k # n => Handled(k)' = Handled(k)
  BY <1>1, <1>6, HandledSame
<1>9. \A x : x \in Handled(n)' <=> x \in Handled(n) \/ x = m
  <2>1. Contents(n)' = Contents(n)
    BY <1>1, <1>5, <1>6 DEF Contents
  <2>2. Handled(n)' = {Contents(n)[k] : k \in 1 .. nd.done + 1}
    BY <1>1, <1>5, <1>6, <2>1 DEF Handled, InFile
  <2>3. Handled(n) = {Contents(n)[k] : k \in 1 .. nd.done}
    BY <1>1 DEF Handled, InFile
  <2>4. \A k : k \in 1 .. nd.done + 1 <=> k \in 1 .. nd.done \/ k = nd.done + 1
    BY <1>3
  <2>5. QED
    BY <2>2, <2>3, <2>4 DEF Current
<1>10. Apart'
  BY <1>1 DEF Apart, MailInv
<1>11. \A x : x \in Queued' <=> x \in Queued /\ x # m
  <2>1. ASSUME NEW x, x \in Queued'
        PROVE  x \in Queued
    <3>1. PICK d \in Nodes : \/ x \notin Handled(d)' /\ \E g \in Names : x \in Within(box[d][g])
                             \/ \E k \in Nodes : x \in Within(tmp[k][d])
      BY <1>1, <2>1, InQueued
    <3>2. x \notin Handled(d)' => x \notin Handled(d)
      BY <1>8, <1>9
    <3>3. QED
      BY <3>1, <3>2, InQueued
  <2>2. m \notin Queued'
    <3>1. SUFFICES ASSUME m \in Queued' PROVE FALSE
      OBVIOUS
    <3>2. PICK d \in Nodes : \/ m \notin Handled(d)' /\ \E g \in Names : m \in Within(box[d][g])
                             \/ \E k \in Nodes : m \in Within(tmp[k][d])
      BY <1>1, <3>1, InQueued
    <3>3. d = n
      BY <1>2, <3>2 DEF MailInv, Apart
    <3>4. PICK k \in Nodes : m \in Within(tmp[k][n])
      BY <1>9, <3>2, <3>3
    <3>5. Within(box[n][nd.file]) \cap Within(tmp[k][n]) = {}
      BY <1>3, <3>4 DEF MailInv, Apart
    <3>6. QED
      BY <1>2, <1>3, <3>4, <3>5
  <2>3. ASSUME NEW x, x \in Queued, x # m
        PROVE  x \in Queued'
    <3>1. PICK d \in Nodes : \/ x \notin Handled(d) /\ \E g \in Names : x \in Within(box[d][g])
                             \/ \E k \in Nodes : x \in Within(tmp[k][d])
      BY <2>3, InQueued
    <3>2. x \notin Handled(d) => x \notin Handled(d)'
      BY <1>8, <1>9, <2>3
    <3>3. QED
      BY <1>1, <3>1, <3>2, InQueued
  <2>4. QED
    BY <2>1, <2>2, <2>3
<1>12. shown' = IF OnLine(n) /\ ~node[n].hangup THEN shown \union {m} ELSE shown
  BY DEF Handle
<1>13. QED
  BY <1>1, <1>2, <1>7, <1>10, <1>11, <1>12 DEF Handles

LEMMA ObeyMail ==
    ASSUME MailInv, NEW n \in Nodes, ObeyShutdown(n)
    PROVE  Apart' /\ Obeys(n, Current(n), {x \in Within(Contents(n)) : x \notin Handled(n) /\ x # Current(n)})
<1>. DEFINE m == Current(n)
            nd == node[n]
            S == {x \in Within(Contents(n)) : x \notin Handled(n) /\ x # m}
<1>1. /\ UNCHANGED <<tmp, to>> /\ InFile(n) /\ m \in Shutdowns /\ shown' = shown \union {m}
      /\ box' = [box EXCEPT ![n][nd.file] = <<>>] /\ nd.scan = "file"
  BY DEF ObeyShutdown, InFile
<1>2. m \in Within(Contents(n)) /\ m \notin Handled(n) /\ m \in Messages /\ m \in Queued /\ to[m] = n
  BY <1>1, CurrentWaits DEF MailInv
<1>3. nd.file \in Names /\ Contents(n) = box[n][nd.file] /\ Contents(n) \in Seq(Messages)
  BY <1>1, HandledIs DEF MailInv
<1>4. node'[n] = Leaving(n) /\ \A k \in Nodes : k # n => node'[k] = node[k]
  BY DEF ObeyShutdown, Do, MailInv, TypeInv, TypeOK
<1>5. node'[n].scan # "file" /\ node'[n].hangup
  BY <1>4 DEF Leaving, OffLine
<1>6. Apart'
  BY <1>1, <1>3, ApartWithout DEF MailInv, TypeInv
<1>7. \A x : x \in Queued' <=> x \in Queued /\ ~(x \in Within(Contents(n)) /\ x \notin Handled(n))
  BY <1>1, <1>4, <1>5, WaitsWithout DEF MailInv
<1>8. S \subseteq Messages /\ \A x \in S : x \in Queued /\ to[x] = n
  <2>1. Within(Contents(n)) \subseteq Messages
    BY <1>3 DEF Within
  <2>2. \A x \in S : to[x] = n
    BY <1>3 DEF MailInv, Apart
  <2>3. \A x \in S : x \in Queued
    BY <1>3, InQueued
  <2>4. QED
    BY <2>1, <2>2, <2>3
<1>9. \A x : x \in Queued' <=> x \in Queued /\ x # m /\ x \notin S
  BY <1>2, <1>7
<1>10. QED
  BY <1>1, <1>2, <1>4, <1>5, <1>6, <1>8, <1>9 DEF Obeys

LEMMA CloseMail ==
    ASSUME MailInv, NEW n \in Nodes, CloseFile(n)
    PROVE  Apart' /\ Stays
<1>. DEFINE nd == node[n]
            w == [nd EXCEPT !.scan = "find", !.todo = @ \ {nd.file}, !.file = NoName, !.done = 0]
<1>1. /\ UNCHANGED <<tmp, to, shown>> /\ box' = [box EXCEPT ![n][nd.file] = <<>>]
      /\ nd.scan = "file" /\ nd.done = Len(Contents(n)) /\ Do(n, w)
  BY DEF CloseFile
<1>2. nd.file \in Names /\ Handled(n) = Within(Contents(n))
  BY <1>1, HandledIs DEF MailInv
<1>3. node'[n] = w /\ \A k \in Nodes : k # n => node'[k] = node[k]
  BY <1>1 DEF Do, MailInv, TypeInv, TypeOK
<1>4. node'[n].scan # "file"
  BY <1>3 DEF MailInv, TypeInv, TypeOK, Instance
<1>5. Apart'
  BY <1>1, <1>2, ApartWithout DEF MailInv, TypeInv
<1>6. \A x : x \in Queued' <=> x \in Queued
  BY <1>1, <1>2, <1>3, <1>4, WaitsWithout DEF MailInv
<1>7. QED
  BY <1>1, <1>5, <1>6 DEF Stays

\* Looking for a file, and opening it.
LEMMA LookMail ==
    ASSUME MailInv, NEW n \in Nodes, FindFirst(n) \/ OpenFile(n) \/ FindNoMore(n)
    PROVE  Apart' /\ Stays
<1>1. UNCHANGED <<box, tmp, to, shown>> /\ node[n].scan # "file"
  BY DEF FindFirst, OpenFile, FindNoMore
<1>2. \A k \in Nodes : k # n => node'[k] = node[k]
  BY DEF FindFirst, OpenFile, FindNoMore, Do, MailInv, TypeInv, TypeOK
<1>3. node'[n].scan = "file" => node'[n].done = 0
  <2>1. node \in [Nodes -> Instance] /\ node[n] \in Instance
    BY DEF MailInv, TypeInv, TypeOK
  <2>2. CASE FindFirst(n) \/ FindNoMore(n)
    <3>1. PICK S \in SUBSET Names : \/ node'[n] = [node[n] EXCEPT !.scan = "find", !.todo = S]
                                  \/ node'[n] = [node[n] EXCEPT !.scan = "no", !.todo = S]
      BY <2>1, <2>2 DEF FindFirst, FindNoMore, Do, Files
    <3>2. QED
      BY <2>1, <3>1 DEF Instance
  <2>3. CASE OpenFile(n)
    <3>1. PICK f \in Names : node'[n] = [node[n] EXCEPT !.scan = "file", !.file = f, !.done = 0]
      BY <2>1, <2>3 DEF OpenFile, Do, Files
    <3>2. QED
      BY <2>1, <3>1 DEF Instance
  <2>4. QED
    BY <2>2, <2>3
<1>4. Handled(n)' = {} /\ Handled(n) = {}
  <2>1. 1 .. 0 = {}
    OBVIOUS
  <2>2. QED
    BY <1>1, <1>3, <2>1 DEF Handled
<1>5. \A k \in Nodes : Handled(k)' = Handled(k)
  BY <1>1, <1>2, <1>4, HandledSame
<1>6. QED
  BY <1>1, <1>5, SameFiles DEF MailInv, Stays

\* Sending.
Sent(d, m) ==
    /\ m \in Messages /\ to[m] = Nobody /\ to' = [to EXCEPT ![m] = d]
    /\ \A x : x \in Queued' <=> x \in Queued \/ x = m

\* Nobody has what was not sent yet.
LEMMA UnsentIsNowhere ==
    ASSUME TypeInv, Apart, NEW m, to[m] = Nobody
    PROVE  /\ \A d \in Nodes, f \in Names : m \notin Within(box[d][f])
           /\ \A n, d \in Nodes : m \notin Within(tmp[n][d])
           /\ \A x \in Nodes : x # Nobody
BY InstancesAssumption DEF Apart

\* The text of a message goes from tmp to a file with all that is before it.
LEMMA ApartSend ==
    ASSUME TypeInv, Apart, NEW n \in Nodes, NEW d \in Nodes, NEW m \in Messages, Send(n, d, m)
    PROVE  Apart'
<1>. DEFINE s == tmp[n][d]
            msgs == Append(s, m)
<1>1. /\ s \in Seq(Messages) /\ box \in [Nodes -> [Names -> Seq(Messages)]]
      /\ tmp \in [Nodes -> [Nodes -> Seq(Messages)]] /\ to \in [Messages -> Nodes \union {Nobody}]
  BY DEF TypeInv, TypeOK
<1>2. to[m] = Nobody /\ to' = [to EXCEPT ![m] = d]
  BY DEF Send
<1>3. /\ \A e \in Nodes, f \in Names : m \notin Within(box[e][f])
      /\ \A k, e \in Nodes : m \notin Within(tmp[k][e])
  BY <1>2, UnsentIsNowhere
<1>4. Within(msgs) = Within(s) \union {m} /\ Injective(msgs)
  BY <1>1, <1>3, WithinAppend DEF Apart
<1>. HIDE DEF s, msgs
<1>5. to'[m] = d /\ \A x : x # m => to'[x] = to[x]
  BY <1>1, <1>2
<1>6. /\ \A x \in Within(msgs) : to'[x] = d
      /\ \A e \in Nodes, f \in Names : \A x \in Within(box[e][f]) : to'[x] = e
      /\ \A k, e \in Nodes : \A x \in Within(tmp[k][e]) : to'[x] = e
  BY <1>3, <1>4, <1>5 DEF Apart, s
<1>7. /\ \A f \in Names : Within(box[d][f]) \cap Within(msgs) = {}
      /\ \A k \in Nodes : k # n => Within(tmp[k][d]) \cap Within(msgs) = {}
  <2>1. \A f \in Names : Within(box[d][f]) \cap Within(s) = {}
    BY DEF Apart, s
  <2>2. \A k \in Nodes : k # n => Within(tmp[k][d]) \cap Within(s) = {}
    BY DEF Apart, s
  <2>3. QED
    BY <1>3, <1>4, <2>1, <2>2
<1>8. CASE \E f \in Names : /\ box[d][f] = <<>>
                            /\ box' = [box EXCEPT ![d][f] = msgs]
                            /\ tmp' = [tmp EXCEPT ![n][d] = <<>>]
  <2>1. PICK f \in Names : /\ box[d][f] = <<>>
                           /\ box' = [box EXCEPT ![d][f] = msgs]
                           /\ tmp' = [tmp EXCEPT ![n][d] = <<>>]
    BY <1>8
  <2>2. /\ box'[d][f] = msgs /\ tmp'[n][d] = <<>>
        /\ \A e \in Nodes, g \in Names : ~(e = d /\ g = f) => box'[e][g] = box[e][g]
        /\ \A k, e \in Nodes : ~(k = n /\ e = d) => tmp'[k][e] = tmp[k][e]
    BY <1>1, <2>1
  <2>3. \A e \in Nodes, g \in Names :
           Injective(box'[e][g]) /\ \A x \in Within(box'[e][g]) : to'[x] = e
    BY <1>4, <1>6, <2>2 DEF Apart
  <2>4. \A k, e \in Nodes :
           Injective(tmp'[k][e]) /\ \A x \in Within(tmp'[k][e]) : to'[x] = e
    BY <1>6, <2>2, WithinEmpty DEF Apart
  <2>5. \A e \in Nodes, g, h \in Names : g # h => Within(box'[e][g]) \cap Within(box'[e][h]) = {}
    <3>1. ASSUME NEW e \in Nodes, NEW g \in Names, NEW h \in Names, g # h
          PROVE  Within(box'[e][g]) \cap Within(box'[e][h]) = {}
      <4>1. CASE e = d /\ g = f
        BY <1>7, <2>2, <3>1, <4>1
      <4>2. CASE e = d /\ h = f
        BY <1>7, <2>2, <3>1, <4>2
      <4>3. CASE ~(e = d /\ g = f) /\ ~(e = d /\ h = f)
        BY <2>2, <3>1, <4>3 DEF Apart
      <4>4. QED
        BY <4>1, <4>2, <4>3
    <3>2. QED
      BY <3>1
  <2>6. \A k, j, e \in Nodes : k # j => Within(tmp'[k][e]) \cap Within(tmp'[j][e]) = {}
    BY <2>2, WithinEmpty DEF Apart
  <2>7. \A k, e \in Nodes, g \in Names : Within(box'[e][g]) \cap Within(tmp'[k][e]) = {}
    <3>1. ASSUME NEW k \in Nodes, NEW e \in Nodes, NEW g \in Names
          PROVE  Within(box'[e][g]) \cap Within(tmp'[k][e]) = {}
      <4>1. CASE k = n /\ e = d
        BY <2>2, <4>1, WithinEmpty
      <4>2. CASE e = d /\ g = f /\ k # n
        BY <1>7, <2>2, <4>2
      <4>3. CASE ~(k = n /\ e = d) /\ ~(e = d /\ g = f)
        BY <2>2, <4>3 DEF Apart
      <4>4. QED
        BY <4>1, <4>2, <4>3
    <3>2. QED
      BY <3>1
  <2>8. QED
    BY <2>3, <2>4, <2>5, <2>6, <2>7 DEF Apart
<1>9. CASE tmp' = [tmp EXCEPT ![n][d] = msgs] /\ UNCHANGED box
  <2>1. /\ tmp'[n][d] = msgs /\ box' = box
        /\ \A k, e \in Nodes : ~(k = n /\ e = d) => tmp'[k][e] = tmp[k][e]
    BY <1>1, <1>9
  <2>2. \A k, e \in Nodes :
           Injective(tmp'[k][e]) /\ \A x \in Within(tmp'[k][e]) : to'[x] = e
    BY <1>4, <1>6, <2>1 DEF Apart
  <2>3. \A k, j, e \in Nodes : k # j => Within(tmp'[k][e]) \cap Within(tmp'[j][e]) = {}
    <3>1. ASSUME NEW k \in Nodes, NEW j \in Nodes, NEW e \in Nodes, k # j
          PROVE  Within(tmp'[k][e]) \cap Within(tmp'[j][e]) = {}
      <4>1. CASE k = n /\ e = d
        BY <1>7, <2>1, <3>1, <4>1
      <4>2. CASE j = n /\ e = d
        BY <1>7, <2>1, <3>1, <4>2
      <4>3. CASE ~(k = n /\ e = d) /\ ~(j = n /\ e = d)
        BY <2>1, <3>1, <4>3 DEF Apart
      <4>4. QED
        BY <4>1, <4>2, <4>3
    <3>2. QED
      BY <3>1
  <2>4. \A k, e \in Nodes, g \in Names : Within(box'[e][g]) \cap Within(tmp'[k][e]) = {}
    <3>1. ASSUME NEW k \in Nodes, NEW e \in Nodes, NEW g \in Names
          PROVE  Within(box'[e][g]) \cap Within(tmp'[k][e]) = {}
      <4>1. CASE k = n /\ e = d
        BY <1>7, <2>1, <4>1
      <4>2. CASE ~(k = n /\ e = d)
        BY <2>1, <4>2 DEF Apart
      <4>3. QED
        BY <4>1, <4>2
    <3>2. QED
      BY <3>1
  <2>5. /\ \A e \in Nodes, g \in Names :
              Injective(box'[e][g]) /\ \A x \in Within(box'[e][g]) : to'[x] = e
        /\ \A e \in Nodes, g, h \in Names : g # h => Within(box'[e][g]) \cap Within(box'[e][h]) = {}
    <3>1. box' = box
      BY <2>1
    <3>2. \A e \in Nodes, g, h \in Names : g # h => Within(box'[e][g]) \cap Within(box'[e][h]) = {}
      BY <3>1 DEF Apart
    <3>3. \A e \in Nodes, g \in Names : Injective(box'[e][g])
      BY <3>1 DEF Apart
    <3>4. \A e \in Nodes, g \in Names : \A x \in Within(box'[e][g]) : to'[x] = e
      BY <1>6, <3>1
    <3>5. QED
      BY <3>2, <3>3, <3>4
  <2>6. QED
    BY <2>2, <2>3, <2>4, <2>5 DEF Apart
<1>10. QED
  BY <1>8, <1>9 DEF Send, s, msgs

LEMMA SendHandled ==
    ASSUME TypeInv, NEW n \in Nodes, NEW d \in Nodes, NEW m \in Messages, Send(n, d, m),
           \A k \in Nodes : Alike(node'[k], node[k]),
           NEW k \in Nodes
    PROVE  Handled(k)' = Handled(k)
<1>1. \A f \in Names : box[k][f] # <<>> => box'[k][f] = box[k][f]
  BY SendType DEF TypeInv
<1>2. /\ node'[k].scan = node[k].scan /\ node'[k].file = node[k].file
      /\ node'[k].done = node[k].done
  BY DEF Alike
<1>3. CASE node[k].scan # "file"
  BY <1>2, <1>3 DEF Handled
<1>4. CASE node[k].scan = "file"
  <2>1. /\ node[k].file \in Names /\ Contents(k) = box[k][node[k].file]
        /\ node[k].done \in 0 .. Len(Contents(k))
    BY <1>4, HandledIs
  <2>2. CASE Contents(k) # <<>>
    <3>1. Contents(k)' = Contents(k)
      BY <1>1, <1>2, <2>1, <2>2 DEF Contents
    <3>2. QED
      BY <1>2, <1>4, <3>1 DEF Handled
  <2>3. CASE Contents(k) = <<>>
    <3>1. node[k].done = 0 /\ 1 .. 0 = {}
      BY <2>1, <2>3
    <3>2. QED
      BY <1>2, <1>4, <3>1 DEF Handled
  <2>4. QED
    BY <2>2, <2>3
<1>5. QED
  BY <1>3, <1>4

LEMMA QueuedSend ==
    ASSUME TypeInv, Apart, NEW n \in Nodes, NEW d \in Nodes, NEW m \in Messages, Send(n, d, m),
           \A k \in Nodes : Handled(k)' = Handled(k)
    PROVE  \A x : x \in Queued' <=> x \in Queued \/ x = m
<1>. DEFINE s == tmp[n][d]
            msgs == Append(s, m)
            File(y, f) == y \notin Handled(d) /\ y \in Within(box'[d][f])
<1>1. /\ s \in Seq(Messages) /\ box \in [Nodes -> [Names -> Seq(Messages)]]
      /\ tmp \in [Nodes -> [Nodes -> Seq(Messages)]]
  BY DEF TypeInv, TypeOK
<1>2. /\ \A e \in Nodes, f \in Names : m \notin Within(box[e][f])
      /\ \A k, e \in Nodes : m \notin Within(tmp[k][e])
  BY UnsentIsNowhere DEF Send
<1>3. Within(msgs) = Within(s) \union {m}
  BY <1>1, WithinAppend
<1>4. \A x \in Within(msgs) : x \notin Handled(d)
  <2>1. Handled(d) = {} \/ \E f \in Names : Handled(d) \subseteq Within(box[d][f])
    BY HandledIs
  <2>2. \A f \in Names : Within(box[d][f]) \cap Within(s) = {}
    BY DEF Apart
  <2>3. QED
    BY <1>2, <1>3, <2>1, <2>2
<1>. HIDE DEF msgs, s
<1>5. CASE \E f \in Names : /\ box[d][f] = <<>>
                            /\ box' = [box EXCEPT ![d][f] = msgs]
                            /\ tmp' = [tmp EXCEPT ![n][d] = <<>>]
  <2>1. PICK f \in Names : /\ box[d][f] = <<>>
                           /\ box' = [box EXCEPT ![d][f] = msgs]
                           /\ tmp' = [tmp EXCEPT ![n][d] = <<>>]
    BY <1>5
  <2>2. /\ box'[d][f] = msgs /\ tmp'[n][d] = <<>>
        /\ \A e \in Nodes, g \in Names : ~(e = d /\ g = f) => box'[e][g] = box[e][g]
        /\ \A k, e \in Nodes : ~(k = n /\ e = d) => tmp'[k][e] = tmp[k][e]
    BY <1>1, <2>1
  <2>3. ASSUME NEW x, x \in Queued'
        PROVE  x \in Queued \/ x = m
    <3>1. PICK e \in Nodes : \/ x \notin Handled(e)' /\ \E g \in Names : x \in Within(box'[e][g])
                             \/ \E k \in Nodes : x \in Within(tmp'[k][e])
      BY <2>3, InQueued
    <3>2. CASE \E k \in Nodes : x \in Within(tmp'[k][e])
      <4>1. PICK k \in Nodes : x \in Within(tmp'[k][e])
        BY <3>2
      <4>2. x \in Within(tmp[k][e])
        BY <2>2, <4>1, WithinEmpty
      <4>3. QED
        BY <4>2, InQueued
    <3>3. CASE x \notin Handled(e)' /\ \E g \in Names : x \in Within(box'[e][g])
      <4>1. PICK g \in Names : x \in Within(box'[e][g])
        BY <3>3
      <4>2. CASE e = d /\ g = f
        <5>1. x \in Within(s) \/ x = m
          BY <1>3, <2>2, <4>1, <4>2
        <5>2. QED
          BY <5>1, InQueued DEF s
      <4>3. CASE ~(e = d /\ g = f)
        <5>1. x \in Within(box[e][g]) /\ x \notin Handled(e)
          BY <2>2, <3>3, <4>1, <4>3
        <5>2. QED
          BY <5>1, InQueued
      <4>4. QED
        BY <4>2, <4>3
    <3>4. QED
      BY <3>1, <3>2, <3>3
  <2>4. ASSUME NEW x, x \in Queued \/ x = m
        PROVE  x \in Queued'
    <3>1. CASE x \in Within(msgs)
      <4>1. x \in Within(box'[d][f]) /\ x \notin Handled(d)'
        BY <1>4, <2>2, <3>1
      <4>2. QED
        BY <4>1, InQueued
    <3>2. CASE x \notin Within(msgs)
      <4>1. x \in Queued
        BY <1>3, <2>4, <3>2
      <4>2. PICK e \in Nodes : \/ x \notin Handled(e) /\ \E g \in Names : x \in Within(box[e][g])
                               \/ \E k \in Nodes : x \in Within(tmp[k][e])
        BY <4>1, InQueued
      <4>3. CASE \E k \in Nodes : x \in Within(tmp[k][e])
        <5>1. PICK k \in Nodes : x \in Within(tmp[k][e])
          BY <4>3
        <5>2. ~(k = n /\ e = d)
          BY <1>3, <3>2, <5>1 DEF s
        <5>3. x \in Within(tmp'[k][e])
          BY <2>2, <5>1, <5>2
        <5>4. QED
          BY <5>3, InQueued
      <4>4. CASE x \notin Handled(e) /\ \E g \in Names : x \in Within(box[e][g])
        <5>1. PICK g \in Names : x \in Within(box[e][g])
          BY <4>4
        <5>2. ~(e = d /\ g = f)
          BY <2>1, <5>1, WithinEmpty
        <5>3. x \in Within(box'[e][g]) /\ x \notin Handled(e)'
          BY <2>2, <4>4, <5>1, <5>2
        <5>4. QED
          BY <5>3, InQueued
      <4>5. QED
        BY <4>2, <4>3, <4>4
    <3>3. QED
      BY <3>1, <3>2
  <2>5. QED
    BY <2>3, <2>4
<1>6. CASE tmp' = [tmp EXCEPT ![n][d] = msgs] /\ UNCHANGED box
  <2>1. /\ tmp'[n][d] = msgs /\ box' = box
        /\ \A k, e \in Nodes : ~(k = n /\ e = d) => tmp'[k][e] = tmp[k][e]
    BY <1>1, <1>6
  <2>2. \A k, e \in Nodes : \A x : x \in Within(tmp'[k][e]) <=>
            x \in Within(tmp[k][e]) \/ (x = m /\ k = n /\ e = d)
    BY <1>3, <2>1 DEF s
  <2>3. QED
    BY <2>1, <2>2, InQueued
<1>7. QED
  BY <1>5, <1>6 DEF Send, s, msgs

LEMMA SendsMail ==
    ASSUME MailInv, NEW n \in Nodes, Sends(n)
    PROVE  /\ Apart' /\ SameLive /\ shown' = shown
           /\ Stays \/ \E d \in Nodes, m \in Messages : Sent(d, m)
<1>1. /\ \A k \in Nodes : Alike(node'[k], node[k])
      /\ shown' = shown
      /\ UNCHANGED <<box, tmp, to>> \/ \E d \in Nodes, m \in Messages : Send(n, d, m)
  BY SendsAre DEF MailInv
<1>2. SameLive
  BY <1>1 DEF SameLive, Alike
<1>3. CASE UNCHANGED <<box, tmp, to>>
  <2>1. \A k \in Nodes : Handled(k)' = Handled(k)
    BY <1>1, <1>3, HandledSame DEF Alike
  <2>2. QED
    BY <1>1, <1>2, <1>3, <2>1, SameFiles DEF MailInv, Stays
<1>4. ASSUME NEW d \in Nodes, NEW m \in Messages, Send(n, d, m)
      PROVE  Apart' /\ Sent(d, m)
  <2>1. \A k \in Nodes : Handled(k)' = Handled(k)
    BY <1>1, <1>4, SendHandled DEF MailInv
  <2>2. \A x : x \in Queued' <=> x \in Queued \/ x = m
    BY <1>4, <2>1, QueuedSend DEF MailInv
  <2>3. Apart'
    BY <1>4, ApartSend DEF MailInv
  <2>4. QED
    BY <1>4, <2>2, <2>3 DEF Sent, Send
<1>5. QED
  BY <1>1, <1>2, <1>3, <1>4

---------------------------------------------------------------------------
(* Messages: what happens to them *)

fateOf == [m \in Messages |-> Fate(m)]

LEMMA FatesAre ==
    ASSUME ShownInv
    PROVE  /\ \A m \in Messages : fateOf[m] = Fate(m) /\ fateOf'[m] = Fate(m)'
           /\ \A m \in Messages : m \in Queued /\ to[m] # Nobody => Fate(m) = "sent"
           /\ \A m \in Messages : to[m] = Nobody => Fate(m) = "new"
           /\ \A m \in shown : to[m] # Nobody /\ m \notin Queued
BY DEF fateOf, Fate, ShownInv

\* Where fates are the same but for those of S, the function is.
LEMMA SameFate ==
    ASSUME NEW m \in Messages, to'[m] = to[m], m \in Queued' <=> m \in Queued,
           m \in shown' <=> m \in shown
    PROVE  Fate(m)' = Fate(m)
BY DEF Fate

LEMMA StaysIs ==
    ASSUME MailInv, Stays
    PROVE  ShownInv' /\ Mail!Next
<1>1. ShownInv'
  BY DEF MailInv, ShownInv, Stays
<1>2. \A m \in Messages : Fate(m)' = Fate(m)
  BY SameFate DEF Stays
<1>3. fateOf' = fateOf
  BY <1>2 DEF fateOf
<1>4. Live' \in SUBSET Nodes
  BY DEF Live
<1>5. Mail!Move
  BY <1>3, <1>4 DEF Mail!Move, fateOf, Stays
<1>6. QED
  BY <1>1, <1>5 DEF Mail!Next

LEMMA SameLiveIs ==
    ASSUME SameLive PROVE Live' = Live
BY DEF SameLive, Live, OnLine

LEMMA SentIs ==
    ASSUME MailInv, NEW d \in Nodes, NEW m \in Messages, Sent(d, m), SameLive, shown' = shown
    PROVE  ShownInv' /\ Mail!Next
<1>1. to \in [Messages -> Nodes \union {Nobody}] /\ d # Nobody
  BY InstancesAssumption DEF MailInv, TypeInv, TypeOK
<1>2. /\ to[m] = Nobody /\ to' = [to EXCEPT ![m] = d] /\ to'[m] = d
      /\ \A k \in Messages : k # m => to'[k] = to[k]
      /\ \A x : x \in Queued' <=> x \in Queued \/ x = m
  BY <1>1 DEF Sent
<1>3. m \notin shown /\ shown \subseteq Messages
  BY <1>2 DEF MailInv, ShownInv, TypeInv, TypeOK
<1>4. ShownInv'
  BY <1>2, <1>3 DEF MailInv, ShownInv
<1>5. Fate(m) = "new" /\ Fate(m)' = "sent"
  BY <1>1, <1>2 DEF Fate
<1>6. \A k \in Messages : k # m => Fate(k)' = Fate(k)
  BY <1>2, SameFate
<1>7. fateOf' = [fateOf EXCEPT ![m] = "sent"] /\ fateOf[m] = "new"
  BY <1>5, <1>6 DEF fateOf
<1>8. Live' = Live
  BY SameLiveIs
<1>9. Mail!Send(m)
  BY <1>2, <1>7, <1>8 DEF Mail!Send, fateOf
<1>10. QED
  BY <1>4, <1>9 DEF Mail!Next

LEMMA HandlesIs ==
    ASSUME MailInv, NEW n \in Nodes, NEW m, Handles(n, m)
    PROVE  ShownInv' /\ Mail!Next
<1>1. /\ m \in Messages /\ m \notin Shutdowns /\ m \in Queued /\ to[m] = n /\ to' = to
      /\ \A x : x \in Queued' <=> x \in Queued /\ x # m
      /\ n # Nobody /\ SameLive
  BY InstancesAssumption DEF Handles
<1>2. m \notin shown /\ Fate(m) = "sent"
  BY <1>1 DEF MailInv, ShownInv, Fate
<1>3. Live' = Live
  BY <1>1, SameLiveIs
<1>4. n \in Live <=> OnLine(n) /\ ~node[n].hangup
  BY DEF Live
<1>5. shown' = IF n \in Live THEN shown \union {m} ELSE shown
  BY <1>4 DEF Handles
<1>6. ShownInv'
  BY <1>1, <1>5 DEF MailInv, ShownInv
<1>7. \A k \in Messages : k # m => Fate(k)' = Fate(k)
  BY <1>1, <1>5, SameFate
<1>8. CASE n \in Live
  <2>1. Fate(m)' = "shown"
    BY <1>1, <1>5, <1>8 DEF Fate
  <2>2. fateOf' = [fateOf EXCEPT ![m] = "shown"] /\ fateOf[m] = "sent"
    BY <1>1, <1>2, <1>7, <2>1 DEF fateOf
  <2>3. Mail!Show(m)
    BY <1>1, <1>3, <1>8, <2>2 DEF Mail!Show, fateOf
  <2>4. QED
    BY <1>1, <1>6, <2>3 DEF Mail!Next
<1>9. CASE n \notin Live
  <2>1. Fate(m)' = "gone"
    BY <1>1, <1>2, <1>5, <1>9 DEF Fate
  <2>2. fateOf' = [fateOf EXCEPT ![m] = "gone"] /\ fateOf[m] = "sent"
    BY <1>1, <1>2, <1>7, <2>1 DEF fateOf
  <2>3. Mail!Discard(m)
    BY <1>1, <1>3, <1>9, <2>2 DEF Mail!Discard, fateOf
  <2>4. QED
    BY <1>1, <1>6, <2>3 DEF Mail!Next
<1>10. QED
  BY <1>8, <1>9

LEMMA ObeysIs ==
    ASSUME MailInv, NEW n \in Nodes, NEW m, NEW S, Obeys(n, m, S)
    PROVE  ShownInv' /\ Mail!Next
<1>1. /\ m \in Messages /\ m \in Shutdowns /\ m \in Queued /\ to[m] = n /\ to' = to
      /\ m \notin S /\ S \subseteq Messages /\ \A x \in S : x \in Queued /\ to[x] = n
      /\ \A x : x \in Queued' <=> x \in Queued /\ x # m /\ x \notin S
      /\ shown' = shown \union {m} /\ n # Nobody
  BY InstancesAssumption DEF Obeys
<1>2. m \notin shown /\ \A x \in S : x \notin shown
  BY <1>1 DEF MailInv, ShownInv
<1>3. ShownInv'
  BY <1>1 DEF MailInv, ShownInv
<1>4. Fate(m) = "sent" /\ \A x \in S : Fate(x) = "sent"
  BY <1>1 DEF Fate
<1>5. Fate(m)' = "obeyed"
  BY <1>1 DEF Fate
<1>6. \A x \in S : Fate(x)' = "gone"
  BY <1>1, <1>2 DEF Fate
<1>7. \A k \in Messages : k # m /\ k \notin S => Fate(k)' = Fate(k)
  BY <1>1, SameFate
<1>8. fateOf' = [k \in Messages |-> IF k = m THEN "obeyed"
                                   ELSE IF k \in S THEN "gone" ELSE fateOf[k]]
  BY <1>5, <1>6, <1>7 DEF fateOf
<1>9. fateOf[m] = "sent" /\ \A k \in S : fateOf[k] = "sent"
  BY <1>1, <1>4 DEF fateOf
<1>10. Live' = Live \ {to[m]}
  BY <1>1 DEF Live, OnLine, Obeys
<1>11. S \in SUBSET (Messages \ {m})
  BY <1>1
<1>12. Mail!Obey(m, S)
  BY <1>1, <1>8, <1>9, <1>10 DEF Mail!Obey, fateOf
<1>13. QED
  BY <1>1, <1>3, <1>11, <1>12 DEF Mail!Next

LEMMA MailNext ==
    ASSUME MailInv, Next
    PROVE  Apart' /\ ShownInv' /\ Mail!Next
<1>1. PICK n \in Nodes : SessionStep(n) \/ ProcessInstMsgs(n) \/ Sends(n)
  BY NextCases
<1>2. CASE SessionStep(n)
  BY <1>2, SessionMail, StaysIs
<1>3. CASE Sends(n)
  BY <1>3, SendsMail, StaysIs, SentIs
<1>4. CASE Handle(n)
  BY <1>4, HandleMail, HandlesIs
<1>5. CASE ObeyShutdown(n)
  BY <1>5, ObeyMail, ObeysIs
<1>6. CASE CloseFile(n)
  BY <1>6, CloseMail, StaysIs
<1>7. CASE FindFirst(n) \/ OpenFile(n) \/ FindNoMore(n)
  BY <1>7, LookMail, StaysIs
<1>8. QED
  BY <1>1, <1>2, <1>3, <1>4, <1>5, <1>6, <1>7 DEF ProcessInstMsgs

LEMMA MailInit == Init => Mail!Init /\ Apart /\ ShownInv
<1>. SUFFICES ASSUME Init PROVE Mail!Init /\ Apart /\ ShownInv
  OBVIOUS
<1>1. /\ \A d \in Nodes, f \in Names : box[d][f] = <<>>
      /\ \A n, d \in Nodes : tmp[n][d] = <<>>
      /\ \A n \in Nodes : node[n] = OffLine
      /\ to = [m \in Messages |-> Nobody] /\ shown = {}
  BY DEF Init
<1>2. Apart /\ ShownInv
  BY <1>1, WithinEmpty DEF Apart, ShownInv
<1>3. fateOf = [m \in Messages |-> "new"]
  BY <1>1 DEF fateOf, Fate
<1>4. Live = {}
  BY <1>1 DEF Live, OnLine, OffLine
<1>5. QED
  BY <1>1, <1>2, <1>3, <1>4 DEF Mail!Init, fateOf

\* Messages between instances are shown or obeyed once and not lost on the way,
\* however TMSG and MSG files are appended to, renamed, found and removed.
THEOREM InstancesImplementMailbox == Spec => IsMailbox
<1>1. Init => MailInv
  BY TypeInit, MailInit DEF MailInv
<1>2. ASSUME MailInv, [Next]_vars
      PROVE  MailInv' /\ [Mail!Next]_(Mail!vars)
  <2>1. TypeInv'
    BY <1>2, TypeNext DEF MailInv
  <2>2. CASE Next
    BY <1>2, <2>1, <2>2, MailNext DEF MailInv
  <2>3. CASE UNCHANGED vars
    <3>1. Apart' /\ \A x : x \in Queued' <=> x \in Queued
      <4>1. \A k \in Nodes : Handled(k)' = Handled(k)
        BY <2>3, HandledSame DEF vars
      <4>2. QED
        BY <1>2, <2>3, <4>1, SameFiles DEF vars, MailInv
    <3>2. Stays
      BY <2>3, <3>1 DEF Stays, vars
    <3>3. QED
      BY <1>2, <2>1, <3>1, <3>2, StaysIs DEF MailInv
  <2>4. QED
    BY <1>2, <2>2, <2>3
<1>3. QED
  BY <1>1, <1>2, MailInit, PTL DEF Spec, IsMailbox, Mail!Spec
=============================================================================
