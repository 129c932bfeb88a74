------------------------------ MODULE SubBoard ------------------------------
(***************************************************************************)
(* One message board ("sub") of WWIV and the instances of the BBS that     *)
(* work on it.  They share three files:                                    *)
(*                                                                         *)
(*   <sub>.SUB    hdr, the number of posts, and recs, the post records     *)
(*                (SUBACC.C).  lock is the instance that has it open for   *)
(*                writing; SHARE.C opens it with SH_DENYRW then.           *)
(*   <sub>.DAT    gat and text, the texts (MSGBASE.C, module MessageFile). *)
(*   STATUS.DAT   counters by which instances notice each other's changes. *)
(*                Only whether they differ from an instance's own copy     *)
(*                matters: changed holds the instances they differ for.    *)
(*                                                                         *)
(* and each keeps the statics of SUBACC.C to itself.  An instance that     *)
(* has a file open for writing is alone with it, so what it does between   *)
(* open and close is one step, except where another file can be seen in    *)
(* between: savefile, remove_link and readfile are one step each, delete() *)
(* is two, since remove_link changes the .DAT before the record goes.      *)
(* sh_open waits for a busy file TRIES times and then gives up: whenever   *)
(* another instance has the .SUB open, both outcomes are possible.  The    *)
(* .DAT and STATUS.DAT are taken to be free again within the TRIES, and    *)
(* the .DAT to exist.  Following NULL where get_post finds no post is left *)
(* out, except where the code goes on to delete.                           *)
(***************************************************************************)
EXTENDS MessageFile, Sequences, SequencesExt

CONSTANTS
    Nodes,          \* the instances of the BBS
    Nobody,         \* no instance
    Messages,       \* what is posted: each message once, a bound
    NoRecord,       \* what is in the .SUB where nothing was written
    NoText,         \* what is in a sector nothing was written to
    MaxSize,        \* the sectors of the longest message, a bound
    MaxMsgs,        \* subboards[].maxmsgs
    MaxPosts,       \* the most records the .SUB ever has, a bound
    CacheSize,      \* MAX_TO_CACHE (15 in the code)
    Hasty           \* may an instance that selects the sub find the .SUB missing,
                    \* or busy for all the TRIES?

ASSUME BoardAssumption ==
    /\ MaxSize \in Nat \ {0} /\ MaxMsgs \in Nat \ {0}
    /\ MaxPosts \in Nat \ {0} /\ CacheSize \in Nat \ {0}
    /\ Nobody \notin Nodes /\ Hasty \in BOOLEAN

VARIABLES
    exists, hdr, recs, lock, gat, text, changed, node,
    written         \* the messages somebody wrote, so that each is new once

vars == <<exists, hdr, recs, lock, gat, text, changed, node, written>>
sub == <<exists, hdr, recs>>
dat == <<gat, text>>

Slots == 1 .. MaxPosts

\* What matters of a postrec: which post it is (daten, qscan, owner, title),
\* where its text is (msg.stored_as), and status_no_delete.
Record == [msg : Messages, at : Address, no_delete : BOOLEAN]

ASSUME RecordAssumption == NoRecord \notin Record

\* What an instance is doing: nothing; iscan1 is about to create the .SUB;
\* post() is about to lock the status, to open the .SUB, to make room and to
\* add its record; scan() or remove_post() is about to look at the post to
\* delete; delete() is about to remove a text, to remove a record.
Steps == {"idle", "create", "stamp", "open", "trim", "add", "find", "delete", "shift"}

Instance ==
    [pc : Steps,
     curlsub : BOOLEAN,               \* this sub is the current one
     nummsgs : 0 .. MaxPosts,
     subchg : 0 .. 3,
     believe_cache : BOOLEAN,
     cache_start : Slots,
     cache : [0 .. CacheSize - 1 -> Record \union {NoRecord}],
     last_msgnum : 0 .. MaxPosts,
     p : Record \union {NoRecord},    \* post(): the record to add
     mn : 0 .. MaxPosts,              \* the post to delete, or last looked at
     then : {"add", "close"},         \* delete(): what its caller does next
     close_file : BOOLEAN]            \* delete(): it opened the .SUB itself

Init ==
    /\ exists \in IF Hasty THEN BOOLEAN ELSE {TRUE}
    /\ hdr = 0
    /\ recs = [i \in Slots |-> NoRecord]
    /\ lock = Nobody
    /\ gat = [x \in Sections |-> EmptyGat]
    /\ text = [x \in Sections |-> [s \in Sectors |-> NoText]]
    /\ changed = {}
    /\ written = {}
    /\ node = [n \in Nodes |->
          [pc |-> "idle", curlsub |-> FALSE, nummsgs |-> 0, subchg |-> 0,
           believe_cache |-> FALSE, cache_start |-> 1,
           cache |-> [k \in 0 .. CacheSize - 1 |-> NoRecord],
           last_msgnum |-> 0, p |-> NoRecord, mn |-> 0, then |-> "close",
           close_file |-> FALSE]]

---------------------------------------------------------------------------
(* The status file and the .SUB *)

\* get_status: an instance whose copy of the counters is old sets subchg.
Noted(n, nd) == IF n \in changed THEN [nd EXCEPT !.subchg = 1] ELSE nd

ReadsStatus(n) == changed' = changed \ {n}

\* A change of the counters nobody was told of.
CountsNothing(n) == changed' = changed \ {n}

\* lock_status, a counter is changed, save_status.
Counts(n) == changed' = Nodes \ {n}

\* n can open the .SUB for writing, or has it open.
CanWrite(n) == lock \in {n, Nobody}

\* What the cache holds while it is not believed is never looked at.
Forget(nd) ==
    [nd EXCEPT !.believe_cache = FALSE, !.cache_start = 1,
               !.cache = [k \in DOMAIN @ |-> NoRecord]]

\* Mutant: the number of posts is not read again.
OpenSubTrusting(nd) == Forget(nd)

\* open_sub(1).
OpenSub(nd) == [Forget(nd) EXCEPT !.nummsgs = hdr]

Opened(n) == IF lock = n THEN node[n] ELSE OpenSub(node[n])

---------------------------------------------------------------------------
(* get_post *)

Invalidate(nd) ==
    IF nd.subchg = 1 THEN [Forget(nd) EXCEPT !.subchg = 2]
    ELSE nd

InCache(nd, mn) ==
    /\ nd.believe_cache
    /\ mn \in nd.cache_start .. nd.cache_start + CacheSize - 1

Recount(nd) ==
    IF nd.subchg = 2 THEN [nd EXCEPT !.nummsgs = hdr, !.subchg = 3] ELSE nd

\* The number looked for, once the posts are counted again.
Adjusted(nd, mn) == IF nd.subchg = 2 /\ mn > hdr THEN hdr ELSE mn

\* One record too far when going backward.
CacheStartEarly(nd, mn) ==
    IF mn >= nd.last_msgnum
    THEN IF nd.nummsgs <= CacheSize THEN 1
         ELSE IF mn > nd.nummsgs - CacheSize THEN nd.nummsgs - CacheSize + 1
         ELSE mn
    ELSE IF mn >= CacheSize THEN mn - CacheSize ELSE 1

CacheStart(nd, mn) ==
    IF mn >= nd.last_msgnum
    THEN IF nd.nummsgs <= CacheSize THEN 1
         ELSE IF mn > nd.nummsgs - CacheSize THEN nd.nummsgs - CacheSize + 1
         ELSE mn
    ELSE IF mn > CacheSize THEN mn - CacheSize + 1 ELSE 1

\* The cache is filled from the file.  What it holds past the posts is never
\* looked at: no instance's nummsgs grows while it believes its cache.
Fill(nd, start) ==
    [nd EXCEPT
       !.cache_start = start,
       !.believe_cache = TRUE,
       !.cache = [k \in DOMAIN @ |->
                    IF start + k \in 1 .. nd.nummsgs THEN recs[start + k]
                    ELSE NoRecord]]

Found(nd, mn) ==
    IF mn \in 1 .. nd.nummsgs THEN [nd EXCEPT !.last_msgnum = mn] ELSE nd

\* The instance after get_post(mn) with the .SUB open.
GetPost(nd0, mn) ==
    LET nd == Invalidate(nd0)
        k == Adjusted(nd, mn)
    IN  IF InCache(nd, mn) THEN Found(nd, mn)
        ELSE Found(Fill(Recount(nd), CacheStart(Recount(nd), k)), k)

\* The record that get_post(mn) points to.
Cached(nd, mn) == nd.cache[mn - nd.cache_start]

\* get_post(mn) as n calls it: from the cache, from the file, or, when another
\* instance keeps the file busy, NULL.
Finds(n, nd, mn) == InCache(Invalidate(nd), mn) \/ CanWrite(n)

Looks(n, nd, mn) == IF Finds(n, nd, mn) THEN GetPost(nd, mn) ELSE Invalidate(nd)

\* The number of the post it looks at in the end, and whether there is one.
Reached(nd, mn) ==
    IF InCache(Invalidate(nd), mn) THEN mn ELSE Adjusted(Invalidate(nd), mn)

Hits(n, nd, mn) ==
    Finds(n, nd, mn) /\ Reached(nd, mn) \in 1 .. GetPost(nd, mn).nummsgs

\* The instance after the first two get_posts of resynch(NULL).
LookedTwice(n, nd, mn) ==
    IF Hits(n, nd, mn) THEN Looks(n, Noted(n, Looks(n, nd, mn)), mn)
    ELSE Looks(n, nd, mn)

\* Where resynch(NULL) leaves the number when n has the file: the post does
\* not change between the two get_posts, but its number may have been adjusted.
Lands(n, nd, mn) ==
    IF Hits(n, nd, mn) /\ ~Hits(n, Noted(n, Looks(n, nd, mn)), mn)
    THEN Reached(nd, mn) ELSE mn

\* resynch(NULL) and the get_post after it.
Resynched(n, nd, mn) == Looks(n, LookedTwice(n, nd, mn), Lands(n, nd, mn))

\* resynch reads the status once it found the post.
ReadsStatusIf(n, found) == changed' = IF found THEN changed \ {n} ELSE changed

---------------------------------------------------------------------------
(* Selecting the sub and reading *)

\* iscan1 with the sub already current and unchanged.
IsCurrent(nd) == nd.curlsub /\ nd.subchg = 0

\* iscan1 reads the number of posts.
Scanned(nd, count) ==
    [Forget(nd) EXCEPT !.pc = "idle", !.curlsub = TRUE, !.subchg = 0,
                       !.last_msgnum = 0, !.nummsgs = count]

\* iscan1: the .SUB is opened for reading; when that fails, because it is not
\* there or because another instance keeps it busy, it is opened for writing next.
Select(n) ==
    LET nd == Noted(n, node[n]) IN
    /\ nd.pc = "idle"
    /\ \/ /\ IsCurrent(nd)
          /\ UNCHANGED node
       \/ /\ ~IsCurrent(nd)
          /\ exists /\ lock = Nobody
          /\ node' = [node EXCEPT ![n] = Scanned(nd, hdr)]
       \/ /\ ~IsCurrent(nd)
          /\ Hasty /\ (~exists \/ lock # Nobody)
          /\ node' = [node EXCEPT ![n] =
                [Forget(nd) EXCEPT !.pc = "create", !.curlsub = FALSE]]
    /\ ReadsStatus(n)
    /\ UNCHANGED <<sub, lock, dat, written>>

\* iscan1 opens the .SUB for writing and writes a record with no posts where
\* open_sub(1), which reads the first record of a file that has one, left off.
\* All of it but the number of posts is uninitialized.
Create(n) ==
    /\ node[n].pc = "create"
    /\ lock = Nobody
    /\ exists' = TRUE
    /\ \/ ~exists /\ hdr' = 0 /\ recs' = recs
       \/ /\ exists /\ hdr' = hdr
          /\ \E r \in Record : recs' = [recs EXCEPT ![1] = r]
    /\ node' = [node EXCEPT ![n] = Scanned(@, hdr')]
    /\ UNCHANGED <<lock, dat, changed, written>>

CreateGivesUp(n) ==
    /\ node[n].pc = "create"
    /\ lock # Nobody
    /\ node' = [node EXCEPT ![n].pc = "idle"]
    /\ UNCHANGED <<sub, lock, dat, changed, written>>

\* get_post while the instance has the .SUB closed.
Get(n, mn) ==
    /\ node[n].pc = "idle" /\ node[n].curlsub /\ mn <= node[n].nummsgs
    /\ node' = [node EXCEPT ![n] = Looks(n, @, mn)]
    /\ UNCHANGED <<sub, lock, dat, changed, written>>

\* readfile (through open_file), resynch, post() once it added its post, and
\* others look at the status.
ReadStatus(n) ==
    /\ node[n].pc = "idle"
    /\ n \in changed
    /\ node' = [node EXCEPT ![n] = Noted(n, @)]
    /\ ReadsStatus(n)
    /\ UNCHANGED <<sub, lock, dat, written>>

Toggled(r) == [r EXCEPT !.no_delete = ~@]

\* Case N of scan(): a post may or may not be deleted to make room.  The record
\* is changed in the cache and written from there (write_post).  Cases X and U
\* do the same to marks that Record leaves out.
ToggleNoDelete(n, mn) ==
    LET opened == OpenSub(node[n])
        nd == Resynched(n, opened, mn)
        i == Lands(n, opened, mn)
        new == Toggled(Cached(nd, i))
    IN
    /\ node[n].pc = "idle" /\ node[n].curlsub /\ mn <= node[n].nummsgs
    /\ lock = Nobody
    /\ i \in 1 .. hdr
    /\ recs' = [recs EXCEPT ![i] = new]
    /\ node' = [node EXCEPT ![n] =
                  [nd EXCEPT !.cache[i - nd.cache_start] = new]]
    /\ ReadsStatus(n)
    /\ UNCHANGED <<exists, hdr, lock, dat, written>>

\* When the .SUB stays busy only the cache is changed, if the post is in it.
ToggleFails(n, mn) ==
    LET nd == LookedTwice(n, node[n], mn) IN
    /\ node[n].pc = "idle" /\ node[n].curlsub /\ mn <= node[n].nummsgs
    /\ lock # Nobody
    /\ node' = [node EXCEPT ![n] =
                  IF InCache(nd, mn) /\ Cached(nd, mn) # NoRecord
                  THEN [nd EXCEPT !.cache[mn - nd.cache_start] = Toggled(@)]
                  ELSE nd]
    /\ ReadsStatusIf(n, Hits(n, node[n], mn))
    /\ UNCHANGED <<sub, lock, dat, written>>

---------------------------------------------------------------------------
(* Posting *)

\* inmsg, savefile: the text goes into the first section with room for it.  That
\* there is one is a bound: 1024 sections hold a gigabyte.
Save(n, m, size) ==
    LET x == Least(Roomy(gat, size))
        A == Place(gat, size)
        r == [msg |-> m, at |-> [section |-> x, sector |-> Least(A)],
              no_delete |-> FALSE]
    IN
    /\ node[n].pc = "idle" /\ node[n].curlsub
    /\ m \notin written
    /\ written' = written \union {m}
    /\ Roomy(gat, size) # {}
    /\ gat' = [gat EXCEPT ![x] = Link(@, A)]
    /\ text' = [text EXCEPT ![x] = [s \in Sectors |-> IF s \in A THEN m ELSE @[s]]]
    /\ node' = [node EXCEPT ![n] = [Noted(n, @) EXCEPT !.pc = "stamp", !.p = r]]
    /\ Counts(n)
    /\ UNCHANGED <<sub, lock>>

\* p.qscan=status.qscanptr++ under lock_status.
Stamp(n) ==
    /\ node[n].pc = "stamp"
    /\ node' = [node EXCEPT ![n] = [Noted(n, @) EXCEPT !.pc = "open"]]
    /\ Counts(n)
    /\ UNCHANGED <<sub, lock, dat, written>>

PostOpens(n) ==
    /\ node[n].pc = "open"
    /\ lock = Nobody
    /\ lock' = n
    /\ node' = [node EXCEPT ![n] = [OpenSub(@) EXCEPT !.pc = "trim"]]
    /\ UNCHANGED <<sub, dat, changed, written>>

\* post() does not look at what open_sub(1) returns.
PostOpenFails(n) ==
    /\ node[n].pc = "open"
    /\ ~CanWrite(n)
    /\ node' = [node EXCEPT ![n].pc = "trim"]
    /\ UNCHANGED <<sub, lock, dat, changed, written>>

\* The loop of post() that looks for a post to make room has found i, or has
\* seen all posts and takes the first.
Victim(nd, i) ==
    [nd EXCEPT !.pc = "delete", !.mn = i, !.then = "add"]

\* post() looks at one post after the other for one that may be deleted.  An
\* instance without the file may follow a NULL from get_post, and what it finds
\* there is anything.
Trim(n) ==
    LET i == node[n].mn + 1
        nd == Looks(n, node[n], i)
    IN
    /\ node[n].pc = "trim"
    /\ \/ /\ i = 1 /\ node[n].nummsgs < MaxMsgs
          /\ node' = [node EXCEPT ![n].pc = "add"]
       \/ /\ i > 1 \/ node[n].nummsgs >= MaxMsgs
          /\ i <= node[n].nummsgs
          /\ lock = n => ~Cached(nd, i).no_delete
          /\ node' = [node EXCEPT ![n] = Victim(nd, i)]
       \/ /\ i > 1 \/ node[n].nummsgs >= MaxMsgs
          /\ i <= node[n].nummsgs
          /\ lock = n => Cached(nd, i).no_delete
          /\ node' = [node EXCEPT ![n] = [nd EXCEPT !.mn = i]]
       \/ /\ i > 1 /\ i > node[n].nummsgs
          /\ node' = [node EXCEPT ![n] = Victim(@, 1)]
    /\ UNCHANGED <<sub, lock, dat, changed, written>>

Added(nd, count) ==
    [Forget(nd) EXCEPT !.pc = "idle", !.nummsgs = count, !.subchg = 0,
                       !.p = NoRecord]

\* An add_post that does not read the number of posts again.
AddUncounted(n) ==
    /\ node[n].pc = "add"
    /\ CanWrite(n)
    /\ hdr < MaxPosts
    /\ hdr' = node[n].nummsgs + 1
    /\ recs' = [recs EXCEPT ![hdr'] = node[n].p]
    /\ node' = [node EXCEPT ![n] = Added(@, hdr')]
    /\ lock' = Nobody
    /\ ReadsStatus(n)
    /\ UNCHANGED <<exists, dat, written>>

\* add_post, close_sub.
Add(n) ==
    /\ node[n].pc = "add"
    /\ CanWrite(n)
    /\ hdr < MaxPosts
    /\ hdr' = hdr + 1
    /\ recs' = [recs EXCEPT ![hdr'] = node[n].p]
    /\ node' = [node EXCEPT ![n] = Added(@, hdr')]
    /\ lock' = Nobody
    /\ ReadsStatus(n)
    /\ UNCHANGED <<exists, dat, written>>

\* add_post cannot open the file; post() goes on as if it had.
AddFails(n) ==
    /\ node[n].pc = "add"
    /\ ~CanWrite(n)
    /\ node' = [node EXCEPT ![n].pc = "idle", ![n].p = NoRecord]
    /\ UNCHANGED <<sub, lock, dat, changed, written>>

---------------------------------------------------------------------------
(* Deleting *)

\* Case D of scan() and remove_post() open the .SUB; that they may fail to is
\* not looked at.
StartDelete(n, mn) ==
    LET begun(nd) == [nd EXCEPT !.pc = "find", !.mn = mn] IN
    /\ node[n].pc = "idle" /\ node[n].curlsub
    /\ \/ /\ lock = Nobody
          /\ lock' = n
          /\ node' = [node EXCEPT ![n] = begun(OpenSub(@))]
       \/ /\ lock # Nobody
          /\ lock' = lock
          /\ node' = [node EXCEPT ![n] = begun(@)]
    /\ UNCHANGED <<sub, dat, changed, written>>

\* Case D resynchronizes with the board.  Without the file that may lead to
\* another post, since the board may have changed.
Resynch(n) ==
    LET nd == Resynched(n, node[n], node[n].mn) IN
    /\ node[n].pc = "find"
    /\ \E mn \in IF lock = n THEN {Lands(n, node[n], node[n].mn)}
                 ELSE {node[n].mn} \union 0 .. nd.nummsgs :
          node' = [node EXCEPT ![n] = [nd EXCEPT !.pc = "delete", !.mn = mn]]
    /\ ReadsStatusIf(n, Hits(n, node[n], node[n].mn))
    /\ UNCHANGED <<sub, lock, dat, written>>

\* remove_post() looks whether the post is there and may be deleted.
FindPost(n) ==
    LET mn == node[n].mn
        nd == IF mn <= node[n].nummsgs THEN Looks(n, node[n], mn) ELSE node[n]
    IN
    /\ node[n].pc = "find"
    /\ \/ /\ mn <= node[n].nummsgs
          /\ node' = [node EXCEPT ![n] = [nd EXCEPT !.pc = "delete"]]
          /\ lock' = lock
       \/ /\ node' = [node EXCEPT ![n] = [nd EXCEPT !.pc = "idle", !.mn = 0]]
          /\ lock' = IF lock = n THEN Nobody ELSE lock
    /\ UNCHANGED <<sub, dat, changed, written>>

\* After delete(): its caller adds a record or closes the file.
Returned(nd) ==
    [nd EXCEPT !.pc = IF nd.then = "add" THEN "add" ELSE "idle",
               !.mn = 0, !.then = "close", !.close_file = FALSE]

LockAfter(n) ==
    IF lock = n /\ ~node[n].close_file /\ node[n].then = "add" THEN n ELSE Nobody

\* delete() up to remove_link: the record's text is unlinked.
DeleteText(n) ==
    LET mn == node[n].mn
        opened == Noted(n, Opened(n))
        nd == GetPost(opened, mn)
        at == Cached(nd, mn).at
    IN
    /\ node[n].pc = "delete"
    /\ CanWrite(n)
    /\ mn \in 1 .. opened.nummsgs
    /\ gat' = [gat EXCEPT ![at.section] = Unlink(@, at.sector)]
    /\ node' = [node EXCEPT ![n] =
                  [nd EXCEPT !.pc = "shift", !.close_file = (lock # n)]]
    /\ lock' = n
    /\ Counts(n)
    /\ UNCHANGED <<sub, text, written>>

\* delete() finds that there is no such post.
DeleteNothing(n) ==
    LET opened == Noted(n, Opened(n)) IN
    /\ node[n].pc = "delete"
    /\ CanWrite(n)
    /\ node[n].mn \notin 1 .. opened.nummsgs
    /\ node' = [node EXCEPT ![n] = Returned(opened)]
    /\ lock' = LockAfter(n)
    /\ ReadsStatus(n)
    /\ UNCHANGED <<sub, dat, written>>

\* delete() cannot open the .SUB.
DeleteFails(n) ==
    /\ node[n].pc = "delete"
    /\ ~CanWrite(n)
    /\ node' = [node EXCEPT ![n] = Returned(@)]
    /\ UNCHANGED <<sub, lock, dat, changed, written>>

\* delete() from remove_link on: the later records move down by one.
Shift(n) ==
    /\ node[n].pc = "shift"
    /\ recs' = [i \in Slots |->
                  IF i \in node[n].mn .. node[n].nummsgs - 1 THEN recs[i + 1]
                  ELSE recs[i]]
    /\ hdr' = hdr - 1
    /\ node' = [node EXCEPT ![n] =
                  Returned([Forget(@) EXCEPT !.nummsgs = hdr - 1])]
    /\ lock' = LockAfter(n)
    /\ UNCHANGED <<exists, dat, changed, written>>

---------------------------------------------------------------------------

\* What an instance does on its own once it has begun.
Work(n) ==
    \/ Create(n) \/ CreateGivesUp(n)
    \/ Stamp(n) \/ PostOpens(n) \/ PostOpenFails(n) \/ Trim(n)
    \/ Add(n) \/ AddFails(n) \/ Resynch(n) \/ FindPost(n)
    \/ DeleteText(n) \/ DeleteNothing(n) \/ DeleteFails(n) \/ Shift(n)

\* What its user begins.
Begin(n) ==
    \/ Select(n)
    \/ ReadStatus(n)
    \/ \E mn \in Slots :
          \/ Get(n, mn) \/ StartDelete(n, mn)
          \/ ToggleNoDelete(n, mn) \/ ToggleFails(n, mn)
    \/ \E m \in Messages, size \in 1 .. MaxSize : Save(n, m, size)

Next == \E n \in Nodes : Work(n) \/ Begin(n)

Spec == Init /\ [][Next]_vars

---------------------------------------------------------------------------
(* Properties *)

\* The record that n is about to add.
InHand(n) == {node[n].p} \ {NoRecord}

\* Record i is being removed: its text is unlinked already.
Removed(i) ==
    /\ lock # Nobody
    /\ node[lock].pc = "shift"
    /\ node[lock].mn = i

OnBoard == {recs[i] : i \in {j \in 1 .. hdr : ~Removed(j)}}

Live == OnBoard \union UNION {InHand(n) : n \in Nodes}

\* Every sector of r's text is in use and holds r's message.
HasOwnText(r) ==
    \A s \in Chain(gat[r.at.section], r.at.sector) :
        /\ gat[r.at.section][s] # Unused
        /\ text[r.at.section][s] = r.msg

\* The variables have their types.
TypeOK ==
    /\ exists \in BOOLEAN
    /\ hdr \in 0 .. MaxPosts
    /\ recs \in [Slots -> Record \union {NoRecord}]
    /\ lock \in Nodes \union {Nobody}
    /\ gat \in [Sections -> Gat]
    /\ text \in [Sections -> [Sectors -> Messages \union {NoText}]]
    /\ changed \in SUBSET Nodes
    /\ node \in [Nodes -> Instance]
    /\ written \in SUBSET Messages

(* Whatever the instances do at the same time, and even when some of them   *)
(* give up waiting for the .SUB to post or to delete: a post on the board, and one that is about *)
(* to be, has its text, and no other post's text is written over it         *)
(* (savefile, remove_link, delete, write_post, add_post).                   *)
TextIsOwn == \A r \in Live : HasOwnText(r)

\* What nd believes of its cache is what the records rs are.
Fresh(nd, rs) ==
    nd.believe_cache =>
        \A k \in 0 .. CacheSize - 1 :
            nd.cache_start + k \in 1 .. nd.nummsgs =>
                nd.cache[k] = rs[nd.cache_start + k]

(* The change counters and the cache of SUBACC.C: if an instance believes   *)
(* its cache, and a record in it lost its text to a delete() of another     *)
(* instance, then the counters still differ from the instance's copy or     *)
(* subchg tells get_post so.                                                *)
StaleIsAnnounced ==
    \A n \in Nodes :
        node[n].believe_cache /\ node[n].pc # "shift" =>
            \/ n \in changed
            \/ node[n].subchg = 1
            \/ \A k \in DOMAIN node[n].cache :
                  node[n].cache_start + k \in 1 .. node[n].nummsgs =>
                      HasOwnText(node[n].cache[k])

(* open_sub, get_post, write_post and delete(): an instance that has the    *)
(* .SUB open for writing knows the number of posts, and what it believes of *)
(* its cache is what is in the file, so that delete() removes and           *)
(* write_post() writes the post that is meant, not one of an old cache.     *)
WriterSeesFile ==
    \A n \in Nodes : lock = n => node[n].nummsgs = hdr /\ Fresh(node[n], recs)

(* The comment on iscan1 (SUBACC.C:127): "open file, and create it if       *)
(* necessary".  Setting the sub up leaves the posts of a .SUB that exists   *)
(* alone.                                                                   *)
CreatedIfNecessary ==
    [][\A n \in Nodes :
          node[n].pc = "create" /\ node'[n].pc # "create" =>
              \A i \in 1 .. hdr : recs'[i] = recs[i]]_vars

(* The instances together implement Board: no interleaving of theirs loses, *)
(* repeats, reorders or brings back a post, except that an instance that    *)
(* gives up drops its own post.                                             *)
Posts == [i \in 1 .. hdr |-> recs[i].msg]

StateOf(m) ==
    IF m \notin written THEN "unwritten"
    ELSE IF \E n \in Nodes : \E r \in InHand(n) : r.msg = m THEN "written"
    ELSE IF \E r \in OnBoard : r.msg = m THEN "posted"
    ELSE "gone"

B == INSTANCE Board WITH
        board <- IF \E i \in 1 .. hdr : Removed(i)
                 THEN RemoveAt(Posts, node[lock].mn) ELSE Posts,
        state <- [m \in Messages |-> StateOf(m)]

IsBoard == B!Spec
=============================================================================
