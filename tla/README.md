# OrbitBBS: specifications, model checking and proofs

OrbitBBS is WWIV 4.24a, a multi-instance bulletin board for DOS, run in a
virtual machine behind `tcpser`, a program that makes a TCP port look like a
Hayes modem. This directory holds TLA+ specifications of the parts whose
correctness depends most on what happens in which order: the modem emulation
with its threads, and what the instances of the BBS share through files: the
message base, the e-mail, the directory and messages by which they know of
each other, and the users. TLC checks them on small instances (`*.cfg`), and TLAPS proves
the central theorems for every value of the constants (`*Proofs.tla`).
`PROJECT.json` maps each definition to the source lines it models.

Contents: 1 the system; 2 modules and runs at a glance; 3 modem and threads;
4 message base; 5 e-mail; 6 instances; 7 users; 8 bounds; 9 fairness; 10 proofs;
11 where the code and its documentation disagree; 12 what is left out; 13 plan.

## 1 The system

    caller --TCP--> tcpser --serial (pty)--> QEMU: DOS, BNU (FOSSIL), SHARE, BBS.EXE
                    main, and per modem:           instances of WWIV sharing
                    bridge, ip, ctrl thread        STATUS.DAT, *.SUB, *.DAT, ...

| Component | State it keeps | Operations | Interacts through | Hard behaviour |
|---|---|---|---|---|
| Modem emulation (`modem_core.c`, `line.c`) | one `modem_config`: hook, mode, connection, rings, escape recogniser, S registers | AT commands, RING, answer, dial, hang up, timers | called by the bridge; its fields are read by the other threads | guard times against data, half finished escapes, hang up in every state |
| Threads of tcpser (`tcpser.c`, `bridge.c`, `ip.c`) | pipes, `accept_pending`, `action_pending`, `last_*` | offer a caller, accept, read the socket, notify | pipes, and modem records without a lock | stale ideas of what to watch, descriptor reuse, a caller offered twice, a blocking `accept()` |
| Control lines (`bridge.c` ctrl_thread, `dce.c`, `serial.c`, `ip232.c`) | last seen DTR, ip232 flags | poll DTR, set DCD and RI | pipe to the bridge | edges missed between polls |
| Telnet (`nvt.c`) | option state per call | parse IAC sequences in ip data | ip thread, writes to the socket | a command split over two reads, negotiation loops |
| Host services (`run_bbs.sh`, `deploy.sh`, `scripts/`) | pid files, disk images | start, stop, deploy, fetch feeds | signals, files | replacing an image a machine has open, a half finished start |
| Session (`BBS.C`, `LILO.C`, `MMENU.C`, `NEWUSER.C`, `BBSUTL*.C`) | the current user, `hangup`, `incom`, time left | wait for a caller, log on, menus, log off | COM.C, every other component | loss of carrier at every point |
| Serial port and modem (`COM.C`, `MODEM.C`) | receive ring buffer, carrier | interrupt handler, dialogue with the modem | the FOSSIL driver, tcpser | interrupt against main program, ring against answer |
| Message base, posts (`SUBACC.C`, `MSGBASE1.C`) | `.SUB` file; statics: open file, number of posts, `subchg`, a cache | iscan1, open_sub, get_post, write_post, add_post, delete, resynch; post, scan, remove_post | files shared by instances, STATUS.DAT counters | stale caches and counts, two files that change one after the other, busy files |
| Message base, texts (`MSGBASE.C`) | `.DAT` file: allocation tables and sectors | savefile, readfile, remove_link | called by the above and by e-mail | concurrent allocation, a freed text still referred to |
| Status file, sharing (`UTILITY.C`, `SHARE.C`) | STATUS.DAT, `fsh_*` retries | lock, read, save status; sh_open | every component | giving up on a busy file, lost counter updates |
| E-mail (`READMAIL.C`, `MULTMAIL.C`, parts of `MSGBASE*.C`, `LILO.C`) | EMAIL.DAT; statics: `emchg`, `mailcheck`; a reader's list `mloc` | send, read, mark, delete, purge, forward, remove, resynch_email, pack at logoff | files, the counter filechange_email of STATUS.DAT | letters that move under a reader's list, texts that several letters share, places behind the end of the file |
| Instances (`MULTINST.C`, `INSTMSG.C`, `BBSUTL1.C`) | INSTANCE.DAT, TMSG and MSG files | write_inst, user_online, inst_ok, send_inst_msg, process_inst_msgs, end_bbs | files | questions asked before the answer is written, messages lost or repeated between instances |
| Users (`UTILITY.C`, `NEWUSER.C`, `UEDIT.C`, `SYSOPF.C`) | USER.LST, NAMES.LST, status.users; in memory: `smallist`, `thisuser`, the `u` of an editor | finduser, isr, dsr, read_user, write_user, newuser, deluser, uedit, //resetf | files, the counter filechange_names of STATUS.DAT | an index that changes under everybody, records written back from copies, numbers and names given away twice |
| Editors, network, files, QWK, doors, utilities | their own files | see `PROJECT.json` | files | mostly input and output |

What makes the parts correct, and which property states it:

* a modem that looks free is free, one that rings has a caller, the carrier is
  the call, and every call that rings ends (`OnHookIsIdle`, `RingingHasCaller`,
  `CarrierIsCall`, `RingingEnds`);
* the escape sequence is recognised exactly when Hayes says so
  (`RecogniserReset`, `EscapeIsHayes`);
* every `accept()` finds a caller, every caller is served or told BUSY, what a
  caller sends is read, and no modem closes another's socket
  (`AcceptFindsCaller`, `CallersAreServed`, `CallerIsHeard`, `DescriptorsApart`,
  `OffersAreAnswered`, `LineIsOpen`);
* a post keeps its text, is never lost, repeated or brought back by what another
  instance does at the same time, and what an instance writes it writes from
  what is in the file (`TextIsOwn`, `IsBoard`, `WriterSeesFile`,
  `StaleIsAnnounced`);
* a letter comes into a box once, with its text, and stays until somebody removes
  it; a reader who is told that a letter is gone is told the truth, and only the
  letter that he meant goes, wherever it was moved meanwhile (`LettersHaveTexts`,
  `OneCopy`, `LostIsGone`, `OnlyMeantGo`, `IsPostOffice`);
* a user is on line once and a single-user door runs once, unless two instances asked
  at the same time; a message between instances is shown or obeyed once, and thrown
  away only where nobody is on line to see it (`TwiceOnlyAtOnce`, `DoorOnlyAtOnce`,
  `IsMailbox`);
* a name finds its user and nobody else, a number is one user's, and a caller gets a
  number that had his name while it was looked for (`FoundByName`, `NamesInOrder`,
  `LogonWasListed`, `RoomForName`, `IsDirectory`).

The README of the program calls OrbitBBS single-instance. The code is written
for several instances (`SHARE.C`, the counters of STATUS.DAT, `MULTINST.C`) and
SHARE.EXE is loaded for them; SubBoard is about what that code promises, for any
number of instances, one included.

## 2 Modules and runs

    ModemCore           one modem's operations, as operators on a record
      HayesModem        one modem, sequential bridge loop       --implements--> HayesEscape
      Tcpser            main, bridges and ip threads, any number of modems
    MessageFile         .DAT: sections, sectors, links, as operators
      SubBoard          .SUB, .DAT, STATUS.DAT and the instances --implements--> Board
    Mail                EMAIL.DAT, texts and the instances    --implements--> PostOffice
    Instances           sessions, INSTANCE.DAT and MSG files  --implements--> Mailbox
    Users               USER.LST, NAMES.LST and the instances --implements--> Directory
      UserLookup        Users with the history of what was in the index
    MC*                 instances for TLC
    *Proofs             theorems: ModemCoreProofs, HayesModemProofs, TcpserProofs,
                        SubBoardProofs, MailTypeProofs, MailProofs, InstancesProofs,
                        UsersProofs

HayesModem and Tcpser share ModemCore, and SubBoard uses MessageFile. Mail keeps of
a text only where it is and whose, because what MessageFile adds (sectors are not
shared between texts) is proved in SubBoard, and Instances keeps of a session only
when it reads and writes what the instances share. The BBS sees tcpser as a modem
that HayesModem describes, and nothing else.

| Run | Checks | Shows |
|---|---|---|
| HayesModem.cfg | TypeOK, OnHookIsIdle, RingingHasCaller, CarrierIsCall, RecogniserReset, EscapeIsHayes, RingingEnds | one modem under every order of input, calls, hang ups and timers |
| HayesChunks.cfg | EscapeIsHayes, **violated** | several characters per read() defeat the guard time |
| TcpserLines.cfg | DescriptorsApart, OffersAreAnswered | two modems, one of which answers by itself, and a single descriptor that each `accept()` reuses, or fails without; ATH and DTR drops |
| TcpserLive.cfg | TypeOK, AcceptFindsCaller, LineIsOpen, CallerIsHeard, CallersAreServed | all threads of one modem that waits for ATA or goes off hook by itself, and their progress under fair scheduling |
| TcpserAuto.cfg | AcceptFindsCaller, **violated** | with S0=1 one caller is offered twice |
| SubBoard.cfg | TypeOK, TextIsOwn, WriterSeesFile, StaleIsAnnounced, IsBoard | two instances that select, read, post, trim and delete, busy files included |
| SubBoardHasty.cfg | WriterSeesFile | the same with posts that are marked as not to be deleted, and the .SUB may be missing or busy when the sub is selected |
| SubBoardCreate.cfg | CreatedIfNecessary, **violated** | selecting a sub whose file is busy writes over its first post |
| Mail.cfg | TypeOK, LettersHaveTexts, OneCopy, LostIsGone, OnlyMeantGo, IsPostOffice | two instances send, forward, remove and pack while one of them reads by the list it made |
| MailEnd.cfg | DeletedIsGone, **violated** | a letter stays although its reader deleted it, when the file became shorter than his list |
| Instances.cfg | TypeOK, TwiceOnlyAtOnce, DoorOnlyAtOnce, IsMailbox | two instances start, log users on and off, run a door, send each other messages and shut each other down |
| Users.cfg | TypeOK, NamesInOrder, FoundByName, LogonWasListed, RoomForName, IsDirectory | two instances log users on and off, take new ones, delete, rename and restore them and rebuild the index |

Each property of a passing run has a mutant in `PROJECT.json`: a plausible bug in
a mapped definition that makes TLC find the property violated. The mutated forms
stand beside the definitions they mutate and are used by nothing else.

## 3 Modem and threads

**ModemCore** has one operator per function of `modem_core.c` that changes the
call: `Answer` is mdm_answer, `SendRing` mdm_send_ring, `Disconnect`
mdm_disconnect with line_disconnect, `Dial` mdm_connect with line_connect,
`BreakChar` the body of mdm_parse_data, `HandleTimeout` mdm_handle_timeout, and
`Timer` the choice of timeout in run_bridge. mdm_disconnect is split where
another thread can look: `DisconnectBegin` clears the mode and closes the socket,
`DisconnectEnd` forgets the connection.

**HayesModem** runs them under one bridge. `pc` is the loop the bridge is in:
the select() of run_bridge, the characters of one read() (mdm_parse_data), or the
commands of one line (mdm_parse_cmd). `counting` is pre_break_delay as it was when
the chunk was read, which is what the code looks at. `seen` is a history variable:
what a Hayes modem would have counted. **HayesEscape** is the promise of
tcpser/README.md:148: command mode, with the call up, only after silence, exactly
three plus signs, silence. The refinement mapping reads mode and call off the
modem record.

A call may come (`IncomingCall`) in whatever state the modem is: accept_connection
and its caller do not look. main asked for an on hook modem when it wrote
MSG_ACCEPT, but that was earlier, in another thread, and an iteration of the bridge
handles the serial port before main's pipe: an ATD without a number takes the modem
off hook in between, and the call then comes to a modem that is in data mode.
HayesEscape has that step (`CallArrives`): it leaves the count of plus signs alone,
as the code does, so silence before the call counts as guard time. Tcpser has ATD
too, in TcpserLive.cfg.

**Tcpser** composes any number of modems with the thread that accepts callers and
the two threads of each modem. A step is what a thread does between two points
where another could notice. A pipe is a flag, because each carries one kind of
message and its reader takes all that is there. Descriptors are reused lowest
first, as POSIX does it: a descriptor that one thread still has in a variable can
meanwhile be another caller's. `recv()` on a socket without data blocks and stays
with that socket when the descriptor is closed (`blocked`).

| Variable | Code |
|---|---|
| modem[i] | struct modem_config |
| mp0, mp1, cp0, cp1, wp | the pipes of bridge.c and tcpser.c |
| mpc, accept_pending | main() of tcpser.c |
| bpc, bready, bret, last_conn, last_mode | run_bridge: where it is, what select() reported, last_conn_type, last_cmd_mode |
| ipc, action_pending, watched, sock, notified | ip_thread: where it is, its flag, the descriptor in its fd_set, the socket it waits on |
| backlog, peer, caller, unread | the kernel and the callers |

## 4 Message base

**MessageFile** is MSGBASE.C's file of texts. `Place` and `Link` are savefile,
`Chain` what readfile and remove_link walk over, defined as the least set of
sectors that holds the first and that no link leaves (a definition that is right
also for a table with a loop in it, and that the provers can use), `Unlink` is
remove_link.

**SubBoard** has one action per step that another instance can see:

| Action | Code |
|---|---|
| Select, Create, CreateGivesUp | iscan1 (SUBACC.C): open for reading, else for writing, and write a record where the reading of open_sub(1) left off |
| Get | get_post with the file closed |
| ReadStatus | get_status: readfile, resynch and others look at the counters |
| ToggleNoDelete, ToggleFails | case N of scan(): open_sub, get_post, resynch, write_post, close_sub |
| Save | inmsg and savefile: the text goes into the .DAT |
| Stamp | post(): the qscan pointer under lock_status |
| PostOpens, PostOpenFails | post(): open_sub(1), whose result it does not look at |
| Trim | post(): one get_post of the loop that looks for a post to remove |
| Add, AddFails | add_post, close_sub |
| StartDelete, Resynch, FindPost | case D of scan(); remove_post() |
| DeleteText, DeleteNothing, DeleteFails, Shift | delete(), in two halves around remove_link |

An instance that has a file open for writing is alone with it (SH_DENYRW), so what
it does between open and close is one step, unless another file changes in
between: delete() takes the text out of the .DAT before it takes the record out of
the .SUB, and is two. sh_open tries a busy file TRIES (100) times and gives up. When another
instance holds the .SUB both outcomes are possible, and the actions called ...Fails
follow what the callers then do, which is mostly to go on. Counters of STATUS.DAT
matter only by differing from an instance's copy: `changed` holds the instances for
which they do. `node[n]` is the instance's statics: the cache with its first number
and whether it is believed, nummsgs, subchg (0 nothing, 1 changed, 2 cache dropped,
3 counted again), last_msgnum, and the locals of post() and delete() that outlive a
step.

**Board** is what the users are promised: one list of posts. A message is written
once, becomes the newest post or is dropped, keeps its place among the others until
it is removed, and never comes back. In the mapping a post is off the board once its text is unlinked, one
step before its record moves away.

`Hasty` says whether an instance that *selects* the sub may find its file missing, or
busy for all the tries. Then iscan1 takes it for new. A file that is new gets its header;
a file that was only busy keeps its header, because open_sub(1) has just read it, and
gets an uninitialized record in place of its first post (finding 4). What a board
promises is lost from there on, so TextIsOwn, StaleIsAnnounced and IsBoard are stated for
`Hasty = FALSE`; instances still give up when they post, mark or delete.
SubBoardHasty.cfg and two of the theorems show what holds in either case.

Two interleavings of this kind show why it is worth checking. *A* starts delete()
on its cached record 3 while *B* adds a post that pushes record 1 out: A's
open_sub(1) reads nummsgs again and forgets the cache, so A removes the third
record as it is now, and `WriterSeesFile` is what makes remove_link free that
record's text. And *A* unlinks a text, *B* saves a new one into the freed sectors,
and only then does A's record go: nobody may see the old record meanwhile, which
`TextIsOwn` says through `Removed`.

## 5 E-mail

**Mail** is EMAIL.DAT, one file of letters for all users. `email` and `size` are its
records, `text` is where the texts of MSGBASE.C lie (a text that several letters of
multimail share is one), `changed` holds the instances whose copy of
filechange_email is not that of STATUS.DAT, and `node[n]` is what readmail and its
callers keep: the list `mloc`, `emchg`, `mailcheck`, the entry on display (`rec`),
what `m` holds, and a letter on its way out (`hand`).

| Action | Code |
|---|---|
| LogOn, GetStatus, LogOff, Pack | logon; get_status; logoff, which closes the gaps if `mailcheck` says that letters were removed, and raises the counter with the file still open |
| Write, Send | inmsg, then sendout_email or the end of multimail: behind the last letter, one record for each addressee |
| ReadMail, Quit | readmail makes its list, and forgets it |
| Show, Mark, Miss, Lost, ResynchEmail | read_same_email: the letter is where the list says, or it is not; then the counter says whether letters were moved; if so, resynch_email looks for all of them |
| Delete, DeleteBehindEnd, Purge | D and Z; delmail with a place behind the end; purgemail |
| AskForward, NoForward, Forward, ForwardMoved | F |
| Look, Kill | kill_old_email and mailr |
| Crash | an instance ends wherever it is; DOS closes its files |

EMAIL.DAT is open to one writer, or to readers, so what stands between open_email and
sh_close is one step; what happens between two of them (the user at a prompt, a
get_status, another instance) is between two steps.

The hard part is that the list holds *places*, while other instances append, empty
and move records. same_email compares sender and time with what the list says, so a
letter is never taken for another; LostIsGone says that no letter is given up that was
only moved, which rests on the order in which Pack moves letters and raises the
counter, and on resynch_email's single pass, which finds letters only in the order
of the list. Behind the end of a file that became shorter sh_read reads nothing,
and same_email then compares the letter *read before*: Mark then writes a copy there,
and D deletes nothing (finding 4). From the moment something was written or
removed there (`astray`), nothing is promised: the properties hold until
then, except DeletedIsGone, which says without that condition what LostIsGone
says with it, and is violated.

**PostOffice** is what users are promised: boxes. A letter comes into the boxes it was
sent to, with the text that was written; it stays as it is until letters of one sender
are taken out of one box, and does not come back. The mapping reads box and text off
the records; forwarding takes a letter out of one box and delivers it to another
under a new time.

Abstracted: the time of a letter is a number of its own (in the code, seconds: two
letters of one sender in one second are not told apart); what `m` holds at a prompt is
forgotten, because a letter that was not on display is read again first; displaying and
marking use a letter that was found again in the same way; `changed` keeps only instances
on line, as logon reads the status; `emchg` is kept only while there is a list, as
readmail clears it.

## 6 Instances

**Instances** is the session of each instance, as far as other instances notice it:

| Variable | Code |
|---|---|
| dir | INSTANCE.DAT: up or not, who is on line, in which door, may he be told something |
| box, tmp | MSG and TMSG files of INSTMSG.C |
| node[n].pc, user, hangup, left, door | where main, getuser, logon, run_chain, logoff and broadcast are; the loops over the other instances that are not through yet |
| node[n].scan, todo, file, done | process_inst_msgs: findfirst and findnext, the open file, the messages handled |
| to, shown, met | not in the code: to whom a message was sent, what was shown or obeyed, who asked at the same time |

Each read of another's record and each write of one's own is a step, because
user_online and inst_ok read the records one after the other, and write_inst comes
later. What follows is proved: somebody who *is* on line, or a door that *is* open,
when an instance asks is found, whatever moves meanwhile; only instances that ask at
the same time (`met`) can miss each other. The code has no lock that would exclude it.

send_inst_msg appends to TMSG<from>.<to> and renames that to the first free number;
when all are taken the message stays there, before the next one. The reader scans with
findfirst and findnext, while files come and go, and stops when its user hangs up. A
shutdown message is obeyed in the middle: the file is removed with all that is left
in it, and end_bbs is called.

**Mailbox** is the promise: each message is sent once, and then shown once to somebody on
line on the instance it was sent to, or obeyed once, or thrown away where nobody is on
line who could see it, or with the shutdown that ended the session. The mapping of a
message's fate reads the files: `Queued` is what is in them and not handled yet.

## 7 Users

**Users** is who the users of the board are. USER.LST has a record for each number,
deleted or not; NAMES.LST is the index, names in order with their numbers, and
STATUS.DAT has the number of names. Every instance has the index in memory, too.

| Variable | Code |
|---|---|
| userlst, nu | USER.LST and number_userrecs() |
| names, users | NAMES.LST and status.users |
| changed | the instances whose copy of filechange_names is not that of STATUS.DAT |
| node[n].list, cnt | smallist, and status.users while it may differ from the file's |
| node[n].s, why, un, u | the name that was typed and what for; the number and the record at hand: thisuser, or the `u` of uedit and deluser |

| Action | Code |
|---|---|
| AskUser, AskNew, AskName, Load, Look | finduser, called by getuser, check_name and uedit: get_status reads the count, then the names if the counter changed, and only then bsearch and read_user follow |
| AskNumber | finduser with a number, and the fast logon of getcaller |
| ReadUser, SaveUser, LogOff, HangUp | getuser reads the record; it is written by extern_prog and others, and at logoff |
| FindNewUsernum, Enter, Welcome | newuser and find_new_usernum: the record first, then isr |
| Kill, Delist, Delete, Forget | deluser: dsr, the record, and the record once more |
| Edit, Change, Unlist, Relist, Rewrite, Restore, RestoreName, Quit | uedit; N is dsr, isr, write_user; R is isr, write_user |
| ScanUsers, ResetFiles | //resetf |

isr and dsr change the index under the lock of STATUS.DAT, where get_status has just
read it again if another instance changed it; this part needs no care of anybody, and
`NamesInOrder`, `FoundByName` and `IsDirectory` say that it is right. Around it, the
code has no lock. It relies on users and sysops not doing certain things at the same
time, and `Careful` says which: no two instances have the same record or the same name
at hand (the record of a caller is at hand once getuser has read it, not while finduser
looks for it); a deleted user is not renamed, and not restored when his name has another
owner; the index does not change between the two reads of finduser when it is asked whether
a name that is to be given to somebody is free; //resetf does not
run while a user is added or removed. Each of these is needed: without it TLC finds
one of the properties violated (notes 21 to 25 of section 11). What the model shows is that
nothing else is needed. `Careful` is what a run and a theorem assume of every state. No
property says that a copy of a record is fresh or that the code keeps two of them apart: it
does not, and it promises nothing of the kind (note 21).

A *logon* is not protected by Careful: while finduser looks for a name that a caller typed,
others may insert, delete and rename as they like, between the count and the names, and
between these and the record. `LogonWasListed` says what is left: the number that comes out
had the name in the index at some moment after it was typed. **UserLookup** states it with
two history variables, which follow Users and on which nothing depends: `was`, who had the
name in the index since it was typed, and `short`, the instances for which NAMES.LST got
shorter between the count and the names. For those it is not true: huge_xfer reads fewer
names than were counted, smallist keeps older ones behind them, and bsearch may find one that
has not been in the index for long (TLC's shortest trace has 18 steps; note 24).

**Directory** is the promise: a number is one user's, a name is one user's, and both stay
until he is deleted or renamed. The mapping reads it off NAMES.LST, where a user who is
being renamed is between two names.

## 8 Bounds

| Run | Bounds | Why they are enough |
|---|---|---|
| HayesModem | 2 descriptors, RingLimit 2 (10 in the code), S0 in 0..2, 1 character a read, 2 commands a line, rings stop at 4 | a second caller can meet a ringing line, or a modem that went off hook, dialled or escaped; S0 is off, below and at the limit (above it RingingEnds fails: note 4 of section 11); a command can follow one that changed the state |
| HayesChunks | the same; 4 characters a read | four characters hold one that spoils the guard time and three plus signs |
| TcpserLines | 2 modems, **1** descriptor, one with S0=1, only ATH typed, DTR line, `Quiet` | one descriptor makes every accept() reuse what was just closed. `Quiet` keeps the ip threads asleep and callers silent: they close and open no descriptor. Two callers and one descriptor make accept() fail |
| TcpserLive | 1 modem, 2 descriptors, 2 callers of whom one sends something, ATA and ATD typed | a caller waiting while another is served, refused, or hung up on |
| SubBoard | 2 instances, 2 messages of 1 or 2 sectors, not Hasty, 1 section of 3 sectors, maxmsgs 1, 2 records, cache of 1 record, `Unmarked` | the second post must trim, sectors are reused, the cache must move, and each instance can meet the other between any two of its steps. `Unmarked` stops where a post is marked as not to be deleted: SubBoardHasty.cfg goes on there, and the theorems hold with and without |
| SubBoardHasty | the same with messages of 1 sector and 2 sectors to allocate, Hasty, marks included | the record that iscan1 writes is any record with an address; two posts can stand on the board |
| SubBoardCreate | 1 sector to allocate | the shortest counterexample has one post |
| Mail, MailEnd | 2 instances, 2 users, 2 messages, 2 places for texts, 3 records, 2 times, letters to u2 or to both; n1 reads, n2 removes | a letter to both and one more fill the file; the text is shared, forwarded and freed; n2 removes and packs while n1 goes by its list. LastSlot 2 lets the reader's last place fall behind the end |
| Instances | 2 instances, one user who may be on line once and one who may be twice, 1 door, 1 file name, 2 messages and 1 shutdown, `OneAfterTheOther` | one name makes messages wait in the temporary file; two messages and a shutdown stand in one file in each order. `OneAfterTheOther` lets questions and doors happen until the first message is sent, and after that only the exchange of messages: what is combined less is questions and doors with messages under way, and the theorems hold without it |
| Users | 2 instances, 3 names, of which the sysop's is the second, 3 numbers, at most one user deleted at a time, `Careful` | a name goes before, between and behind others; a number and a name can be given to somebody else while their last user is deleted; the index is full when nobody is |

MaxRings, MaxLine, MaxChunk, MaxSize, MaxPosts, LastSlot, MaxTime, Mailings,
Readers, Removers and Messages bound the models and not the code; the rest are
parameters of the program. Each message is written once and each caller calls once. Symmetry is used in runs that check safety only.
The runs have between some thousand and 800,000 states (SubBoard 258,000, Mail
280,000, Instances 278,000, TcpserLive 283,000, Users 783,000, TcpserLines 799,000) and take from
seconds to two minutes each; what larger instances add is proved (section 10).

## 9 Fairness

`FairSpec` of Tcpser has weak fairness of main, of each bridge and of each ip
thread: the operating system lets every thread run that can. select() and accept()
return when there is something, which weak fairness of the enabled step says. Nothing
is asked of the callers, of the DTE or of the control line. CallerIsHeard assumes
that no modem takes a second call while it has one: main does hand one over when the
first caller still rings (note 1 of section 11), and the first caller is then lost.
`FairSpec` of HayesModem has weak fairness of the bridge's own steps and its timers;
RingingEnds holds for a DTE that stops typing, because each line resets the ring
timer. No liveness is claimed of SubBoard, Mail, Instances and Users: an instance waits for its
user, one that gives up on a file goes on without it, and a message waits for the
other instance to look, which it need not do while a door runs.

## 10 Proofs

Everything below holds for all values of the constants that satisfy the named
assumptions of the modules.

| Theorem | Statement | Argument |
|---|---|---|
| HayesTypeCorrect | HayesModem!Spec => []TypeOK | TypeInv adds that the character loop has characters left; one lemma per operator of ModemCore (ModemCoreProofs) |
| HayesOnHookIsIdle, HayesRingingHasCaller, HayesCarrierIsCall, HayesRecogniserReset | ~Direct => Spec => each of the four state properties of HayesModem | StaysSound: `Sound` of the modem record, which relates hook, mode, ring, line, carrier and recogniser, is kept by every operator. |
| HayesImplementsEscape | ~Direct and one character a read => Spec => EscapeIsHayes | EscapeInv: `Synced` ties the recogniser to the history `seen`; each step maps to a step of HayesEscape or to none. A call in any state is one of them: it maps to CallArrives, to a call in command mode, or to nothing when there was one |
| TcpserTypeCorrect | Tcpser!Spec => []TypeOK | one lemma per thread |
| OffersFindCallers | if no modem answers by itself, Spec => []AcceptFindsCaller | OfferInv: at most one offer is under way (in one pipe, one ready set, or one accept()), and while one is, accept_pending is set and a caller waits |
| DescriptorsStayApart | Tcpser!Spec => []DescriptorsApart | HeldInv = TypeOK, DescriptorsApart and of each modem Orderly (the handlers still to run are those of bready, in order, and the one for the serial port only when something was typed) and LineKnown (its line is a descriptor it opened, or none). Without Orderly a hang up could begin inside another |
| LineStaysOpen | if there are fewer callers than descriptors, Spec => []LineIsOpen | Once: each caller is idle, waits in the backlog once, or is behind one descriptor, so that accept() finds one free. Without the assumption it fails |
| OffersGetAnswers | Spec => OffersAreAnswered | an action property, step by step under HeldInv: while accept_pending is set, an offer is in a pipe, with a bridge that has read it, or an answer is on its way to main; only an accept() that fails with every descriptor open ends that. Nothing is assumed of callers and descriptors, and such a failure is a step of the model (note 5 of section 11) |
| SubBoardTypeCorrect | SubBoard!Spec => []TypeOK | with Inv below: the cache index stays in range because its start is between 1 and the number of posts |
| WriterIsCurrent | Spec => []WriterSeesFile | LocalInv: who has the .SUB open knows nummsgs and believes nothing of his cache that is not in the file. It needs the whole get_post: lemma FreshPost follows Invalidate, Recount and Fill |
| PostsKeepTheirTexts | ~Hasty => Spec => []TextIsOwn | Inv = TypeOK, LocalInv, Records (what is on the board is records) and, unless Hasty, Distinct and Texts. TextIsOwn is not inductive: removing a text could free a sector of another unless chains of different live posts are apart (Distinct), and a record moved twice would otherwise break Distinct |
| StalenessIsAnnounced | ~Hasty => Spec => []StaleIsAnnounced | InformedInv, with Inv: an instance whose subchg is 2 does not believe its cache; and each one is in `changed`, or has subchg 1 or 2, or, if nobody else is between remove_link and the removal of the record, its number of posts is one the file has and what it has cached has its text. The record of a freed text is still in the file between the two halves of delete(), so that an instance that filled its cache there must be told as well |
| InstancesAreOneBoard | ~Hasty => Spec => IsBoard | under Inv and HandInv (only post() has a record in hand): most steps move no message (Quiet); savefile is Write, add_post is Post, giving up is Drop, remove_link is Delete, and moving the later records down changes nothing of Board, because the mapping takes the record out of the list from remove_link on |
| MailTypeCorrect | Mail!Spec => []TypeOK | TypeInv adds that an instance past its logon has a user, and that a letter about to be sent has one addressee unless it is of multimail |
| MailLettersHaveTexts, MailOneCopy, MailLostIsGone | Spec => [] each | IInv = TypeInv /\ (astray \/ Safe). Safe has, of the file: letters have texts, one copy per box and time, letters with one text are copies of one multimail. Of each instance: its list is sorted as the file is (ListOK), a letter of the list is where it says unless letters were moved and the instance is told so or will be (PlaceOK), what is displayed was in the file (DisplayOK), and a letter on its way out has a text (HandOK) that no other hand and no letter has (HandsApart). LostIsGone needs all of it: resynch_email finds every letter that is there only because the order of list and file agree |
| MailOnlyMeantGo | Spec => OnlyMeantGo | StepRemoves: one lemma says of every step which letters it takes away |
| MailIsPostOffice | Spec => IsPostOffice | under IInv each step leaves the boxes as they are (BoxesStay), delivers one letter (BoxesGet) or takes letters of one sender out of one box (BoxesGive). Packing is a bijection of records, by the ranks of their places |
| InstancesTypeCorrect | Instances!Spec => []TypeOK | TypeInv adds in which steps an instance can be handling messages |
| OnLineTwiceOnlyAtOnce | Spec => []TwiceOnlyAtOnce | Known: who is past the question stands in the directory with his name. LookInv: of two instances that ask for one user or have him on line, the one that passed the other's record before it was written asked at the same time |
| DoorTwiceOnlyAtOnce | Spec => []DoorOnlyAtOnce | the same with DoorKnown and DoorInv |
| InstancesImplementMailbox | Spec => IsMailbox | MailInv = TypeInv, Apart (a message stands in one file once, among all files of all instances) and ShownInv (what was shown does not wait any more). Each step then changes the fate of no message, of one, or, with a shutdown, of all that were left in one file |
| UsersTypeCorrect, NamesStayInOrder, UsersFoundByName | Users!Spec /\ []Careful => [] each | IInv = TypeOK, Filled (every place below `users` has an entry), Sorted, IndexOK (a name stands in the index with a number exactly if the number's record says so; of the numbers in transit it says whether they are in the index yet) and of each instance: LocalOK, CopyOK (the record at hand is the one in the file), ListOK (its index is the file's, unless it is in `changed`), LookOK (asked for a new name, bsearch finds a user, or there is none of that name), FreeOK (a name that was found free still is). None of them is inductive alone: isr keeps the order only if the list is current (ListOK) and the name not in it (FreeOK), and FoundByName needs to know what an instance halfway has done (IndexOK) and that it will write the right record (CopyOK) |
| RoomForEachName | Users!Spec /\ []Careful => []RoomForName | the places of the index map one to one into the numbers but the one about to be inserted, so that there are fewer than MaxUsers of them |
| UsersAreDirectory | Users!Spec /\ []Careful => IsDirectory | Enter and Restore are Join, Delist is Leave; N of uedit changes nothing in Unlist, since the mapping adds who is between two names, and is Rename in Relist (a stutter if the old name was typed again). //resetf changes nothing: PlacesAreNames says that isr1, which puts each name where it belongs, gives the index that is there already |

| LogonsWereListed | LookupSpec /\ []Careful => []LogonWasListed | WasListed of each instance: while it asks for a name that was typed, what bsearch may find, or has found, is in `was`. A smallist that is current has only owners (FindsOwners), so the names enter `was` with the step that makes finduser read or trust them; AskedSteps shows that only AskUser, Load and Look are about a typed name, whatever the other instances do |

`Careful` is a hypothesis on behaviours and not on constants: it says what users and
sysops do not do at the same time (section 7). The code asks for none of it, and each part
is needed (notes 21 to 25). Users.cfg checks the same properties under it, and every
action of the model is taken there.

SubBoardProofs begins with the facts about chains that PostsKeepTheirTexts rests on:
Place takes only unused sectors, linking new sectors leaves every other chain as it was,
and unlinking one chain leaves chains that do not meet it. The provers take the
parameters of the models (number of instances, users, records, sectors, names) as
arbitrary; Messages and Nodes need not be finite.

Only model-checked: liveness (RingingEnds, CallerIsHeard, CallersAreServed), which
these provers do not reach. Each safety property of a passing run is a theorem, under the
assumptions the table names: TextIsOwn, StaleIsAnnounced and IsBoard of SubBoard need
~Hasty, since iscan1 otherwise writes over a post; those of Users need []Careful.

## 11 Where the code and its documentation disagree

Findings, each with a run that shows it:

1. HayesChunks: `pre_break_delay` is looked at once for all the characters of a
   read() (modem_core.c:677), so data directly followed by `+++` escapes;
   tcpser/README.md:148 says the sequence may be used in normal data.
2. TcpserAuto: main's second loop runs although the first found a modem
   (tcpser.c:118), so with S0=1, as `run_bbs.sh` sets it, one caller is offered twice
   and the bridge sits in accept() until somebody else calls.
3. SubBoardCreate: iscan1 creates the .SUB whenever it cannot open it for reading,
   also when it was only busy (SUBACC.C:127): a record of which only one field is
   initialized goes over the first post.
4. MailEnd: read_same_email does not look whether sh_read read anything
   (READMAIL.C:163). When another instance packed EMAIL.DAT and the place in the list is
   behind its end, the letter read before is compared with itself, delmail is given a
   place where there is nothing, and the letter stays where it was moved to;
   HELP.MSG:615 says of D "Delete the piece of mail."

Observed while modelling, with no line of documentation that promises otherwise:

1. A caller that is handed to a ringing modem takes the line from the one that
   rings; the first descriptor is never closed (bridge.c:29).
2. MSG_DISCONNECT of a call that is over hangs up the next one, if the ip thread was
   slow to write it (bridge.c:432).
3. With a direct connection ATH leaves the modem on hook and connected
   (modem_core.c:315): the proofs assume ~Direct, and no run has one. ATD while a call
   rings overwrites the caller's descriptor (line.c:81), as a second caller does.
4. The ring limit is compared for equality (bridge.c:381): with S0 above 10, set back
   to 0 after the tenth ring, a modem rings for ever. HayesModem.cfg keeps S0 at or
   below the limit, as every configuration in the repository does; with
   `S0Values = {0, 4}` TLC finds RingingEnds violated.
5. If accept() fails in the bridge, main is not told and takes no caller again
   (OffersAreAnswered names this step, AcceptFailed, and says that it is the only one).
6. add_post changes no counter (SUBACC.C:372): other instances learn of a new post by
   post()'s later save_status only through counters it changed earlier.
7. open_file of MSGBASE.C takes a .DAT that it cannot open for new, busy or not, as
   iscan1 does with the .SUB, and writes an empty section table over the first
   (MSGBASE.C:179).
8. savefile sets `stored_as` also when it found no room or could not open the .DAT,
   from whatever its list of sectors holds (MSGBASE.C:291).
9. delete() frees the text before the record (SUBACC.C:305): a crash in between
   leaves a record without a text.
10. Cases D, N, X and U of scan() open the sub, which forgets the cache, before
    resynch reads from it the post it looks for (MSGBASE1.C:653).
11. post() takes the qscan pointer and adds the post in two sections (MSGBASE1.C:241):
    posts may stand in another order than their pointers.
12. iscan1 sets the name of the sub before it opens the file (SUBACC.C:125), and keeps it
    when that fails.
13. The change counters of a sub are one byte (MSGBASE.C:234): after exactly 256
    changes an instance that slept takes its cache for current. The model counts no
    changes; it remembers who missed one.
14. mdm_answer, which ATO calls, hangs up a call whose type is OUTGOING
    (modem_core.c:261).
15. When a forwarded letter was moved, readmail returns to its prompt with EMAIL.DAT open
    for writing (READMAIL.C:747): all other instances find it busy until the program
    ends. The model has the step (`stuck`) and stops all use of EMAIL.DAT there.
16. user_online and inst_ok are asked before the answer is written (LILO.C:186,
    BBSOVL1.C:371); two instances that ask at the same time both go on. getuser reads
    the user record before it asks (LILO.C:180), so a user who logs off elsewhere
    meanwhile is on line with his old record.
17. A shutdown that ends a session leaves the user on line in the record of the instance
    that is down (BBSUTL1.C:345), and user_online does not look whether the instance is
    up: he cannot log on elsewhere until that instance is started (INSTMSG.C:331 says
    that it returns 1 if he is online).
18. A shutdown message for an instance that is down stays, and shuts it down when it is
    started next. Messages behind a shutdown are lost with the file.
19. A message that was sent to one user and not read before he logged off is shown to
    the next user of the instance; when all 1000 names are taken, messages wait until the
    sender has another one for that instance (INSTMSG.C:42).
20. The new mail message is sent also to those who asked for none: email() looks at
    the directory, not at sysstatus_no_msgs.

21. write_user writes all of a record (UTILITY.C:654). Who logs off, or is edited, after
    another instance deleted him is back, without a name in the index; who was deleted
    while his number was given away overwrites its new owner, as deluser writes the
    record twice (UEDIT.C:39 and 70).
22. Two new users who choose one name at the same time both get it: check_name asks
    long before isr.
23. R of uedit restores a user without asking whether somebody else has his name
    (UEDIT.C:583). N on a deleted user calls dsr for a name that is not in the index, and
    dsr then looks at the place behind the last name (UTILITY.C:1316), where it may stand:
    the last name is dropped.
24. get_status closes STATUS.DAT before it reads NAMES.LST (UTILITY.C:1703): of an index
    that grew in between finduser misses the last names, once; a new user may then take
    such a name. If it shrank, names from an earlier reading stand behind its end, and a
    caller may be given the number of one that is gone. The record is read after that, so
    a caller who typed a name may log on with a record that has another name by then.
25. reset_files writes as many names as STATUS.DAT had before, and does not raise
    filechange_names (SYSOPF.C:83): if the numbers differ, as they do when there is
    something to repair, the file is too short or has entries of nobody, and the
    other instances go on with what they have.

## 12 What is left out

In the modelled components:

* AT commands that only change the wording of results, echo, speeds and register
  listings are one command, "I"; AT&C0 is left out; the escape character and its
  timings are constants of the program;
* HayesModem has direct connections, the number that is dialled at the start included
  (bridge.c:285), but no run has `Direct = TRUE`; Tcpser leaves out direct connections and
  dialling a number, has ATD without one, lets the
  DTE escape from data mode at any moment, and keeps of the bytes only whether a caller
  sent some. A DTR drop is a step of the environment;
* SubBoard is about one sub and storage type 2. Types 0 and 1 keep a file per text.
  Networks, validation (the loop of post() over pending posts), anonymous names and
  titles are left out; so is the editor that runs before Save. The .DAT exists, has room and is
  free again within the tries of sh_open; so is STATUS.DAT. Short opens for reading
  are part of the step that makes them. Where an instance without the file follows a
  NULL from get_post in post(), or walks back over posts it could not read (resynch), the
  model lets it end anywhere; other uses of a NULL from get_post are left out;
* instances of SubBoard do not crash (those of Mail do);
* Mail leaves out the counts of waiting letters in user records, and what is refused by
  them, network mail, letters that QWK1.C writes, the removal of a user with his mail
  (UEDIT.C), short messages, the marks of a letter one by one, the limit of 255
  letters in a list, the reading of a text after its letter was found, and what the callers
  of open_email do when it gives up. Its `m` is empty whenever readmail prompts, where the
  code's keeps what was read last (READMAIL.C:161); the difference shows only behind the end
  of the file, once `astray`;
* Instances leaves out new users, logons from the network,
  users with whom another program starts the BBS (`/V<number>`, BBS.C:741: on line without
  user_online being asked, so TwiceOnlyAtOnce says nothing of them; the model has only the
  fast logon of the sysop), a message for which there is no memory (INSTMSG.C:194: the rest of
  its file is removed unread), a MSG file that does not open, which the code tries until it does,
  doors that several users may run, chat (which is empty in this program), user
  records, the texts of messages, INSTANCE.DAT that cannot be opened, a program that
  ends without end_bbs, and looking for messages while sh_open waits for a file;
* Users keeps of a record its name and whether it is deleted; the editing of others by a
  sysop who is on line himself, changes to record 1, the counts of waiting letters that
  whoever mails or deletes mail writes into records (MSGBASE.C:1246), the moment in which
  find_new_usernum has USER.LST closed after every 25 records and //resetf after every 10
  (SYSOPF.C:65: records written in between are seen or not, one by one), and files that do
  not open are left out.

Components without a module are listed in `PROJECT.json` with the reason. Most are
input and output, menus, or programs run while the BBS is down; file transfers, QWK
and the network are removed from the menus or unused. Their state is one user's on one
instance, or tables written whole. Vendored doors and drivers are not modelled.

## 13 Plan

What is not done, in the order of what it would show:

1. *SubBoard* for several subs and crashes: moving posts, scanning all subs, the
   qscan pointers, an instance that ends between two writes.
2. *User records* have counts of waiting letters and other fields that several
   instances read, change and write without a lock: compose Mail and Users.
3. *ControlLines* (ctrl_thread, dce.c, ip232.c) composed with Tcpser in place of DropDtr;
   *Telnet* (nvt.c): parsing is the same however the bytes are cut into reads.
4. *Host*: run_bbs.sh and deploy.sh as processes with pid files and images.
