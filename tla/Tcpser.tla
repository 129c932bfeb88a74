------------------------------- MODULE Tcpser -------------------------------
(***************************************************************************)
(* tcpser's threads: the main thread that hands callers to modems          *)
(* (tcpser.c main), and for every modem the bridge thread (bridge.c        *)
(* run_bridge) and the thread that reads the caller's socket (ip_thread).  *)
(* They share the modem records without a lock and wake each other through *)
(* pipes:                                                                  *)
(*                                                                         *)
(*    main   --mp1: ACCEPT-->      bridge                                  *)
(*    bridge --mp0: ACCEPTED-->    main                                    *)
(*    ip     --cp0: DISCONNECT-->  bridge                                  *)
(*    bridge --cp1: NOTIFY-->      ip                                      *)
(*    ctrl   --wp:  DTR_DOWN-->    bridge                                  *)
(*                                                                         *)
(* Every pipe here carries one kind of message, its reader takes all that  *)
(* fits in 250 bytes and looks at the first only, so a pipe is a flag: it  *)
(* has something to read or not.  A step is what a thread does between two *)
(* points at which another thread can notice, with one exception: the hook *)
(* and s[0] of all modems are read in one step by each of main's loops.    *)
(*                                                                         *)
(* Abstracted: the escape recogniser (in data mode the DTE escapes at any  *)
(* time; HayesModem has the details), bytes (a caller has sent something   *)
(* or not), direct connections and dialling a number (ATD alone is there). *)
(***************************************************************************)
EXTENDS ModemCore, Sequences, FiniteSets

CONSTANTS
    ModemCount, \* modem_count, 1 in run_bbs.sh
    S0,         \* the register S0 of each modem
    Fds,        \* descriptors the process may have, lowest is taken first
    Callers,    \* each of them calls once
    Talkers,    \* those of them that send data
    Typed,      \* the commands the DTE uses
    Nobody,     \* no caller
    DtrLine     \* whether the serial device reports DTR; the pty of QEMU does not

Modems == 1 .. ModemCount

ASSUME TcpserAssumption ==
    /\ ModemCount \in Nat \ {0}
    /\ S0 \in [Modems -> Nat]
    /\ Fds \subseteq Nat
    /\ NoFd \notin Fds
    /\ Nobody \notin Callers
    /\ DtrLine \in BOOLEAN
    /\ Typed \subseteq {"ATA", "ATH", "ATD"}

VARIABLES
    \* the kernel
    backlog,    \* callers that connected and were not accepted, in order
    peer,       \* the caller behind each open descriptor
    caller,     \* caller -> "idle", "up" once it called, "gone" once it hung up
    unread,     \* callers that sent something nobody has read yet
    \* the pipes and the serial ports
    mp0, mp1, cp0, cp1, wp,     \* modem -> has something to read
    serial,     \* modem -> what the DTE has typed, or "NONE"
    \* main
    mpc, accept_pending,
    \* the modems and their bridges
    modem, bpc, bready, bret, last_conn, last_mode,
    \* the ip threads
    ipc, action_pending, watched, sock, notified

kernel == <<backlog, peer, caller, unread>>
main == <<mpc, accept_pending>>
bridge == <<modem, bpc, bready, bret, last_conn, last_mode>>
ipthread == <<ipc, action_pending, watched, sock, notified>>
vars == <<kernel, mp0, mp1, cp0, cp1, wp, serial, main, bridge, ipthread>>

Sources == {"serial", "wp", "cp0", "mp1"}       \* what run_bridge selects on
BridgePCs == {"conn", "mode", "select", "accept", "hung"} \union Sources
IpPCs == {"arm", "select", "check", "recv", "blocked", "report", "pipe"}
Inputs == {"NONE", "ATA", "ATH", "ATD"}

KernelType == /\ backlog \in Seq(Callers)
              /\ peer \in [Fds -> Callers \union {Nobody}]
              /\ caller \in [Callers -> {"idle", "up", "gone"}]
              /\ unread \subseteq Callers
PipeType == /\ mp0 \in [Modems -> BOOLEAN] /\ mp1 \in [Modems -> BOOLEAN]
            /\ cp0 \in [Modems -> BOOLEAN] /\ cp1 \in [Modems -> BOOLEAN]
            /\ wp \in [Modems -> BOOLEAN] /\ serial \in [Modems -> Inputs]
MainType == /\ mpc \in {"select", "listening", "any", "busy"}
            /\ accept_pending \in BOOLEAN
BridgeType == /\ modem \in [Modems -> ModemRecord(Fds)]
              /\ bpc \in [Modems -> BridgePCs] /\ bret \in [Modems -> BridgePCs]
              /\ bready \in [Modems -> SUBSET Sources]
              /\ last_conn \in [Modems -> ConnTypes] /\ last_mode \in [Modems -> BOOLEAN]
IpType == /\ ipc \in [Modems -> IpPCs] /\ action_pending \in [Modems -> BOOLEAN]
          /\ watched \in [Modems -> Fds \union {NoFd}]
          /\ sock \in [Modems -> Callers \union {Nobody}]
          /\ notified \in [Modems -> BOOLEAN]
TypeOK == KernelType /\ PipeType /\ MainType /\ BridgeType /\ IpType

\* The state in which run_bridge enters its loop and ip_thread its own.
Init ==
    /\ backlog = <<>> /\ peer = [f \in Fds |-> Nobody]
    /\ caller = [c \in Callers |-> "idle"] /\ unread = {}
    /\ mp0 = [i \in Modems |-> FALSE] /\ mp1 = [i \in Modems |-> FALSE]
    /\ cp0 = [i \in Modems |-> FALSE] /\ cp1 = [i \in Modems |-> FALSE]
    /\ wp = [i \in Modems |-> FALSE] /\ serial = [i \in Modems |-> "NONE"]
    /\ mpc = "select" /\ accept_pending = FALSE
    /\ modem = [i \in Modems |-> InitModem(S0[i], 0, FALSE)]
    /\ bpc = [i \in Modems |-> "conn"] /\ bret = [i \in Modems |-> "conn"]
    /\ bready = [i \in Modems |-> {}]
    /\ last_conn = [i \in Modems |-> "NONE"]
    /\ last_mode = [i \in Modems |-> TRUE]
    /\ ipc = [i \in Modems |-> "arm"]
    /\ action_pending = [i \in Modems |-> FALSE]
    /\ watched = [i \in Modems |-> NoFd]
    /\ sock = [i \in Modems |-> Nobody]
    /\ notified = [i \in Modems |-> FALSE]

IsLeast(x, S) == x \in S /\ \A y \in S : x <= y

OpenFds == {f \in Fds : peer[f] # Nobody}

---------------------------------------------------------------------------
(* Callers and the DTE *)

\* Callers whose connection was accepted and is open.
Served == {peer[f] : f \in OpenFds}
Waiting == {backlog[k] : k \in DOMAIN backlog}

Call(c) == /\ caller[c] = "idle"
           /\ caller' = [caller EXCEPT ![c] = "up"]
           /\ backlog' = Append(backlog, c)
           /\ UNCHANGED <<peer, unread, mp0, mp1, cp0, cp1, wp, serial, main,
                          bridge, ipthread>>

\* A connection that tcpser closed is of no more interest, unless a recv()
\* still blocks on it.
HangUp(c) == /\ caller[c] = "up"
             /\ c \in Served \union Waiting \/ \E i \in Modems : sock[i] = c
             /\ caller' = [caller EXCEPT ![c] = "gone"]
             /\ UNCHANGED <<backlog, peer, unread, mp0, mp1, cp0, cp1, wp, serial,
                            main, bridge, ipthread>>

Send(c) == /\ c \in Talkers /\ caller[c] = "up" /\ c \in Served \ unread
           /\ unread' = unread \union {c}
           /\ UNCHANGED <<backlog, peer, caller, mp0, mp1, cp0, cp1, wp, serial,
                          main, bridge, ipthread>>

Type(i) == /\ serial[i] = "NONE"
           /\ \E t \in Typed : serial' = [serial EXCEPT ![i] = t]
           /\ UNCHANGED <<kernel, mp0, mp1, cp0, cp1, wp, main, bridge, ipthread>>

DropDtr(i) == /\ DtrLine /\ ~wp[i]
              /\ wp' = [wp EXCEPT ![i] = TRUE]
              /\ UNCHANGED <<kernel, mp0, mp1, cp0, cp1, serial, main, bridge, ipthread>>

---------------------------------------------------------------------------
(* main *)

\* Mutant: a new caller is looked at although the last one is still on offer.
MainSelectEager ==
    LET answered == {i \in Modems : mp0[i]}
    IN  /\ mpc = "select"
        /\ answered # {} \/ backlog # <<>>
        /\ mp0' = [i \in Modems |-> FALSE]
        /\ accept_pending' = (accept_pending /\ answered = {})
        /\ mpc' = IF backlog # <<>> THEN "listening" ELSE "select"
        /\ UNCHANGED <<kernel, mp1, cp0, cp1, wp, serial, bridge, ipthread>>

\* select(), and the loop that reads the children's pipes.
MainSelect ==
    LET answered == {i \in Modems : mp0[i]}
        incoming == ~accept_pending /\ backlog # <<>>
    IN  /\ mpc = "select"
        /\ answered # {} \/ incoming
        /\ mp0' = [i \in Modems |-> FALSE]
        /\ accept_pending' = (accept_pending /\ answered = {})
        /\ mpc' = IF incoming THEN "listening" ELSE "select"
        /\ UNCHANGED <<kernel, mp1, cp0, cp1, wp, serial, bridge, ipthread>>

\* Tell the first of the modems in S to pick up, if there is one.
Offer(S) ==
    \/ S = {} /\ UNCHANGED <<mp1, accept_pending>>
    \/ /\ \E i \in Modems : IsLeast(i, S) /\ mp1' = [mp1 EXCEPT ![i] = TRUE]
       /\ accept_pending' = TRUE

OnHook == {i \in Modems : ~modem[i].off_hook}

\* "first try for a modem that is listening"
MainListening == /\ mpc = "listening"
                 /\ Offer({i \in OnHook : modem[i].s0 # 0})
                 /\ mpc' = "any"
                 /\ UNCHANGED <<kernel, mp0, cp0, cp1, wp, serial, bridge, ipthread>>

\* "now, send to any non-active modem", whether or not the first loop found one
MainAny == /\ mpc = "any"
           /\ Offer(OnHook)
           /\ mpc' = IF OnHook = {} THEN "busy" ELSE "select"
           /\ UNCHANGED <<kernel, mp0, cp0, cp1, wp, serial, bridge, ipthread>>

\* Mutant: the caller is left waiting.
MainBusyIgnores == /\ mpc = "busy" /\ mpc' = "select"
                   /\ UNCHANGED <<kernel, mp0, mp1, cp0, cp1, wp, serial,
                                  accept_pending, bridge, ipthread>>

\* No modem is free: accept the caller, say BUSY, close.  accept() blocks
\* until there is a caller, and fails when there is no descriptor.
MainBusy == /\ mpc = "busy"
            /\ \/ OpenFds = Fds /\ UNCHANGED backlog
               \/ OpenFds # Fds /\ backlog # <<>> /\ backlog' = Tail(backlog)
            /\ mpc' = "select"
            /\ UNCHANGED <<peer, caller, unread, mp0, mp1, cp0, cp1, wp, serial,
                           accept_pending, bridge, ipthread>>

Main == MainSelect \/ MainListening \/ MainAny \/ MainBusy

---------------------------------------------------------------------------
(* The bridge of modem i *)

SetModem(i, new) == modem' = [modem EXCEPT ![i] = [new EXCEPT !.resp = {}]]
Goto(i, pc) == bpc' = [bpc EXCEPT ![i] = pc]

\* The handler that follows when those of the sources in S are to run; after
\* the last one the loop starts again.
First(S) == IF "serial" \in S THEN "serial" ELSE IF "wp" \in S THEN "wp"
            ELSE IF "cp0" \in S THEN "cp0" ELSE IF "mp1" \in S THEN "mp1" ELSE "conn"

\* Done with the source that is being handled, and the handler after it.
Handled(i) == bready' = [bready EXCEPT ![i] = @ \ {bpc[i]}]
Following(i) == First(bready[i] \ {bpc[i]})

\* mdm_disconnect, up to the point where the socket is closed.
BeginHangUp(i) ==
    /\ SetModem(i, DisconnectBegin(modem[i]))
    /\ peer' = [f \in Fds |-> IF f \in ClosedBy(modem[i]) THEN Nobody ELSE peer[f]]
    /\ unread' = unread \ {peer[f] : f \in ClosedBy(modem[i]) \intersect Fds}
    /\ Goto(i, "hung")
    /\ bret' = [bret EXCEPT ![i] = Following(i)]
    /\ UNCHANGED <<backlog, caller>>

BridgeConn(i) ==
    /\ bpc[i] = "conn"
    /\ cp1' = [cp1 EXCEPT ![i] = @ \/ last_conn[i] # modem[i].conn_type]
    /\ last_conn' = [last_conn EXCEPT ![i] = modem[i].conn_type]
    /\ Goto(i, "mode")
    /\ UNCHANGED <<kernel, mp0, mp1, cp0, wp, serial, main, modem, bready, bret,
                   last_mode, ipthread>>

\* Mutant: the ip thread is not told of a change of mode.
BridgeModeSilent(i) ==
    /\ bpc[i] = "mode"
    /\ last_mode' = [last_mode EXCEPT ![i] = modem[i].cmd_mode]
    /\ Goto(i, "select")
    /\ UNCHANGED <<kernel, mp0, mp1, cp0, cp1, wp, serial, main, modem, bready, bret,
                   last_conn, ipthread>>

BridgeMode(i) ==
    /\ bpc[i] = "mode"
    /\ cp1' = [cp1 EXCEPT ![i] = @ \/ last_mode[i] # modem[i].cmd_mode]
    /\ last_mode' = [last_mode EXCEPT ![i] = modem[i].cmd_mode]
    /\ Goto(i, "select")
    /\ UNCHANGED <<kernel, mp0, mp1, cp0, wp, serial, main, modem, bready, bret,
                   last_conn, ipthread>>

Readable(i) == {s \in Sources : \/ s = "serial" /\ serial[i] # "NONE"
                                \/ s = "wp" /\ wp[i]
                                \/ s = "cp0" /\ cp0[i]
                                \/ s = "mp1" /\ mp1[i]}

BridgeSelect(i) ==
    /\ bpc[i] = "select" /\ Readable(i) # {}
    /\ bready' = [bready EXCEPT ![i] = Readable(i)]
    /\ Goto(i, First(Readable(i)))
    /\ UNCHANGED <<kernel, mp0, mp1, cp0, cp1, wp, serial, main, modem, bret,
                   last_conn, last_mode, ipthread>>

\* select() timed out while a call rings.
BridgeRing(i) ==
    /\ bpc[i] = "select" /\ Readable(i) = {} /\ Timer(modem[i]) = "RING"
    /\ IF NoAnswer(modem[i])
       THEN BeginHangUp(i)
       ELSE SetModem(i, SendRing(modem[i])) /\ Goto(i, "conn")
            /\ UNCHANGED <<kernel, bret>>
    /\ UNCHANGED <<mp0, mp1, cp0, cp1, wp, serial, main, bready,
                   last_conn, last_mode, ipthread>>

\* ATD went off hook; any input hangs up again.
OffHookIdle(i) == modem[i].conn_type = "NONE" /\ modem[i].off_hook

\* The DTE completes an escape sequence in data mode.
BridgeEscape(i) ==
    /\ bpc[i] = "select" /\ Readable(i) = {} /\ ~modem[i].cmd_mode /\ ~OffHookIdle(i)
    /\ SetModem(i, [modem[i] EXCEPT !.cmd_mode = TRUE])
    /\ Goto(i, "conn")
    /\ UNCHANGED <<kernel, mp0, mp1, cp0, cp1, wp, serial, main, bready, bret,
                   last_conn, last_mode, ipthread>>

\* Input that hangs up: ATH, ATA without a call, or anything after ATD alone.
SerialHangsUp(i) ==
    \/ OffHookIdle(i)
    \/ modem[i].cmd_mode /\ serial[i] = "ATH"
    \/ modem[i].cmd_mode /\ serial[i] = "ATA" /\ AnswerHangsUp(modem[i])

\* ATA answers and ATD goes off hook; in data mode all is sent to the line.
Obey(m, t) == IF ~m.cmd_mode THEN m ELSE IF t = "ATD" THEN OffHook(m) ELSE Answer(m)

BridgeSerial(i) ==
    /\ bpc[i] = "serial" /\ Handled(i)
    /\ serial' = [serial EXCEPT ![i] = "NONE"]
    /\ IF SerialHangsUp(i) THEN BeginHangUp(i)
       ELSE /\ Goto(i, Following(i))
            /\ SetModem(i, Obey(modem[i], serial[i]))
            /\ UNCHANGED <<kernel, bret>>
    /\ UNCHANGED <<mp0, mp1, cp0, cp1, wp, main, last_conn, last_mode, ipthread>>

BridgeCtrl(i) ==
    /\ bpc[i] = "wp" /\ Handled(i) /\ BeginHangUp(i)
    /\ wp' = [wp EXCEPT ![i] = FALSE]
    /\ UNCHANGED <<mp0, mp1, cp0, cp1, serial, main, last_conn, last_mode, ipthread>>

BridgePeerClosed(i) ==
    /\ bpc[i] = "cp0" /\ Handled(i) /\ BeginHangUp(i)
    /\ cp0' = [cp0 EXCEPT ![i] = FALSE]
    /\ UNCHANGED <<mp0, mp1, cp1, wp, serial, main, last_conn, last_mode, ipthread>>

BridgeHung(i) ==
    /\ bpc[i] = "hung"
    /\ SetModem(i, DisconnectEnd(modem[i]))
    /\ Goto(i, bret[i])
    /\ bret' = [bret EXCEPT ![i] = "conn"]
    /\ UNCHANGED <<kernel, mp0, mp1, cp0, cp1, wp, serial, main, bready,
                   last_conn, last_mode, ipthread>>

BridgeParent(i) ==
    /\ bpc[i] = "mp1" /\ Handled(i) /\ Goto(i, "accept")
    /\ mp1' = [mp1 EXCEPT ![i] = FALSE]
    /\ UNCHANGED <<kernel, mp0, cp0, cp1, wp, serial, main, modem, bret,
                   last_conn, last_mode, ipthread>>

\* Mutant: main is not told that the call was accepted.
BridgeAcceptSilent(i) ==
    /\ bpc[i] = "accept" /\ backlog # <<>>
    /\ \E f \in Fds : /\ IsLeast(f, Fds \ OpenFds)
                      /\ SetModem(i, Accept(modem[i], f))
                      /\ peer' = [peer EXCEPT ![f] = Head(backlog)]
    /\ backlog' = Tail(backlog)
    /\ Goto(i, "conn")
    /\ UNCHANGED <<caller, unread, mp0, mp1, cp0, cp1, wp, serial, main, bready, bret,
                   last_conn, last_mode, ipthread>>

\* accept_connection; accept() waits for a caller to come.
BridgeAccept(i) ==
    /\ bpc[i] = "accept" /\ backlog # <<>>
    /\ \E f \in Fds : /\ IsLeast(f, Fds \ OpenFds)
                      /\ SetModem(i, Accept(modem[i], f))
                      /\ peer' = [peer EXCEPT ![f] = Head(backlog)]
    /\ backlog' = Tail(backlog)
    /\ mp0' = [mp0 EXCEPT ![i] = TRUE]
    /\ Goto(i, "conn")
    /\ UNCHANGED <<caller, unread, mp1, cp0, cp1, wp, serial, main, bready, bret,
                   last_conn, last_mode, ipthread>>

\* accept() fails for want of a descriptor: main is not told.
BridgeAcceptFails(i) ==
    /\ bpc[i] = "accept" /\ OpenFds = Fds
    /\ SetModem(i, [modem[i] EXCEPT !.fd = NoFd])
    /\ Goto(i, "conn")
    /\ UNCHANGED <<kernel, mp0, mp1, cp0, cp1, wp, serial, main, bready, bret,
                   last_conn, last_mode, ipthread>>

\* What the thread does on its own; an escape is the DTE's doing.
BridgeStep(i) ==
    \/ BridgeConn(i) \/ BridgeMode(i) \/ BridgeSelect(i) \/ BridgeRing(i)
    \/ BridgeSerial(i) \/ BridgeCtrl(i) \/ BridgePeerClosed(i) \/ BridgeHung(i)
    \/ BridgeParent(i) \/ BridgeAccept(i) \/ BridgeAcceptFails(i)

---------------------------------------------------------------------------
(* The ip thread of modem i *)

IpGoto(i, pc) == ipc' = [ipc EXCEPT ![i] = pc]

\* Which descriptor to watch, besides the pipe.
IpArm(i) ==
    LET m == modem[i]
        watches == /\ ~action_pending[i] /\ m.conn_type # "NONE" /\ ~m.cmd_mode
                   /\ m.fd # NoFd /\ m.valid_conn
    IN  /\ ipc[i] = "arm"
        /\ watched' = [watched EXCEPT ![i] = IF watches THEN m.fd ELSE NoFd]
        /\ sock' = [sock EXCEPT ![i] = IF watches THEN peer[m.fd] ELSE Nobody]
        /\ IpGoto(i, "select")
        /\ UNCHANGED <<kernel, mp0, mp1, cp0, cp1, wp, serial, main, bridge,
                       action_pending, notified>>

\* A socket is readable when the caller sent something or hung up.
Gone == {c \in Callers : caller[c] = "gone"}
Ready(c) == c \in unread \union Gone

\* select(): the socket it was called with, whatever became of its descriptor.
IpSelect(i) ==
    /\ ipc[i] = "select" /\ (cp1[i] \/ Ready(sock[i]))
    /\ notified' = [notified EXCEPT ![i] = cp1[i]]
    /\ watched' = [watched EXCEPT ![i] = IF Ready(sock[i]) THEN @ ELSE NoFd]
    /\ IpGoto(i, "check")
    /\ UNCHANGED <<kernel, mp0, mp1, cp0, cp1, wp, serial, main, bridge,
                   action_pending, sock>>

\* valid_conn && FD_ISSET(line_data.fd, &readfs)
IpCheck(i) ==
    LET m == modem[i]
        reads == m.valid_conn /\ m.fd # NoFd /\ m.fd = watched[i]
    IN  /\ ipc[i] = "check"
        /\ watched' = [watched EXCEPT ![i] = NoFd]
        /\ sock' = [sock EXCEPT ![i] = Nobody]
        /\ IpGoto(i, IF reads THEN "recv" ELSE "pipe")
        /\ UNCHANGED <<kernel, mp0, mp1, cp0, cp1, wp, serial, main, bridge,
                       action_pending, notified>>

\* recv() on the socket of c: data goes to the serial port; at the end of the
\* stream, or when the descriptor is closed (Nobody), there is none.
Receive(i, c) ==
    /\ \/ c \in unread /\ unread' = unread \ {c} /\ IpGoto(i, "pipe")
       \/ c \in (Gone \ unread) \union {Nobody} /\ IpGoto(i, "report") /\ UNCHANGED unread
    /\ sock' = [sock EXCEPT ![i] = Nobody]

\* recv() on the descriptor as it is now, whoever is behind it; it blocks when
\* that caller has sent nothing.
IpRecv(i) ==
    LET c == IF modem[i].fd = NoFd THEN Nobody ELSE peer[modem[i].fd]
    IN  /\ ipc[i] = "recv"
        /\ \/ Receive(i, c)
           \/ /\ c # Nobody /\ ~Ready(c)
              /\ sock' = [sock EXCEPT ![i] = c]
              /\ IpGoto(i, "blocked") /\ UNCHANGED unread
        /\ UNCHANGED <<backlog, peer, caller, mp0, mp1, cp0, cp1, wp, serial, main,
                       bridge, action_pending, watched, notified>>

\* The socket recv() blocks on does not change when its descriptor does.
IpUnblock(i) ==
    /\ ipc[i] = "blocked" /\ Receive(i, sock[i])
    /\ UNCHANGED <<backlog, peer, caller, mp0, mp1, cp0, cp1, wp, serial, main,
                   bridge, action_pending, watched, notified>>

IpReport(i) ==
    /\ ipc[i] = "report"
    /\ cp0' = [cp0 EXCEPT ![i] = TRUE]
    /\ action_pending' = [action_pending EXCEPT ![i] = TRUE]
    /\ IpGoto(i, "pipe")
    /\ UNCHANGED <<kernel, mp0, mp1, cp1, wp, serial, main, bridge, watched,
                   sock, notified>>

IpPipe(i) ==
    /\ ipc[i] = "pipe"
    /\ cp1' = [cp1 EXCEPT ![i] = @ /\ ~notified[i]]
    /\ action_pending' = [action_pending EXCEPT ![i] = @ /\ ~notified[i]]
    /\ notified' = [notified EXCEPT ![i] = FALSE]
    /\ IpGoto(i, "arm")
    /\ UNCHANGED <<kernel, mp0, mp1, cp0, wp, serial, main, bridge, watched, sock>>

IpStep(i) == \/ IpArm(i) \/ IpSelect(i) \/ IpCheck(i) \/ IpRecv(i)
             \/ IpUnblock(i) \/ IpReport(i) \/ IpPipe(i)

---------------------------------------------------------------------------

Next == \/ Main
        \/ \E i \in Modems : BridgeStep(i) \/ BridgeEscape(i) \/ IpStep(i)
                             \/ Type(i) \/ DropDtr(i)
        \/ \E c \in Callers : Call(c) \/ HangUp(c) \/ Send(c)

Spec == Init /\ [][Next]_vars

---------------------------------------------------------------------------
(* Properties *)

\* A thread that goes to accept() finds a caller there: bridges are told to
\* pick up at most once per caller ("first try for a modem that is listening
\* ... now, send to any non-active modem", tcpser.c:107-126), so neither a
\* bridge nor main is ever left waiting for the next one.
AcceptFindsCaller == /\ \A i \in Modems : bpc[i] = "accept" => backlog # <<>>
                     /\ mpc = "busy" => backlog # <<>>

\* An offer that main made to modem i and has not heard the end of.
InFlight(i) == mp1[i] \/ "mp1" \in bready[i] \/ bpc[i] = "accept" \/ mp0[i]

PendingIsInFlight == accept_pending => \E i \in Modems : InFlight(i)

\* An accept() that returned although there is no descriptor.
AcceptFailed == OpenFds = Fds /\ \E i \in Modems : bpc[i] = "accept" /\ bpc'[i] # "accept"

\* While main refuses to look at new callers (accept_pending), a bridge owes it
\* an answer; the only step that leaves it waiting for nobody is an accept() that
\* fails for want of a descriptor (bridge.c:30-31 returns without MSG_ACCEPTED).
OffersAreAnswered == [][PendingIsInFlight => PendingIsInFlight' \/ AcceptFailed]_vars

\* A modem closes no descriptor but its own: every open one belongs to the one
\* modem that opened it, although the next accept() of any thread reuses a
\* descriptor that is closed and that a modem still has in line_data.fd
\* (line.c:125, bridge.c:154).
DescriptorsApart ==
    /\ OpenFds = UNION {modem[i].open : i \in Modems}
    /\ \A i, j \in Modems : i # j => modem[i].open \intersect modem[j].open = {}

\* The descriptor that a modem takes to be its caller's is one it has open.
LineIsOpen == \A i \in Modems : modem[i].valid_conn /\ bpc[i] # "hung"
                                   => modem[i].fd \in modem[i].open

\* The modem that is talking to c.
Online(i, c) == /\ modem[i].valid_conn /\ modem[i].fd # NoFd /\ peer[modem[i].fd] = c
                /\ modem[i].conn_type # "NONE" /\ ~modem[i].cmd_mode

\* A modem that took a caller is busy until that caller is gone ("Informing
\* parent task that I am busy", bridge.c:43): it takes no other meanwhile.
BusyModemTakesNoCall ==
    \A i \in Modems : bpc[i] = "accept" => ~modem[i].valid_conn

\* What a caller sends reaches the serial port, and that it hung up is noticed,
\* while the modem is online, as long as no modem takes a second call: the ip
\* thread never goes on sleeping on a stale idea of what to watch, although it
\* learns of changes only from NOTIFY (bridge.c:303-328).
CallerIsHeard == []BusyModemTakesNoCall =>
    \A i \in Modems : \A c \in Callers :
        (Online(i, c) /\ Ready(c)) ~> ~(Online(i, c) /\ Ready(c))

\* Every caller is accepted or told BUSY.
CallersAreServed == \A c \in Callers :
    (c \in Waiting) ~> (c \notin Waiting)

---------------------------------------------------------------------------

\* Every thread that can run runs; callers and the DTE owe nothing.
FairSpec == /\ Spec /\ WF_vars(Main)
            /\ \A i \in Modems : WF_vars(BridgeStep(i)) /\ WF_vars(IpStep(i))
=============================================================================
