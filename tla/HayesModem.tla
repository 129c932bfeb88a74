----------------------------- MODULE HayesModem -----------------------------
(***************************************************************************)
(* One emulated modem under run_bridge's loop (tcpser/src/bridge.c), seen  *)
(* from outside: the DTE (the BBS) writes to the serial port, callers come *)
(* and go, DTR drops and timers pop.  The loops over the characters that   *)
(* one read() returned are unrolled into steps: "chars" is the loop of     *)
(* mdm_parse_data, "line" the loop of mdm_parse_cmd, "wait" the select().  *)
(* The threads around the bridge are in Tcpser.                            *)
(***************************************************************************)
EXTENDS ModemCore, FiniteSets

CONSTANTS
    Fds,          \* the descriptors the process may have
    S0Values,     \* values the DTE gives register S0
    S30,          \* inactivity timeout, 0 when off
    Direct,       \* direct_conn
    MaxChunk,     \* characters one read() returns at most (256 in the code)
    MaxLine,      \* commands on one AT line at most
    MaxRings      \* the ring counter saturates here; RingLimit must be below

ASSUME HayesAssumption ==
    /\ S0Values \subseteq Nat /\ S0Values # {}
    /\ S30 \in Nat /\ Direct \in BOOLEAN
    /\ MaxChunk \in Nat \ {0} /\ MaxLine \in Nat \ {0}
    /\ MaxRings \in Nat /\ RingLimit < MaxRings
    /\ NoFd \notin Fds

VARIABLES
    m,          \* the modem record
    pc,         \* where the bridge is: "wait", "chars" or "line"
    left,       \* characters or commands left of what was read
    counting,   \* pre_break_delay, as it was when the chunk was read
    seen        \* history: "+" sent since the last guard time, or Noisy

vars == <<m, pc, left, counting, seen>>

Noisy == 4

\* The commands a DTE sends.
Commands == [op : {"A", "O", "H0", "H1", "D0", "ERR", "I"}]
            \union [op : {"D"}, fd : Fds \union {NoFd}]
            \union [op : {"S0"}, val : S0Values]

TypeOK == /\ m \in ModemRecord(Fds)
          /\ pc \in {"wait", "chars", "line"}
          /\ left \in Nat
          /\ counting \in BOOLEAN
          /\ seen \in 0 .. Noisy

Init == /\ \E s0 \in S0Values :
              LET new == InitModem(s0, S30, Direct)
              IN  m = new \/ (Direct /\ \E f \in Fds : m = DialAtStart(new, f))
        /\ pc = "wait" /\ left = 0 /\ counting = FALSE
        /\ seen = Noisy

\* The modem as a new iteration of the bridge loop finds it.
Heard == [m EXCEPT !.resp = {}]

\* What the DTE has sent since the last guard time: s, for as long as the
\* modem stays in data mode.
Recall(s) == seen' = IF m.cmd_mode \/ m'.cmd_mode THEN Noisy ELSE s

\* One iteration that handles a single event and waits again.
Handle(new) == /\ pc = "wait"
               /\ m' = new
               /\ UNCHANGED <<pc, left, counting>>

\* ATD without a number took the line off hook: any input hangs up again.
OffHookIdle == m.conn_type = "NONE" /\ m.off_hook

---------------------------------------------------------------------------
(* The serial port *)

OffHookInput == /\ OffHookIdle
                /\ Handle(Respond(Disconnect(Heard), "OK"))
                /\ Recall(seen)

ReadChunk == /\ pc = "wait" /\ ~m.cmd_mode /\ ~OffHookIdle
             /\ pc' = "chars" /\ left' \in 1 .. MaxChunk
             /\ counting' = m.pre_break_delay
             /\ m' = Heard
             /\ UNCHANGED seen

NextChar(isBreak) == /\ pc = "chars"
                     /\ m' = IF counting THEN BreakChar(m, isBreak) ELSE m
                     /\ left' = left - 1
                     /\ pc' = IF left = 1 THEN "wait" ELSE "chars"
                     /\ Recall(IF isBreak /\ seen < 3 THEN seen + 1 ELSE Noisy)
                     /\ UNCHANGED counting

ReadLine == /\ pc = "wait" /\ m.cmd_mode /\ ~OffHookIdle
            /\ pc' = "line" /\ left' = MaxLine
            /\ m' = Heard
            /\ UNCHANGED <<counting, seen>>

NextCommand(c) == /\ pc = "line" /\ left > 0
                  /\ c.op = "D" => c.fd \notin m.open
                  /\ m' = Command(m, c)
                  /\ left' = left - 1
                  /\ pc' = IF EndsLine(c) THEN "wait" ELSE "line"
                  /\ Recall(seen)
                  /\ UNCHANGED counting

EndLine == /\ pc = "line"
           /\ m' = EndOfLine(m)
           /\ pc' = "wait"
           /\ Recall(seen)
           /\ UNCHANGED <<left, counting>>

---------------------------------------------------------------------------
(* Timers, the network and the control lines *)

EscapeTimer == /\ Timer(m) \in {"GUARD", "INTERCHAR", "INACTIVITY"}
               /\ Handle(HandleTimeout(Heard))
               /\ Recall(IF seen \in {0, Noisy} THEN 0 ELSE Noisy)

\* The model's bound on the counter, far above any value it is compared with.
Capped(n) == [n EXCEPT !.rings = IF @ > MaxRings THEN MaxRings ELSE @]

RingTimer == /\ Timer(m) = "RING"
             /\ Handle(Capped(RingTimeout(Heard)))
             /\ Recall(seen)

\* MSG_ACCEPT.  main looked at off_hook before it wrote it, in another thread, and
\* may write it twice (tcpser.c:109, 119): by the time the bridge reads it, the
\* DTE may have taken the phone off the hook, dialled, or escaped from a call.
IncomingCall == /\ \E f \in Fds \ m.open : Handle(Accept(Heard, f))
                /\ Recall(seen)

\* ip_thread watches the socket in data mode only.  A direct connection is
\* given up for as long as mdm_disconnect runs.
PeerCloses ==
    /\ ~m.cmd_mode /\ m.conn_type # "NONE" /\ m.valid_conn
    /\ Handle([Disconnect([Heard EXCEPT !.direct_conn = FALSE])
                 EXCEPT !.direct_conn = Direct])
    /\ Recall(seen)

DtrDown == Handle(Disconnect(Heard)) /\ Recall(seen)

Bridge == \/ \E b \in BOOLEAN : NextChar(b)
          \/ \E c \in Commands : NextCommand(c)
          \/ EndLine
          \/ EscapeTimer
          \/ RingTimer

Next == \/ Bridge
        \/ OffHookInput \/ ReadChunk \/ ReadLine
        \/ IncomingCall \/ PeerCloses \/ DtrDown

Spec == Init /\ [][Next]_vars

\* The bridge thread runs, and an armed timer pops when nothing else happens.
FairSpec == Spec /\ WF_vars(Bridge)

---------------------------------------------------------------------------
(* Properties *)

\* A modem that is on hook is idle: it is in command mode and has no
\* connection.  main reads off_hook, and nothing else, to decide that a modem
\* may be given the next caller (tcpser.c:109, 119).
OnHookIsIdle == ~m.off_hook => m.conn_type = "NONE" /\ m.cmd_mode

\* The modem never rings, and never answers, without a caller on the line:
\* line_ringing outlives the answer and is what ATA looks at
\* (modem_core.c:250), so it must not outlive the caller.
RingingHasCaller == m.line_ringing => m.valid_conn /\ m.fd \in m.open

\* The DTE sees carrier exactly while there is a connection
\* (mdm_set_control_lines is called by hand after each change of conn_type).
CarrierIsCall == pc = "wait" => (m.dcd <=> m.conn_type # "NONE")

\* The modem never enters command mode with a half recognised escape left
\* over: the next call starts with a clean recogniser (modem_core.c:657, 316).
RecogniserReset == m.cmd_mode => m.break_len = 0 /\ ~m.pre_break_delay

Escape == INSTANCE HayesEscape WITH
    mode <- IF m.cmd_mode THEN "command" ELSE "data",
    call <- m.conn_type # "NONE"

\* The escape sequence works as Hayes defined it (README.md:148): the modem
\* implements HayesEscape.
EscapeIsHayes == Escape!Spec

Ringing == m.cmd_mode /\ m.conn_type = "NONE" /\ m.valid_conn

\* A DTE that has stopped talking lets every ringing call come to an end: it
\* is answered, or dropped after RingLimit rings (bridge.c:381-393).
RingingEnds == <>[][~ReadLine]_vars => (Ringing ~> ~Ringing)
=============================================================================
