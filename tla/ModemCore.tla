----------------------------- MODULE ModemCore -----------------------------
(***************************************************************************)
(* The Hayes modem that tcpser emulates (tcpser/src/modem_core.c and the   *)
(* line_* calls it makes), as operators on one modem record.  A record     *)
(* holds the fields of struct modem_config that decide what the modem does *)
(* next:                                                                   *)
(*                                                                         *)
(*   cmd_mode, off_hook, line_ringing, conn_type, rings   the call         *)
(*   valid_conn, fd              line_data: the caller's descriptor        *)
(*   pre_break_delay, break_len  the "+++" escape recogniser               *)
(*   s0, s30                     the S registers the control flow reads    *)
(*   direct_conn                 a permanent link (option -D)              *)
(*                                                                         *)
(* and three things outside the struct: dcd, the carrier last put on the   *)
(* serial port; open, the descriptors this modem opened and nobody closed; *)
(* resp, the result codes sent since the bridge last waited.               *)
(*                                                                         *)
(* HayesModem runs these operators under one sequential bridge loop, Tcpser*)
(* under all of tcpser's threads.                                          *)
(***************************************************************************)
EXTENDS Naturals

CONSTANTS
    NoFd,        \* line_data.fd when there is no descriptor (-1 in the code)
    RingLimit    \* rings before NO ANSWER (10 in the code)

ASSUME RingLimitAssumption == RingLimit \in Nat \ {0}

ConnTypes == {"NONE", "OUTGOING", "INCOMING"}
ResultCodes == {"OK", "CONNECT", "RING", "NO CARRIER", "ERROR"}

\* Every modem whose descriptors are in Fds.
ModemRecord(Fds) ==
    [cmd_mode : BOOLEAN, off_hook : BOOLEAN, line_ringing : BOOLEAN,
     conn_type : ConnTypes, rings : Nat,
     valid_conn : BOOLEAN, fd : Fds \union {NoFd}, open : SUBSET Fds,
     pre_break_delay : BOOLEAN, break_len : 0 .. 3,
     s0 : Nat, s30 : Nat, direct_conn : BOOLEAN, dcd : BOOLEAN,
     resp : SUBSET ResultCodes]

\* mdm_init_config, then the init string (-i "s0=...") that run_bridge parses.
InitModem(s0, s30, direct) ==
    [cmd_mode |-> TRUE, off_hook |-> FALSE, line_ringing |-> FALSE,
     conn_type |-> "NONE", rings |-> 0,
     valid_conn |-> FALSE, fd |-> NoFd, open |-> {},
     pre_break_delay |-> FALSE, break_len |-> 0,
     s0 |-> s0, s30 |-> s30, direct_conn |-> direct, dcd |-> FALSE,
     resp |-> {}]

\* run_bridge dials the number of a direct connection before its loop (option -D),
\* and neither takes the phone off the hook nor raises the carrier.
DialAtStart(m, f) == [m EXCEPT !.fd = f, !.valid_conn = TRUE, !.open = {f},
                               !.conn_type = "OUTGOING"]

Respond(m, code) == [m EXCEPT !.resp = @ \union {code}]

---------------------------------------------------------------------------
(* Control lines and hook state *)

\* DCD follows the connection (AT&C0, which pins it high, is left out).
SetControlLines(m) == [m EXCEPT !.dcd = (m.conn_type # "NONE")]

OffHook(m) == [m EXCEPT !.off_hook = TRUE, !.cmd_mode = FALSE]

ClearBreak(m) == [m EXCEPT !.break_len = 0, !.pre_break_delay = FALSE]

---------------------------------------------------------------------------
(* Hanging up.  The code clears the mode flags and closes the socket first *)
(* and only then forgets the connection; other threads can look in between,*)
(* so the two halves have names.                                           *)

\* The descriptor that line_disconnect closes: none for a direct connection
\* or a line without a caller.
ClosedBy(m) == IF ~m.direct_conn /\ m.valid_conn THEN {m.fd} ELSE {}

\* Mutants: the ring, or the escape recogniser, outlives the call.
DisconnectBeginRinging(m) ==
    [ClearBreak(m) EXCEPT !.cmd_mode = TRUE, !.off_hook = FALSE,
                          !.open = @ \ ClosedBy(m)]
DisconnectBeginMidBreak(m) ==
    [m EXCEPT !.cmd_mode = TRUE, !.off_hook = FALSE,
              !.line_ringing = FALSE, !.open = @ \ ClosedBy(m)]

DisconnectBegin(m) ==
    [ClearBreak(m) EXCEPT !.cmd_mode = TRUE, !.off_hook = FALSE,
                          !.line_ringing = FALSE, !.open = @ \ ClosedBy(m)]

\* Mutants: the call, or the descriptor, is not forgotten.
DisconnectEndConnected(m) ==
    IF m.direct_conn THEN m
    ELSE SetControlLines([m EXCEPT !.valid_conn = FALSE, !.rings = 0])
DisconnectEndStale(m) ==
    IF m.direct_conn THEN m
    ELSE SetControlLines([m EXCEPT !.conn_type = "NONE", !.rings = 0])

DisconnectEnd(m) ==
    IF m.direct_conn THEN m
    ELSE LET idle == SetControlLines([m EXCEPT !.valid_conn = FALSE,
                                               !.conn_type = "NONE", !.rings = 0])
         IN  IF m.conn_type = "NONE" THEN idle ELSE Respond(idle, "NO CARRIER")

Disconnect(m) == DisconnectEnd(DisconnectBegin(m))

---------------------------------------------------------------------------
(* Answering, ringing and dialling *)

\* mdm_answer hangs up when the line neither rings nor has an incoming call.
AnswerHangsUp(m) == ~m.line_ringing /\ m.conn_type # "INCOMING"

\* Mutant: the carrier is not raised.
AnswerNoCarrier(m) ==
    IF AnswerHangsUp(m) THEN Disconnect(m)
    ELSE IF m.line_ringing
         THEN Respond(OffHook([m EXCEPT !.conn_type = "INCOMING"]), "CONNECT")
         ELSE OffHook(m)

Answer(m) ==
    IF AnswerHangsUp(m) THEN Disconnect(m)
    ELSE IF m.line_ringing
         THEN Respond(SetControlLines(OffHook([m EXCEPT !.conn_type = "INCOMING"])),
                      "CONNECT")
         ELSE SetControlLines(OffHook(m))

AutoAnswers(m) == ~m.cmd_mode \/ (m.s0 # 0 /\ m.rings >= m.s0)

\* Mutant: the rings are counted down.
SendRingDown(m) ==
    LET rung == Respond([m EXCEPT !.line_ringing = TRUE, !.rings = @ - 1], "RING")
    IN  IF AutoAnswers(rung) THEN Answer(rung) ELSE rung

SendRing(m) ==
    LET rung == Respond([m EXCEPT !.line_ringing = TRUE, !.rings = @ + 1], "RING")
    IN  IF AutoAnswers(rung) THEN Answer(rung) ELSE rung

\* accept_connection, once accept() returned the descriptor f.
Accept(m, f) ==
    LET taken == [m EXCEPT !.fd = f, !.valid_conn = TRUE, !.open = @ \union {f}]
    IN  IF m.direct_conn
        THEN [OffHook(taken) EXCEPT !.conn_type = "INCOMING", !.cmd_mode = TRUE]
        ELSE SendRing([taken EXCEPT !.rings = 0])

\* mdm_connect and line_connect; f is the descriptor of the number dialled,
\* NoFd when nobody answers there.  line_init_config forgets, without closing
\* it, the descriptor the line had.
Dial(m, f) ==
    IF m.conn_type # "NONE" THEN OffHook(m)
    ELSE LET line == [OffHook(m) EXCEPT !.fd = f, !.valid_conn = (f # NoFd),
                                        !.open = @ \union ({f} \ {NoFd}),
                                        !.conn_type = "OUTGOING"]
         IN  IF f # NoFd THEN Respond(SetControlLines(line), "CONNECT")
                         ELSE Disconnect(line)

---------------------------------------------------------------------------
(* The escape sequence: guard time, three break characters, guard time *)

\* Mutant: any number of break characters is counted.
BreakCharUnbounded(m, isBreak) ==
    IF isBreak THEN [m EXCEPT !.break_len = @ + 1] ELSE ClearBreak(m)

\* The body of mdm_parse_data's loop, for one character of the data stream.
BreakChar(m, isBreak) ==
    IF isBreak /\ m.break_len < 3 THEN [m EXCEPT !.break_len = @ + 1]
                                  ELSE ClearBreak(m)

\* The timer run_bridge arms before it waits.
Timer(m) ==
    IF ~m.cmd_mode
    THEN IF ~m.pre_break_delay \/ m.break_len = 3 THEN "GUARD"
         ELSE IF m.break_len > 0 THEN "INTERCHAR"
         ELSE IF m.s30 # 0 THEN "INACTIVITY" ELSE "NONE"
    ELSE IF m.conn_type = "NONE" /\ m.valid_conn THEN "RING" ELSE "NONE"

\* Mutant: one break character is as good as three.
EscapeTimeoutEarly(m) ==
    IF m.pre_break_delay /\ m.break_len > 0
    THEN ClearBreak(Respond([m EXCEPT !.cmd_mode = TRUE], "OK"))
    ELSE IF ~m.pre_break_delay THEN [m EXCEPT !.pre_break_delay = TRUE] ELSE m

\* mdm_handle_timeout, when it does not hang up.
EscapeTimeout(m) ==
    IF m.pre_break_delay /\ m.break_len = 3
    THEN ClearBreak(Respond([m EXCEPT !.cmd_mode = TRUE], "OK"))
    ELSE IF ~m.pre_break_delay THEN [m EXCEPT !.pre_break_delay = TRUE]
    ELSE IF m.break_len > 0 THEN ClearBreak(m) ELSE m

\* mdm_handle_timeout hangs up: the DTE was silent for s30.
InactiveTooLong(m) == m.pre_break_delay /\ m.break_len = 0 /\ m.s30 # 0

HandleTimeout(m) == IF InactiveTooLong(m) THEN Disconnect(m) ELSE EscapeTimeout(m)

\* The ring timer popped: after RingLimit rings a call that nobody is to
\* answer automatically is dropped.
NoAnswer(m) == m.s0 = 0 /\ m.rings = RingLimit

\* Mutant: nobody counts.
RingTimeoutForever(m) == SendRing(m)

RingTimeout(m) == IF NoAnswer(m) THEN Disconnect(m) ELSE SendRing(m)

---------------------------------------------------------------------------
(* One command of an AT command line, as mdm_parse_cmd's loop executes it. *)
(* Commands that only change how results are worded (E, Q, V, W, X, &K,    *)
(* ...) are the command "I"; one the parser rejects is "ERR".              *)

Command(m, c) ==
    CASE c.op \in {"A", "O", "H1"} -> Answer(m)
      [] c.op = "H0"  -> Disconnect(m)
      [] c.op = "D"   -> Dial(m, c.fd)
      [] c.op = "D0"  -> OffHook(m)               \* no number: only off hook
      [] c.op = "S0"  -> [m EXCEPT !.s0 = c.val]
      [] c.op = "ERR" -> Respond(m, "ERROR")
      [] c.op = "I"   -> m

\* Commands after which the rest of the line is not looked at.
EndsLine(c) == c.op \in {"A", "O", "D", "D0", "ERR"}

\* The end of the line is reached: OK, unless a command left command mode.
EndOfLine(m) == IF m.cmd_mode THEN Respond(m, "OK") ELSE m

=============================================================================
