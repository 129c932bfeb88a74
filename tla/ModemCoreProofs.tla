-------------------------- MODULE ModemCoreProofs --------------------------
(***************************************************************************)
(* Lemmas about the operators of ModemCore, for any set F of descriptors:  *)
(* they map modem records to modem records, and keep the hook, the line    *)
(* and the carrier of a modem without a direct link consistent.            *)
(***************************************************************************)
EXTENDS ModemCore, TLAPS

---------------------------------------------------------------------------
(* The operators of ModemCore map modem records to modem records. *)

\* The smallest changes the code makes to a modem.
LEMMA SmallStepsType ==
    ASSUME NEW F, NEW r \in ModemRecord(F), NEW code \in ResultCodes
    PROVE  /\ Respond(r, code) \in ModemRecord(F)
           /\ SetControlLines(r) \in ModemRecord(F)
           /\ OffHook(r) \in ModemRecord(F)
           /\ ClearBreak(r) \in ModemRecord(F)
<1>1. Respond(r, code) \in ModemRecord(F)
  BY DEF ModemRecord, Respond, ResultCodes
<1>2. SetControlLines(r) \in ModemRecord(F)
  BY DEF ModemRecord, SetControlLines
<1>3. OffHook(r) \in ModemRecord(F)
  BY DEF ModemRecord, OffHook
<1>4. ClearBreak(r) \in ModemRecord(F)
  <2>1. 0 \in 0 .. 3
    OBVIOUS
  <2>2. QED
    BY <2>1 DEF ModemRecord, ClearBreak
<1>5. QED
  BY <1>1, <1>2, <1>3, <1>4

LEMMA DisconnectType ==
    ASSUME NEW F, NEW r \in ModemRecord(F)
    PROVE  /\ DisconnectBegin(r) \in ModemRecord(F)
           /\ DisconnectEnd(r) \in ModemRecord(F)
           /\ Disconnect(r) \in ModemRecord(F)
<1>1. ASSUME NEW q \in ModemRecord(F) PROVE DisconnectBegin(q) \in ModemRecord(F)
  <2>1. ClearBreak(q) \in ModemRecord(F)
    BY SmallStepsType DEF ResultCodes
  <2>2. QED
    BY <2>1 DEF DisconnectBegin, ModemRecord
<1>2. ASSUME NEW q \in ModemRecord(F) PROVE DisconnectEnd(q) \in ModemRecord(F)
  <2>. DEFINE cleared == [q EXCEPT !.valid_conn = FALSE,
                                   !.conn_type = "NONE", !.rings = 0]
  <2>1. cleared \in ModemRecord(F)
    BY DEF ModemRecord, ConnTypes
  <2>2. SetControlLines(cleared) \in ModemRecord(F)
    BY <2>1, SmallStepsType DEF ResultCodes
  <2>. HIDE DEF cleared
  <2>3. Respond(SetControlLines(cleared), "NO CARRIER") \in ModemRecord(F)
    BY <2>2, SmallStepsType DEF ResultCodes
  <2>4. QED
    BY <2>2, <2>3 DEF DisconnectEnd, cleared
<1>3. QED
  BY <1>1, <1>2 DEF Disconnect

LEMMA AnswerType ==
    ASSUME NEW F, NEW r \in ModemRecord(F)
    PROVE  Answer(r) \in ModemRecord(F)
<1>1. CASE AnswerHangsUp(r)
  BY <1>1, DisconnectType DEF Answer
<1>2. CASE ~AnswerHangsUp(r) /\ r.line_ringing
  <2>. DEFINE called == [r EXCEPT !.conn_type = "INCOMING"]
  <2>1. called \in ModemRecord(F)
    BY DEF ModemRecord, ConnTypes
  <2>2. OffHook(called) \in ModemRecord(F)
    BY <2>1, SmallStepsType DEF ResultCodes
  <2>. HIDE DEF called
  <2>3. SetControlLines(OffHook(called)) \in ModemRecord(F)
    BY <2>2, SmallStepsType DEF ResultCodes
  <2>4. Respond(SetControlLines(OffHook(called)), "CONNECT") \in ModemRecord(F)
    BY <2>3, SmallStepsType DEF ResultCodes
  <2>5. QED
    BY <2>4, <1>2 DEF Answer, called
<1>3. CASE ~AnswerHangsUp(r) /\ ~r.line_ringing
  <2>1. OffHook(r) \in ModemRecord(F)
    BY SmallStepsType DEF ResultCodes
  <2>2. SetControlLines(OffHook(r)) \in ModemRecord(F)
    BY <2>1, SmallStepsType DEF ResultCodes
  <2>3. QED
    BY <2>2, <1>3 DEF Answer
<1>4. QED
  BY <1>1, <1>2, <1>3

LEMMA SendRingType ==
    ASSUME NEW F, NEW r \in ModemRecord(F)
    PROVE  SendRing(r) \in ModemRecord(F)
<1>. DEFINE ringing == [r EXCEPT !.line_ringing = TRUE, !.rings = @ + 1]
<1>1. ringing \in ModemRecord(F)
  <2>1. r.rings + 1 \in Nat
    BY DEF ModemRecord
  <2>2. QED
    BY <2>1 DEF ModemRecord
<1>. HIDE DEF ringing
<1>2. Respond(ringing, "RING") \in ModemRecord(F)
  BY <1>1, SmallStepsType DEF ResultCodes
<1>3. Answer(Respond(ringing, "RING")) \in ModemRecord(F)
  BY <1>2, AnswerType
<1>4. QED
  BY <1>2, <1>3 DEF SendRing, ringing

LEMMA AcceptType ==
    ASSUME NEW F, NEW r \in ModemRecord(F), NEW f \in F
    PROVE  Accept(r, f) \in ModemRecord(F)
<1>. DEFINE taken == [r EXCEPT !.fd = f, !.valid_conn = TRUE, !.open = @ \union {f}]
<1>1. taken \in ModemRecord(F)
  BY DEF ModemRecord
<1>. HIDE DEF taken
<1>2. [OffHook(taken) EXCEPT !.conn_type = "INCOMING", !.cmd_mode = TRUE]
          \in ModemRecord(F)
  <2>1. OffHook(taken) \in ModemRecord(F)
    BY <1>1, SmallStepsType DEF ResultCodes
  <2>2. QED
    BY <2>1 DEF ModemRecord, ConnTypes
<1>3. SendRing([taken EXCEPT !.rings = 0]) \in ModemRecord(F)
  <2>1. [taken EXCEPT !.rings = 0] \in ModemRecord(F)
    BY <1>1 DEF ModemRecord
  <2>2. QED
    BY <2>1, SendRingType
<1>4. QED
  BY <1>2, <1>3 DEF Accept, taken

LEMMA DialType ==
    ASSUME NEW F, NEW r \in ModemRecord(F), NEW f \in F \union {NoFd}
    PROVE  Dial(r, f) \in ModemRecord(F)
<1>. DEFINE line == [OffHook(r) EXCEPT !.fd = f, !.valid_conn = (f # NoFd),
                                       !.open = @ \union ({f} \ {NoFd}),
                                       !.conn_type = "OUTGOING"]
<1>1. OffHook(r) \in ModemRecord(F)
  BY SmallStepsType DEF ResultCodes
<1>2. line \in ModemRecord(F)
  <2>. DEFINE up == OffHook(r)
              on == [up EXCEPT !.fd = f, !.valid_conn = (f # NoFd)]
  <2>1. on \in ModemRecord(F)
    BY <1>1 DEF ModemRecord
  <2>2. line = [on EXCEPT !.open = @ \union ({f} \ {NoFd}), !.conn_type = "OUTGOING"]
    OBVIOUS
  <2>. HIDE DEF on, line
  <2>3. QED
    BY <2>1, <2>2 DEF ModemRecord, ConnTypes
<1>. HIDE DEF line
<1>3. SetControlLines(line) \in ModemRecord(F)
  BY <1>2, SmallStepsType DEF ResultCodes
<1>4. Respond(SetControlLines(line), "CONNECT") \in ModemRecord(F)
  BY <1>3, SmallStepsType DEF ResultCodes
<1>5. Disconnect(line) \in ModemRecord(F)
  BY <1>2, DisconnectType
<1>6. QED
  BY <1>1, <1>4, <1>5 DEF Dial, line

LEMMA EscapeStepsType ==
    ASSUME NEW F, NEW r \in ModemRecord(F)
    PROVE  /\ \A isBreak \in BOOLEAN : BreakChar(r, isBreak) \in ModemRecord(F)
           /\ HandleTimeout(r) \in ModemRecord(F)
           /\ RingTimeout(r) \in ModemRecord(F)
<1>1. ClearBreak(r) \in ModemRecord(F)
  BY SmallStepsType DEF ResultCodes
<1>2. ASSUME NEW isBreak \in BOOLEAN PROVE BreakChar(r, isBreak) \in ModemRecord(F)
  <2>1. CASE isBreak /\ r.break_len < 3
    <3>1. r.break_len + 1 \in 0 .. 3
      BY <2>1 DEF ModemRecord
    <3>2. [r EXCEPT !.break_len = @ + 1] \in ModemRecord(F)
      BY <3>1 DEF ModemRecord
    <3>3. QED
      BY <2>1, <3>2 DEF BreakChar
  <2>2. QED
    BY <1>1, <2>1 DEF BreakChar
<1>3. EscapeTimeout(r) \in ModemRecord(F)
  <2>. DEFINE cmd == [r EXCEPT !.cmd_mode = TRUE]
  <2>1. cmd \in ModemRecord(F) /\ [r EXCEPT !.pre_break_delay = TRUE] \in ModemRecord(F)
    BY DEF ModemRecord
  <2>. HIDE DEF cmd
  <2>2. Respond(cmd, "OK") \in ModemRecord(F)
    BY <2>1, SmallStepsType DEF ResultCodes
  <2>3. ClearBreak(Respond(cmd, "OK")) \in ModemRecord(F)
    BY <2>2, SmallStepsType DEF ResultCodes
  <2>4. QED
    BY <1>1, <2>1, <2>3 DEF EscapeTimeout, cmd
<1>4. QED
  BY <1>2, <1>3, DisconnectType, SendRingType DEF HandleTimeout, RingTimeout

---------------------------------------------------------------------------
(* The hook, the line and the carrier agree.  A modem with a direct link   *)
(* is left out: there ATH leaves the connection on an idle hook.           *)

\* The inductive form of the invariants: what holds of the record between any
\* two calls of the core, so also in the middle of a command line.
Sound(r) ==
    /\ ~r.direct_conn
    /\ ~r.off_hook => r.conn_type = "NONE" /\ r.cmd_mode
    /\ r.line_ringing => r.valid_conn
    /\ r.valid_conn => r.fd \in r.open
    /\ r.dcd <=> r.conn_type # "NONE"
    /\ r.cmd_mode => r.break_len = 0 /\ ~r.pre_break_delay

Modem(F) == {r \in ModemRecord(F) : Sound(r)}

LEMMA DisconnectSound ==
    ASSUME NEW F, NEW r \in ModemRecord(F), ~r.direct_conn
    PROVE  Disconnect(r) \in Modem(F) /\ ~Disconnect(r).off_hook
<1>1. Disconnect(r) \in ModemRecord(F)
  BY DisconnectType
<1>. DEFINE begun == DisconnectBegin(r)
<1>2. /\ begun \in ModemRecord(F) /\ ~begun.direct_conn /\ begun.cmd_mode
      /\ ~begun.off_hook /\ ~begun.line_ringing
      /\ begun.break_len = 0 /\ ~begun.pre_break_delay
  <2>1. begun \in ModemRecord(F)
    BY DisconnectType
  <2>2. ~begun.direct_conn
    BY DEF DisconnectBegin, ClearBreak, ModemRecord
  <2>3. begun.cmd_mode /\ ~begun.off_hook /\ ~begun.line_ringing
    BY DEF DisconnectBegin, ClearBreak, ModemRecord
  <2>4. begun.break_len = 0 /\ ~begun.pre_break_delay
    BY DEF DisconnectBegin, ClearBreak, ModemRecord
  <2>5. QED
    BY <2>1, <2>2, <2>3, <2>4
<1>. HIDE DEF begun
<1>3. Sound(DisconnectEnd(begun)) /\ ~DisconnectEnd(begun).off_hook
  BY <1>2 DEF DisconnectEnd, SetControlLines, Respond, Sound, ModemRecord
<1>4. QED
  BY <1>1, <1>3 DEF Modem, Disconnect, begun

LEMMA AnswerSound ==
    ASSUME NEW F, NEW r \in Modem(F)
    PROVE  Answer(r) \in Modem(F)
<1>1. Answer(r) \in ModemRecord(F) /\ r \in ModemRecord(F) /\ Sound(r)
  BY AnswerType DEF Modem
<1>2. CASE AnswerHangsUp(r)
  BY <1>1, <1>2, DisconnectSound DEF Answer, Sound
<1>3. CASE ~AnswerHangsUp(r)
  <2>1. Sound(Answer(r))
    BY <1>1, <1>3 DEF Answer, AnswerHangsUp, Respond, SetControlLines, OffHook,
       Sound, ModemRecord
  <2>2. QED
    BY <1>1, <2>1 DEF Modem
<1>4. QED
  BY <1>2, <1>3

LEMMA SendRingSound ==
    ASSUME NEW F, NEW r \in Modem(F), r.valid_conn
    PROVE  SendRing(r) \in Modem(F)
<1>. DEFINE rung == Respond([r EXCEPT !.line_ringing = TRUE, !.rings = @ + 1], "RING")
<1>1. rung \in Modem(F)
  <2>1. [r EXCEPT !.line_ringing = TRUE, !.rings = @ + 1] \in ModemRecord(F)
    <3>1. r.rings + 1 \in Nat
      BY DEF Modem, ModemRecord
    <3>2. QED
      BY <3>1 DEF Modem, ModemRecord
  <2>2. rung \in ModemRecord(F)
    BY <2>1, SmallStepsType DEF ResultCodes
  <2>3. Sound(rung)
    BY DEF Respond, Sound, Modem, ModemRecord
  <2>4. QED
    BY <2>2, <2>3 DEF Modem
<1>2. Answer(rung) \in Modem(F)
  BY <1>1, AnswerSound
<1>3. QED
  BY <1>1, <1>2 DEF SendRing

\* Whatever the modem is doing when it is told to accept.
LEMMA AcceptSound ==
    ASSUME NEW F, NEW r \in Modem(F), NEW f \in F
    PROVE  Accept(r, f) \in Modem(F)
<1>. DEFINE taken == [r EXCEPT !.fd = f, !.valid_conn = TRUE, !.open = @ \union {f}]
            ready == [taken EXCEPT !.rings = 0]
<1>1. ready \in ModemRecord(F) /\ ready.valid_conn
  BY DEF Modem, ModemRecord
<1>2. Sound(ready)
  BY DEF Sound, Modem, ModemRecord
<1>3. SendRing(ready) \in Modem(F)
  BY <1>1, <1>2, SendRingSound DEF Modem
<1>4. ~taken.direct_conn
  BY DEF Sound, Modem, ModemRecord
<1>5. QED
  BY <1>3, <1>4 DEF Accept

LEMMA DialSound ==
    ASSUME NEW F, NEW r \in Modem(F), NEW f \in F \union {NoFd}, NoFd \notin F
    PROVE  Dial(r, f) \in Modem(F)
<1>. DEFINE line == [OffHook(r) EXCEPT !.fd = f, !.valid_conn = (f # NoFd),
                                       !.open = @ \union ({f} \ {NoFd}),
                                       !.conn_type = "OUTGOING"]
<1>1. r \in ModemRecord(F) /\ Sound(r) /\ Dial(r, f) \in ModemRecord(F)
  BY DialType DEF Modem
<1>2. line \in ModemRecord(F) /\ ~line.direct_conn
  <2>1. OffHook(r) \in ModemRecord(F)
    BY <1>1, SmallStepsType DEF ResultCodes
  <2>2. ~OffHook(r).direct_conn
    BY <1>1 DEF OffHook, Sound, ModemRecord
  <2>3. QED
    BY <2>1, <2>2 DEF ModemRecord, ConnTypes
<1>3. CASE r.conn_type # "NONE"
  <2>1. Sound(OffHook(r))
    BY <1>1 DEF Sound, OffHook, ModemRecord
  <2>2. QED
    BY <1>1, <1>3, <2>1 DEF Dial, Modem
<1>4. CASE r.conn_type = "NONE" /\ f # NoFd
  <2>1. Dial(r, f) = Respond(SetControlLines(line), "CONNECT")
    BY <1>4 DEF Dial
  <2>2. line.conn_type = "OUTGOING" /\ line.valid_conn /\ line.fd = f /\ f \in line.open
        /\ line.off_hook /\ ~line.cmd_mode /\ ~line.direct_conn
    BY <1>1, <1>4 DEF OffHook, Sound, ModemRecord
  <2>. HIDE DEF line
  <2>3. Sound(Respond(SetControlLines(line), "CONNECT"))
    BY <1>2, <2>2 DEF Respond, SetControlLines, Sound, ModemRecord
  <2>4. QED
    BY <1>1, <2>1, <2>3 DEF Modem
<1>5. CASE r.conn_type = "NONE" /\ f = NoFd
  <2>. HIDE DEF line
  <2>1. Disconnect(line) \in Modem(F)
    BY <1>2, DisconnectSound
  <2>2. QED
    BY <1>5, <2>1 DEF Dial, line
<1>6. QED
  BY <1>3, <1>4, <1>5

LEMMA TimeoutSound ==
    ASSUME NEW F, NEW r \in Modem(F)
    PROVE  /\ ~r.cmd_mode => HandleTimeout(r) \in Modem(F)
           /\ r.valid_conn => RingTimeout(r) \in Modem(F)
<1>1. r \in ModemRecord(F) /\ Sound(r) /\ ~r.direct_conn
  BY DEF Modem, Sound
<1>2. Disconnect(r) \in Modem(F)
  BY <1>1, DisconnectSound
<1>3. ASSUME ~r.cmd_mode PROVE HandleTimeout(r) \in Modem(F)
  <2>1. CASE InactiveTooLong(r)
    BY <1>2, <2>1 DEF HandleTimeout
  <2>2. CASE ~InactiveTooLong(r)
    <3>1. HandleTimeout(r) = EscapeTimeout(r) /\ EscapeTimeout(r) \in ModemRecord(F)
      BY <1>1, <2>2, EscapeStepsType DEF HandleTimeout
    <3>2. Sound(ClearBreak(r)) /\ Sound([r EXCEPT !.pre_break_delay = TRUE])
      BY <1>1, <1>3 DEF Sound, ClearBreak, ModemRecord
    <3>3. Sound(ClearBreak(Respond([r EXCEPT !.cmd_mode = TRUE], "OK")))
      BY <1>1 DEF Sound, ClearBreak, Respond, ModemRecord
    <3>4. Sound(EscapeTimeout(r))
      BY <1>1, <3>2, <3>3 DEF EscapeTimeout
    <3>5. QED
      BY <3>1, <3>4 DEF Modem
  <2>3. QED
    BY <2>1, <2>2
<1>4. r.valid_conn => RingTimeout(r) \in Modem(F)
  BY <1>2, SendRingSound DEF RingTimeout
<1>5. QED
  BY <1>3, <1>4

=============================================================================
