-------------------------- MODULE HayesModemProofs --------------------------
(***************************************************************************)
(* What TLAPS proves of HayesModem, for any descriptors, any S registers   *)
(* and any RingLimit: it is type correct, its invariants hold, and it      *)
(* implements HayesEscape when characters are read one by one.             *)
(***************************************************************************)
EXTENDS HayesModem, ModemCoreProofs

---------------------------------------------------------------------------
(* Type correctness *)

LEMMA CommandType ==
    ASSUME NEW r \in ModemRecord(Fds), NEW c \in Commands
    PROVE  Command(r, c) \in ModemRecord(Fds)
<1>1. /\ Answer(r) \in ModemRecord(Fds) /\ Disconnect(r) \in ModemRecord(Fds)
      /\ OffHook(r) \in ModemRecord(Fds)
  BY AnswerType, DisconnectType, SmallStepsType DEF ResultCodes
<1>2. Respond(r, "ERROR") \in ModemRecord(Fds)
  BY SmallStepsType DEF ResultCodes
<1>3. CASE c \in [op : {"A", "O", "H0", "H1", "D0", "ERR", "I"}]
  BY <1>1, <1>2, <1>3 DEF Command
<1>4. CASE c \in [op : {"D"}, fd : Fds \union {NoFd}]
  <2>1. Dial(r, c.fd) \in ModemRecord(Fds)
    BY <1>4, DialType
  <2>2. QED
    BY <1>4, <2>1 DEF Command
<1>5. CASE c \in [op : {"S0"}, val : S0Values]
  <2>1. [r EXCEPT !.s0 = c.val] \in ModemRecord(Fds)
    BY <1>5, HayesAssumption DEF ModemRecord
  <2>2. QED
    BY <1>5, <2>1 DEF Command
<1>6. QED
  BY <1>3, <1>4, <1>5 DEF Commands

\* The loop over the characters of a chunk is entered with one at least.
TypeInv == TypeOK /\ (pc = "chars" => left > 0)

LEMMA InitType == Init => TypeInv
<1>1. ASSUME NEW s0 \in S0Values PROVE InitModem(s0, S30, Direct) \in ModemRecord(Fds)
  <2>1. s0 \in Nat /\ S30 \in Nat /\ Direct \in BOOLEAN /\ 0 \in 0 .. 3
    BY HayesAssumption
  <2>2. QED
    BY <2>1 DEF InitModem, ModemRecord, ConnTypes
<1>2. Init => m \in ModemRecord(Fds)
  <2>1. ASSUME NEW r \in ModemRecord(Fds), NEW f \in Fds
        PROVE  DialAtStart(r, f) \in ModemRecord(Fds)
    BY DEF DialAtStart, ModemRecord, ConnTypes
  <2>2. QED
    BY <1>1, <2>1 DEF Init
<1>3. Init => pc = "wait" /\ left \in Nat /\ seen \in 0 .. Noisy
  BY DEF Init, Noisy
<1>4. Init => counting \in BOOLEAN
  BY DEF Init
<1>5. QED
  BY <1>2, <1>3, <1>4 DEF TypeInv, TypeOK

\* What every action does with the modem.
LEMMA ModemType ==
    ASSUME TypeInv, Next
    PROVE  m' \in ModemRecord(Fds)
<1>. USE DEF TypeInv, TypeOK, Handle
<1>1. m \in ModemRecord(Fds) /\ Heard \in ModemRecord(Fds)
  BY DEF Heard, ModemRecord
<1>2. CASE OffHookInput
  <2>1. Disconnect(Heard) \in ModemRecord(Fds)
    BY <1>1, DisconnectType
  <2>2. Respond(Disconnect(Heard), "OK") \in ModemRecord(Fds)
    BY <2>1, SmallStepsType DEF ResultCodes
  <2>3. QED
    BY <1>2, <2>2 DEF OffHookInput
<1>3. CASE ReadChunk
  BY <1>1, <1>3 DEF ReadChunk
<1>4. ASSUME NEW b \in BOOLEAN, NextChar(b) PROVE m' \in ModemRecord(Fds)
  BY <1>1, <1>4, EscapeStepsType DEF NextChar
<1>5. CASE ReadLine
  BY <1>1, <1>5 DEF ReadLine
<1>6. ASSUME NEW c \in Commands, NextCommand(c) PROVE m' \in ModemRecord(Fds)
  BY <1>1, <1>6, CommandType DEF NextCommand
<1>7. CASE EndLine
  <2>1. Respond(m, "OK") \in ModemRecord(Fds)
    BY <1>1, SmallStepsType DEF ResultCodes
  <2>2. QED
    BY <1>1, <1>7, <2>1 DEF EndLine, EndOfLine
<1>8. CASE EscapeTimer
  BY <1>1, <1>8, EscapeStepsType DEF EscapeTimer
<1>9. CASE RingTimer
  <2>1. RingTimeout(Heard) \in ModemRecord(Fds)
    BY <1>1, EscapeStepsType
  <2>2. Capped(RingTimeout(Heard)) \in ModemRecord(Fds)
    BY <2>1, HayesAssumption DEF Capped, ModemRecord
  <2>3. QED
    BY <1>9, <2>2 DEF RingTimer
<1>10. CASE IncomingCall
  BY <1>1, <1>10, AcceptType DEF IncomingCall
<1>11. CASE PeerCloses
  <2>. DEFINE given == [Heard EXCEPT !.direct_conn = FALSE]
  <2>1. given \in ModemRecord(Fds)
    BY <1>1 DEF ModemRecord
  <2>2. Disconnect(given) \in ModemRecord(Fds)
    BY <2>1, DisconnectType
  <2>3. [Disconnect(given) EXCEPT !.direct_conn = Direct] \in ModemRecord(Fds)
    BY <2>2, HayesAssumption DEF ModemRecord
  <2>4. QED
    BY <1>11, <2>3 DEF PeerCloses
<1>12. CASE DtrDown
  BY <1>1, <1>12, DisconnectType DEF DtrDown
<1>13. QED
  BY <1>2, <1>3, <1>4, <1>5, <1>6, <1>7, <1>8, <1>9, <1>10, <1>11, <1>12
     DEF Next, Bridge

\* The rest of the state: the loop counters and the history.
LEMMA NextType == TypeInv /\ [Next]_vars => TypeInv'
<1>. SUFFICES ASSUME TypeInv, [Next]_vars PROVE TypeInv'
  OBVIOUS
<1>. USE DEF TypeInv, TypeOK
<1>1. CASE UNCHANGED vars
  BY <1>1 DEF vars
<1>2. CASE Next
  <2>1. m' \in ModemRecord(Fds)
    BY <1>2, ModemType
  <2>2. seen' \in 0 .. Noisy
    BY <1>2 DEF Next, Bridge, OffHookInput, ReadChunk, NextChar, ReadLine, NextCommand,
       EndLine, EscapeTimer, RingTimer, IncomingCall, PeerCloses, DtrDown, Recall, Noisy
  <2>3. /\ pc' \in {"wait", "chars", "line"}
        /\ left' \in Nat
        /\ pc' = "chars" => left' > 0
    BY <1>2, HayesAssumption DEF Next, Bridge, OffHookInput, ReadChunk, NextChar, ReadLine,
       NextCommand, EndLine, EscapeTimer, RingTimer, IncomingCall, PeerCloses, DtrDown, Handle
  <2>4. counting' \in BOOLEAN
    BY <1>2 DEF Next, Bridge, OffHookInput, ReadChunk, NextChar, ReadLine, NextCommand,
       EndLine, EscapeTimer, RingTimer, IncomingCall, PeerCloses, DtrDown, Handle, ModemRecord
  <2>5. QED
    BY <2>1, <2>2, <2>3, <2>4
<1>3. QED
  BY <1>1, <1>2

\* HayesModem is type correct: every counter, flag and descriptor of the modem
\* keeps its range, whatever the DTE and the callers do.
THEOREM HayesTypeCorrect == Spec => []TypeOK
<1>1. TypeInv => TypeOK
  BY DEF TypeInv
<1>2. QED
  BY InitType, NextType, <1>1, PTL DEF Spec

---------------------------------------------------------------------------
(* The invariants *)

LEMMA CommandSound ==
    ASSUME NEW r \in Modem(Fds), NEW c \in Commands
    PROVE  Command(r, c) \in Modem(Fds)
<1>1. r \in ModemRecord(Fds) /\ Sound(r) /\ ~r.direct_conn
  BY DEF Modem, Sound
<1>2. Answer(r) \in Modem(Fds) /\ Disconnect(r) \in Modem(Fds)
  BY <1>1, AnswerSound, DisconnectSound
<1>3. OffHook(r) \in Modem(Fds) /\ Respond(r, "ERROR") \in Modem(Fds)
  <2>1. OffHook(r) \in ModemRecord(Fds) /\ Respond(r, "ERROR") \in ModemRecord(Fds)
    BY <1>1, SmallStepsType DEF ResultCodes
  <2>2. Sound(OffHook(r)) /\ Sound(Respond(r, "ERROR"))
    BY <1>1 DEF OffHook, Respond, Sound, ModemRecord
  <2>3. QED
    BY <2>1, <2>2 DEF Modem
<1>4. CASE c \in [op : {"A", "O", "H0", "H1", "D0", "ERR", "I"}]
  BY <1>2, <1>3, <1>4 DEF Command
<1>5. CASE c \in [op : {"D"}, fd : Fds \union {NoFd}]
  <2>1. Dial(r, c.fd) \in Modem(Fds)
    BY <1>5, DialSound, HayesAssumption
  <2>2. QED
    BY <1>5, <2>1 DEF Command
<1>6. CASE c \in [op : {"S0"}, val : S0Values]
  <2>1. [r EXCEPT !.s0 = c.val] \in ModemRecord(Fds)
    BY <1>1, <1>6, HayesAssumption DEF ModemRecord
  <2>2. Sound([r EXCEPT !.s0 = c.val])
    BY <1>1 DEF Sound, ModemRecord
  <2>3. QED
    BY <1>6, <2>1, <2>2 DEF Command, Modem
<1>7. QED
  BY <1>4, <1>5, <1>6 DEF Commands

\* The characters of a chunk are only looked at in data mode.
SoundInv == TypeInv /\ Sound(m) /\ (pc = "chars" => ~m.cmd_mode)

LEMMA InitSound == ~Direct /\ Init => SoundInv
<1>1. ASSUME NEW s0 \in S0Values, ~Direct PROVE Sound(InitModem(s0, S30, Direct))
  BY <1>1 DEF InitModem, Sound
<1>2. QED
  BY <1>1, InitType DEF Init, SoundInv

LEMMA NextSound ==
    ASSUME SoundInv, Next, ~Direct
    PROVE  SoundInv'
<1>. USE DEF Handle, SoundInv, TypeInv, TypeOK
<1>1. m \in Modem(Fds) /\ Heard \in Modem(Fds)
      /\ Heard.valid_conn = m.valid_conn /\ Heard.cmd_mode = m.cmd_mode
      /\ ~m.direct_conn /\ ~Heard.direct_conn
  <2>1. Heard \in ModemRecord(Fds)
    BY DEF Heard, ModemRecord
  <2>2. QED
    BY <2>1 DEF Heard, Modem, Sound, ModemRecord
<1>2. Respond(m, "OK") \in Modem(Fds) /\ Disconnect(Heard) \in Modem(Fds)
  <2>1. Respond(m, "OK") \in ModemRecord(Fds)
    BY <1>1, SmallStepsType DEF ResultCodes
  <2>2. Sound(Respond(m, "OK"))
    BY <1>1 DEF Respond, Sound, ModemRecord
  <2>3. QED
    BY <1>1, <2>1, <2>2, DisconnectSound DEF Modem
<1>3. m' \in Modem(Fds) /\ (pc' = "chars" => ~m'.cmd_mode)
  <2>1. CASE OffHookInput
    <3>1. Respond(Disconnect(Heard), "OK") \in ModemRecord(Fds)
      BY <1>2, SmallStepsType DEF ResultCodes, Modem
    <3>2. Sound(Respond(Disconnect(Heard), "OK"))
      BY <1>2 DEF Respond, Sound, Modem, ModemRecord
    <3>3. QED
      BY <2>1, <3>1, <3>2 DEF OffHookInput, Modem
  <2>2. CASE ReadChunk \/ ReadLine
    BY <1>1, <2>2 DEF ReadChunk, ReadLine
  <2>3. ASSUME NEW b \in BOOLEAN, NextChar(b)
        PROVE  m' \in Modem(Fds) /\ (pc' = "chars" => ~m'.cmd_mode)
    <3>1. m' \in ModemRecord(Fds)
      BY <1>1, <2>3, EscapeStepsType DEF NextChar
    <3>2. ~m.cmd_mode
      BY <2>3 DEF NextChar
    <3>3. Sound(m') /\ ~m'.cmd_mode
      BY <2>3, <3>2 DEF NextChar, BreakChar, ClearBreak, Sound, ModemRecord
    <3>4. QED
      BY <3>1, <3>3 DEF Modem
  <2>4. ASSUME NEW c \in Commands, NextCommand(c) PROVE m' \in Modem(Fds) /\ pc' # "chars"
    BY <1>1, <2>4, CommandSound DEF NextCommand
  <2>5. CASE EndLine
    BY <1>1, <1>2, <2>5 DEF EndLine, EndOfLine
  <2>6. CASE EscapeTimer
    <3>1. ~m.cmd_mode
      BY <2>6 DEF EscapeTimer, Timer
    <3>2. QED
      BY <1>1, <2>6, <3>1, TimeoutSound DEF EscapeTimer
  <2>7. CASE RingTimer
    <3>1. m.valid_conn
      BY <2>7 DEF RingTimer, Timer
    <3>2. RingTimeout(Heard) \in Modem(Fds)
      BY <1>1, <3>1, TimeoutSound
    <3>. DEFINE new == RingTimeout(Heard)
    <3>3. new \in ModemRecord(Fds) /\ Sound(new)
      BY <3>2 DEF Modem
    <3>. HIDE DEF new
    <3>4. Capped(new) \in Modem(Fds)
      BY <3>3, HayesAssumption DEF Capped, Sound, Modem, ModemRecord
    <3>5. QED
      BY <2>7, <3>4 DEF RingTimer, new
  <2>8. CASE IncomingCall
    BY <1>1, <2>8, AcceptSound DEF IncomingCall
  <2>9. CASE PeerCloses
    <3>. DEFINE given == [Heard EXCEPT !.direct_conn = FALSE]
    <3>1. given \in ModemRecord(Fds) /\ ~given.direct_conn
      BY <1>1 DEF Modem, ModemRecord
    <3>2. Disconnect(given) \in Modem(Fds)
      BY <3>1, DisconnectSound
    <3>. HIDE DEF given
    <3>3. [Disconnect(given) EXCEPT !.direct_conn = Direct] \in Modem(Fds)
      BY <3>2, HayesAssumption DEF Modem, Sound, ModemRecord
    <3>4. QED
      BY <2>9, <3>3 DEF PeerCloses, given
  <2>10. CASE DtrDown
    BY <1>2, <2>10 DEF DtrDown
  <2>11. QED
    BY <2>1, <2>2, <2>3, <2>4, <2>5, <2>6, <2>7, <2>8, <2>9, <2>10 DEF Next, Bridge
<1>4. TypeInv'
  BY NextType
<1>5. QED
  BY <1>3, <1>4 DEF Modem

\* Without a direct link the modem's state stays sound.
LEMMA StaysSound == ~Direct => (Spec => []SoundInv)
<1>. SUFFICES ASSUME ~Direct PROVE Spec => []SoundInv
  OBVIOUS
<1>1. Init => SoundInv
  BY InitSound
<1>2. SoundInv /\ [Next]_vars => SoundInv'
  <2>1. SoundInv /\ UNCHANGED vars => SoundInv'
    BY DEF SoundInv, TypeInv, TypeOK, vars
  <2>2. QED
    BY <2>1, NextSound
<1>3. QED
  BY <1>1, <1>2, PTL DEF Spec

\* A modem without a direct link that is on hook is idle: whatever ended a call
\* (mdm_disconnect, ATH, ATZ, a timeout, the caller) left nothing of it behind.
THEOREM HayesOnHookIsIdle == ~Direct => (Spec => []OnHookIsIdle)
<1>1. SoundInv => OnHookIsIdle
  BY DEF SoundInv, Sound, OnHookIsIdle
<1>2. QED
  BY <1>1, StaysSound, PTL

\* It rings and answers only with a caller on the line (mdm_send_ring, mdm_answer).
THEOREM HayesRingingHasCaller == ~Direct => (Spec => []RingingHasCaller)
<1>1. SoundInv => RingingHasCaller
  BY DEF SoundInv, Sound, RingingHasCaller
<1>2. QED
  BY <1>1, StaysSound, PTL

\* The carrier that the DTE sees is the call (mdm_set_control_lines).
THEOREM HayesCarrierIsCall == ~Direct => (Spec => []CarrierIsCall)
<1>1. SoundInv => CarrierIsCall
  BY DEF SoundInv, Sound, CarrierIsCall
<1>2. QED
  BY <1>1, StaysSound, PTL

\* In command mode the escape recogniser is clear (mdm_parse_data, mdm_handle_timeout).
THEOREM HayesRecogniserReset == ~Direct => (Spec => []RecogniserReset)
<1>1. SoundInv => RecogniserReset
  BY DEF SoundInv, Sound, RecogniserReset
<1>2. QED
  BY <1>1, StaysSound, PTL

---------------------------------------------------------------------------
(* HayesModem implements HayesEscape, if characters are read one by one.   *)

\* The recogniser's counters and the history agree, and the flag that the chunk
\* was read with is not out of date.
Synced == IF m.cmd_mode \/ ~m.pre_break_delay THEN seen = Noisy /\ m.break_len = 0
                                              ELSE seen = m.break_len
EscapeInv == /\ SoundInv /\ Synced
             /\ pc = "chars" => left = 1 /\ counting = m.pre_break_delay
             /\ pc = "line" => m.cmd_mode \/ m.conn_type # "NONE"

\* What calls of the core other than the recogniser's do to the modem r, seen
\* from the DTE: they hang up, go online, or leave mode and call as they were.
Moves(r, a) ==
    \/ ~a.off_hook
    \/ /\ a.break_len = r.break_len /\ a.pre_break_delay = r.pre_break_delay
       /\ \/ r.cmd_mode /\ ~a.cmd_mode
          \/ ~r.cmd_mode /\ ~a.cmd_mode /\ a.conn_type # "NONE"
          \/ a.cmd_mode = r.cmd_mode /\ a.conn_type = r.conn_type

LEMMA CommandMoves ==
    ASSUME NEW r \in Modem(Fds), r.cmd_mode \/ r.conn_type # "NONE",
           NEW c \in Commands
    PROVE  Moves(r, Command(r, c))
<1>1. r \in ModemRecord(Fds) /\ Sound(r)
  BY DEF Modem
<1>2. Moves(r, Disconnect(r))
  BY <1>1, DisconnectSound DEF Moves, Sound
<1>3. Moves(r, Answer(r))
  <2>1. CASE AnswerHangsUp(r)
    BY <1>2, <2>1 DEF Answer
  <2>2. CASE ~AnswerHangsUp(r)
    BY <1>1, <2>2 DEF Moves, Answer, AnswerHangsUp, Respond, SetControlLines, OffHook,
       ModemRecord
  <2>3. QED
    BY <2>1, <2>2
<1>4. Moves(r, OffHook(r)) /\ Moves(r, Respond(r, "ERROR")) /\ Moves(r, r)
  BY <1>1 DEF Moves, OffHook, Respond, ModemRecord
<1>5. CASE c \in [op : {"A", "O", "H0", "H1", "D0", "ERR", "I"}]
  BY <1>2, <1>3, <1>4, <1>5 DEF Command
<1>6. CASE c \in [op : {"D"}, fd : Fds \union {NoFd}]
  <2>. DEFINE line == [OffHook(r) EXCEPT !.fd = c.fd, !.valid_conn = (c.fd # NoFd),
                                         !.open = @ \union ({c.fd} \ {NoFd}),
                                         !.conn_type = "OUTGOING"]
  <2>1. CASE r.conn_type # "NONE"
    BY <1>4, <1>6, <2>1 DEF Command, Dial
  <2>2. CASE r.conn_type = "NONE" /\ c.fd # NoFd
    BY <1>1, <1>6, <2>2 DEF Moves, Command, Dial, Respond, SetControlLines, OffHook,
       ModemRecord
  <2>3. CASE r.conn_type = "NONE" /\ c.fd = NoFd
    <3>1. OffHook(r) \in ModemRecord(Fds) /\ ~OffHook(r).direct_conn
      BY <1>1 DEF OffHook, Sound, ModemRecord
    <3>2. line \in ModemRecord(Fds) /\ ~line.direct_conn
      <4>1. c.fd \in Fds \union {NoFd} /\ (c.fd # NoFd) \in BOOLEAN
        BY <1>6
      <4>2. QED
        BY <3>1, <4>1 DEF ModemRecord, ConnTypes
    <3>. HIDE DEF line
    <3>3. ~Disconnect(line).off_hook
      BY <3>2, DisconnectSound
    <3>4. QED
      BY <1>6, <2>3, <3>3 DEF Moves, Command, Dial, line
  <2>4. QED
    BY <2>1, <2>2, <2>3
<1>7. CASE c \in [op : {"S0"}, val : S0Values]
  BY <1>1, <1>7 DEF Moves, Command, ModemRecord
<1>8. QED
  BY <1>5, <1>6, <1>7 DEF Commands

LEMMA RingMoves ==
    ASSUME NEW r \in Modem(Fds)
    PROVE  Moves(r, SendRing(r))
<1>1. r \in ModemRecord(Fds) /\ Sound(r)
  BY DEF Modem
<1>2. QED
  BY <1>1 DEF Moves, SendRing, Answer, AnswerHangsUp, Respond, SetControlLines, OffHook,
     ModemRecord

\* A call that moves the modem is a step, or no step, of HayesEscape.
LEMMA MovesSimulate ==
    ASSUME EscapeInv, SoundInv', Moves(m, m'), Recall(seen)
    PROVE  Synced' /\ [Escape!Next]_Escape!vars
<1>. USE DEF SoundInv, TypeInv, TypeOK, EscapeInv, Synced, Recall, Noisy
<1>1. CASE ~m'.off_hook
  <2>1. m'.cmd_mode /\ m'.conn_type = "NONE" /\ m'.break_len = 0 /\ seen' = Noisy
    BY <1>1 DEF Sound
  <2>2. QED
    BY <2>1 DEF Escape!Next, Escape!HangUp, Escape!Noisy
<1>2. CASE m'.off_hook
  <2>1. /\ m'.break_len = m.break_len /\ m'.pre_break_delay = m.pre_break_delay
        /\ \/ m.cmd_mode /\ ~m'.cmd_mode
           \/ ~m.cmd_mode /\ ~m'.cmd_mode /\ m'.conn_type # "NONE"
           \/ m'.cmd_mode = m.cmd_mode /\ m'.conn_type = m.conn_type
    BY <1>2 DEF Moves
  <2>2. Synced'
    BY <2>1 DEF Sound
  <2>3. CASE m.cmd_mode /\ ~m'.cmd_mode
    <3>1. seen' = Noisy /\ (m'.conn_type # "NONE") \in BOOLEAN
      BY <2>3
    <3>2. Escape!GoOnline
      BY <2>3, <3>1 DEF Escape!GoOnline, Escape!Noisy
    <3>3. QED
      BY <2>2, <3>2 DEF Escape!Next
  <2>4. CASE ~m.cmd_mode /\ ~m'.cmd_mode
    <3>1. /\ seen' = seen
          /\ \/ m.conn_type # "NONE" <=> m'.conn_type # "NONE"
             \/ m.conn_type = "NONE" /\ m'.conn_type # "NONE"
      BY <2>1, <2>4
    <3>2. Escape!CallArrives \/ UNCHANGED Escape!vars
      BY <2>4, <3>1 DEF Escape!CallArrives, Escape!vars
    <3>3. QED
      BY <2>2, <3>2 DEF Escape!Next
  <2>5. CASE m.cmd_mode /\ m'.cmd_mode
    <3>1. seen' = seen /\ m'.conn_type = m.conn_type
      BY <2>1, <2>5 DEF Sound
    <3>2. QED
      BY <2>2, <2>5, <3>1 DEF Escape!vars
  <2>6. CASE ~m.cmd_mode /\ m'.cmd_mode
    BY <2>1, <2>6
  <2>7. QED
    BY <2>2, <2>3, <2>4, <2>5, <2>6
<1>3. QED
  BY <1>1, <1>2 DEF ModemRecord

\* The actions that do not touch the recogniser.
LEMMA OthersMove ==
    ASSUME EscapeInv, ~Direct,
           \/ OffHookInput \/ ReadChunk \/ ReadLine \/ EndLine \/ RingTimer
           \/ IncomingCall \/ PeerCloses \/ DtrDown
           \/ \E c \in Commands : NextCommand(c)
    PROVE  Moves(m, m') /\ Recall(seen)
<1>. USE DEF EscapeInv, SoundInv, TypeInv, TypeOK, Handle
<1>1. /\ m \in Modem(Fds) /\ Heard \in Modem(Fds) /\ ~Heard.direct_conn
      /\ Heard = [m EXCEPT !.resp = {}]
  <2>1. Heard \in ModemRecord(Fds)
    BY DEF Heard, ModemRecord
  <2>2. QED
    BY <2>1 DEF Heard, Modem, Sound, ModemRecord
<1>2. \A a : Moves(Heard, a) => Moves(m, a)
  BY <1>1 DEF Moves, Modem, ModemRecord
<1>3. Disconnect(Heard) \in ModemRecord(Fds) /\ ~Disconnect(Heard).off_hook
  BY <1>1, DisconnectSound DEF Modem
<1>4. CASE OffHookInput
  BY <1>3, <1>4 DEF OffHookInput, Moves, Respond, ModemRecord
<1>5. CASE ReadChunk
  BY <1>1, <1>5 DEF ReadChunk, Recall, Moves, ModemRecord
<1>6. CASE ReadLine
  BY <1>1, <1>6 DEF ReadLine, Recall, Synced, Moves, ModemRecord
<1>7. CASE EndLine
  BY <1>7 DEF EndLine, EndOfLine, Respond, Moves, ModemRecord
<1>8. CASE RingTimer
  <2>2. Moves(Heard, RingTimeout(Heard))
    BY <1>1, <1>3, RingMoves DEF RingTimeout, Moves
  <2>3. RingTimeout(Heard) \in ModemRecord(Fds)
    BY <1>1, EscapeStepsType DEF Modem
  <2>4. Moves(Heard, Capped(RingTimeout(Heard)))
    BY <2>2, <2>3 DEF Moves, Capped, ModemRecord
  <2>5. QED
    BY <1>2, <1>8, <2>4 DEF RingTimer
<1>9. CASE IncomingCall
  <2>1. PICK f \in Fds \ m.open : m' = Accept(Heard, f)
    BY <1>9 DEF IncomingCall
  <2>. DEFINE taken == [Heard EXCEPT !.fd = f, !.valid_conn = TRUE,
                                     !.open = @ \union {f}]
              ready == [taken EXCEPT !.rings = 0]
  <2>3. ready \in ModemRecord(Fds) /\ Sound(ready)
    <3>. DEFINE h == Heard
    <3>1. h \in ModemRecord(Fds) /\ Sound(h)
      BY <1>1 DEF Modem
    <3>. HIDE DEF h
    <3>. DEFINE t == [h EXCEPT !.fd = f, !.valid_conn = TRUE, !.open = @ \union {f}]
    <3>2. t \in ModemRecord(Fds)
      BY <3>1 DEF ModemRecord
    <3>3. Sound(t)
      BY <3>1 DEF Sound, ModemRecord
    <3>. HIDE DEF t
    <3>4. [t EXCEPT !.rings = 0] \in ModemRecord(Fds) /\ Sound([t EXCEPT !.rings = 0])
      BY <3>2, <3>3 DEF Sound, ModemRecord
    <3>5. QED
      BY <3>4 DEF t, h
  <2>4. /\ ready.cmd_mode = Heard.cmd_mode /\ ready.conn_type = Heard.conn_type
        /\ ready.break_len = Heard.break_len
        /\ ready.pre_break_delay = Heard.pre_break_delay
        /\ ~taken.direct_conn
    BY <1>1 DEF Modem, ModemRecord
  <2>5. m' = SendRing(ready)
    BY <2>1, <2>4 DEF Accept
  <2>. HIDE DEF ready
  <2>6. Moves(ready, SendRing(ready))
    BY <2>3, <2>4, RingMoves DEF Modem
  <2>7. Moves(Heard, m')
    BY <2>4, <2>5, <2>6 DEF Moves
  <2>8. QED
    BY <1>2, <1>9, <2>7 DEF IncomingCall
<1>10. CASE PeerCloses
  <2>. DEFINE given == [Heard EXCEPT !.direct_conn = FALSE]
  <2>1. given \in ModemRecord(Fds) /\ ~given.direct_conn
    BY <1>1 DEF Modem, ModemRecord
  <2>. HIDE DEF given
  <2>2. Disconnect(given) \in ModemRecord(Fds) /\ ~Disconnect(given).off_hook
    BY <2>1, DisconnectSound DEF Modem
  <2>3. ~[Disconnect(given) EXCEPT !.direct_conn = Direct].off_hook
    BY <2>2 DEF ModemRecord
  <2>4. QED
    BY <1>10, <2>3 DEF PeerCloses, Moves, given
<1>11. CASE DtrDown
  BY <1>3, <1>11 DEF DtrDown, Moves
<1>12. ASSUME NEW c \in Commands, NextCommand(c) PROVE Moves(m, m') /\ Recall(seen)
  BY <1>1, <1>12, CommandMoves DEF NextCommand
<1>13. QED
  BY <1>4, <1>5, <1>6, <1>7, <1>8, <1>9, <1>10, <1>11, <1>12

\* A character of the data stream.
LEMMA CharSimulates ==
    ASSUME EscapeInv, NEW b \in BOOLEAN, NextChar(b)
    PROVE  Synced' /\ [Escape!Next]_Escape!vars
<1>. USE DEF EscapeInv, SoundInv, TypeInv, TypeOK, Noisy
<1>1. ~m.cmd_mode /\ counting = m.pre_break_delay
      /\ m' = IF m.pre_break_delay THEN BreakChar(m, b) ELSE m
  BY DEF NextChar
<1>2. ~m'.cmd_mode /\ m'.conn_type = m.conn_type
  BY <1>1 DEF BreakChar, ClearBreak, ModemRecord
<1>3. seen' = IF b /\ seen < 3 THEN seen + 1 ELSE Noisy
  BY <1>1, <1>2 DEF NextChar, Recall
<1>4. Synced'
  <2>1. CASE m.pre_break_delay /\ b /\ m.break_len < 3
    <3>1. /\ m'.pre_break_delay /\ m'.break_len = m.break_len + 1
          /\ seen = m.break_len
      BY <1>1, <2>1 DEF BreakChar, Synced, ModemRecord
    <3>2. QED
      BY <1>2, <1>3, <2>1, <3>1 DEF Synced, ModemRecord
  <2>2. CASE m.pre_break_delay /\ ~(b /\ m.break_len < 3)
    <3>1. ~m'.pre_break_delay /\ m'.break_len = 0 /\ seen = m.break_len
      BY <1>1, <2>2 DEF BreakChar, ClearBreak, Synced, ModemRecord
    <3>2. QED
      BY <1>2, <1>3, <2>2, <3>1 DEF Synced, ModemRecord
  <2>3. CASE ~m.pre_break_delay
    BY <1>1, <1>2, <1>3, <2>3 DEF Synced
  <2>4. QED
    BY <2>1, <2>2, <2>3
<1>5. Escape!Plus \/ Escape!Other
  BY <1>1, <1>2, <1>3 DEF Escape!Plus, Escape!Other, Escape!Noisy
<1>6. QED
  BY <1>4, <1>5 DEF Escape!Next

\* A timer of data mode.
LEMMA TimerSimulates ==
    ASSUME EscapeInv, EscapeTimer, ~Direct
    PROVE  Synced' /\ [Escape!Next]_Escape!vars
<1>. USE DEF EscapeInv, SoundInv, TypeInv, TypeOK, Noisy
<1>1. Heard \in ModemRecord(Fds) /\ Heard = [m EXCEPT !.resp = {}] /\ ~m.cmd_mode
      /\ ~Heard.direct_conn
  BY DEF Heard, EscapeTimer, Timer, Sound, ModemRecord
<1>2. m' = HandleTimeout(Heard)
  BY DEF EscapeTimer, Handle
<1>3. Recall(IF seen \in {0, Noisy} THEN 0 ELSE Noisy)
  BY DEF EscapeTimer
<1>4. CASE ~m.pre_break_delay
  <2>1. /\ m'.pre_break_delay /\ m'.break_len = m.break_len
        /\ ~m'.cmd_mode /\ m'.conn_type = m.conn_type
    BY <1>1, <1>2, <1>4 DEF HandleTimeout, EscapeTimeout, InactiveTooLong, ModemRecord
  <2>2. seen = Noisy /\ m.break_len = 0 /\ seen' = 0
    BY <1>1, <1>3, <1>4, <2>1 DEF Synced, Recall
  <2>3. QED
    BY <1>1, <2>1, <2>2 DEF Synced, Escape!Next, Escape!Silence, Escape!Noisy
<1>5. CASE m.pre_break_delay /\ m.break_len = 3
  <2>1. m'.cmd_mode /\ m'.conn_type = m.conn_type /\ m'.break_len = 0
    BY <1>1, <1>2, <1>5 DEF HandleTimeout, EscapeTimeout, InactiveTooLong, ClearBreak,
       Respond, ModemRecord
  <2>2. seen = 3 /\ seen' = Noisy
    BY <1>1, <1>3, <1>5, <2>1 DEF Synced, Recall
  <2>3. QED
    BY <1>1, <2>1, <2>2 DEF Synced, Escape!Next, Escape!Silence, Escape!Noisy
<1>6. CASE m.pre_break_delay /\ m.break_len \in 1 .. 2
  <2>1. /\ ~m'.pre_break_delay /\ m'.break_len = 0
        /\ ~m'.cmd_mode /\ m'.conn_type = m.conn_type
    BY <1>1, <1>2, <1>6 DEF HandleTimeout, EscapeTimeout, InactiveTooLong, ClearBreak,
       ModemRecord
  <2>2. seen \in 1 .. 2 /\ seen' = Noisy
    BY <1>1, <1>3, <1>6, <2>1 DEF Synced, Recall
  <2>3. QED
    BY <1>1, <2>1, <2>2 DEF Synced, Escape!Next, Escape!Silence, Escape!Noisy
<1>7. CASE m.pre_break_delay /\ m.break_len = 0
  <2>1. InactiveTooLong(Heard)
    BY <1>1, <1>7 DEF EscapeTimer, Timer, InactiveTooLong, ModemRecord
  <2>2. m' \in Modem(Fds) /\ ~m'.off_hook
    BY <1>1, <1>2, <2>1, DisconnectSound DEF HandleTimeout
  <2>3. m'.cmd_mode /\ m'.conn_type = "NONE" /\ m'.break_len = 0 /\ seen' = Noisy
    BY <1>3, <2>2 DEF Modem, Sound, Recall
  <2>4. QED
    BY <2>3 DEF Synced, Escape!Next, Escape!HangUp, Escape!Noisy
<1>8. QED
  BY <1>4, <1>5, <1>6, <1>7 DEF ModemRecord

\* What a command line can go on with is a modem in command mode or a call.
LEMMA LineStays ==
    ASSUME EscapeInv, SoundInv', NEW c \in Commands, NextCommand(c)
    PROVE  pc' = "line" => m'.cmd_mode \/ m'.conn_type # "NONE"
<1>. USE DEF EscapeInv, SoundInv, TypeInv, TypeOK
<1>1. SUFFICES ASSUME pc' = "line", m'.off_hook
               PROVE  m'.cmd_mode \/ m'.conn_type # "NONE"
  BY DEF Sound
<1>2. m \in Modem(Fds) /\ (m.cmd_mode \/ m.conn_type # "NONE") /\ m' = Command(m, c)
  BY DEF NextCommand, Modem
<1>3. c.op \in {"H0", "H1", "I", "S0"}
  BY <1>1 DEF NextCommand, EndsLine, Commands
<1>4. CASE c.op = "H1"
  <2>1. m' = Answer(m)
    BY <1>2, <1>4 DEF Command
  <2>2. CASE AnswerHangsUp(m)
    BY <1>1, <1>2, <2>1, <2>2, DisconnectSound DEF Answer, Modem, Sound
  <2>3. CASE ~AnswerHangsUp(m)
    BY <1>2, <2>1, <2>3 DEF Answer, AnswerHangsUp, Respond, SetControlLines, OffHook,
       ModemRecord
  <2>4. QED
    BY <2>2, <2>3
<1>5. CASE c.op = "H0"
  BY <1>1, <1>2, <1>5, DisconnectSound DEF Command, Modem, Sound
<1>6. CASE c.op \in {"I", "S0"}
  BY <1>2, <1>6 DEF Command, ModemRecord
<1>7. QED
  BY <1>3, <1>4, <1>5, <1>6

LEMMA NextSimulates ==
    ASSUME EscapeInv, Next, ~Direct, MaxChunk = 1
    PROVE  EscapeInv' /\ [Escape!Next]_Escape!vars
<1>1. SoundInv'
  BY NextSound DEF EscapeInv
<1>2. Synced' /\ [Escape!Next]_Escape!vars
  <2>1. ASSUME NEW b \in BOOLEAN, NextChar(b) PROVE Synced' /\ [Escape!Next]_Escape!vars
    BY <2>1, CharSimulates
  <2>2. CASE EscapeTimer
    BY <2>2, TimerSimulates
  <2>3. CASE \/ OffHookInput \/ ReadChunk \/ ReadLine \/ EndLine \/ RingTimer
             \/ IncomingCall \/ PeerCloses \/ DtrDown
             \/ \E c \in Commands : NextCommand(c)
    <3>1. Moves(m, m') /\ Recall(seen)
      BY <2>3, OthersMove
    <3>2. QED
      BY <1>1, <3>1, MovesSimulate
  <2>4. QED
    BY <2>1, <2>2, <2>3 DEF Next, Bridge
<1>3. pc' = "chars" => left' = 1 /\ counting' = m'.pre_break_delay
  <2>1. CASE ReadChunk
    <3>1. m' = [m EXCEPT !.resp = {}] /\ m \in ModemRecord(Fds)
      BY <2>1 DEF ReadChunk, Heard, EscapeInv, SoundInv, TypeInv, TypeOK
    <3>2. m'.pre_break_delay = m.pre_break_delay
      BY <3>1 DEF ModemRecord
    <3>3. QED
      BY <2>1, <3>2 DEF ReadChunk
  <2>2. CASE ~ReadChunk
    BY <2>2 DEF Next, Bridge, OffHookInput, NextChar, ReadLine, NextCommand, EndLine,
       EscapeTimer, RingTimer, IncomingCall, PeerCloses, DtrDown, Handle, EscapeInv
  <2>3. QED
    BY <2>1, <2>2
<1>4. pc' = "line" => m'.cmd_mode \/ m'.conn_type # "NONE"
  <2>1. CASE ReadLine
    BY <2>1 DEF ReadLine, Heard, EscapeInv, SoundInv, TypeInv, TypeOK, ModemRecord
  <2>2. ASSUME NEW c \in Commands, NextCommand(c)
        PROVE  pc' = "line" => m'.cmd_mode \/ m'.conn_type # "NONE"
    BY <1>1, <2>2, LineStays
  <2>3. CASE ~ReadLine /\ ~\E c \in Commands : NextCommand(c)
    BY <2>3 DEF Next, Bridge, OffHookInput, ReadChunk, NextChar, EndLine,
       EscapeTimer, RingTimer, IncomingCall, PeerCloses, DtrDown, Handle
  <2>4. QED
    BY <2>1, <2>2, <2>3
<1>5. QED
  BY <1>1, <1>2, <1>3, <1>4 DEF EscapeInv

\* When every read() returns one character, a modem without a direct link
\* implements HayesEscape: it leaves data mode with the call up only after guard
\* time, exactly three "+", guard time.
THEOREM HayesImplementsEscape == ~Direct /\ MaxChunk = 1 => (Spec => EscapeIsHayes)
<1>. SUFFICES ASSUME ~Direct, MaxChunk = 1 PROVE Spec => EscapeIsHayes
  OBVIOUS
<1>1. Init => EscapeInv
  <2>1. ASSUME NEW s0 \in S0Values
        PROVE  LET r == InitModem(s0, S30, Direct) IN r.cmd_mode /\ r.break_len = 0
    BY DEF InitModem
  <2>2. QED
    BY <2>1, InitSound DEF Init, EscapeInv, Synced
<1>2. Init => Escape!Init
  <2>1. ASSUME NEW s0 \in S0Values
        PROVE  LET r == InitModem(s0, S30, Direct) IN r.cmd_mode /\ r.conn_type = "NONE"
    BY DEF InitModem
  <2>2. QED
    BY <2>1 DEF Init, Escape!Init, Noisy, Escape!Noisy
<1>3. EscapeInv /\ [Next]_vars => EscapeInv' /\ [Escape!Next]_Escape!vars
  <2>1. EscapeInv /\ UNCHANGED vars => EscapeInv' /\ UNCHANGED Escape!vars
    BY DEF EscapeInv, Synced, SoundInv, TypeInv, TypeOK, vars, Escape!vars
  <2>2. QED
    BY <2>1, NextSimulates
<1>4. QED
  BY <1>1, <1>2, <1>3, PTL DEF Spec, EscapeIsHayes, Escape!Spec

=============================================================================
