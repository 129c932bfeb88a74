---------------------------- MODULE TcpserProofs ----------------------------
(***************************************************************************)
(* What TLAPS proves of Tcpser, for any number of modems, callers and      *)
(* descriptors: it is type correct; when no modem is set to answer by      *)
(* itself nobody waits in accept() without a caller; no modem closes the   *)
(* descriptor of another; and when there are more descriptors than callers *)
(* a modem's line is one it has open, and an offer of main is answered.    *)
(***************************************************************************)
EXTENDS Tcpser, ModemCoreProofs

---------------------------------------------------------------------------
(* Type correctness *)

LEMMA InitTypes == Init => TypeOK
<1>. SUFFICES ASSUME Init PROVE TypeOK
  OBVIOUS
<1>1. \A i \in Modems : InitModem(S0[i], 0, FALSE) \in ModemRecord(Fds)
  <2>1. 0 \in 0 .. 3 /\ \A i \in Modems : S0[i] \in Nat
    BY TcpserAssumption
  <2>2. QED
    BY <2>1 DEF InitModem, ModemRecord, ConnTypes
<1>2. BridgeType
  BY <1>1 DEF Init, BridgeType, BridgePCs, ConnTypes
<1>3. PipeType
  BY DEF Init, PipeType, Inputs
<1>4. KernelType
  BY DEF Init, KernelType
<1>5. IpType
  BY DEF Init, IpType, IpPCs
<1>6. MainType
  BY DEF Init, MainType
<1>7. QED
  BY <1>2, <1>3, <1>4, <1>5, <1>6 DEF TypeOK

LEMMA FirstType == ASSUME NEW S \in SUBSET Sources PROVE First(S) \in BridgePCs
BY DEF First, BridgePCs, Sources

\* The environment and main.
LEMMA OutsideTypes ==
    ASSUME TypeOK,
           \/ Main
           \/ \E c \in Callers : Call(c) \/ HangUp(c) \/ Send(c)
           \/ \E i \in Modems : Type(i) \/ DropDtr(i)
    PROVE  TypeOK'
<1>1. KernelType'
  <2>1. CASE Main
    BY <2>1 DEF TypeOK, KernelType, Main, MainSelect, MainListening, MainAny, MainBusy, kernel
  <2>2. ASSUME NEW c \in Callers, Call(c) \/ HangUp(c) \/ Send(c) PROVE KernelType'
    <3>1. CASE Call(c)
      <4>1. Append(backlog, c) \in Seq(Callers)
        BY DEF TypeOK, KernelType
      <4>2. QED
        BY <3>1, <4>1 DEF TypeOK, KernelType, Call
    <3>2. CASE HangUp(c)
      BY <3>2 DEF TypeOK, KernelType, HangUp
    <3>3. CASE Send(c)
      BY <3>3 DEF TypeOK, KernelType, Send
    <3>4. QED
      BY <2>2, <3>1, <3>2, <3>3
  <2>3. CASE \E i \in Modems : Type(i) \/ DropDtr(i)
    BY <2>3 DEF TypeOK, KernelType, Type, DropDtr, kernel
  <2>4. QED
    BY <2>1, <2>2, <2>3
<1>2. PipeType' /\ MainType'
  <2>1. CASE MainSelect
    BY <2>1 DEF TypeOK, PipeType, MainType, MainSelect
  <2>2. CASE MainListening \/ MainAny
    BY <2>2 DEF TypeOK, PipeType, MainType, MainListening, MainAny, Offer
  <2>3. CASE MainBusy
    BY <2>3 DEF TypeOK, PipeType, MainType, MainBusy
  <2>4. ASSUME NEW c \in Callers, Call(c) \/ HangUp(c) \/ Send(c)
        PROVE  PipeType' /\ MainType'
    BY <2>4 DEF TypeOK, PipeType, MainType, Call, HangUp, Send, main
  <2>5. ASSUME NEW i \in Modems, Type(i) PROVE PipeType' /\ MainType'
    <3>1. \A t \in Typed : t \in Inputs
      BY TcpserAssumption DEF Inputs
    <3>2. QED
      BY <2>5, <3>1 DEF TypeOK, PipeType, MainType, Type, main
  <2>6. ASSUME NEW i \in Modems, DropDtr(i) PROVE PipeType' /\ MainType'
    BY <2>6 DEF TypeOK, PipeType, MainType, DropDtr, main
  <2>7. QED
    BY <2>1, <2>2, <2>3, <2>4, <2>5, <2>6 DEF Main
<1>3. BridgeType' /\ IpType'
  BY DEF TypeOK, BridgeType, IpType, bridge, ipthread, Main, MainSelect, MainListening,
     MainAny, MainBusy, Call, HangUp, Send, Type, DropDtr
<1>4. QED
  BY <1>1, <1>2, <1>3 DEF TypeOK

\* The ip thread.
LEMMA IpTypes ==
    ASSUME TypeOK, NEW i \in Modems, IpStep(i)
    PROVE  TypeOK'
<1>. USE DEF TypeOK
<1>1. PipeType' /\ MainType' /\ BridgeType' /\ KernelType'
  BY DEF PipeType, MainType, BridgeType, KernelType, IpStep, IpArm, IpSelect, IpCheck,
     IpRecv, IpUnblock, IpReport, IpPipe, Receive, kernel, main, bridge
<1>2. IpType'
  <2>1. CASE IpArm(i)
    BY <2>1 DEF IpType, IpArm, IpGoto, IpPCs, KernelType, BridgeType, ModemRecord
  <2>2. CASE IpSelect(i) \/ IpCheck(i)
    <3>1. CASE IpSelect(i)
      BY <2>2, <3>1 DEF IpType, IpSelect, IpGoto, IpPCs, PipeType
    <3>2. CASE IpCheck(i)
      BY <2>2, <3>2 DEF IpType, IpCheck, IpGoto, IpPCs
    <3>3. QED
      BY <2>2, <3>1, <3>2
  <2>3. CASE IpRecv(i) \/ IpUnblock(i)
    <3>1. /\ UNCHANGED <<action_pending, watched, notified>>
          /\ \E pc \in IpPCs : IpGoto(i, pc)
          /\ \E c \in Callers \union {Nobody} : sock' = [sock EXCEPT ![i] = c]
      <4>1. CASE IpUnblock(i)
        BY <4>1 DEF IpUnblock, Receive, IpPCs
      <4>2. CASE IpRecv(i)
        <5>. DEFINE c == IF modem[i].fd = NoFd THEN Nobody ELSE peer[modem[i].fd]
        <5>1. c \in Callers \union {Nobody}
          BY DEF KernelType, BridgeType, ModemRecord
        <5>2. \/ Receive(i, c)
              \/ sock' = [sock EXCEPT ![i] = c] /\ IpGoto(i, "blocked")
          BY <4>2 DEF IpRecv
        <5>. HIDE DEF c
        <5>3. QED
          BY <4>2, <5>1, <5>2 DEF IpRecv, Receive, IpPCs
      <4>3. QED
        BY <2>3, <4>1, <4>2
    <3>2. QED
      BY <3>1 DEF IpType, IpGoto
  <2>4. CASE IpReport(i) \/ IpPipe(i)
    BY <2>4 DEF IpType, IpReport, IpPipe, IpGoto, IpPCs
  <2>5. QED
    BY <2>1, <2>2, <2>3, <2>4 DEF IpStep
<1>3. QED
  BY <1>1, <1>2

\* A command that does not hang up.
LEMMA ObeyType ==
    ASSUME NEW F, NEW r \in ModemRecord(F), NEW t
    PROVE  Obey(r, t) \in ModemRecord(F)
BY SmallStepsType, AnswerType DEF Obey, ResultCodes

\* The bridge: what it does with the modem.
LEMMA BridgeModem ==
    ASSUME TypeOK, NEW i \in Modems, BridgeStep(i) \/ BridgeEscape(i)
    PROVE  modem' \in [Modems -> ModemRecord(Fds)]
<1>. USE DEF TypeOK, BridgeType
<1>. DEFINE r == modem[i]
<1>1. r \in ModemRecord(Fds)
  OBVIOUS
<1>2. ASSUME NEW new \in ModemRecord(Fds), SetModem(i, new)
      PROVE  modem' \in [Modems -> ModemRecord(Fds)]
  <2>1. [new EXCEPT !.resp = {}] \in ModemRecord(Fds)
    BY DEF ModemRecord
  <2>2. QED
    BY <1>2, <2>1 DEF SetModem
<1>3. CASE BeginHangUp(i)
  BY <1>2, <1>3, DisconnectType DEF BeginHangUp
<1>4. CASE UNCHANGED modem
  BY <1>4
<1>5. CASE \/ SetModem(i, SendRing(r)) \/ SetModem(i, Obey(r, serial[i]))
           \/ SetModem(i, DisconnectEnd(r))
  BY <1>1, <1>2, <1>5, SendRingType, ObeyType, DisconnectType
<1>6. CASE SetModem(i, [r EXCEPT !.cmd_mode = TRUE]) \/ SetModem(i, [r EXCEPT !.fd = NoFd])
  <2>1. [r EXCEPT !.cmd_mode = TRUE] \in ModemRecord(Fds)
        /\ [r EXCEPT !.fd = NoFd] \in ModemRecord(Fds)
    BY <1>1 DEF ModemRecord
  <2>2. QED
    BY <1>2, <1>6, <2>1
<1>7. CASE \E f \in Fds : SetModem(i, Accept(r, f))
  BY <1>1, <1>2, <1>7, AcceptType
<1>8. QED
  BY <1>3, <1>4, <1>5, <1>6, <1>7 DEF BridgeStep, BridgeEscape, BridgeConn, BridgeMode,
     BridgeSelect, BridgeRing, BridgeSerial, BridgeCtrl, BridgePeerClosed, BridgeHung,
     BridgeParent, BridgeAccept, BridgeAcceptFails

\* Where the bridge goes next.
LEMMA BridgeControl ==
    ASSUME TypeOK, NEW i \in Modems, BridgeStep(i) \/ BridgeEscape(i)
    PROVE  /\ bpc' \in [Modems -> BridgePCs] /\ bret' \in [Modems -> BridgePCs]
           /\ bready' \in [Modems -> SUBSET Sources]
<1>. USE DEF TypeOK, BridgeType
<1>1. Following(i) \in BridgePCs /\ First(Readable(i)) \in BridgePCs
      /\ Readable(i) \in SUBSET Sources
  <2>1. bready[i] \ {bpc[i]} \in SUBSET Sources /\ Readable(i) \in SUBSET Sources
    BY DEF Readable
  <2>2. QED
    BY <2>1, FirstType DEF Following
<1>2. bready' \in [Modems -> SUBSET Sources]
  <2>1. CASE Handled(i)
    BY <2>1 DEF Handled
  <2>2. CASE UNCHANGED bready
    BY <2>2
  <2>3. CASE bready' = [bready EXCEPT ![i] = Readable(i)]
    BY <1>1, <2>3
  <2>4. QED
    BY <2>1, <2>2, <2>3 DEF BridgeStep, BridgeEscape, BridgeConn, BridgeMode, BridgeSelect,
       BridgeRing, BridgeSerial, BridgeCtrl, BridgePeerClosed, BridgeHung, BridgeParent,
       BridgeAccept, BridgeAcceptFails
<1>3. \E pc \in BridgePCs : Goto(i, pc)
  BY <1>1 DEF BridgeStep, BridgeEscape, BridgeConn, BridgeMode, BridgeSelect,
       BridgeRing, BridgeSerial, BridgeCtrl, BridgePeerClosed, BridgeHung, BridgeParent,
       BridgeAccept, BridgeAcceptFails, BeginHangUp, BridgePCs
<1>4. UNCHANGED bret \/ \E pc \in BridgePCs : bret' = [bret EXCEPT ![i] = pc]
  BY <1>1 DEF BridgeStep, BridgeEscape, BridgeConn, BridgeMode, BridgeSelect,
       BridgeRing, BridgeSerial, BridgeCtrl, BridgePeerClosed, BridgeHung, BridgeParent,
       BridgeAccept, BridgeAcceptFails, BeginHangUp, BridgePCs
<1>5. QED
  BY <1>2, <1>3, <1>4 DEF Goto

LEMMA BridgeTypes ==
    ASSUME TypeOK, NEW i \in Modems, BridgeStep(i) \/ BridgeEscape(i)
    PROVE  TypeOK'
<1>. USE DEF TypeOK
<1>1. KernelType'
  <2>1. CASE BeginHangUp(i)
    <3>1. peer' \in [Fds -> Callers \union {Nobody}]
      BY <2>1 DEF BeginHangUp, KernelType
    <3>2. QED
      BY <2>1, <3>1 DEF BeginHangUp, KernelType
  <2>2. CASE UNCHANGED kernel
    BY <2>2 DEF kernel, KernelType
  <2>3. CASE BridgeAccept(i)
    <3>1. backlog \in Seq(Callers) /\ backlog # <<>>
      BY <2>3 DEF BridgeAccept, KernelType
    <3>2. Head(backlog) \in Callers /\ Tail(backlog) \in Seq(Callers)
      BY <3>1
    <3>3. QED
      BY <2>3, <3>2 DEF BridgeAccept, KernelType
  <2>4. QED
    BY <2>1, <2>2, <2>3 DEF BridgeStep, BridgeEscape, BridgeConn, BridgeMode, BridgeSelect,
       BridgeRing, BridgeSerial, BridgeCtrl, BridgePeerClosed, BridgeHung, BridgeParent,
       BridgeAcceptFails
<1>2. PipeType'
  <2>1. CASE BridgeConn(i) \/ BridgeMode(i)
    BY <2>1 DEF PipeType, BridgeConn, BridgeMode
  <2>2. CASE BridgeSerial(i) \/ BridgeCtrl(i) \/ BridgePeerClosed(i)
    BY <2>2 DEF PipeType, BridgeSerial, BridgeCtrl, BridgePeerClosed, Inputs
  <2>3. CASE BridgeParent(i) \/ BridgeAccept(i)
    BY <2>3 DEF PipeType, BridgeParent, BridgeAccept
  <2>4. CASE BridgeSelect(i) \/ BridgeRing(i) \/ BridgeHung(i) \/ BridgeAcceptFails(i)
             \/ BridgeEscape(i)
    BY <2>4 DEF PipeType, BridgeSelect, BridgeRing, BridgeHung, BridgeAcceptFails, BridgeEscape
  <2>5. QED
    BY <2>1, <2>2, <2>3, <2>4 DEF BridgeStep
<1>3. MainType' /\ IpType'
  BY DEF MainType, IpType, main, ipthread, BridgeStep, BridgeEscape, BridgeConn, BridgeMode,
     BridgeSelect, BridgeRing, BridgeSerial, BridgeCtrl, BridgePeerClosed, BridgeHung,
     BridgeParent, BridgeAccept, BridgeAcceptFails
<1>4. last_conn' \in [Modems -> ConnTypes] /\ last_mode' \in [Modems -> BOOLEAN]
  <2>1. CASE BridgeConn(i)
    BY <2>1 DEF BridgeType, BridgeConn, ModemRecord
  <2>2. CASE BridgeMode(i)
    BY <2>2 DEF BridgeType, BridgeMode, ModemRecord
  <2>3. CASE ~BridgeConn(i) /\ ~BridgeMode(i)
    BY <2>3 DEF BridgeType, BridgeStep, BridgeEscape, BridgeSelect, BridgeRing, BridgeSerial,
       BridgeCtrl, BridgePeerClosed, BridgeHung, BridgeParent, BridgeAccept, BridgeAcceptFails
  <2>4. QED
    BY <2>1, <2>2, <2>3
<1>5. BridgeType'
  BY <1>4, BridgeModem, BridgeControl DEF BridgeType
<1>6. QED
  BY <1>1, <1>2, <1>3, <1>5

LEMMA NextTypes == TypeOK /\ [Next]_vars => TypeOK'
<1>1. ASSUME TypeOK, UNCHANGED vars PROVE TypeOK'
  BY <1>1 DEF TypeOK, KernelType, PipeType, MainType, BridgeType, IpType, vars, kernel,
     main, bridge, ipthread
<1>2. ASSUME TypeOK, Next PROVE TypeOK'
  BY <1>2, OutsideTypes, BridgeTypes, IpTypes DEF Next
<1>3. QED
  BY <1>1, <1>2

\* tcpser's shared state keeps its types under every interleaving of its
\* threads, whatever callers and DTE do.
THEOREM TcpserTypeCorrect == Spec => []TypeOK
BY InitTypes, NextTypes, PTL DEF Spec

---------------------------------------------------------------------------
(* One offer at a time.  While every modem waits for its DTE to answer, so *)
(* that main's first loop finds nobody, a caller is offered to one modem   *)
(* only: from main's write into mp1 to the bridge's return from accept()   *)
(* the offer is in one place, main has accept_pending set, and the caller  *)
(* is still in the backlog.                                                *)

NoAutoAnswer == \A i \in Modems : modem[i].s0 = 0

\* The handlers that are still to run are among the sources that were readable,
\* and MSG_ACCEPT is only handled while it is in the pipe.
Scheduled(i) ==
    /\ bpc[i] = "mp1" => "mp1" \in bready[i]
    /\ bpc[i] = "hung" /\ bret[i] = "mp1" => "mp1" \in bready[i]
    /\ "mp1" \in bready[i] => mp1[i]
    /\ bpc[i] = "accept" => ~mp1[i]
    /\ bret[i] \notin {"hung", "accept"}

Offered(i) == mp1[i] \/ bpc[i] = "accept"

OfferInv ==
    /\ TypeOK /\ NoAutoAnswer
    /\ \A i \in Modems : Scheduled(i)
    /\ \A i, j \in Modems : Offered(i) /\ Offered(j) => i = j
    /\ \A i \in Modems : Offered(i) => accept_pending /\ backlog # <<>> /\ mpc = "select"
    /\ \A i \in Modems : mp0[i] => /\ accept_pending /\ mpc = "select"
                                   /\ \A j \in Modems : ~Offered(j)
    /\ mpc # "select" => ~accept_pending /\ backlog # <<>>

\* No step of tcpser writes S0; only the DTE's ATS0= does, which is left out.
LEMMA RegisterKept ==
    ASSUME NEW F, NEW r \in ModemRecord(F)
    PROVE  /\ DisconnectBegin(r).s0 = r.s0 /\ DisconnectEnd(r).s0 = r.s0
           /\ SendRing(r).s0 = r.s0 /\ \A t : Obey(r, t).s0 = r.s0
           /\ \A f \in F : Accept(r, f).s0 = r.s0
<1>1. ASSUME NEW q \in ModemRecord(F)
      PROVE  /\ DisconnectBegin(q).s0 = q.s0 /\ DisconnectEnd(q).s0 = q.s0
             /\ Disconnect(q).s0 = q.s0
  <2>1. ASSUME NEW p \in ModemRecord(F) PROVE DisconnectBegin(p).s0 = p.s0
    BY DEF DisconnectBegin, ClearBreak, ModemRecord
  <2>2. ASSUME NEW p \in ModemRecord(F) PROVE DisconnectEnd(p).s0 = p.s0
    BY DEF DisconnectEnd, SetControlLines, Respond, ModemRecord
  <2>3. QED
    BY <2>1, <2>2, DisconnectType DEF Disconnect
<1>2. ASSUME NEW q \in ModemRecord(F) PROVE Answer(q).s0 = q.s0
  <2>1. CASE AnswerHangsUp(q)
    BY <1>1, <2>1 DEF Answer
  <2>2. CASE ~AnswerHangsUp(q)
    BY <2>2 DEF Answer, Respond, SetControlLines, OffHook, ModemRecord
  <2>3. QED
    BY <2>1, <2>2
<1>3. ASSUME NEW q \in ModemRecord(F) PROVE SendRing(q).s0 = q.s0
  <2>. DEFINE rung == Respond([q EXCEPT !.line_ringing = TRUE, !.rings = @ + 1], "RING")
  <2>1. [q EXCEPT !.line_ringing = TRUE, !.rings = @ + 1] \in ModemRecord(F)
    <3>1. q.rings + 1 \in Nat
      BY DEF ModemRecord
    <3>2. QED
      BY <3>1 DEF ModemRecord
  <2>2. rung \in ModemRecord(F) /\ rung.s0 = q.s0
    <3>1. rung \in ModemRecord(F)
      BY <2>1, SmallStepsType DEF ResultCodes
    <3>2. [q EXCEPT !.line_ringing = TRUE, !.rings = @ + 1].s0 = q.s0
      BY DEF ModemRecord
    <3>. DEFINE line == [q EXCEPT !.line_ringing = TRUE, !.rings = @ + 1]
    <3>. HIDE DEF line
    <3>3. Respond(line, "RING").s0 = line.s0
      BY <2>1 DEF Respond, ModemRecord, line
    <3>4. QED
      BY <3>1, <3>2, <3>3 DEF line
  <2>. HIDE DEF rung
  <2>3. Answer(rung).s0 = q.s0
    BY <1>2, <2>2
  <2>4. QED
    BY <2>2, <2>3 DEF SendRing, rung
<1>4. ASSUME NEW f \in F PROVE Accept(r, f).s0 = r.s0
  <2>. DEFINE taken == [r EXCEPT !.fd = f, !.valid_conn = TRUE, !.open = @ \union {f}]
  <2>1. [taken EXCEPT !.rings = 0] \in ModemRecord(F)
        /\ [taken EXCEPT !.rings = 0].s0 = r.s0
        /\ [OffHook(taken) EXCEPT !.conn_type = "INCOMING", !.cmd_mode = TRUE].s0 = r.s0
    BY DEF ModemRecord, OffHook
  <2>2. SendRing([taken EXCEPT !.rings = 0]).s0 = r.s0
    BY <1>3, <2>1
  <2>3. QED
    BY <2>1, <2>2 DEF Accept
<1>5. ASSUME NEW t PROVE Obey(r, t).s0 = r.s0
  <2>1. OffHook(r).s0 = r.s0
    BY DEF OffHook, ModemRecord
  <2>2. QED
    BY <1>2, <2>1 DEF Obey
<1>6. QED
  BY <1>1, <1>3, <1>4, <1>5

LEMMA ManualKept ==
    ASSUME TypeOK, NoAutoAnswer, NEW i \in Modems, BridgeStep(i) \/ BridgeEscape(i)
    PROVE  NoAutoAnswer'
<1>. USE DEF TypeOK, BridgeType, NoAutoAnswer
<1>. DEFINE r == modem[i]
<1>1. r \in ModemRecord(Fds) /\ r.s0 = 0
  OBVIOUS
<1>2. ASSUME NEW new \in ModemRecord(Fds), new.s0 = 0, SetModem(i, new) PROVE NoAutoAnswer'
  BY <1>2 DEF SetModem, ModemRecord
<1>3. CASE BeginHangUp(i)
  BY <1>1, <1>2, <1>3, RegisterKept, DisconnectType DEF BeginHangUp
<1>4. CASE UNCHANGED modem
  BY <1>4
<1>5. CASE \/ SetModem(i, SendRing(r)) \/ SetModem(i, Obey(r, serial[i]))
           \/ SetModem(i, DisconnectEnd(r))
  BY <1>1, <1>2, <1>5, RegisterKept, SendRingType, ObeyType, DisconnectType
<1>6. CASE SetModem(i, [r EXCEPT !.cmd_mode = TRUE]) \/ SetModem(i, [r EXCEPT !.fd = NoFd])
  <2>1. /\ [r EXCEPT !.cmd_mode = TRUE] \in ModemRecord(Fds)
        /\ [r EXCEPT !.fd = NoFd] \in ModemRecord(Fds)
        /\ [r EXCEPT !.cmd_mode = TRUE].s0 = 0 /\ [r EXCEPT !.fd = NoFd].s0 = 0
    BY <1>1 DEF ModemRecord
  <2>2. QED
    BY <1>2, <1>6, <2>1
<1>7. CASE \E f \in Fds : SetModem(i, Accept(r, f))
  BY <1>1, <1>2, <1>7, RegisterKept, AcceptType
<1>8. QED
  BY <1>3, <1>4, <1>5, <1>6, <1>7 DEF BridgeStep, BridgeEscape, BridgeConn, BridgeMode,
     BridgeSelect, BridgeRing, BridgeSerial, BridgeCtrl, BridgePeerClosed, BridgeHung,
     BridgeParent, BridgeAccept, BridgeAcceptFails

LEMMA FirstIn == ASSUME NEW S, First(S) = "mp1" PROVE "mp1" \in S
BY DEF First

\* main: what it reads and writes of the offers.
LEMMA MainKeepsOffers == ASSUME OfferInv, Main PROVE OfferInv'
<1>. USE DEF OfferInv, Offered, Scheduled
<1>1. TypeOK'
  BY NextTypes DEF Next
<1>2. UNCHANGED bridge
  BY DEF Main, MainSelect, MainListening, MainAny, MainBusy
<1>3. CASE MainSelect
  BY <1>1, <1>2, <1>3 DEF MainSelect, bridge, kernel, NoAutoAnswer
<1>4. CASE MainListening
  <2>1. {i \in OnHook : modem[i].s0 # 0} = {}
    BY DEF OnHook, NoAutoAnswer
  <2>2. UNCHANGED <<mp1, accept_pending>>
    BY <1>4, <2>1 DEF MainListening, Offer, IsLeast
  <2>3. QED
    BY <1>1, <1>2, <1>4, <2>2 DEF MainListening, bridge, kernel, NoAutoAnswer
<1>5. CASE MainAny
  <2>1. \A i \in Modems : ~Offered(i) /\ ~mp0[i] /\ "mp1" \notin bready[i]
    BY <1>5 DEF MainAny
  <2>2. CASE OnHook = {}
    <3>1. UNCHANGED <<mp1, accept_pending>> /\ mpc' = "busy"
      BY <1>5, <2>2 DEF MainAny, Offer, IsLeast
    <3>2. QED
      BY <1>1, <1>2, <1>5, <3>1 DEF MainAny, bridge, kernel, NoAutoAnswer
  <2>3. CASE OnHook # {}
    <3>1. PICK i \in Modems : mp1' = [mp1 EXCEPT ![i] = TRUE]
      BY <1>5, <2>3 DEF MainAny, Offer
    <3>2. accept_pending' /\ mpc' = "select" /\ mp1 \in [Modems -> BOOLEAN]
      BY <1>5, <2>3 DEF MainAny, Offer, TypeOK, PipeType
    <3>3. \A j \in Modems : mp1'[j] <=> j = i
      BY <2>1, <3>1, <3>2
    <3>4. /\ UNCHANGED <<mp0, backlog>> /\ backlog # <<>>
          /\ bpc' = bpc /\ bret' = bret /\ bready' = bready /\ modem' = modem
      BY <1>2, <1>5 DEF MainAny, bridge, kernel
    <3>5. QED
      BY <1>1, <2>1, <3>2, <3>3, <3>4 DEF NoAutoAnswer
  <2>4. QED
    BY <2>2, <2>3
<1>6. CASE MainBusy
  BY <1>1, <1>2, <1>6 DEF MainBusy, bridge, NoAutoAnswer
<1>7. QED
  BY <1>3, <1>4, <1>5, <1>6 DEF Main

\* The bridge's own bookkeeping of what it has to handle.
LEMMA BridgeKeepsSchedule ==
    ASSUME OfferInv, NEW i \in Modems, BridgeStep(i) \/ BridgeEscape(i)
    PROVE  \A j \in Modems : Scheduled(j)'
<1>. USE DEF OfferInv, TypeOK, BridgeType, PipeType
<1>1. \A j \in Modems \ {i} : /\ bpc'[j] = bpc[j] /\ bret'[j] = bret[j]
                              /\ bready'[j] = bready[j] /\ mp1'[j] = mp1[j]
  BY DEF BridgeStep, BridgeEscape, BridgeConn, BridgeMode, BridgeSelect, BridgeRing,
     BridgeSerial, BridgeCtrl, BridgePeerClosed, BridgeHung, BridgeParent, BridgeAccept,
     BridgeAcceptFails, BeginHangUp, Handled, Goto
<1>2. Scheduled(i)'
  <2>. USE DEF Scheduled, Goto
  <2>1. CASE BridgeConn(i) \/ BridgeMode(i) \/ BridgeEscape(i) \/ BridgeAccept(i)
             \/ BridgeAcceptFails(i)
    BY <2>1 DEF BridgeConn, BridgeMode, BridgeEscape, BridgeAccept, BridgeAcceptFails
  <2>2. CASE BridgeSelect(i)
    <3>1. /\ bpc'[i] = First(Readable(i)) /\ bready'[i] = Readable(i)
          /\ mp1' = mp1 /\ bret' = bret
      BY <2>2 DEF BridgeSelect
    <3>2. "mp1" \in Readable(i) => mp1[i]
      BY DEF Readable
    <3>3. bpc'[i] \notin {"hung", "accept"}
      BY <3>1 DEF First
    <3>4. QED
      BY <3>1, <3>2, <3>3, FirstIn
  <2>3. CASE BridgeRing(i)
    <3>1. bready' = bready /\ mp1' = mp1
      BY <2>3 DEF BridgeRing
    <3>2. \/ bpc'[i] = "conn"
          \/ bpc'[i] = "hung" /\ bret'[i] = Following(i)
      BY <2>3 DEF BridgeRing, BeginHangUp
    <3>3. Following(i) = "mp1" => "mp1" \in bready[i]
      BY FirstIn DEF Following
    <3>4. Following(i) \notin {"hung", "accept"}
      BY DEF Following, First
    <3>5. bret'[i] \in {bret[i], Following(i)}
      BY <2>3 DEF BridgeRing, BeginHangUp
    <3>6. QED
      BY <3>1, <3>2, <3>3, <3>4, <3>5
  <2>4. CASE BridgeSerial(i) \/ BridgeCtrl(i) \/ BridgePeerClosed(i)
    <3>1. bready'[i] = bready[i] \ {bpc[i]} /\ mp1' = mp1 /\ bpc[i] # "mp1"
      BY <2>4 DEF BridgeSerial, BridgeCtrl, BridgePeerClosed, Handled
    <3>2. \/ bpc'[i] = Following(i)
          \/ bpc'[i] = "hung" /\ bret'[i] = Following(i)
      BY <2>4 DEF BridgeSerial, BridgeCtrl, BridgePeerClosed, BeginHangUp
    <3>3. Following(i) = "mp1" => "mp1" \in bready'[i]
      BY <3>1, FirstIn DEF Following
    <3>4. Following(i) \notin {"hung", "accept"}
      BY DEF Following, First
    <3>5. bret'[i] \in {bret[i], Following(i)}
      BY <2>4 DEF BridgeSerial, BridgeCtrl, BridgePeerClosed, BeginHangUp
    <3>6. QED
      BY <3>1, <3>2, <3>3, <3>4, <3>5
  <2>5. CASE BridgeHung(i)
    BY <2>5 DEF BridgeHung
  <2>6. CASE BridgeParent(i)
    BY <2>6 DEF BridgeParent, Handled
  <2>7. QED
    BY <2>1, <2>2, <2>3, <2>4, <2>5, <2>6 DEF BridgeStep
<1>3. QED
  BY <1>1, <1>2 DEF Scheduled

\* A bridge step and the offers.
LEMMA BridgeKeepsOffers ==
    ASSUME OfferInv, NEW i \in Modems, BridgeStep(i) \/ BridgeEscape(i)
    PROVE  OfferInv'
<1>. USE DEF OfferInv
<1>1. /\ TypeOK' /\ NoAutoAnswer' /\ \A j \in Modems : Scheduled(j)'
      /\ UNCHANGED <<mpc, accept_pending>>
  <2>1. TypeOK' /\ NoAutoAnswer' /\ \A j \in Modems : Scheduled(j)'
    BY BridgeTypes, ManualKept, BridgeKeepsSchedule
  <2>2. UNCHANGED <<mpc, accept_pending>>
    BY DEF main, BridgeStep, BridgeEscape, BridgeConn, BridgeMode, BridgeSelect, BridgeRing,
       BridgeSerial, BridgeCtrl, BridgePeerClosed, BridgeHung, BridgeParent, BridgeAccept,
       BridgeAcceptFails
  <2>3. QED
    BY <2>1, <2>2
<1>. USE DEF TypeOK, BridgeType, PipeType, Offered
<1>2. CASE BridgeAccept(i)
  <2>1. \A j \in Modems : ~Offered(j)'
    BY <1>2 DEF BridgeAccept, Goto, Scheduled
  <2>2. mpc = "select" /\ accept_pending
    BY <1>2 DEF BridgeAccept
  <2>3. QED
    BY <1>1, <2>1, <2>2
<1>3. CASE BridgeAcceptFails(i)
  <2>1. \A j \in Modems : ~Offered(j)' /\ mp0'[j] = mp0[j]
    BY <1>3 DEF BridgeAcceptFails, Goto, Scheduled
  <2>2. UNCHANGED backlog
    BY <1>3 DEF BridgeAcceptFails, kernel
  <2>3. QED
    BY <1>1, <2>1, <2>2
<1>4. CASE BridgeParent(i)
  <2>1. bpc[i] = "mp1" /\ mp1[i]
    BY <1>4 DEF BridgeParent, Scheduled
  <2>2. \A j \in Modems : Offered(j)' <=> Offered(j)
    BY <1>4, <2>1 DEF BridgeParent, Goto
  <2>3. UNCHANGED <<backlog, mp0>>
    BY <1>4 DEF BridgeParent, kernel
  <2>4. QED
    BY <1>1, <2>2, <2>3
<1>5. CASE ~BridgeAccept(i) /\ ~BridgeAcceptFails(i) /\ ~BridgeParent(i)
  <2>1. UNCHANGED <<backlog, mp0, mp1>>
    BY <1>5 DEF BridgeStep, BridgeEscape, BridgeConn, BridgeMode, BridgeSelect, BridgeRing,
       BridgeSerial, BridgeCtrl, BridgePeerClosed, BridgeHung, BeginHangUp, kernel
  <2>2. \A j \in Modems : bpc'[j] = "accept" <=> bpc[j] = "accept"
    <3>1. First(Readable(i)) # "accept" /\ Following(i) # "accept" /\ bret[i] # "accept"
      BY DEF First, Following, Scheduled
    <3>2. bpc[i] # "accept"
      BY <1>5 DEF BridgeStep, BridgeEscape, BridgeConn, BridgeMode, BridgeSelect, BridgeRing,
       BridgeSerial, BridgeCtrl, BridgePeerClosed, BridgeHung
    <3>3. \E pc \in BridgePCs \ {"accept"} : Goto(i, pc)
      BY <1>5, <3>1, BridgeControl DEF BridgeStep, BridgeEscape, BridgeConn, BridgeMode,
         BridgeSelect, BridgeRing, BridgeSerial, BridgeCtrl, BridgePeerClosed, BridgeHung,
         BeginHangUp, Goto, BridgePCs, Sources, First, Following
    <3>4. QED
      BY <3>2, <3>3 DEF Goto
  <2>3. \A j \in Modems : Offered(j)' <=> Offered(j)
    BY <2>1, <2>2
  <2>4. QED
    BY <1>1, <2>1, <2>3
<1>6. QED
  BY <1>2, <1>3, <1>4, <1>5

LEMMA NextKeepsOffers == OfferInv /\ [Next]_vars => OfferInv'
<1>1. ASSUME OfferInv, \/ UNCHANGED vars
                       \/ \E i \in Modems : IpStep(i) \/ Type(i) \/ DropDtr(i)
                       \/ \E c \in Callers : HangUp(c) \/ Send(c)
      PROVE  OfferInv'
  <2>1. TypeOK' /\ UNCHANGED <<modem, bpc, bret, bready, mp0, mp1, accept_pending, mpc, backlog>>
    <3>1. TypeOK'
      BY <1>1, NextTypes DEF OfferInv, Next
    <3>2. UNCHANGED <<modem, bpc, bret, bready, mp0, mp1, accept_pending, mpc, backlog>>
      BY <1>1 DEF vars, kernel, main, bridge, IpStep, IpArm, IpSelect, IpCheck, IpRecv,
         IpUnblock, IpReport, IpPipe, Type, DropDtr, HangUp, Send
    <3>3. QED
      BY <3>1, <3>2
  <2>2. QED
    BY <1>1, <2>1 DEF OfferInv, NoAutoAnswer, Scheduled, Offered
<1>2. ASSUME OfferInv, NEW c \in Callers, Call(c) PROVE OfferInv'
  <2>1. TypeOK' /\ UNCHANGED <<modem, bpc, bret, bready, mp0, mp1, accept_pending, mpc>>
    <3>1. TypeOK'
      BY <1>2, NextTypes DEF OfferInv, Next
    <3>2. UNCHANGED <<modem, bpc, bret, bready, mp0, mp1, accept_pending, mpc>>
      BY <1>2 DEF Call, bridge, main
    <3>3. QED
      BY <3>1, <3>2
  <2>2. backlog' # <<>>
    BY <1>2 DEF Call, OfferInv, TypeOK, KernelType
  <2>3. QED
    BY <1>2, <2>1, <2>2 DEF OfferInv, NoAutoAnswer, Scheduled, Offered
<1>3. QED
  BY <1>1, <1>2, MainKeepsOffers, BridgeKeepsOffers DEF Next

\* With no modem set to answer by itself, a thread of tcpser that calls accept()
\* finds a caller in the backlog, so neither main nor a bridge hangs there.
THEOREM OffersFindCallers ==
    (\A i \in Modems : S0[i] = 0) => (Spec => []AcceptFindsCaller)
<1>. SUFFICES ASSUME \A i \in Modems : S0[i] = 0
              PROVE  Spec => []AcceptFindsCaller
  OBVIOUS
<1>1. Init => OfferInv
  <2>1. Init => NoAutoAnswer
    BY DEF Init, InitModem, NoAutoAnswer
  <2>2. QED
    BY <2>1, InitTypes DEF Init, OfferInv, Scheduled, Offered
<1>2. OfferInv => AcceptFindsCaller
  BY DEF OfferInv, Offered, AcceptFindsCaller
<1>3. QED
  BY <1>1, <1>2, NextKeepsOffers, PTL DEF Spec

---------------------------------------------------------------------------
(* The descriptors.  Every thread may reuse a descriptor as soon as it is  *)
(* closed, so that a modem closes only its own rests on two things: the    *)
(* descriptor it takes for its caller's is one it opened, and the handler  *)
(* that hangs up runs only for input that is there.                        *)

\* The handlers still to run are those of bready, in their order.
Orderly(i) ==
    /\ bpc[i] \in Sources => bpc[i] = First(bready[i])
    /\ bpc[i] = "hung" => bret[i] = First(bready[i])
    /\ bpc[i] \notin Sources \union {"hung"} => bready[i] = {}
    /\ "serial" \in bready[i] => serial[i] # "NONE"

\* The modem knows its caller's descriptor, or that it has none.
LineKnown(i) ==
    /\ ~modem[i].direct_conn
    /\ modem[i].valid_conn /\ bpc[i] # "hung" => modem[i].fd \in modem[i].open \union {NoFd}

HeldInv == /\ TypeOK /\ DescriptorsApart
           /\ \A i \in Modems : Orderly(i) /\ LineKnown(i)

\* What first() of the handlers says of those that are left.
LEMMA FirstOf ==
    ASSUME NEW S \in SUBSET Sources
    PROVE  /\ First(S) \in S \/ (First(S) = "conn" /\ S = {})
           /\ First(S) = "mp1" => S = {"mp1"}
           /\ First(S) \notin {"hung", "accept", "select", "mode"}
BY DEF First, Sources

\* The fields that say which descriptors a modem has.
LEMMA LineFields ==
    ASSUME NEW F, NEW r \in ModemRecord(F), ~r.direct_conn
    PROVE  /\ DisconnectBegin(r).open = r.open \ ClosedBy(r)
           /\ ~DisconnectBegin(r).direct_conn
           /\ DisconnectEnd(r).open = r.open /\ ~DisconnectEnd(r).valid_conn
           /\ ~DisconnectEnd(r).direct_conn
           /\ ~AnswerHangsUp(r) => /\ Answer(r).open = r.open /\ Answer(r).fd = r.fd
                                   /\ Answer(r).valid_conn = r.valid_conn
                                   /\ ~Answer(r).direct_conn
<1>1. /\ DisconnectBegin(r).open = r.open \ ClosedBy(r)
      /\ ~DisconnectBegin(r).direct_conn
  BY DEF DisconnectBegin, ClearBreak, ModemRecord
<1>2. /\ DisconnectEnd(r).open = r.open /\ ~DisconnectEnd(r).valid_conn
      /\ ~DisconnectEnd(r).direct_conn
  BY DEF DisconnectEnd, SetControlLines, Respond, ModemRecord
<1>3. ASSUME ~AnswerHangsUp(r)
      PROVE  /\ Answer(r).open = r.open /\ Answer(r).fd = r.fd
             /\ Answer(r).valid_conn = r.valid_conn /\ ~Answer(r).direct_conn
  BY <1>3 DEF Answer, Respond, SetControlLines, OffHook, ModemRecord
<1>4. QED
  BY <1>1, <1>2, <1>3

\* Input that does not hang up leaves the line as it is.
LEMMA ObeyFields ==
    ASSUME TypeOK, NEW i \in Modems, ~modem[i].direct_conn, ~SerialHangsUp(i),
           serial[i] \in {"ATA", "ATH", "ATD"}
    PROVE  LET new == Obey(modem[i], serial[i])
           IN  /\ new.open = modem[i].open /\ new.fd = modem[i].fd
               /\ new.valid_conn = modem[i].valid_conn /\ ~new.direct_conn
<1>. DEFINE r == modem[i]
<1>1. r \in ModemRecord(Fds)
  BY DEF TypeOK, BridgeType
<1>2. /\ OffHook(r).open = r.open /\ OffHook(r).fd = r.fd
      /\ OffHook(r).valid_conn = r.valid_conn /\ OffHook(r).direct_conn = r.direct_conn
  BY <1>1 DEF OffHook, ModemRecord
<1>3. r.cmd_mode /\ serial[i] # "ATD" => ~AnswerHangsUp(r)
  BY DEF SerialHangsUp
<1>4. QED
  BY <1>1, <1>2, <1>3, LineFields DEF Obey

LEMMA RingFields ==
    ASSUME NEW F, NEW r \in ModemRecord(F), ~r.direct_conn
    PROVE  /\ SendRing(r).open = r.open /\ SendRing(r).fd = r.fd
           /\ SendRing(r).valid_conn = r.valid_conn /\ ~SendRing(r).direct_conn
<1>. DEFINE line == [r EXCEPT !.line_ringing = TRUE, !.rings = @ + 1]
            rung == Respond(line, "RING")
<1>1. line \in ModemRecord(F) /\ line.open = r.open /\ line.fd = r.fd /\ line.line_ringing
      /\ line.valid_conn = r.valid_conn /\ ~line.direct_conn
  <2>1. r.rings + 1 \in Nat
    BY DEF ModemRecord
  <2>2. QED
    BY <2>1 DEF ModemRecord
<1>. HIDE DEF line
<1>2. rung \in ModemRecord(F)
  BY <1>1, SmallStepsType DEF ResultCodes
<1>3. rung.open = r.open /\ rung.fd = r.fd /\ rung.line_ringing
      /\ rung.valid_conn = r.valid_conn /\ ~rung.direct_conn
  BY <1>1 DEF Respond, ModemRecord
<1>. HIDE DEF rung
<1>4. ~AnswerHangsUp(rung)
  BY <1>3 DEF AnswerHangsUp
<1>5. QED
  BY <1>2, <1>3, <1>4, LineFields DEF SendRing, rung, line

LEMMA AcceptFields ==
    ASSUME NEW F, NEW r \in ModemRecord(F), ~r.direct_conn, NEW f \in F
    PROVE  /\ Accept(r, f).open = r.open \union {f} /\ Accept(r, f).fd = f
           /\ Accept(r, f).valid_conn /\ ~Accept(r, f).direct_conn
<1>. DEFINE line == [[r EXCEPT !.fd = f, !.valid_conn = TRUE, !.open = @ \union {f}]
                        EXCEPT !.rings = 0]
<1>1. line \in ModemRecord(F) /\ line.open = r.open \union {f} /\ line.fd = f
      /\ line.valid_conn /\ ~line.direct_conn
  BY DEF ModemRecord
<1>2. Accept(r, f) = SendRing(line)
  BY DEF Accept, ModemRecord
<1>. HIDE DEF line
<1>3. QED
  BY <1>1, <1>2, RingFields

\* The new record of modem i, without the result codes.
LEMMA NewModem ==
    ASSUME TypeOK, NEW i \in Modems, NEW new \in ModemRecord(Fds), SetModem(i, new)
    PROVE  /\ modem'[i].open = new.open /\ modem'[i].fd = new.fd
           /\ modem'[i].valid_conn = new.valid_conn
           /\ modem'[i].direct_conn = new.direct_conn
           /\ \A j \in Modems : j # i => modem'[j] = modem[j]
BY DEF TypeOK, BridgeType, SetModem, ModemRecord

\* A step that is not one of a bridge touches none of this.
LEMMA OthersKeepLines ==
    ASSUME TypeOK, \/ UNCHANGED vars \/ Main
                   \/ \E i \in Modems : IpStep(i) \/ Type(i) \/ DropDtr(i)
                   \/ \E c \in Callers : Call(c) \/ HangUp(c) \/ Send(c)
    PROVE  /\ UNCHANGED <<peer, modem, bpc, bret, bready>>
           /\ \A i \in Modems : serial[i] # "NONE" => serial'[i] # "NONE"
<1>1. CASE UNCHANGED vars
  BY <1>1 DEF vars, kernel, bridge
<1>2. CASE Main
  BY <1>2 DEF Main, MainSelect, MainListening, MainAny, MainBusy, kernel, bridge
<1>3. CASE \E i \in Modems : IpStep(i)
  BY <1>3 DEF IpStep, IpArm, IpSelect, IpCheck, IpRecv, IpUnblock, IpReport, IpPipe,
     kernel, bridge
<1>4. ASSUME NEW i \in Modems, Type(i) PROVE /\ UNCHANGED <<peer, modem, bpc, bret, bready>>
           /\ \A k \in Modems : serial[k] # "NONE" => serial'[k] # "NONE"
  <2>1. serial \in [Modems -> Inputs]
    BY DEF TypeOK, PipeType
  <2>2. QED
    BY <1>4, <2>1 DEF Type, kernel, bridge
<1>5. CASE \E i \in Modems : DropDtr(i)
  BY <1>5 DEF DropDtr, kernel, bridge
<1>6. CASE \E c \in Callers : Call(c) \/ HangUp(c) \/ Send(c)
  BY <1>6 DEF Call, HangUp, Send, bridge
<1>7. QED
  BY <1>1, <1>2, <1>3, <1>4, <1>5, <1>6

LEMMA BridgeKeepsOrder ==
    ASSUME TypeOK, NEW i \in Modems, Orderly(i), BridgeStep(i) \/ BridgeEscape(i)
    PROVE  /\ Orderly(i)'
           /\ \A j \in Modems : j # i => /\ bpc'[j] = bpc[j] /\ bret'[j] = bret[j]
                                         /\ bready'[j] = bready[j] /\ serial'[j] = serial[j]
<1>. USE DEF TypeOK, BridgeType, PipeType
<1>1. \A j \in Modems : j # i => /\ bpc'[j] = bpc[j] /\ bret'[j] = bret[j]
                                 /\ bready'[j] = bready[j] /\ serial'[j] = serial[j]
  BY DEF BridgeStep, BridgeEscape, BridgeConn, BridgeMode, BridgeSelect, BridgeRing,
     BridgeSerial, BridgeCtrl, BridgePeerClosed, BridgeHung, BridgeParent, BridgeAccept,
     BridgeAcceptFails, BeginHangUp, Handled, Goto
<1>2. /\ First(bready[i]) \in bready[i] \/ (First(bready[i]) = "conn" /\ bready[i] = {})
      /\ First(bready[i]) = "mp1" => bready[i] = {"mp1"}
      /\ First(bready[i]) \notin {"hung", "accept", "select", "mode"}
  BY FirstOf
<1>3. Orderly(i)'
  <2>. USE DEF Goto
  <2>1. CASE BridgeConn(i) \/ BridgeMode(i) \/ BridgeEscape(i) \/ BridgeAccept(i)
             \/ BridgeAcceptFails(i)
    <3>1. bready'[i] = {} /\ bpc'[i] \in {"conn", "mode", "select"}
      BY <2>1 DEF BridgeConn, BridgeMode, BridgeEscape, BridgeAccept, BridgeAcceptFails,
         Orderly, Sources
    <3>2. QED
      BY <3>1 DEF Orderly, Sources
  <2>2. CASE BridgeSelect(i)
    <3>1. /\ bpc'[i] = First(Readable(i)) /\ bready'[i] = Readable(i) /\ serial' = serial
      BY <2>2 DEF BridgeSelect
    <3>2. /\ Readable(i) \in SUBSET Sources
          /\ "serial" \in Readable(i) => serial[i] # "NONE"
      BY DEF Readable
    <3>3. /\ First(Readable(i)) \in Readable(i) \/ (First(Readable(i)) = "conn" /\ Readable(i) = {})
          /\ First(Readable(i)) \notin {"hung", "accept", "select", "mode"}
      BY <3>2, FirstOf
    <3>4. QED
      BY <3>1, <3>2, <3>3 DEF Orderly
  <2>3. CASE BridgeRing(i)
    <3>1. bready'[i] = bready[i] /\ serial' = serial /\ bready[i] = {}
      BY <2>3 DEF BridgeRing, Orderly, Sources
    <3>2. \/ bpc'[i] = "conn"
          \/ bpc'[i] = "hung" /\ bret'[i] = Following(i)
      BY <2>3 DEF BridgeRing, BeginHangUp
    <3>3. Following(i) = First({})
      BY <3>1 DEF Following
    <3>4. QED
      BY <3>1, <3>2, <3>3 DEF Orderly, Sources
  <2>4. CASE BridgeSerial(i) \/ BridgeCtrl(i) \/ BridgePeerClosed(i)
    <3>1. /\ bready'[i] = bready[i] \ {bpc[i]}
          /\ bpc[i] = "serial" \/ serial'[i] = serial[i]
      BY <2>4 DEF BridgeSerial, BridgeCtrl, BridgePeerClosed, Handled
    <3>2. \/ bpc'[i] = Following(i)
          \/ bpc'[i] = "hung" /\ bret'[i] = Following(i)
      BY <2>4 DEF BridgeSerial, BridgeCtrl, BridgePeerClosed, BeginHangUp
    <3>. DEFINE S == bready[i] \ {bpc[i]}
    <3>3. Following(i) = First(S) /\ S \in SUBSET Sources
      BY DEF Following
    <3>5. "serial" \in S => serial'[i] # "NONE"
      BY <3>1 DEF Orderly
    <3>6. bready'[i] = S
      BY <3>1 DEF S
    <3>. HIDE DEF S
    <3>4. /\ First(S) \in S \/ (First(S) = "conn" /\ S = {})
          /\ First(S) \notin {"hung", "accept", "select", "mode"}
      BY <3>3, FirstOf
    <3>7. QED
      BY <3>2, <3>3, <3>4, <3>5, <3>6 DEF Orderly, Sources
  <2>5. CASE BridgeHung(i)
    <3>1. bpc'[i] = bret[i] /\ bready'[i] = bready[i] /\ serial' = serial /\ bpc[i] = "hung"
      BY <2>5 DEF BridgeHung
    <3>2. QED
      BY <3>1, <1>2 DEF Orderly
  <2>6. CASE BridgeParent(i)
    <3>1. bpc'[i] = "accept" /\ bready'[i] = bready[i] \ {"mp1"} /\ bpc[i] = "mp1"
      BY <2>6 DEF BridgeParent, Handled
    <3>2. bready'[i] = {}
      BY <3>1, <1>2 DEF Orderly, Sources
    <3>3. QED
      BY <3>1, <3>2 DEF Orderly, Sources
  <2>7. QED
    BY <2>1, <2>2, <2>3, <2>4, <2>5, <2>6 DEF BridgeStep
<1>4. QED
  BY <1>1, <1>3

\* A step that closes what the modem takes to be its caller's descriptor, for
\* which there are three handlers and the ring timer.
LEMMA HangUpApart ==
    ASSUME HeldInv, NEW i \in Modems, BeginHangUp(i), bpc[i] # "hung"
    PROVE  DescriptorsApart' /\ LineKnown(i)' /\ \A j \in Modems : j # i => modem'[j] = modem[j]
<1>. DEFINE r == modem[i]
<1>1. r \in ModemRecord(Fds) /\ ~r.direct_conn /\ DisconnectBegin(r) \in ModemRecord(Fds)
  <2>1. r \in ModemRecord(Fds) /\ ~r.direct_conn
    BY DEF HeldInv, TypeOK, BridgeType, LineKnown
  <2>2. QED
    BY <2>1, DisconnectType
<1>2. /\ modem'[i].open = r.open \ ClosedBy(r) /\ ~modem'[i].direct_conn
      /\ \A j \in Modems : j # i => modem'[j] = modem[j]
  <2>1. SetModem(i, DisconnectBegin(r))
    BY DEF BeginHangUp
  <2>2. QED
    BY <1>1, <2>1, NewModem, LineFields DEF HeldInv
<1>3. ClosedBy(r) \subseteq r.open \union {NoFd}
  BY DEF HeldInv, LineKnown, ClosedBy
<1>4. r.open \subseteq Fds
  BY <1>1 DEF ModemRecord
<1>5. OpenFds' = OpenFds \ ClosedBy(r)
  <2>1. peer \in [Fds -> Callers \union {Nobody}]
    BY DEF HeldInv, TypeOK, KernelType
  <2>2. \A f \in Fds : peer'[f] = IF f \in ClosedBy(r) THEN Nobody ELSE peer[f]
    BY <2>1 DEF BeginHangUp
  <2>3. QED
    BY <2>2 DEF OpenFds
<1>6. NoFd \notin OpenFds
  BY TcpserAssumption DEF OpenFds
<1>7. OpenFds = UNION {modem[j].open : j \in Modems}
      /\ \A j, k \in Modems : j # k => modem[j].open \intersect modem[k].open = {}
  BY DEF HeldInv, DescriptorsApart
<1>8. ASSUME NEW f PROVE f \in OpenFds' <=> \E j \in Modems : f \in modem'[j].open
  <2>1. f \in OpenFds <=> \E j \in Modems : f \in modem[j].open
    BY <1>7
  <2>2. f \in ClosedBy(r) /\ f \in OpenFds => \A j \in Modems : f \in modem[j].open => j = i
    BY <1>3, <1>6, <1>7
  <2>3. QED
    BY <1>2, <1>5, <2>1, <2>2
<1>9. OpenFds' = UNION {modem'[j].open : j \in Modems}
  BY <1>8
<1>10. \A j, k \in Modems : j # k => modem'[j].open \intersect modem'[k].open = {}
  BY <1>2, <1>7
<1>11. LineKnown(i)'
  BY <1>2 DEF BeginHangUp, Goto, LineKnown, HeldInv, TypeOK, BridgeType
<1>12. QED
  BY <1>2, <1>9, <1>10, <1>11 DEF DescriptorsApart

\* A step that changes no descriptor.
LEMMA SameOpen ==
    ASSUME HeldInv, NEW i \in Modems, UNCHANGED peer,
           modem'[i].open = modem[i].open, ~modem'[i].direct_conn,
           modem'[i].valid_conn => /\ bpc[i] # "hung" /\ modem[i].valid_conn
                                   /\ modem'[i].fd \in {modem[i].fd, NoFd},
           \A j \in Modems : j # i => modem'[j] = modem[j]
    PROVE  DescriptorsApart' /\ LineKnown(i)'
<1>1. \A j \in Modems : modem'[j].open = modem[j].open
  OBVIOUS
<1>2. OpenFds' = OpenFds
  BY DEF OpenFds
<1>3. OpenFds = UNION {modem[j].open : j \in Modems}
  BY DEF HeldInv, DescriptorsApart
<1>4. UNION {modem[j].open : j \in Modems} = UNION {modem'[j].open : j \in Modems}
  BY <1>1
<1>5. DescriptorsApart'
  BY <1>1, <1>2, <1>3, <1>4 DEF HeldInv, DescriptorsApart
<1>6. LineKnown(i)'
  BY DEF HeldInv, LineKnown
<1>7. QED
  BY <1>5, <1>6

\* accept() takes a descriptor that no modem has.
LEMMA AcceptApart ==
    ASSUME HeldInv, NEW i \in Modems, BridgeAccept(i)
    PROVE  DescriptorsApart' /\ LineKnown(i)' /\ \A j \in Modems : j # i => modem'[j] = modem[j]
<1>. DEFINE r == modem[i]
<1>1. r \in ModemRecord(Fds) /\ ~r.direct_conn
  BY DEF HeldInv, TypeOK, BridgeType, LineKnown
<1>2. PICK f \in Fds : /\ f \notin OpenFds /\ SetModem(i, Accept(r, f))
                       /\ peer' = [peer EXCEPT ![f] = Head(backlog)]
  BY DEF BridgeAccept, IsLeast
<1>3. /\ modem'[i].open = r.open \union {f} /\ ~modem'[i].direct_conn /\ modem'[i].fd = f
      /\ \A j \in Modems : j # i => modem'[j] = modem[j]
  BY <1>1, <1>2, AcceptType, AcceptFields, NewModem DEF HeldInv
<1>4. OpenFds' = OpenFds \union {f}
  <2>1. peer \in [Fds -> Callers \union {Nobody}] /\ backlog \in Seq(Callers) /\ backlog # <<>>
    BY DEF HeldInv, TypeOK, KernelType, BridgeAccept
  <2>2. Head(backlog) # Nobody
    BY <2>1, TcpserAssumption
  <2>3. QED
    BY <1>2, <2>1, <2>2 DEF OpenFds
<1>5. OpenFds = UNION {modem[j].open : j \in Modems}
      /\ \A j, k \in Modems : j # k => modem[j].open \intersect modem[k].open = {}
  BY DEF HeldInv, DescriptorsApart
<1>6. ASSUME NEW g PROVE g \in OpenFds' <=> \E j \in Modems : g \in modem'[j].open
  <2>1. g \in OpenFds <=> \E j \in Modems : g \in modem[j].open
    BY <1>5
  <2>2. QED
    BY <1>3, <1>4, <2>1
<1>7. OpenFds' = UNION {modem'[j].open : j \in Modems}
  BY <1>6
<1>8. \A j, k \in Modems : j # k => modem'[j].open \intersect modem'[k].open = {}
  <2>1. \A j \in Modems : f \notin modem[j].open
    BY <1>2, <1>5
  <2>2. QED
    BY <1>3, <1>5, <2>1
<1>9. LineKnown(i)'
  BY <1>3 DEF LineKnown
<1>10. QED
  BY <1>3, <1>7, <1>8, <1>9 DEF DescriptorsApart

LEMMA BridgeKeepsHeld ==
    ASSUME HeldInv, NEW i \in Modems, BridgeStep(i) \/ BridgeEscape(i)
    PROVE  HeldInv'
<1>. DEFINE r == modem[i]
<1>1. /\ TypeOK' /\ \A j \in Modems : Orderly(j)'
      /\ \A j \in Modems : j # i => bpc'[j] = bpc[j]
  <2>1. TypeOK'
    BY BridgeTypes DEF HeldInv
  <2>2. /\ Orderly(i)'
        /\ \A j \in Modems : j # i => /\ bpc'[j] = bpc[j] /\ bret'[j] = bret[j]
                                      /\ bready'[j] = bready[j] /\ serial'[j] = serial[j]
    BY BridgeKeepsOrder DEF HeldInv
  <2>3. QED
    BY <2>1, <2>2 DEF Orderly, HeldInv
<1>2. TypeOK /\ r \in ModemRecord(Fds) /\ ~r.direct_conn
      /\ (r.valid_conn /\ bpc[i] # "hung" => r.fd \in r.open \union {NoFd})
      /\ bpc \in [Modems -> BridgePCs]
  BY DEF HeldInv, TypeOK, BridgeType, LineKnown
<1>3. DescriptorsApart' /\ LineKnown(i)' /\ \A j \in Modems : j # i => modem'[j] = modem[j]
  <2>1. CASE BeginHangUp(i)
    <3>1. CASE BridgeHung(i)
      <4>1. bpc' = [bpc EXCEPT ![i] = bret[i]] /\ bpc' = [bpc EXCEPT ![i] = "hung"]
            /\ bpc[i] = "hung"
        BY <2>1, <3>1 DEF BeginHangUp, BridgeHung, Goto
      <4>2. bret[i] # "hung"
        <5>1. bready[i] \in SUBSET Sources /\ bret[i] = First(bready[i])
          BY <4>1 DEF HeldInv, Orderly, TypeOK, BridgeType
        <5>2. QED
          BY <5>1, FirstOf
      <4>3. QED
        BY <1>2, <4>1, <4>2
    <3>2. CASE ~BridgeHung(i)
      BY <3>2, HangUpApart, <2>1 DEF BridgeStep, BridgeEscape, BridgeConn, BridgeMode,
         BridgeSelect, BridgeRing, BridgeSerial, BridgeCtrl, BridgePeerClosed,
         BridgeParent, BridgeAccept, BridgeAcceptFails
    <3>3. QED
      BY <3>1, <3>2
  <2>2. CASE BridgeAccept(i)
    BY <2>2, AcceptApart
  <2>3. CASE UNCHANGED <<modem, peer>> /\ bpc[i] # "hung"
    BY <1>2, <2>3, SameOpen
  <2>4. CASE BridgeHung(i)
    <3>1. SetModem(i, DisconnectEnd(r)) /\ UNCHANGED peer
      BY <2>4 DEF BridgeHung, kernel
    <3>2. DisconnectEnd(r) \in ModemRecord(Fds)
      BY <1>2, DisconnectType
    <3>3. QED
      BY <1>2, <3>1, <3>2, LineFields, NewModem, SameOpen
  <2>5. CASE SetModem(i, SendRing(r)) /\ UNCHANGED peer /\ bpc[i] # "hung"
    <3>1. SendRing(r) \in ModemRecord(Fds)
      BY <1>2, SendRingType
    <3>2. QED
      BY <1>2, <2>5, <3>1, RingFields, NewModem, SameOpen
  <2>7. ASSUME NEW new \in ModemRecord(Fds), SetModem(i, new), UNCHANGED peer,
               bpc[i] # "hung", new.open = r.open, ~new.direct_conn,
               new.valid_conn = r.valid_conn, new.fd \in {r.fd, NoFd}
        PROVE  DescriptorsApart' /\ LineKnown(i)' /\ \A j \in Modems : j # i => modem'[j] = modem[j]
    <3>1. r.valid_conn => new.fd \in new.open \union {NoFd}
      BY <1>2, <2>7
    <3>2. QED
      BY <1>2, <2>7, <3>1, NewModem, SameOpen
  <2>8. CASE BridgeEscape(i)
    <3>. DEFINE new == [r EXCEPT !.cmd_mode = TRUE]
    <3>1. SetModem(i, new) /\ UNCHANGED peer /\ bpc[i] # "hung"
      BY <2>8 DEF BridgeEscape, kernel
    <3>2. /\ new \in ModemRecord(Fds) /\ new.open = r.open /\ ~new.direct_conn
          /\ new.valid_conn = r.valid_conn /\ new.fd = r.fd
      BY <1>2 DEF ModemRecord
    <3>. HIDE DEF new
    <3>3. QED
      BY <2>7, <3>1, <3>2
  <2>9. CASE BridgeAcceptFails(i)
    <3>. DEFINE new == [r EXCEPT !.fd = NoFd]
    <3>1. SetModem(i, new) /\ UNCHANGED peer /\ bpc[i] # "hung"
      BY <2>9 DEF BridgeAcceptFails, kernel
    <3>2. /\ new \in ModemRecord(Fds) /\ new.open = r.open /\ ~new.direct_conn
          /\ new.valid_conn = r.valid_conn /\ new.fd = NoFd
      BY <1>2 DEF ModemRecord
    <3>. HIDE DEF new
    <3>3. QED
      BY <2>7, <3>1, <3>2
  <2>10. QED
    <3>1. CASE BridgeSerial(i)
      <4>1. serial[i] \in {"ATA", "ATH", "ATD"}
        <5>1. "serial" \in bready[i]
          <6>1. bready[i] \in SUBSET Sources
            BY DEF HeldInv, TypeOK, BridgeType
          <6>2. First(bready[i]) = "serial"
            BY <3>1 DEF BridgeSerial, HeldInv, Orderly, Sources
          <6>3. QED
            BY <6>1, <6>2, FirstOf
        <5>2. QED
          BY <5>1 DEF HeldInv, Orderly, TypeOK, PipeType, Inputs
      <4>2. bpc[i] # "hung"
        BY <3>1 DEF BridgeSerial
      <4>3. CASE ~SerialHangsUp(i)
        <5>. DEFINE new == Obey(r, serial[i])
        <5>1. SetModem(i, new) /\ UNCHANGED peer
          BY <3>1, <4>3 DEF BridgeSerial, kernel
        <5>2. new \in ModemRecord(Fds) /\ new.open = r.open /\ ~new.direct_conn
              /\ new.valid_conn = r.valid_conn /\ new.fd = r.fd
          BY <1>2, <4>1, <4>3, ObeyType, ObeyFields
        <5>. HIDE DEF new
        <5>3. QED
          BY <2>7, <4>2, <5>1, <5>2
      <4>4. QED
        BY <2>1, <3>1, <4>3 DEF BridgeSerial
    <3>2. CASE ~BridgeSerial(i)
      BY <2>1, <2>2, <2>3, <2>4, <2>5, <2>8, <2>9, <3>2 DEF BridgeStep, BridgeConn,
         BridgeMode, BridgeSelect, BridgeRing, BridgeCtrl, BridgePeerClosed, BridgeParent, kernel
    <3>3. QED
      BY <3>1, <3>2
<1>4. \A j \in Modems : LineKnown(j)'
  BY <1>1, <1>3 DEF HeldInv, LineKnown
<1>5. QED
  BY <1>1, <1>3, <1>4 DEF HeldInv

LEMMA NextKeepsHeld == HeldInv /\ [Next]_vars => HeldInv'
<1>1. ASSUME HeldInv, \/ UNCHANGED vars \/ Main
                      \/ \E i \in Modems : IpStep(i) \/ Type(i) \/ DropDtr(i)
                      \/ \E c \in Callers : Call(c) \/ HangUp(c) \/ Send(c)
      PROVE  HeldInv'
  <2>1. TypeOK'
    BY <1>1, NextTypes DEF HeldInv, Next
  <2>2. /\ UNCHANGED <<peer, modem, bpc, bret, bready>>
        /\ \A i \in Modems : serial[i] # "NONE" => serial'[i] # "NONE"
    BY <1>1, OthersKeepLines DEF HeldInv
  <2>3. peer' = peer /\ modem' = modem /\ bpc' = bpc /\ bret' = bret /\ bready' = bready
    BY <2>2
  <2>4. DescriptorsApart'
    BY <1>1, <2>3 DEF HeldInv, DescriptorsApart, OpenFds
  <2>5. \A i \in Modems : Orderly(i)' /\ LineKnown(i)'
    BY <1>1, <2>2, <2>3 DEF HeldInv, Orderly, LineKnown
  <2>6. QED
    BY <2>1, <2>4, <2>5 DEF HeldInv
<1>2. QED
  BY <1>1, BridgeKeepsHeld DEF Next

LEMMA InitHeld == Init => HeldInv
<1>. SUFFICES ASSUME Init PROVE HeldInv
  OBVIOUS
<1>1. \A i \in Modems : /\ modem[i].open = {} /\ ~modem[i].direct_conn
                        /\ ~modem[i].valid_conn
  <2>1. \A i \in Modems : modem[i] = InitModem(S0[i], 0, FALSE)
    BY DEF Init
  <2>2. \A s0 : /\ InitModem(s0, 0, FALSE).open = {}
                /\ ~InitModem(s0, 0, FALSE).direct_conn
                /\ ~InitModem(s0, 0, FALSE).valid_conn
    BY DEF InitModem
  <2>3. QED
    BY <2>1, <2>2
<1>2. OpenFds = {}
  BY DEF Init, OpenFds
<1>3. DescriptorsApart
  BY <1>1, <1>2 DEF DescriptorsApart
<1>4. \A i \in Modems : Orderly(i) /\ LineKnown(i)
  BY <1>1 DEF Init, Orderly, LineKnown, Sources
<1>5. QED
  BY <1>3, <1>4, InitTypes DEF HeldInv

\* No modem closes another's descriptor, and none is forgotten open (line.c,
\* bridge.c), with any number of modems, callers and descriptors, also where
\* accept() finds none free.
THEOREM DescriptorsStayApart == Spec => []DescriptorsApart
<1>1. HeldInv => DescriptorsApart
  BY DEF HeldInv
<1>2. QED
  BY <1>1, InitHeld, NextKeepsHeld, PTL DEF Spec

---------------------------------------------------------------------------
(* With fewer callers than descriptors accept() never fails.               *)

FewCallers == ~ \E g \in [Fds -> Callers] : \A f, h \in Fds : g[f] = g[h] => f = h

\* A caller waits in one place or is behind one descriptor, and called before.
Once ==
    /\ \A f \in Fds : peer[f] # Nobody =>
           /\ caller[peer[f]] # "idle"
           /\ \A h \in Fds : peer[f] = peer[h] => f = h
    /\ \A k \in 1 .. Len(backlog) :
           /\ caller[backlog[k]] # "idle" /\ \A f \in Fds : peer[f] # backlog[k]
           /\ \A j \in 1 .. Len(backlog) : backlog[j] = backlog[k] => j = k

LEMMA OnceAccepts ==
    ASSUME FewCallers, TypeOK, Once
    PROVE  OpenFds # Fds
<1>1. SUFFICES ASSUME OpenFds = Fds PROVE FALSE
  OBVIOUS
<1>2. peer \in [Fds -> Callers]
  BY <1>1 DEF TypeOK, KernelType, OpenFds
<1>3. \A f, h \in Fds : peer[f] = peer[h] => f = h
  BY <1>2, TcpserAssumption DEF Once
<1>4. QED
  BY <1>2, <1>3 DEF FewCallers

\* The first of the backlog is taken, by main or into descriptor f.
LEMMA OnceTaken ==
    ASSUME TypeOK, Once, backlog # <<>>, backlog' = Tail(backlog), caller' = caller,
           \/ peer' = peer
           \/ \E f \in Fds : peer[f] = Nobody /\ peer' = [peer EXCEPT ![f] = Head(backlog)]
    PROVE  Once'
<1>. DEFINE c == backlog[1]
            n == Len(backlog)
<1>1. /\ backlog \in Seq(Callers) /\ peer \in [Fds -> Callers \union {Nobody}]
      /\ n \in Nat /\ n >= 1 /\ Head(backlog) = c /\ c \in Callers
  BY DEF TypeOK, KernelType
<1>2. Len(backlog') = n - 1 /\ \A k \in 1 .. n - 1 : backlog'[k] = backlog[k + 1]
  BY <1>1
<1>3. \A k \in 1 .. n - 1 : k + 1 \in 1 .. n /\ k + 1 # 1
  BY <1>1
<1>4. /\ caller[c] # "idle" /\ \A f \in Fds : peer[f] # c
      /\ \A k \in 1 .. n - 1 : backlog[k + 1] # c
  BY <1>1, <1>3 DEF Once
<1>5. \A f \in Fds : peer'[f] = peer[f] \/ (peer[f] = Nobody /\ peer'[f] = c)
  BY <1>1
<1>6. \A f, h \in Fds : peer'[f] = c /\ peer'[h] = c => f = h
  BY <1>1, <1>4
<1>7. ASSUME NEW f \in Fds, peer'[f] # Nobody
      PROVE  caller'[peer'[f]] # "idle" /\ \A h \in Fds : peer'[f] = peer'[h] => f = h
  BY <1>1, <1>4, <1>5, <1>6, <1>7 DEF Once
<1>8. ASSUME NEW k \in 1 .. n - 1
      PROVE  /\ caller'[backlog'[k]] # "idle" /\ \A f \in Fds : peer'[f] # backlog'[k]
             /\ \A j \in 1 .. n - 1 : backlog'[j] = backlog'[k] => j = k
  <2>1. backlog'[k] = backlog[k + 1] /\ k + 1 \in 1 .. n
    BY <1>2, <1>3
  <2>2. caller[backlog[k + 1]] # "idle" /\ \A f \in Fds : peer[f] # backlog[k + 1]
    BY <1>1, <2>1 DEF Once
  <2>3. \A f \in Fds : peer'[f] # backlog'[k]
    BY <1>4, <1>5, <2>1, <2>2
  <2>4. ASSUME NEW j \in 1 .. n - 1, backlog'[j] = backlog'[k] PROVE j = k
    <3>1. j + 1 \in 1 .. n /\ backlog[j + 1] = backlog[k + 1]
      BY <1>2, <1>3, <2>1, <2>4
    <3>2. j + 1 = k + 1
      BY <2>1, <3>1 DEF Once
    <3>3. QED
      BY <1>1, <3>2
  <2>5. QED
    BY <2>1, <2>2, <2>3, <2>4
<1>9. QED
  BY <1>2, <1>7, <1>8 DEF Once

LEMMA OnceCalled ==
    ASSUME TypeOK, Once, NEW c \in Callers, Call(c)
    PROVE  Once'
<1>. DEFINE n == Len(backlog)
<1>1. /\ backlog \in Seq(Callers) /\ peer \in [Fds -> Callers \union {Nobody}] /\ n \in Nat
      /\ caller \in [Callers -> {"idle", "up", "gone"}]
  BY DEF TypeOK, KernelType
<1>2. /\ peer' = peer /\ caller[c] = "idle" /\ caller' = [caller EXCEPT ![c] = "up"]
      /\ backlog' = Append(backlog, c)
  BY DEF Call
<1>3. Len(backlog') = n + 1 /\ backlog'[n + 1] = c /\ \A k \in 1 .. n : backlog'[k] = backlog[k]
  BY <1>1, <1>2
<1>4. \A k \in 1 .. n + 1 : k \in 1 .. n \/ k = n + 1
  BY <1>1
<1>5. \A k \in 1 .. n : backlog[k] \in Callers /\ backlog[k] # c
  BY <1>1, <1>2 DEF Once
<1>6. \A f \in Fds : peer[f] # c
  BY <1>1, <1>2, TcpserAssumption DEF Once
<1>7. \A d \in Callers : caller[d] # "idle" => caller'[d] # "idle"
  BY <1>1, <1>2
<1>8. caller'[c] # "idle"
  BY <1>1, <1>2
<1>9. \A f \in Fds : peer'[f] # Nobody =>
           /\ caller'[peer'[f]] # "idle"
           /\ \A h \in Fds : peer'[f] = peer'[h] => f = h
  BY <1>1, <1>2, <1>7 DEF Once
<1>10. ASSUME NEW k \in 1 .. n + 1
       PROVE  /\ caller'[backlog'[k]] # "idle" /\ \A f \in Fds : peer'[f] # backlog'[k]
              /\ \A j \in 1 .. n + 1 : backlog'[j] = backlog'[k] => j = k
  <2>1. caller'[backlog'[k]] # "idle" /\ \A f \in Fds : peer'[f] # backlog'[k]
    BY <1>2, <1>3, <1>4, <1>5, <1>6, <1>7, <1>8 DEF Once
  <2>2. \A j \in 1 .. n + 1 : backlog'[j] = backlog'[k] => j = k
    BY <1>3, <1>4, <1>5 DEF Once
  <2>3. QED
    BY <2>1, <2>2
<1>11. QED
  BY <1>3, <1>9, <1>10 DEF Once

LEMMA NextKeepsOnce == ASSUME TypeOK, Once, [Next]_vars PROVE Once'
<1>. USE DEF TypeOK, KernelType
<1>1. CASE UNCHANGED <<backlog, peer, caller>>
  BY <1>1 DEF Once
<1>2. ASSUME NEW c \in Callers, HangUp(c) PROVE Once'
  <2>1. /\ backlog' = backlog /\ peer' = peer
        /\ \A d \in Callers : caller[d] # "idle" => caller'[d] # "idle"
    BY <1>2 DEF HangUp
  <2>2. \A k \in 1 .. Len(backlog) : backlog[k] \in Callers
    OBVIOUS
  <2>3. QED
    BY <2>1, <2>2 DEF Once
<1>3. ASSUME NEW i \in Modems, BeginHangUp(i) PROVE Once'
  <2>1. /\ backlog' = backlog /\ caller' = caller
        /\ \A f \in Fds : peer'[f] = peer[f] \/ peer'[f] = Nobody
    BY <1>3 DEF BeginHangUp
  <2>2. \A k \in 1 .. Len(backlog) : backlog[k] # Nobody
    BY TcpserAssumption
  <2>3. QED
    BY <2>1, <2>2 DEF Once
<1>4. ASSUME NEW i \in Modems, BridgeAccept(i) PROVE Once'
  <2>1. PICK f \in Fds : f \notin OpenFds /\ peer' = [peer EXCEPT ![f] = Head(backlog)]
    BY <1>4 DEF BridgeAccept, IsLeast
  <2>2. peer[f] = Nobody
    BY <2>1 DEF OpenFds
  <2>3. QED
    BY <1>4, <2>1, <2>2, OnceTaken DEF BridgeAccept
<1>5. CASE MainBusy
  <2>1. CASE UNCHANGED backlog
    BY <1>1, <1>5, <2>1 DEF MainBusy
  <2>2. CASE backlog # <<>> /\ backlog' = Tail(backlog)
    BY <1>5, <2>2, OnceTaken DEF MainBusy
  <2>3. QED
    BY <1>5, <2>1, <2>2 DEF MainBusy
<1>6. ASSUME NEW i \in Modems, BridgeStep(i) \/ BridgeEscape(i) PROVE Once'
  BY <1>1, <1>3, <1>4, <1>6 DEF BridgeStep, BridgeEscape, BridgeConn, BridgeMode,
     BridgeSelect, BridgeRing, BridgeSerial, BridgeCtrl, BridgePeerClosed, BridgeHung,
     BridgeParent, BridgeAcceptFails, kernel
<1>7. ASSUME NEW i \in Modems, IpStep(i) \/ Type(i) \/ DropDtr(i) PROVE Once'
  BY <1>1, <1>7 DEF IpStep, IpArm, IpSelect, IpCheck, IpRecv, IpUnblock, IpReport, IpPipe,
     Type, DropDtr, kernel
<1>8. CASE Main
  BY <1>1, <1>5, <1>8 DEF Main, MainSelect, MainListening, MainAny, kernel
<1>9. ASSUME NEW c \in Callers, Call(c) \/ HangUp(c) \/ Send(c) PROVE Once'
  BY <1>1, <1>2, <1>9, OnceCalled DEF Send
<1>10. CASE UNCHANGED vars
  BY <1>1, <1>10 DEF vars, kernel
<1>11. QED
  BY <1>6, <1>7, <1>8, <1>9, <1>10 DEF Next

LEMMA InitOnce == Init => Once
BY DEF Init, Once

\* A step of a bridge whose accept() does not fail.
LEMMA LineStays ==
    ASSUME HeldInv, LineIsOpen, NEW i \in Modems, BridgeStep(i) \/ BridgeEscape(i),
           ~BridgeAcceptFails(i)
    PROVE  LineIsOpen'
<1>. DEFINE r == modem[i]
<1>1. TypeOK /\ r \in ModemRecord(Fds) /\ ~r.direct_conn /\ bpc \in [Modems -> BridgePCs]
      /\ \A f \in Fds : f # NoFd
  BY TcpserAssumption DEF HeldInv, TypeOK, BridgeType, LineKnown
<1>2. SUFFICES /\ modem'[i].valid_conn /\ bpc'[i] # "hung" => modem'[i].fd # NoFd
               /\ \A j \in Modems : j # i => modem'[j] = modem[j] /\ bpc'[j] = bpc[j]
  <2>1. \A j \in Modems : LineKnown(j)'
    BY BridgeKeepsHeld DEF HeldInv
  <2>2. modem'[i].valid_conn /\ bpc'[i] # "hung" => modem'[i].fd \in modem'[i].open
    BY <1>2, <2>1 DEF LineKnown
  <2>3. \A j \in Modems : j # i /\ modem'[j].valid_conn /\ bpc'[j] # "hung"
                              => modem'[j].fd \in modem'[j].open
    BY <1>2 DEF LineIsOpen
  <2>4. QED
    BY <2>2, <2>3 DEF LineIsOpen
<1>3. r.valid_conn /\ bpc[i] # "hung" => r.fd # NoFd
  BY <1>1 DEF LineIsOpen, ModemRecord
<1>4. \A j \in Modems : j # i => bpc'[j] = bpc[j]
  BY BridgeKeepsOrder DEF HeldInv
<1>5. CASE BeginHangUp(i)
  <2>1. bpc'[i] = "hung" /\ SetModem(i, DisconnectBegin(r))
    BY <1>1, <1>5 DEF BeginHangUp, Goto
  <2>2. QED
    BY <1>1, <1>4, <2>1, DisconnectType, NewModem
<1>6. CASE UNCHANGED modem /\ bpc[i] # "hung"
  BY <1>3, <1>4, <1>6
<1>7. CASE BridgeHung(i)
  <2>1. SetModem(i, DisconnectEnd(r)) /\ DisconnectEnd(r) \in ModemRecord(Fds)
    BY <1>1, <1>7, DisconnectType DEF BridgeHung
  <2>2. QED
    BY <1>1, <1>4, <2>1, LineFields, NewModem
<1>8. CASE SetModem(i, SendRing(r)) /\ bpc[i] # "hung"
  <2>1. SendRing(r) \in ModemRecord(Fds)
    BY <1>1, SendRingType
  <2>2. QED
    BY <1>1, <1>3, <1>4, <1>8, <2>1, RingFields, NewModem
<1>10. CASE SetModem(i, [r EXCEPT !.cmd_mode = TRUE]) /\ bpc[i] # "hung"
  <2>1. [r EXCEPT !.cmd_mode = TRUE] \in ModemRecord(Fds)
        /\ [r EXCEPT !.cmd_mode = TRUE].fd = r.fd
        /\ [r EXCEPT !.cmd_mode = TRUE].valid_conn = r.valid_conn
    BY <1>1 DEF ModemRecord
  <2>2. QED
    BY <1>1, <1>3, <1>4, <1>10, <2>1, NewModem
<1>11. CASE \E f \in Fds : SetModem(i, Accept(r, f))
  BY <1>1, <1>4, <1>11, AcceptType, AcceptFields, NewModem
<1>12. CASE BridgeSerial(i)
  <2>1. serial[i] \in {"ATA", "ATH", "ATD"}
    <3>1. bready[i] \in SUBSET Sources /\ First(bready[i]) = "serial"
      BY <1>12 DEF BridgeSerial, HeldInv, Orderly, Sources, TypeOK, BridgeType
    <3>2. "serial" \in bready[i]
      BY <3>1, FirstOf
    <3>3. QED
      BY <3>2 DEF HeldInv, Orderly, TypeOK, PipeType, Inputs
  <2>2. CASE ~SerialHangsUp(i)
    <3>. DEFINE new == Obey(r, serial[i])
    <3>1. SetModem(i, new) /\ bpc[i] # "hung"
      BY <1>12, <2>2 DEF BridgeSerial
    <3>2. new \in ModemRecord(Fds) /\ new.valid_conn = r.valid_conn /\ new.fd = r.fd
      BY <1>1, <2>1, <2>2, ObeyType, ObeyFields
    <3>. HIDE DEF new
    <3>3. QED
      BY <1>1, <1>3, <1>4, <3>1, <3>2, NewModem
  <2>3. QED
    BY <1>5, <1>12, <2>2 DEF BridgeSerial
<1>13. QED
  BY <1>5, <1>6, <1>7, <1>8, <1>10, <1>11, <1>12 DEF BridgeStep, BridgeEscape, BridgeConn,
     BridgeMode, BridgeSelect, BridgeRing, BridgeCtrl, BridgePeerClosed, BridgeParent,
     BridgeAccept

LineInv == HeldInv /\ Once /\ LineIsOpen

LEMMA NextKeepsLine == FewCallers /\ LineInv /\ [Next]_vars => LineInv'
<1>. SUFFICES ASSUME FewCallers, LineInv, [Next]_vars PROVE LineInv'
  OBVIOUS
<1>1. HeldInv' /\ Once'
  BY NextKeepsHeld, NextKeepsOnce DEF LineInv, HeldInv
<1>2. ASSUME NEW i \in Modems, BridgeStep(i) \/ BridgeEscape(i) PROVE LineIsOpen'
  <2>1. ~BridgeAcceptFails(i)
    BY OnceAccepts DEF BridgeAcceptFails, LineInv, HeldInv
  <2>2. QED
    BY <1>2, <2>1, LineStays DEF LineInv
<1>3. CASE \/ UNCHANGED vars \/ Main
           \/ \E i \in Modems : IpStep(i) \/ Type(i) \/ DropDtr(i)
           \/ \E c \in Callers : Call(c) \/ HangUp(c) \/ Send(c)
  <2>1. UNCHANGED <<peer, modem, bpc, bret, bready>>
    BY <1>3, OthersKeepLines DEF LineInv, HeldInv
  <2>2. modem' = modem /\ bpc' = bpc
    BY <2>1
  <2>3. QED
    BY <1>1, <2>2 DEF LineInv, LineIsOpen
<1>4. QED
  BY <1>1, <1>2, <1>3 DEF Next, LineInv

\* With fewer callers than descriptors, the descriptor that a modem takes to be its
\* caller's is one that it has open (accept_connection, line_disconnect), so that
\* the ip thread reads from and the bridge writes to nobody else.
THEOREM LineStaysOpen == FewCallers => (Spec => []LineIsOpen)
<1>. SUFFICES ASSUME FewCallers PROVE Spec => []LineIsOpen
  OBVIOUS
<1>1. ASSUME Init PROVE LineIsOpen
  <2>1. \A s0 : ~InitModem(s0, 0, FALSE).valid_conn
    BY DEF InitModem
  <2>2. \A i \in Modems : modem[i] = InitModem(S0[i], 0, FALSE)
    BY <1>1 DEF Init
  <2>3. QED
    BY <2>1, <2>2 DEF LineIsOpen
<1>2. Init => LineInv
  BY <1>1, InitHeld, InitOnce DEF LineInv
<1>3. LineInv => LineIsOpen
  BY DEF LineInv
<1>4. QED
  BY <1>2, <1>3, NextKeepsLine, PTL DEF Spec

\* What a bridge writes into and reads from the pipes between it and main.
LEMMA BridgePipes ==
    ASSUME NEW i \in Modems, BridgeStep(i) \/ BridgeEscape(i)
    PROVE  /\ mp0' = mp0 \/ (BridgeAccept(i) /\ mp0' = [mp0 EXCEPT ![i] = TRUE])
           /\ mp1' = mp1 \/ (BridgeParent(i) /\ mp1' = [mp1 EXCEPT ![i] = FALSE])
<1>1. CASE BridgeAccept(i)
  BY <1>1 DEF BridgeAccept
<1>2. CASE BridgeParent(i)
  BY <1>2 DEF BridgeParent
<1>3. CASE ~BridgeAccept(i) /\ ~BridgeParent(i)
  BY <1>3 DEF BridgeStep, BridgeEscape, BridgeConn, BridgeMode, BridgeSelect, BridgeRing,
     BridgeSerial, BridgeCtrl, BridgePeerClosed, BridgeHung, BridgeAcceptFails
<1>4. QED
  BY <1>1, <1>2, <1>3

\* A message that is written into a pipe is there.
LEMMA Written == ASSUME NEW pipe \in [Modems -> BOOLEAN], NEW i \in Modems
                 PROVE  [pipe EXCEPT ![i] = TRUE][i] = TRUE
OBVIOUS

\* The offer of one modem stays on its way until main hears of it, or accept() fails.
LEMMA OfferStays ==
    ASSUME HeldInv, NEW i \in Modems, InFlight(i), BridgeStep(i) \/ BridgeEscape(i),
           ~BridgeAcceptFails(i)
    PROVE  InFlight(i)'
<1>1. TypeOK /\ \A j \in Modems : Orderly(j)
  BY DEF HeldInv
<1>2. /\ mp0 \in [Modems -> BOOLEAN] /\ mp1 \in [Modems -> BOOLEAN]
      /\ bpc \in [Modems -> BridgePCs] /\ bready \in [Modems -> SUBSET Sources]
  BY <1>1 DEF TypeOK, PipeType, BridgeType
<1>3. CASE BridgeAccept(i)
  <2>1. mp0' = [mp0 EXCEPT ![i] = TRUE]
    BY <1>3 DEF BridgeAccept
  <2>2. mp0'[i] = TRUE
    BY <1>2, <2>1, Written
  <2>3. QED
    BY <2>2 DEF InFlight
<1>4. CASE BridgeParent(i)
  <2>1. bpc' = [bpc EXCEPT ![i] = "accept"]
    BY <1>4 DEF BridgeParent, Goto
  <2>2. bpc'[i] = "accept"
    BY <1>2, <2>1
  <2>3. QED
    BY <2>2 DEF InFlight
<1>5. CASE ~BridgeAccept(i) /\ ~BridgeParent(i)
  <2>1. mp0' = mp0 /\ mp1' = mp1
    BY <1>5, BridgePipes
  <2>2. bpc[i] # "accept"
    BY <1>5 DEF BridgeStep, BridgeEscape, BridgeConn, BridgeMode,
       BridgeSelect, BridgeRing, BridgeSerial, BridgeCtrl, BridgePeerClosed, BridgeHung
  <2>3. ASSUME "mp1" \in bready[i] PROVE mp1'[i] \/ "mp1" \in bready'[i]
    <3>1. bpc[i] # "select"
      BY <1>1, <2>3 DEF Orderly, Sources
    <3>2. \/ UNCHANGED bready
          \/ bpc[i] \in {"serial", "wp", "cp0"}
             /\ bready' = [bready EXCEPT ![i] = bready[i] \ {bpc[i]}]
      BY <1>5, <2>2, <3>1 DEF BridgeStep, BridgeEscape, BridgeConn, BridgeMode,
         BridgeSelect, BridgeRing, BridgeSerial, BridgeCtrl, BridgePeerClosed, BridgeHung,
         BridgeAcceptFails, Handled
    <3>3. "mp1" \in bready'[i]
      <4>1. CASE UNCHANGED bready
        BY <2>3, <4>1
      <4>2. CASE /\ bpc[i] \in {"serial", "wp", "cp0"}
                 /\ bready' = [bready EXCEPT ![i] = bready[i] \ {bpc[i]}]
        <5>1. bready'[i] = bready[i] \ {bpc[i]} /\ bpc[i] # "mp1"
          BY <1>2, <4>2
        <5>2. QED
          BY <2>3, <5>1
      <4>3. QED
        BY <3>2, <4>1, <4>2
    <3>4. QED
      BY <3>3
  <2>4. QED
    BY <2>1, <2>2, <2>3 DEF InFlight
<1>6. QED
  BY <1>3, <1>4, <1>5

\* So does the offer that main has made, whatever any thread does.
LEMMA PendingStays ==
    ASSUME HeldInv, PendingIsInFlight, [Next]_vars
    PROVE  PendingIsInFlight' \/ AcceptFailed
<1>1. TypeOK /\ \A i \in Modems : Orderly(i)
  BY DEF HeldInv
<1>2. mp0 \in [Modems -> BOOLEAN] /\ mp1 \in [Modems -> BOOLEAN]
  BY <1>1 DEF TypeOK, PipeType
<1>3. ASSUME UNCHANGED <<accept_pending, mp0, mp1, bready, bpc>> PROVE PendingIsInFlight'
  BY <1>3 DEF PendingIsInFlight, InFlight
<1>4. CASE Main
  <2>1. bready' = bready /\ bpc' = bpc
    BY <1>4 DEF Main, MainSelect, MainListening, MainAny, MainBusy, bridge
  <2>2. CASE MainSelect
    <3>1. /\ accept_pending' => accept_pending /\ \A i \in Modems : ~mp0[i]
          /\ mp1' = mp1
      BY <2>2 DEF MainSelect
    <3>2. QED
      BY <2>1, <3>1 DEF PendingIsInFlight, InFlight
  <2>3. CASE MainListening \/ MainAny
    <3>1. mp0' = mp0 /\ \/ mp1' = mp1 /\ accept_pending' = accept_pending
                        \/ \E i \in Modems : mp1' = [mp1 EXCEPT ![i] = TRUE]
      BY <2>3 DEF MainListening, MainAny, Offer
    <3>2. ASSUME NEW i \in Modems, mp1' = [mp1 EXCEPT ![i] = TRUE] PROVE InFlight(i)'
      <4>1. mp1'[i] = TRUE
        BY <1>2, <3>2, Written
      <4>2. QED
        BY <4>1 DEF InFlight
    <3>3. CASE mp1' = mp1 /\ accept_pending' = accept_pending
      BY <1>3, <2>1, <3>1, <3>3
    <3>4. QED
      BY <3>1, <3>2, <3>3 DEF PendingIsInFlight
  <2>4. CASE MainBusy
    BY <1>3, <2>1, <2>4 DEF MainBusy
  <2>5. QED
    BY <1>4, <2>2, <2>3, <2>4 DEF Main
<1>5. ASSUME NEW i \in Modems, BridgeStep(i) \/ BridgeEscape(i)
      PROVE  PendingIsInFlight' \/ AcceptFailed
  <2>1. accept_pending' = accept_pending
    BY <1>5 DEF main, BridgeStep, BridgeEscape, BridgeConn, BridgeMode, BridgeSelect,
       BridgeRing, BridgeSerial, BridgeCtrl, BridgePeerClosed, BridgeHung, BridgeParent,
       BridgeAccept, BridgeAcceptFails
  <2>2. ASSUME NEW j \in Modems, j # i, InFlight(j) PROVE InFlight(j)'
    <3>1. bpc'[j] = bpc[j] /\ bready'[j] = bready[j]
      BY <1>1, <1>5, <2>2, BridgeKeepsOrder
    <3>2. mp0'[j] = mp0[j] /\ mp1'[j] = mp1[j]
      <4>1. /\ mp0' = mp0 \/ mp0' = [mp0 EXCEPT ![i] = TRUE]
            /\ mp1' = mp1 \/ mp1' = [mp1 EXCEPT ![i] = FALSE]
        BY <1>5, BridgePipes
      <4>2. QED
        BY <1>2, <2>2, <4>1
    <3>3. QED
      BY <2>2, <3>1, <3>2 DEF InFlight
  <2>3. ASSUME BridgeAcceptFails(i) PROVE AcceptFailed
    <3>1. bpc'[i] = "conn"
      BY <1>1, <2>3 DEF TypeOK, BridgeType, BridgeAcceptFails, Goto
    <3>2. QED
      BY <2>3, <3>1 DEF BridgeAcceptFails, AcceptFailed
  <2>4. QED
    BY <1>5, <2>1, <2>2, <2>3, OfferStays DEF PendingIsInFlight
<1>6. ASSUME NEW i \in Modems, IpStep(i) \/ Type(i) \/ DropDtr(i) PROVE PendingIsInFlight'
  BY <1>3, <1>6 DEF IpStep, IpArm, IpSelect, IpCheck, IpRecv, IpUnblock, IpReport, IpPipe,
     Type, DropDtr, main, bridge
<1>7. ASSUME NEW c \in Callers, Call(c) \/ HangUp(c) \/ Send(c) PROVE PendingIsInFlight'
  BY <1>3, <1>7 DEF Call, HangUp, Send, main, bridge
<1>8. CASE UNCHANGED vars
  BY <1>3, <1>8 DEF vars, main, bridge
<1>9. QED
  BY <1>4, <1>5, <1>6, <1>7, <1>8 DEF Next

\* Whatever the threads do, main waits (accept_pending, tcpser.c) only while a
\* bridge owes it an answer, unless accept() failed when every descriptor was open.
THEOREM OffersGetAnswers == Spec => OffersAreAnswered
<1>1. Init => HeldInv
  BY InitHeld
<1>2. HeldInv /\ [Next]_vars => HeldInv'
  BY NextKeepsHeld DEF HeldInv
<1>3. HeldInv /\ [Next]_vars => [PendingIsInFlight => PendingIsInFlight' \/ AcceptFailed]_vars
  BY PendingStays
<1>4. QED
  BY <1>1, <1>2, <1>3, PTL DEF Spec, OffersAreAnswered

=============================================================================
