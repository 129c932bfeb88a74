---------------------------- MODULE HayesEscape ----------------------------
(***************************************************************************)
(* What the Hayes escape sequence promises, as tcpser/README.md:148 puts   *)
(* it: "+++ should operate correctly, even if the sequence of characters is*)
(* used in normal data transmissions".  The modem leaves data mode for     *)
(* command mode, with the call still up, only after                        *)
(*     a guard time of silence, exactly three "+", a guard time of silence.*)
(* HayesModem implements this specification.                               *)
(***************************************************************************)
EXTENDS Naturals

VARIABLES
    mode,   \* "command" or "data"
    call,   \* is there a connection?
    seen    \* "+" seen since the last guard time, or Noisy

vars == <<mode, call, seen>>

Noisy == 4     \* something else was sent since the last guard time

TypeOK == /\ mode \in {"command", "data"}
          /\ call \in BOOLEAN
          /\ seen \in 0 .. 3 \union {Noisy}

Init == mode = "command" /\ call = FALSE /\ seen = Noisy

\* A "+" of the data stream; a fourth one spoils the sequence.
Plus == /\ mode = "data"
        /\ seen' = IF seen < 3 THEN seen + 1 ELSE Noisy
        /\ UNCHANGED <<mode, call>>

Other == /\ mode = "data"
         /\ seen' = Noisy
         /\ UNCHANGED <<mode, call>>

\* A guard time passes in silence.  After three "+" it completes the escape.
Silence == /\ mode = "data"
           /\ \/ seen = 3 /\ mode' = "command" /\ seen' = Noisy
              \/ seen = Noisy /\ seen' = 0 /\ UNCHANGED mode
              \/ seen \in 1 .. 2 /\ seen' = Noisy /\ UNCHANGED mode
           /\ UNCHANGED call

\* Answering or dialling enters data mode.
GoOnline == /\ mode = "command"
            /\ mode' = "data"
            /\ call' \in BOOLEAN
            /\ seen' = Noisy

\* A modem that is off hook without a call, after ATD alone, may be given one;
\* the silence before it counts.
CallArrives == /\ mode = "data" /\ ~call
               /\ call' = TRUE
               /\ UNCHANGED <<mode, seen>>

\* Hanging up always ends in command mode without a call.
HangUp == mode' = "command" /\ call' = FALSE /\ seen' = Noisy

Next == Plus \/ Other \/ Silence \/ GoOnline \/ CallArrives \/ HangUp

Spec == Init /\ [][Next]_vars
=============================================================================
