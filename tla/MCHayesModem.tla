---------------------------- MODULE MCHayesModem ----------------------------
(* TLC instances of HayesModem: two descriptors, so that a second caller   *)
(* can meet a ringing line, and registers small enough that every branch   *)
(* of the timers is taken.                                                 *)
EXTENDS HayesModem
=============================================================================
