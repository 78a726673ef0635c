---------------------------- MODULE MCModelCalls ----------------------------
(* A small instance of ModelCalls for TLC.                                 *)
EXTENDS ModelCalls

\* Two delays, so three attempts (the code has four); the clock is coarse.
Delays == <<1, 2>>
LongDelays == <<1, 2, 2>>
=============================================================================
