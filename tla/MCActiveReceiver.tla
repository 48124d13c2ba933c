-------------------------- MODULE MCActiveReceiver ---------------------------
(* ActiveReceiver with an ordinary and a long pickup.                        *)
EXTENDS ActiveReceiver
CONSTANTS r1, r2
=============================================================================
