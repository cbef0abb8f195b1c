-------------------------- MODULE MCSessionRunner --------------------------
(***************************************************************************)
(* SessionRunner with a 4-bit integer in place of the 64-bit one and a cap *)
(* of 4 seconds in place of 16, so that the delay reaches its cap before   *)
(* the shift reaches the width, as in the code; six losses go past both.   *)
(***************************************************************************)
EXTENDS SessionRunner

MCMaxBackoffSecs == 4
MCShiftBits == 4
MCMaxAttempts == 6
=============================================================================
