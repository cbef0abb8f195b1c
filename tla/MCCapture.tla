----------------------------- MODULE MCCapture -----------------------------
(* A buffer of four pieces, so that it fills within a value, between the   *)
(* value and its newline, and between two values; two refused writes.      *)
EXTENDS Capture

MCCapacity == 4
MCMaxValues == 5
MCMaxFaults == 2
=============================================================================
