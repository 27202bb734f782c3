---------------------------- MODULE MCUsageMeter ----------------------------
(* Two batches, the second of which alone exceeds the allowance.           *)
EXTENDS UsageMeter

CONSTANTS b1, b2

MCLookups == [b \in Batches |-> IF b = b2 THEN 2 ELSE 1]
=============================================================================
