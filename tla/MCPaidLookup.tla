---------------------------- MODULE MCPaidLookup ----------------------------
(* Two rows that ask for one answer (a lead found by two runs), and a      *)
(* third row that asks for another.                                        *)
EXTENDS PaidLookup, TLC

CONSTANTS r1, r2, r3, k1, k2, t1, t2

MCKey == [r \in Rows |-> IF r \in {r3} THEN k2 ELSE k1]

(* Ticks are alike, and so are two rows of one answer.                     *)
MCSymmetry == Permutations(Ticks) \cup Permutations({r1, r2})
=============================================================================
