--------------------------- MODULE MCContactAction ---------------------------
(* Two leads of one person.                                                *)
EXTENDS ContactAction

CONSTANTS l1, l2, k, w1, w2

MCKey == [r \in Leads |-> k]
=============================================================================
