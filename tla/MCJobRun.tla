------------------------------ MODULE MCJobRun ------------------------------
(* Two jobs of one user that find the same leads; the first gets an address *)
(* for lead 1 only, so its claim on lead 2 is one a later run may take over.*)
EXTENDS JobRun

CONSTANTS j1, j2

MCFound == [j \in Jobs |-> Leads]
MCActionable == [j \in Jobs |-> IF j = j1 THEN {1} ELSE Leads]

(* Every job gets an address for every lead it finds.                      *)
MCAllActionable == [j \in Jobs |-> Leads]
=============================================================================
