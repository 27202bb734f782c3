---------------------------- MODULE RunContract ----------------------------
(***************************************************************************)
(* What a run promises the customer who starts it.  A run is open until it *)
(* ends, once and for good, in one of three ways.  A run that is done has  *)
(* charged for a set of leads, in the same step, and no other run has      *)
(* charged for any of them.  A run that failed or was cancelled has        *)
(* charged nothing.                                                        *)
(***************************************************************************)
CONSTANTS Jobs, Leads

VARIABLES
    outcome,  \* outcome[j]: how the run ended, or "open"
    charged   \* charged[j]: the leads the run charged for

cvars == <<outcome, charged>>

Init ==
    /\ outcome = [j \in Jobs |-> "open"]
    /\ charged = [j \in Jobs |-> {}]

ChargedByOthers(j) == UNION {charged[i] : i \in Jobs \ {j}}

Complete(j) ==
    /\ outcome[j] = "open"
    /\ \E S \in SUBSET (Leads \ ChargedByOthers(j)) :
         charged' = [charged EXCEPT ![j] = S]
    /\ outcome' = [outcome EXCEPT ![j] = "done"]

EndUncharged(j) ==
    /\ outcome[j] = "open"
    /\ \E end \in {"failed", "cancelled"} :
         outcome' = [outcome EXCEPT ![j] = end]
    /\ UNCHANGED charged

Next == \E j \in Jobs : Complete(j) \/ EndUncharged(j)

Spec == Init /\ [][Next]_cvars
=============================================================================
