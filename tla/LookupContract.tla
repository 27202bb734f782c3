--------------------------- MODULE LookupContract ---------------------------
(***************************************************************************)
(* What a paid contact lookup promises for each queued lead, whatever the  *)
(* dispatcher, the provider and the ingest do in between: it is charged at *)
(* most once, only while it is out at the provider, and once charged it is *)
(* never put back in line nor written off: it can only be booked and       *)
(* answered.  Several lookups may move in one step.                        *)
(***************************************************************************)
CONSTANT Rows

VARIABLES
    phase,     \* phase[r]: none, waiting, out at the provider, booked, done
    charged    \* the lookups the provider has charged for

cvars == <<phase, charged>>

Init == phase \in [Rows -> {"none", "waiting"}] /\ charged = {}

Goes(r, from, to) == phase[r] = from /\ phase'[r] \in to

(* It is asked for, or settled without being asked.                        *)
Ask(r) == Goes(r, "none", {"waiting", "done"})

(* It is sent, or ends without having been sent.                           *)
Send(r) == Goes(r, "waiting", {"out", "done"})

(* The provider never took it: it waits again, or ends.                    *)
TakeBack(r) == r \notin charged /\ Goes(r, "out", {"waiting", "done"})

Book(r) == Goes(r, "out", {"booked"})
Answer(r) == Goes(r, "booked", {"done"})

Move(r) == /\ Ask(r) \/ Send(r) \/ TakeBack(r) \/ Book(r) \/ Answer(r)
           /\ r \in charged' <=> r \in charged

Charge(r) == phase[r] = "out" /\ phase'[r] = "out" /\ r \notin charged /\ r \in charged'

Stay(r) == phase'[r] = phase[r] /\ (r \in charged' <=> r \in charged)

Next == \A r \in Rows : Move(r) \/ Charge(r) \/ Stay(r)

Spec == Init /\ [][Next]_cvars
=============================================================================
