--------------------------- MODULE SessionOutcome ---------------------------
(***************************************************************************)
(* What a held session promises about its transaction: someone comes to    *)
(* own how it ends, once and for good, and it is applied only if that was  *)
(* an end().  Applied or undone, it stays so.                              *)
(***************************************************************************)
CONSTANT Sessions

VARIABLES
    owner,    \* owner[s]: "nobody", "end" (it sends the ending) or "close"
    outcome   \* outcome[s]: "open", "applied" or "undone"

vars == <<owner, outcome>>

Init ==
    /\ owner = [s \in Sessions |-> "nobody"]
    /\ outcome = [s \in Sessions |-> "open"]

Own(s, who) ==
    /\ owner[s] = "nobody"
    /\ owner' = [owner EXCEPT ![s] = who]
    /\ UNCHANGED outcome

Apply(s) ==
    /\ owner[s] = "end"
    /\ outcome[s] = "open"
    /\ outcome' = [outcome EXCEPT ![s] = "applied"]
    /\ UNCHANGED owner

\* Also without an owner: the server gives up a transaction whose client is gone.
Undo(s) ==
    /\ outcome[s] = "open"
    /\ outcome' = [outcome EXCEPT ![s] = "undone"]
    /\ UNCHANGED owner

Next == \E s \in Sessions : Own(s, "end") \/ Own(s, "close") \/ Apply(s) \/ Undo(s)

Spec == Init /\ [][Next]_vars
=============================================================================
