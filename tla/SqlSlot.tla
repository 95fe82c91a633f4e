------------------------------ MODULE SqlSlot ------------------------------
(***************************************************************************)
(* What SqlBusyRegistry promises the rest of the program: one stream slot  *)
(* per connection.  An operation takes a slot only while it is free, takes *)
(* at most one in its life, and a slot is never handed from one operation  *)
(* straight to another.                                                    *)
(***************************************************************************)
CONSTANTS Conns, Ops, NoOp

VARIABLES
    slot,   \* slot[k]: the operation that owns connection k's slot, or NoOp
    used    \* operations that have already had their slot

vars == <<slot, used>>

Init ==
    /\ slot = [k \in Conns |-> NoOp]
    /\ used = {}

Take(k, o) ==
    /\ slot[k] = NoOp
    /\ o \notin used
    /\ slot' = [slot EXCEPT ![k] = o]
    /\ used' = used \cup {o}

Vacate(k) ==
    /\ slot[k] # NoOp
    /\ slot' = [slot EXCEPT ![k] = NoOp]
    /\ UNCHANGED used

Next == \E k \in Conns : Vacate(k) \/ \E o \in Ops : Take(k, o)

Spec == Init /\ [][Next]_vars
=============================================================================
