---------------------------- MODULE Publication ----------------------------
(***************************************************************************)
(* What an export promises the user who chose the file: the destination is *)
(* the old file or the whole new one, it is replaced at most once, and what*)
(* is reported, once, is what happened to it.  Nothing happens to the file *)
(* behind a report.  The promise ends when another caller stops the query  *)
(* the rows come from.                                                     *)
(***************************************************************************)
VARIABLES
    file,      \* the destination: "old" or "new"
    report,    \* what the user was told: "none", "saved" or "failed"
    disturbed  \* has another caller stopped the query?

vars == <<file, report, disturbed>>

Init ==
    /\ file = "old"
    /\ report = "none"
    /\ disturbed = FALSE

Publish ==
    /\ file = "old"
    /\ report = "none"
    /\ file' = "new"
    /\ UNCHANGED <<report, disturbed>>

Report ==
    /\ report = "none"
    /\ report' = IF file = "new" THEN "saved" ELSE "failed"
    /\ UNCHANGED <<file, disturbed>>

Disturb ==
    /\ disturbed' = TRUE
    /\ ~ disturbed => UNCHANGED <<file, report>>

Next == Disturb \/ (~ disturbed /\ (Publish \/ Report))

Spec == Init /\ [][Next]_vars
=============================================================================
