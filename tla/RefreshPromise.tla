--------------------------- MODULE RefreshPromise ---------------------------
(***************************************************************************)
(* What the status lane promises to whoever forces a refresh (CACHE-011,   *)
(* CACHE-012): a request made while a helper runs is kept, requests are    *)
(* unioned, and the completion of that helper starts one follow-up that    *)
(* takes the whole union.  Nothing else ever empties what is owed.         *)
(***************************************************************************)
CONSTANT Provider

VARIABLES
    owed,       \* providers somebody forced and no helper run has taken yet
    serving,    \* providers the helper run in progress was forced for
    running,    \* a helper run is in progress
    blocked     \* maintenance has closed the lane

vars == <<owed, serving, running, blocked>>

Init ==
    /\ owed = {}
    /\ serving = {}
    /\ running = FALSE
    /\ blocked = FALSE

(* A forced request the lane cannot start now. *)
Ask(S) ==
    /\ ~blocked
    /\ owed' = owed \cup S
    /\ UNCHANGED <<serving, running, blocked>>

(* An idle lane starts a helper for everything owed, and for a request that *)
(* arrives in the same step.                                               *)
Start(S) ==
    /\ ~running /\ ~blocked
    /\ running' = TRUE
    /\ serving' = owed \cup S
    /\ owed' = {}
    /\ UNCHANGED blocked

(* A helper run ends with nothing owed, or with the lane closed. *)
Finish ==
    /\ running
    /\ owed = {} \/ blocked
    /\ running' = FALSE
    /\ serving' = {}
    /\ UNCHANGED <<owed, blocked>>

(* A helper run ends and its single follow-up takes all that is owed. *)
FinishAndFollowUp ==
    /\ running /\ ~blocked
    /\ owed # {}
    /\ serving' = owed
    /\ owed' = {}
    /\ UNCHANGED <<running, blocked>>

Close == blocked' = TRUE  /\ UNCHANGED <<owed, serving, running>>
Open  == blocked' = FALSE /\ UNCHANGED <<owed, serving, running>>

Next ==
    \/ \E S \in SUBSET Provider : Ask(S) \/ Start(S)
    \/ Finish
    \/ FinishAndFollowUp
    \/ Close
    \/ Open

Spec == Init /\ [][Next]_vars
=============================================================================
