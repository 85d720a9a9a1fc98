--------------------------- MODULE MCNotifications ---------------------------
EXTENDS Notifications, TLC

CONSTANTS session, weekly

oneProvider(k) == "claude"

(* The session window is calm, or at warning or critical with a reset that  *)
(* drifts within the jitter and passes while the clock runs; the weekly one *)
(* is critical throughout.                                                 *)
fewReadings(k) ==
    IF k = session THEN {[level |-> 0, reset |-> 2], [level |-> 1, reset |-> 2],
                         [level |-> 2, reset |-> 3]}
    ELSE {[level |-> 2, reset |-> 9]}

Symmetry == Permutations(Helper)
=============================================================================
