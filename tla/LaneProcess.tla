---------------------------- MODULE LaneProcess ----------------------------
(***************************************************************************)
(* The Quickshell Process object each lane of Service.qml owns, modelled    *)
(* from how Service.qml drives it (assigning `command` and `running`,       *)
(* waiting for `onExited`).  Quickshell is not part of the repository.      *)
(*                                                                         *)
(*   os     what the operating system sees: no child, a live child, or a    *)
(*          child that was sent a termination signal and has not exited.    *)
(*   job    what the child was started with (its command).                  *)
(*   again  `running = true` was assigned while the child was still there.  *)
(*                                                                         *)
(* Assigning `running = false` only sends a signal: the child's exit is     *)
(* delivered later by the event loop.  That is why the version lane guards  *)
(* its onExited handler with `if (!root.versionProbeRunning) return`        *)
(* (Service.qml:752-756).                                                   *)
(***************************************************************************)

OsState == {"none", "live", "killed"}

Process(Job) == [os : OsState, job : Job, again : BOOLEAN]

NoProcess(noJob) == [os |-> "none", job |-> noJob, again |-> FALSE]

(* running = true.  With a child still there the assignment starts nothing. *)
Started(p, job) ==
    IF p.os = "none"
    THEN [os |-> "live", job |-> job, again |-> FALSE]
    ELSE [p EXCEPT !.again = TRUE]

(* if (process.running) process.running = false *)
Stopped(p) ==
    IF p.os = "live" THEN [p EXCEPT !.os = "killed", !.again = FALSE]
                     ELSE [p EXCEPT !.again = FALSE]

(* What the object may be once its child has exited and the handler started *)
(* nothing: idle, or, when a start was assigned meanwhile, running with the *)
(* command assigned last.  The repository does not depend on which.         *)
AfterExit(p, command, noJob) ==
    {NoProcess(noJob)}
    \cup (IF p.again THEN {[os |-> "live", job |-> command, again |-> FALSE]}
                     ELSE {})
=============================================================================
