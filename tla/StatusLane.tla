----------------------------- MODULE StatusLane -----------------------------
(***************************************************************************)
(* The version probe, the status lane and the poll timer of Service.qml:   *)
(* one helper process at a time collects provider usage; forced refreshes  *)
(* that arrive meanwhile are unioned and served by one follow-up; a 60 s    *)
(* timer gives up on a helper that hangs.                                  *)
(*                                                                         *)
(* Maintenance owns `blocked`; this module only says what its two handlers *)
(* do to the poll timer, so the lane can be checked and proved by itself.  *)
(* Service composes it with the maintenance and settings lanes.            *)
(*                                                                         *)
(* The generation a callback carries is read from activeStatusGeneration   *)
(* when the child exits (Service.qml:763-765), and every kick sets both    *)
(* counters together, so one counter stands for the two.                   *)
(***************************************************************************)
EXTENDS Naturals, ForcedTargets, LaneProcess

CONSTANT
    MaxGeneration   \* bound: no poll or request starts a run past this one

ASSUME MaxGenerationAssumption == MaxGeneration \in Nat

VARIABLES
    helperPath,           \* resolvedHelperPath() is not empty
    versionState,         \* versionProbeRunning, versionReady, versionFailed
    versionProcess,
    collectionDelay,      \* the delay timer runs
    pollTimer,            \* the poll timer runs
    statusBusy,
    statusGeneration,     \* and activeStatusGeneration
    pendingForcedTargets,
    statusCommand,        \* what statusProcess.command holds, and for whom
    statusProcess,
    snapshot,             \* which run produced the envelope, and its providers
    blocked               \* maintenanceState.blocked, and ~pollEnabled

versionVars == <<helperPath, versionState, versionProcess, collectionDelay>>
statusVars  == <<statusBusy, statusGeneration, pendingForcedTargets,
                 statusCommand, statusProcess>>
vars == <<versionVars, pollTimer, statusVars, snapshot, blocked>>

-----------------------------------------------------------------------------
VersionState == {"unprobed", "running", "ready", "failed"}

Command  == [generation : Nat, forced : Pending]
noCommand == [generation |-> 0, forced |-> emptyPending]

Snapshot == [generation : Nat, providers : SUBSET Provider]
noSnapshot == [generation |-> 0, providers |-> {}]

TypeOK ==
    /\ helperPath \in BOOLEAN
    /\ versionState \in VersionState
    /\ versionProcess \in Process({"version"})
    /\ collectionDelay \in BOOLEAN
    /\ pollTimer \in BOOLEAN
    /\ statusBusy \in BOOLEAN
    /\ statusGeneration \in Nat
    /\ pendingForcedTargets \in Pending
    /\ statusCommand \in Command
    /\ statusProcess \in Process(Command)
    /\ snapshot \in Snapshot
    /\ blocked \in BOOLEAN

Init ==
    /\ helperPath = FALSE
    /\ versionState = "unprobed"
    /\ versionProcess = NoProcess("version")
    /\ collectionDelay = FALSE
    /\ pollTimer = FALSE
    /\ statusBusy = FALSE
    /\ statusGeneration = 0
    /\ pendingForcedTargets = emptyPending
    /\ statusCommand = noCommand
    /\ statusProcess = NoProcess(noCommand)
    /\ snapshot = noSnapshot
    /\ blocked = FALSE

-----------------------------------------------------------------------------
(* BUG: a kick does not wait for the version probe. *)
Mutant_kickStatusUnprobed(ready, busy, pending, process) ==
    IF ~blocked /\ ~busy
    THEN LET command == [generation |-> statusGeneration + 1, forced |-> pending]
         IN  /\ statusGeneration' = statusGeneration + 1
             /\ pendingForcedTargets' = emptyPending
             /\ statusCommand' = command
             /\ statusBusy' = TRUE
             /\ statusProcess' = Started(process, command)
    ELSE /\ pendingForcedTargets' = pending
         /\ statusBusy' = busy
         /\ statusProcess' = process
         /\ UNCHANGED <<statusGeneration, statusCommand>>

(* kickStatus, called at the end of a handler that has already settled      *)
(* whether the probe is ready, the lane busy, what is pending and what the  *)
(* process object is.  It takes the whole pending set or does nothing.      *)
kickStatus(ready, busy, pending, process) ==
    IF ready /\ ~blocked /\ ~busy
    THEN LET command == [generation |-> statusGeneration + 1, forced |-> pending]
         IN  /\ statusGeneration' = statusGeneration + 1
             /\ pendingForcedTargets' = emptyPending
             /\ statusCommand' = command
             /\ statusBusy' = TRUE
             /\ statusProcess' = Started(process, command)
    ELSE /\ pendingForcedTargets' = pending
         /\ statusBusy' = busy
         /\ statusProcess' = process
         /\ UNCHANGED <<statusGeneration, statusCommand>>

versionReady == versionState = "ready"

-----------------------------------------------------------------------------
(* Version probe lane *)

(* Quattro injects or replaces the manifest: onManifestChanged,            *)
(* onHelperPathChanged and Component.onCompleted all end here.             *)
tryStartProduction ==
    /\ helperPath' = TRUE
    /\ IF versionState \in {"unprobed", "failed"}
       THEN /\ versionState' = "running"
            /\ versionProcess' = Started(versionProcess, "version")
       ELSE UNCHANGED <<versionState, versionProcess>>
    /\ UNCHANGED <<collectionDelay, pollTimer, statusVars, snapshot, blocked>>

(* finishVersionProbeSuccess: collection begins at once, or after the      *)
(* collection delay when one is configured.                                *)
finishVersionProbeSuccess ==
    /\ versionState' = "ready"
    /\ \/ /\ collectionDelay' = TRUE
          /\ UNCHANGED <<pollTimer, statusVars>>
       \/ /\ collectionDelay' = FALSE
          /\ pollTimer' = TRUE
          /\ kickStatus(TRUE, statusBusy, pendingForcedTargets, statusProcess)

finishVersionProbeFailure ==
    /\ versionState' = "failed"
    /\ UNCHANGED <<collectionDelay, pollTimer, statusVars>>

(* versionProbe.onExited: ignored unless a probe is awaited, but whichever *)
(* child exits answers for the probe that is awaited now.                  *)
VersionExited ==
    /\ versionProcess.os # "none"
    /\ versionProcess' \in AfterExit(versionProcess, "version", "version")
    /\ IF versionState = "running"
       THEN finishVersionProbeSuccess \/ finishVersionProbeFailure
       ELSE UNCHANGED <<versionState, collectionDelay, pollTimer, statusVars>>
    /\ UNCHANGED <<helperPath, snapshot, blocked>>

VersionTimeout ==
    /\ versionState = "running"
    /\ versionProcess' = Stopped(versionProcess)
    /\ finishVersionProbeFailure
    /\ UNCHANGED <<helperPath, snapshot, blocked>>

(* collectionDelay.onTriggered: beginCollection *)
CollectionDelayElapsed ==
    /\ collectionDelay
    /\ collectionDelay' = FALSE
    /\ pollTimer' = TRUE
    /\ kickStatus(versionReady, statusBusy, pendingForcedTargets, statusProcess)
    /\ UNCHANGED <<helperPath, versionState, versionProcess, snapshot, blocked>>

-----------------------------------------------------------------------------
(* Status lane *)

(* refreshAll(force) and refreshProvider(id, force), from a chip, the popup,*)
(* a retry, or the IPC refresh, all of which force.                         *)
Refresh(target) ==
    /\ ~blocked
    /\ statusGeneration < MaxGeneration
    /\ kickStatus(versionReady, statusBusy,
                  unionForced(pendingForcedTargets, target), statusProcess)
    /\ UNCHANGED <<versionVars, pollTimer, snapshot, blocked>>

(* pollTimer.onTriggered *)
PollTick ==
    /\ pollTimer /\ ~blocked
    /\ statusGeneration < MaxGeneration \/ ~pendingIsEmpty(pendingForcedTargets)
    /\ kickStatus(versionReady, statusBusy, pendingForcedTargets, statusProcess)
    /\ UNCHANGED <<versionVars, pollTimer, snapshot, blocked>>

(* BUG: a failed run clears the model the bar shows. *)
Mutant_applyStatusResult(ok, providers, process) ==
    /\ snapshot' = IF ok THEN [generation |-> statusProcess.job.generation,
                               providers  |-> providers]
                         ELSE noSnapshot
    /\ IF pendingIsEmpty(pendingForcedTargets)
       THEN /\ statusBusy' = FALSE
            /\ statusProcess' = process
            /\ UNCHANGED <<pendingForcedTargets, statusGeneration, statusCommand>>
       ELSE kickStatus(versionReady, FALSE, pendingForcedTargets, process)

(* applyStatusResult for the active generation.  An envelope replaces the  *)
(* snapshot whole; any failure keeps it.  A non-empty pending set starts   *)
(* the follow-up in the same handler.                                      *)
applyStatusResult(ok, providers, process) ==
    /\ snapshot' = IF ok THEN [generation |-> statusProcess.job.generation,
                               providers  |-> providers]
                         ELSE snapshot
    /\ IF pendingIsEmpty(pendingForcedTargets)
       THEN /\ statusBusy' = FALSE
            /\ statusProcess' = process
            /\ UNCHANGED <<pendingForcedTargets, statusGeneration, statusCommand>>
       ELSE kickStatus(versionReady, FALSE, pendingForcedTargets, process)

(* maybeFollowUpStatus kicks: the handler starts the next helper itself. *)
followsUp == ~pendingIsEmpty(pendingForcedTargets) /\ versionReady /\ ~blocked

(* statusProcess.onExited.  Whatever child exits, its result is applied to *)
(* the generation that is active then.  A child may have finished its       *)
(* answer before the signal reached it, so a stopped one can still be ok.   *)
StatusExited(ok) ==
    /\ statusProcess.os # "none"
    /\ \E process \in IF followsUp THEN {NoProcess(noCommand)}
                      ELSE AfterExit(statusProcess, statusCommand, noCommand) :
          applyStatusResult(ok,
              Collected(statusArgv(statusProcess.job.forced)), process)
    /\ UNCHANGED <<versionVars, pollTimer, blocked>>

(* BUG: the timeout only signals the helper and waits for its exit. *)
Mutant_StatusTimeout ==
    /\ statusBusy
    /\ statusProcess' = Stopped(statusProcess)
    /\ UNCHANGED <<versionVars, pollTimer, snapshot, blocked, statusBusy,
                   statusGeneration, pendingForcedTargets, statusCommand>>

(* statusTimeout.onTriggered, armed exactly while the lane is busy. *)
StatusTimeout ==
    /\ statusBusy
    /\ applyStatusResult(FALSE, {}, Stopped(statusProcess))
    /\ UNCHANGED <<versionVars, pollTimer, blocked>>

-----------------------------------------------------------------------------
(* What the maintenance handlers do to this lane *)

(* beginMaintenanceHandoff: pollEnabled = false, pollTimer.stop() *)
MaintenanceBegins ==
    /\ blocked' = TRUE
    /\ pollTimer' = FALSE
    /\ UNCHANGED <<versionVars, statusVars, snapshot>>

(* BUG: polling is enabled again, but nobody restarts the timer. *)
Mutant_MaintenanceEnds ==
    /\ blocked
    /\ blocked' = FALSE
    /\ UNCHANGED <<versionVars, statusVars, snapshot, pollTimer>>

(* applyMaintenanceHandoffDone: polling resumes, nothing is kicked. *)
MaintenanceEnds ==
    /\ blocked
    /\ blocked' = FALSE
    /\ pollTimer' = (pollTimer \/ versionReady)
    /\ UNCHANGED <<versionVars, statusVars, snapshot>>

-----------------------------------------------------------------------------
VersionNext == tryStartProduction \/ VersionExited \/ VersionTimeout
                  \/ CollectionDelayElapsed

StatusNext ==
    \/ \E target \in Provider \cup {All} : Refresh(target)
    \/ PollTick
    \/ \E ok \in BOOLEAN : StatusExited(ok)
    \/ StatusTimeout

Next == VersionNext \/ StatusNext \/ MaintenanceBegins \/ MaintenanceEnds

(* Timers are QML event-loop work and always fire.  Nothing is assumed of  *)
(* the helper: it may hang for ever, and a stopped one may never exit.      *)
Fairness ==
    /\ WF_vars(StatusTimeout)
    /\ WF_vars(PollTick)
    /\ WF_vars(CollectionDelayElapsed)
    /\ WF_vars(VersionTimeout)

Spec     == Init /\ [][Next]_vars
FairSpec == Spec /\ Fairness

-----------------------------------------------------------------------------
(* No helper that reaches providers runs before the private helper has      *)
(* answered `version` (architecture.md: the probe "establishes health       *)
(* before provider network collection"), however probes, manifest changes,  *)
(* timeouts and forced requests interleave.                                *)
CollectsOnlyAfterVersion ==
    statusBusy \/ statusProcess.os # "none" \/ snapshot # noSnapshot
        => versionReady

(* Every run that was forced for somebody is bypassing the cache for him:  *)
(* what the lane promises about coalescing (CACHE-011, CACHE-012).         *)
Promise == INSTANCE RefreshPromise WITH
    owed    <- Targets(pendingForcedTargets),
    serving <- IF statusBusy THEN Targets(statusCommand.forced) ELSE {},
    running <- statusBusy

CoalescesAsPromised == Promise!Spec

(* The bar never loses what it shows, and never shows an older run after a *)
(* newer one, whatever late, failed or timed-out answers arrive            *)
(* (CACHE-019, CACHE-021).                                                 *)
SnapshotOnlyAdvances ==
    [][/\ snapshot # noSnapshot => snapshot' # noSnapshot
       /\ snapshot'.generation >= snapshot.generation]_snapshot

(* A run the lane waits for is given up or answered: a hung helper cannot   *)
(* keep the lane busy (CACHE-016 seen from the service).                   *)
BusyRunEnds ==
    \A g \in 1..(MaxGeneration + 1) :
        statusBusy /\ statusGeneration = g ~> ~statusBusy \/ statusGeneration > g

(* A forced refresh is taken by some helper run: no request waits for ever  *)
(* once the helper is known good, unless maintenance closes the lane.       *)
ForcedIsEventuallyTaken ==
    ~pendingIsEmpty(pendingForcedTargets) /\ versionReady
        ~> pendingIsEmpty(pendingForcedTargets) \/ blocked

-----------------------------------------------------------------------------
(* Statements of the repository that the code does not keep.               *)

(* ARCH-023: "No lane calls exec() while its process is running."          *)
NoExecWhileRunning == ~statusProcess.again

(* architecture.md: pendingForcedTargets is a set "so provider-only         *)
(* refreshes cannot become accidental all-provider refreshes or disappear". *)
ProviderOnlyStaysExact ==
    LET forced == statusCommand.forced
    IN  ~forced.all /\ forced.ids # {}
            => Collected(statusArgv(forced)) = forced.ids

(* CACHE-025: "A provider refresh affects only that provider".             *)
ProviderRefreshKeepsSiblings ==
    [][snapshot.providers \subseteq snapshot'.providers]_snapshot
=============================================================================
