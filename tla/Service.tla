------------------------------- MODULE Service -------------------------------
(***************************************************************************)
(* Service.qml as one state machine: the status, settings and maintenance   *)
(* lanes run in one QML event loop and share three things.                  *)
(*                                                                         *)
(*   - maintenance closes (`blocked`) and reopens the other two, in the     *)
(*     handler that confirms an operation and in the one that ends it;      *)
(*   - the handoff waits for the status and settings-write flags, and the   *)
(*     end of a settings write retries it;                                  *)
(*   - the manifest and the version probe's success are shown in an idle    *)
(*     maintenance panel, and the latter starts the settings bootstrap.     *)
(*                                                                         *)
(* Every action is a whole handler: the lanes' parts of it, in one step.    *)
(* What the lane modules leave to an unconstrained environment (the probe,  *)
(* the flags, the closing) is here the other lanes' doing, and the Spec of  *)
(* each lane is a property to check.                                       *)
(***************************************************************************)
EXTENDS Naturals

CONSTANTS Provider, Enabled, All, MaxGeneration,
          Widget, NoWidget, MaxSettingsGeneration, MaxStored

(* What the lanes assume of their parameters. *)
ASSUME ServiceAssumption ==
    /\ Provider # {} /\ Enabled \subseteq Provider /\ All \notin Provider
    /\ NoWidget \notin Widget
    /\ MaxGeneration \in Nat /\ MaxSettingsGeneration \in Nat
    /\ MaxStored \in Nat \ {0}

VARIABLES
    helperPath, versionState, versionProcess, collectionDelay, pollTimer,
    statusBusy, statusGeneration, pendingForcedTargets, statusCommand,
    statusProcess, snapshot,
    popupOwner, settingsState, appliedSettings, settingsGeneration,
    settingsRead, settingsBootstrap, settingsWrite, stored,
    maintenanceUi, maintenanceCheck, intention, operation, consent,
    blocked

Status      == INSTANCE StatusLane
Settings    == INSTANCE SettingsLane
Maintenance == INSTANCE MaintenanceLane
                   WITH settingsWriteBusy <- settingsWrite.busy

statusOnly   == <<versionState, versionProcess, collectionDelay, pollTimer,
                  statusBusy, statusGeneration, pendingForcedTargets,
                  statusCommand, statusProcess, snapshot>>
settingsOnly == <<popupOwner, settingsState, appliedSettings,
                  settingsGeneration, settingsRead, settingsBootstrap,
                  settingsWrite, stored>>
panelOnly    == <<maintenanceUi, maintenanceCheck, consent>>
handoffOnly  == <<intention, operation>>
vars == <<statusOnly, settingsOnly, panelOnly, handoffOnly, helperPath, blocked>>

Init == Status!Init /\ Settings!Init /\ Maintenance!Init

-----------------------------------------------------------------------------
versionSucceeds == ~Status!versionReady /\ Status!versionReady'

(* BUG: the bootstrap starts whatever the dialog has applied since. *)
Mutant_VersionExited ==
    /\ Status!VersionExited
    /\ IF versionSucceeds
       THEN /\ maintenanceUi' = Maintenance!syncMaintenanceVersion(maintenanceUi)
            /\ settingsBootstrap' = Settings!started(0)
            /\ UNCHANGED <<popupOwner, settingsState, appliedSettings,
                           settingsGeneration, settingsRead, settingsWrite, stored>>
       ELSE UNCHANGED <<maintenanceUi, settingsOnly>>
    /\ UNCHANGED <<maintenanceCheck, consent, handoffOnly>>

(* versionProbe.onExited; a success is shown in the maintenance panel and   *)
(* starts the settings bootstrap.                                          *)
VersionExited ==
    /\ Status!VersionExited
    /\ IF versionSucceeds
       THEN /\ maintenanceUi' = Maintenance!syncMaintenanceVersion(maintenanceUi)
            /\ Settings!kickSettingsBootstrap
       ELSE UNCHANGED <<maintenanceUi, settingsOnly>>
    /\ UNCHANGED <<maintenanceCheck, consent, handoffOnly>>

(* The manifest is shown in the maintenance panel and names the helper;     *)
(* onHelperPathChanged leaves the panel alone.                             *)
ManifestArrives ==
    /\ Status!tryStartProduction
    /\ maintenanceUi' \in {maintenanceUi,
                           Maintenance!syncMaintenanceVersion(maintenanceUi)}
    /\ UNCHANGED <<settingsOnly, maintenanceCheck, consent, handoffOnly>>

(* Handlers of the status lane that touch no other lane. *)
StatusAlone ==
    /\ \/ Status!VersionTimeout
       \/ Status!CollectionDelayElapsed
       \/ \E target \in Provider \cup {All} : Status!Refresh(target)
       \/ Status!PollTick
       \/ \E ok \in BOOLEAN : Status!StatusExited(ok)
       \/ Status!StatusTimeout
    /\ UNCHANGED <<settingsOnly, panelOnly, handoffOnly>>

(* Handlers of the popup and the settings lanes that touch no other lane;   *)
(* their config show and config apply children.  (SettingsLane also lets     *)
(* another agent-bar process write settings.json.)                         *)
SettingsAlone ==
    /\ \/ Settings!PopupNext
       \/ Settings!DialogNext
       \/ Settings!HelperReads \/ Settings!SettingsReadSucceeds
       \/ Settings!SettingsReadFails \/ Settings!HelperWrites
       \/ Settings!BootstrapReads
       \/ \E ok \in BOOLEAN : Settings!SettingsBootstrapExited(ok)
    /\ UNCHANGED <<statusOnly, panelOnly, handoffOnly>>

(* BUG: the end of a settings write does not retry the handoff. *)
Mutant_SettingsWriteExited(ok) ==
    /\ Settings!SettingsWriteExited(ok)
    /\ UNCHANGED <<operation, intention, statusOnly, panelOnly>>

(* settingsWriteProcess.onExited ends with tryMaintenanceDetach. *)
SettingsWriteExited(ok) ==
    /\ Settings!SettingsWriteExited(ok)
    /\ Maintenance!tryMaintenanceDetach(blocked, statusBusy, FALSE, intention)
    /\ UNCHANGED <<intention, statusOnly, panelOnly>>

(* The maintenance panel is the end of the settings page. *)
PanelAlone ==
    /\ Settings!dialogVisible
    /\ UNCHANGED <<statusOnly, settingsOnly, helperPath>>
    /\ \/ Maintenance!checkForUpdates
       \/ Maintenance!openUpdateConfirm \/ Maintenance!closeUpdateConfirm
       \/ Maintenance!UninstallNext

UpdateCheckExited(result) ==
    /\ UNCHANGED <<statusOnly, settingsOnly, helperPath>>
    /\ Maintenance!UpdateCheckExited(result)

(* BUG: polling goes on while maintenance waits. *)
Mutant_HandoffBegins ==
    /\ Settings!dialogVisible
    /\ UNCHANGED <<statusOnly, settingsOnly, helperPath>>
    /\ Maintenance!HandoffBegins

(* beginMaintenanceHandoff, from either confirmation *)
HandoffBegins ==
    /\ Settings!dialogVisible
    /\ UNCHANGED settingsOnly
    /\ Status!MaintenanceBegins
    /\ Maintenance!HandoffBegins

(* applyMaintenanceHandoffDone *)
HandoffExited(ok) ==
    /\ UNCHANGED settingsOnly
    /\ Status!MaintenanceEnds
    /\ Maintenance!HandoffExited(ok)

Next ==
    \/ VersionExited \/ ManifestArrives
    \/ StatusAlone
    \/ SettingsAlone
    \/ \E ok \in BOOLEAN : SettingsWriteExited(ok)
    \/ PanelAlone
    \/ \E result \in Maintenance!CheckResult : UpdateCheckExited(result)
    \/ HandoffBegins
    \/ \E ok \in BOOLEAN : HandoffExited(ok)

(* A config apply child ends (SettingsLane says why). *)
Fairness == WF_vars(\E ok \in BOOLEAN : SettingsWriteExited(ok))

Spec     == Init /\ [][Next]_vars
FairSpec == Spec /\ Fairness

-----------------------------------------------------------------------------
(* Each lane, with the others as its environment, is the lane specified by  *)
(* its own module: what that module shows of it holds in the service.       *)
StatusAsSpecified      == Status!Spec
SettingsAsSpecified    == Settings!Spec
MaintenanceAsSpecified == Maintenance!Spec

(* What MaintenanceLane states of its own, here of the service: the update  *)
(* or uninstall helper runs only beside lanes that are really drained, no   *)
(* second operation replaces the one that runs, and an uninstall purges     *)
(* exactly when the dialog offered it at both clicks.                       *)
MaintenanceRunsAlone == Maintenance!MaintenanceRunsAlone
OneOperationAtATime  == Maintenance!OneOperationAtATime
UninstallIsConsented == Maintenance!UninstallIsConsented

(* A handoff that waits for a settings write only is launched when it ends. *)
WriteDrainLaunches ==
    blocked /\ ~statusBusy /\ settingsWrite.busy ~> Maintenance!maintenanceHandoffBusy

-----------------------------------------------------------------------------
(* A statement of the repository that the code does not keep: ARCH-024, "an *)
(* already-running status or settings write drains before detached handoff".*)
(* Once both are drained, the handoff has been detached.                    *)
DrainedHandoffIsDetached ==
    blocked /\ ~statusBusy /\ ~settingsWrite.busy
        => Maintenance!maintenanceHandoffBusy
=============================================================================
