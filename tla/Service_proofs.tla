--------------------------- MODULE Service_proofs ---------------------------
(***************************************************************************)
(* The composition keeps what the lanes promise, for any providers, widgets *)
(* and bounds.  Every handler of Service is mapped to a step of each lane's *)
(* specification or to a stutter of it.  What the proof modules of the      *)
(* status and settings lanes show then holds of the whole service; the      *)
(* maintenance handoff, which reads the other lanes' flags, is proved here. *)
(*                                                                         *)
(* The proof modules are instantiated again beside the lanes, and the two   *)
(* instances of a lane's specification are the same formula.               *)
(***************************************************************************)
EXTENDS Service, TLAPS

SProofs == INSTANCE StatusLane_proofs
TProofs == INSTANCE SettingsLane_proofs

(* SProofs!Spec is Status!Spec, and TProofs!Spec is Settings!Spec: once all  *)
(* definitions are expanded nothing is left to tell them apart.             *)
LEMMA SameStatus ==
    /\ Status!Init <=> SProofs!Init
    /\ [Status!Next]_(Status!vars) <=> [SProofs!Next]_(SProofs!vars)
BY DEF Status!NoProcess, SProofs!NoProcess, Status!Started, SProofs!Started,
       Status!Stopped, SProofs!Stopped, Status!AfterExit, SProofs!AfterExit,
       Status!emptyPending, SProofs!emptyPending, Status!pendingIsEmpty,
       SProofs!pendingIsEmpty, Status!unionForced, SProofs!unionForced,
       Status!statusArgv, SProofs!statusArgv, Status!Collected,
       SProofs!Collected, Status!versionVars, SProofs!versionVars,
       Status!statusVars, SProofs!statusVars, Status!vars, SProofs!vars,
       Status!noCommand, SProofs!noCommand, Status!noSnapshot,
       SProofs!noSnapshot, Status!Init, SProofs!Init, Status!kickStatus,
       SProofs!kickStatus, Status!versionReady, SProofs!versionReady,
       Status!tryStartProduction, SProofs!tryStartProduction,
       Status!finishVersionProbeSuccess, SProofs!finishVersionProbeSuccess,
       Status!finishVersionProbeFailure, SProofs!finishVersionProbeFailure,
       Status!VersionExited, SProofs!VersionExited, Status!VersionTimeout,
       SProofs!VersionTimeout, Status!CollectionDelayElapsed,
       SProofs!CollectionDelayElapsed, Status!Refresh, SProofs!Refresh,
       Status!PollTick, SProofs!PollTick, Status!applyStatusResult,
       SProofs!applyStatusResult, Status!followsUp, SProofs!followsUp,
       Status!StatusExited, SProofs!StatusExited, Status!StatusTimeout,
       SProofs!StatusTimeout, Status!MaintenanceBegins,
       SProofs!MaintenanceBegins, Status!MaintenanceEnds,
       SProofs!MaintenanceEnds, Status!VersionNext, SProofs!VersionNext,
       Status!StatusNext, SProofs!StatusNext, Status!Next, SProofs!Next

LEMMA SameSettings ==
    /\ Settings!Init <=> TProofs!Init
    /\ [Settings!Next]_(Settings!vars) <=> [TProofs!Next]_(TProofs!vars)
BY DEF Settings!dialogVars, TProofs!dialogVars, Settings!laneVars,
       TProofs!laneVars, Settings!environmentVars, TProofs!environmentVars,
       Settings!vars, TProofs!vars, Settings!noPopup, TProofs!noPopup,
       Settings!settingsClosed, TProofs!settingsClosed, Settings!idle,
       TProofs!idle, Settings!started, TProofs!started, Settings!ended,
       TProofs!ended, Settings!Init, TProofs!Init, Settings!popupOpen,
       TProofs!popupOpen, Settings!requestPopup, TProofs!requestPopup,
       Settings!settingsShouldRetainOnClose,
       TProofs!settingsShouldRetainOnClose, Settings!closes, TProofs!closes,
       Settings!closePopup, TProofs!closePopup, Settings!dismissPopup,
       TProofs!dismissPopup, Settings!openSettings, TProofs!openSettings,
       Settings!Shows, TProofs!Shows, Settings!HelperReads,
       TProofs!HelperReads, Settings!BootstrapReads, TProofs!BootstrapReads,
       Settings!SettingsReadSucceeds, TProofs!SettingsReadSucceeds,
       Settings!SettingsReadFails, TProofs!SettingsReadFails,
       Settings!dialogVisible, TProofs!dialogVisible, Settings!controlsLocked,
       TProofs!controlsLocked, Settings!editVars, TProofs!editVars,
       Settings!EditDraft, TProofs!EditDraft, Settings!cancelSettings,
       TProofs!cancelSettings, Settings!canSaveSettings,
       TProofs!canSaveSettings, Settings!saveSettings, TProofs!saveSettings,
       Settings!HelperWrites, TProofs!HelperWrites,
       Settings!settingsFinishSave, TProofs!settingsFinishSave,
       Settings!SettingsWriteExited, TProofs!SettingsWriteExited,
       Settings!kickSettingsBootstrap, TProofs!kickSettingsBootstrap,
       Settings!settingsBootstrapResult, TProofs!settingsBootstrapResult,
       Settings!SettingsBootstrapExited, TProofs!SettingsBootstrapExited,
       Settings!CommandLineApplies, TProofs!CommandLineApplies,
       Settings!HelperPathAppears, TProofs!HelperPathAppears,
       Settings!VersionProbeSucceeds, TProofs!VersionProbeSucceeds,
       Settings!MaintenanceToggles, TProofs!MaintenanceToggles,
       Settings!PopupNext, TProofs!PopupNext, Settings!DialogNext,
       TProofs!DialogNext, Settings!LaneNext, TProofs!LaneNext,
       Settings!EnvironmentNext, TProofs!EnvironmentNext, Settings!Next,
       TProofs!Next

-----------------------------------------------------------------------------
(* The flags one lane shows the others *)

(* The status lane's flag and the settings-write lane keep their shape: the *)
(* other lanes read `statusBusy` and `settingsWrite.busy`.                  *)
WriteLane == [busy : BOOLEAN, generation : Nat, document : Nat]

FlagsOK ==
    /\ statusBusy \in BOOLEAN
    /\ stored \in Nat
    /\ settingsGeneration \in Nat
    /\ settingsWrite \in WriteLane

LEMMA InitFlags == Init => FlagsOK
<1> SUFFICES ASSUME Status!Init, Settings!Init PROVE FlagsOK
  BY DEF Init
<1>1. statusBusy \in BOOLEAN
  BY DEF Status!Init
<1>2. stored \in Nat /\ settingsGeneration \in Nat /\ settingsWrite \in WriteLane
  BY DEF Settings!Init, Settings!idle, WriteLane
<1>3. QED
  BY <1>1, <1>2 DEF FlagsOK

(* Whatever the status lane does by itself, its flag is a flag, and it      *)
(* becomes busy only while the service is open.                            *)
LEMMA StatusFlag ==
    ASSUME statusBusy \in BOOLEAN, Status!VersionNext \/ Status!StatusNext
    PROVE  /\ statusBusy' \in BOOLEAN
           /\ statusBusy' => statusBusy \/ ~blocked
           /\ blocked' = blocked
<1>k. ASSUME NEW ready, NEW busy \in BOOLEAN, NEW pending, NEW process,
             Status!kickStatus(ready, busy, pending, process)
      PROVE  statusBusy' \in BOOLEAN /\ (statusBusy' => busy \/ ~blocked)
  BY <1>k DEF Status!kickStatus
<1>a. ASSUME NEW ok, NEW providers, NEW process,
             Status!applyStatusResult(ok, providers, process)
      PROVE  statusBusy' \in BOOLEAN /\ (statusBusy' => ~blocked)
  BY <1>a, <1>k DEF Status!applyStatusResult
<1>1. CASE Status!tryStartProduction \/ Status!VersionTimeout
  BY <1>1 DEF Status!tryStartProduction, Status!VersionTimeout,
              Status!finishVersionProbeFailure, Status!statusVars
<1>2. CASE Status!VersionExited
  BY <1>2, <1>k DEF Status!VersionExited, Status!finishVersionProbeSuccess,
              Status!finishVersionProbeFailure, Status!statusVars
<1>3. CASE Status!CollectionDelayElapsed \/ Status!PollTick
  BY <1>3, <1>k DEF Status!CollectionDelayElapsed, Status!PollTick
<1>4. CASE \E target \in Provider \cup {All} : Status!Refresh(target)
  BY <1>4, <1>k DEF Status!Refresh
<1>5. CASE \E ok \in BOOLEAN : Status!StatusExited(ok)
  BY <1>5, <1>a DEF Status!StatusExited
<1>6. CASE Status!StatusTimeout
  BY <1>6, <1>a DEF Status!StatusTimeout
<1>7. QED
  BY <1>1, <1>2, <1>3, <1>4, <1>5, <1>6 DEF Status!VersionNext,
       Status!StatusNext

(* The settings lanes by themselves start a write only in an open service,  *)
(* and end none.                                                           *)
WriteStarts ==
    /\ ~blocked /\ ~settingsWrite.busy
    /\ settingsWrite' \in WriteLane /\ settingsWrite'.busy = TRUE

LEMMA WriteFlag ==
    ASSUME FlagsOK, SettingsAlone
    PROVE  /\ stored' \in Nat /\ settingsGeneration' \in Nat
           /\ settingsWrite' \in WriteLane
           /\ settingsWrite'.busy = settingsWrite.busy \/ WriteStarts
           /\ UNCHANGED <<blocked, helperPath>>
<1> USE DEF FlagsOK, Settings!laneVars, Settings!dialogVars,
     Settings!environmentVars
<1>u. ASSUME UNCHANGED settingsWrite
      PROVE  settingsWrite'.busy = settingsWrite.busy
  BY <1>u
<1>1. CASE Settings!PopupNext
  BY <1>1, <1>u DEF Settings!PopupNext, Settings!requestPopup,
       Settings!closePopup,
              Settings!dismissPopup
<1>2. CASE \E owner \in Widget : Settings!openSettings(owner)
  BY <1>2, <1>u DEF Settings!openSettings
<1>3. CASE Settings!cancelSettings \/ \E valid \in BOOLEAN : Settings!EditDraft(valid)
  BY <1>3, <1>u DEF Settings!cancelSettings, Settings!EditDraft,
       Settings!editVars
<1>4. CASE Settings!saveSettings
  <2>1. /\ stored' \in Nat /\ settingsGeneration' \in Nat
        /\ UNCHANGED <<blocked, helperPath>>
        /\ ~blocked /\ ~settingsWrite.busy
        /\ settingsWrite' = IF helperPath THEN Settings!started(settingsGeneration')
                                          ELSE settingsWrite
    BY <1>4 DEF Settings!saveSettings
  <2>2. CASE helperPath
    <3>1. settingsWrite' \in WriteLane /\ settingsWrite'.busy = TRUE
      BY <2>1, <2>2 DEF Settings!started, WriteLane
    <3>2. QED
      BY <2>1, <3>1 DEF WriteStarts
  <2>3. CASE ~helperPath
    <3>1. settingsWrite' = settingsWrite
      BY <2>1, <2>3
    <3>2. QED
      BY <2>1, <3>1, <1>u
  <2>4. QED
    BY <2>2, <2>3
<1>5. CASE Settings!HelperReads \/ Settings!SettingsReadSucceeds
              \/ Settings!SettingsReadFails \/ Settings!BootstrapReads
  BY <1>5, <1>u DEF Settings!HelperReads, Settings!SettingsReadSucceeds,
              Settings!SettingsReadFails, Settings!BootstrapReads
<1>6. CASE Settings!HelperWrites
  <2>1. /\ stored' = stored + 1
        /\ settingsWrite' = [settingsWrite EXCEPT !.document = stored + 1]
        /\ UNCHANGED <<settingsGeneration, blocked, helperPath>>
    BY <1>6 DEF Settings!HelperWrites
  <2>2. stored + 1 \in Nat
    OBVIOUS
  <2>3. settingsWrite' \in WriteLane
    BY <2>1, <2>2 DEF WriteLane
  <2>4. settingsWrite'.busy = settingsWrite.busy
    BY <2>1 DEF WriteLane
  <2>5. QED
    BY <2>1, <2>2, <2>3, <2>4
<1>7. CASE \E ok \in BOOLEAN : Settings!SettingsBootstrapExited(ok)
  BY <1>7, <1>u DEF Settings!SettingsBootstrapExited
<1>8. QED
  BY <1>1, <1>2, <1>3, <1>4, <1>5, <1>6, <1>7
     DEF SettingsAlone, Settings!DialogNext

LEMMA NextFlags == FlagsOK /\ [Next]_vars => FlagsOK'
<1> SUFFICES ASSUME FlagsOK, [Next]_vars PROVE FlagsOK'
  OBVIOUS
<1> USE DEF FlagsOK, statusOnly, settingsOnly
<1>1. CASE VersionExited
  <2>1. statusBusy' \in BOOLEAN
    BY <1>1, StatusFlag DEF VersionExited, Status!VersionNext
  <2>2. UNCHANGED <<stored, settingsGeneration, settingsWrite>>
    BY <1>1 DEF VersionExited, Settings!kickSettingsBootstrap
  <2>3. QED
    BY <2>1, <2>2
<1>2. CASE StatusAlone
  <2>1. statusBusy' \in BOOLEAN
    BY <1>2, StatusFlag DEF StatusAlone, Status!VersionNext, Status!StatusNext
  <2>2. QED
    BY <1>2, <2>1 DEF StatusAlone
<1>3. CASE SettingsAlone
  BY <1>3, WriteFlag DEF SettingsAlone
<1>4. CASE \E ok \in BOOLEAN : SettingsWriteExited(ok)
  <2>1. settingsWrite' = Settings!idle
        /\ UNCHANGED <<statusBusy, stored, settingsGeneration>>
    BY <1>4 DEF SettingsWriteExited, Settings!SettingsWriteExited
  <2>2. Settings!idle \in WriteLane
    BY DEF Settings!idle, WriteLane
  <2>3. QED
    BY <2>1, <2>2
<1>5. CASE PanelAlone \/ \E result \in Maintenance!CheckResult : UpdateCheckExited(result)
  BY <1>5 DEF PanelAlone, UpdateCheckExited
<1>6. CASE HandoffBegins \/ \E ok \in BOOLEAN : HandoffExited(ok)
  BY <1>6 DEF HandoffBegins, HandoffExited, Status!MaintenanceBegins,
              Status!MaintenanceEnds, Status!statusVars
<1>7. CASE UNCHANGED vars
  BY <1>7 DEF vars
<1>8. CASE ManifestArrives
  <2>1. statusBusy' \in BOOLEAN
    BY <1>8, StatusFlag DEF ManifestArrives, Status!VersionNext
  <2> QED
    BY <1>8, <2>1 DEF ManifestArrives
<1>9. QED
  BY <1>1, <1>2, <1>3, <1>4, <1>5, <1>6, <1>7, <1>8 DEF Next

-----------------------------------------------------------------------------
(* Every handler, seen from one lane *)

LEMMA StatusStep == FlagsOK /\ [Next]_vars => [Status!Next]_(Status!vars)
<1> SUFFICES ASSUME FlagsOK, [Next]_vars PROVE [Status!Next]_(Status!vars)
  OBVIOUS
<1>s. ASSUME UNCHANGED <<statusOnly, helperPath, blocked>>
      PROVE  UNCHANGED Status!vars
  BY <1>s DEF statusOnly, Status!vars, Status!versionVars, Status!statusVars
<1>1. CASE VersionExited \/ ManifestArrives \/ StatusAlone
  BY <1>1 DEF VersionExited, ManifestArrives, StatusAlone, Status!Next,
              Status!VersionNext, Status!StatusNext
<1>2. CASE SettingsAlone
  BY <1>2, <1>s, WriteFlag DEF SettingsAlone
<1>3. CASE \E ok \in BOOLEAN : SettingsWriteExited(ok)
  BY <1>3, <1>s DEF SettingsWriteExited, Settings!SettingsWriteExited,
              Settings!environmentVars
<1>4. CASE PanelAlone \/ \E result \in Maintenance!CheckResult : UpdateCheckExited(result)
  <2>1. blocked' = blocked
    BY <1>4 DEF PanelAlone, UpdateCheckExited, Maintenance!checkForUpdates,
         Maintenance!openUpdateConfirm, Maintenance!closeUpdateConfirm,
         Maintenance!UninstallNext, Maintenance!openUninstallConfirm,
         Maintenance!closeUninstallConfirm, Maintenance!setUninstallPurge,
         Maintenance!armUninstall, Maintenance!UpdateCheckExited,
         Maintenance!handoffVars
  <2>2. QED
    BY <1>4, <1>s, <2>1 DEF PanelAlone, UpdateCheckExited
<1>5. CASE HandoffBegins \/ \E ok \in BOOLEAN : HandoffExited(ok)
  BY <1>5 DEF HandoffBegins, HandoffExited, Status!Next
<1>6. CASE UNCHANGED vars
  BY <1>6, <1>s DEF vars
<1>7. QED
  BY <1>1, <1>2, <1>3, <1>4, <1>5, <1>6 DEF Next

LEMMA SettingsStep == FlagsOK /\ [Next]_vars => [Settings!Next]_(Settings!vars)
<1> SUFFICES ASSUME FlagsOK, [Next]_vars PROVE [Settings!Next]_(Settings!vars)
  OBVIOUS
<1> USE DEF Settings!Next, Settings!EnvironmentNext, settingsOnly
<1>s. ASSUME UNCHANGED <<settingsOnly, helperPath, blocked>>
      PROVE  UNCHANGED Settings!vars
  BY <1>s DEF Settings!vars, Settings!dialogVars, Settings!laneVars,
              Settings!environmentVars
<1>m. ASSUME UNCHANGED <<settingsOnly, helperPath>>, blocked' \in BOOLEAN
      PROVE  Settings!MaintenanceToggles
  BY <1>m DEF Settings!MaintenanceToggles, Settings!dialogVars,
       Settings!laneVars
<1>1. CASE VersionExited
  <2>1. UNCHANGED <<helperPath, blocked>>
    BY <1>1 DEF VersionExited, Status!VersionExited
  <2>2. CASE UNCHANGED settingsOnly
    BY <1>s, <2>1, <2>2
  <2>3. CASE Settings!kickSettingsBootstrap
    <3>1. CASE helperPath
      BY <2>1, <2>3, <3>1 DEF Settings!VersionProbeSucceeds,
           Settings!environmentVars
    <3>2. CASE ~helperPath
      BY <1>s, <2>1, <2>3, <3>2 DEF Settings!kickSettingsBootstrap,
         Settings!dialogVars
    <3>3. QED
      BY <3>1, <3>2
  <2>4. QED
    BY <1>1, <2>2, <2>3 DEF VersionExited
<1>2. CASE ManifestArrives \/ StatusAlone
  <2>1. blocked' = blocked /\ UNCHANGED settingsOnly
    BY <1>2, StatusFlag DEF ManifestArrives, StatusAlone, Status!VersionNext,
         Status!StatusNext, FlagsOK
  <2>2. helperPath' = helperPath \/ helperPath' = TRUE
    BY <1>2 DEF ManifestArrives, StatusAlone, Status!tryStartProduction,
         Status!VersionTimeout,
         Status!CollectionDelayElapsed, Status!Refresh, Status!PollTick,
         Status!StatusExited, Status!StatusTimeout, Status!versionVars
  <2>3. CASE helperPath' = TRUE
    BY <2>1, <2>3 DEF Settings!HelperPathAppears, Settings!dialogVars,
         Settings!laneVars
  <2>4. QED
    BY <1>s, <2>1, <2>2, <2>3
<1>3. CASE SettingsAlone
  BY <1>3 DEF SettingsAlone, Settings!LaneNext
<1>4. CASE \E ok \in BOOLEAN : SettingsWriteExited(ok)
  BY <1>4 DEF SettingsWriteExited, Settings!LaneNext
<1>5. CASE PanelAlone \/ \E result \in Maintenance!CheckResult : UpdateCheckExited(result)
  <2>1. blocked' = blocked
    BY <1>5 DEF PanelAlone, UpdateCheckExited, Maintenance!checkForUpdates,
         Maintenance!openUpdateConfirm, Maintenance!closeUpdateConfirm,
         Maintenance!UninstallNext, Maintenance!openUninstallConfirm,
         Maintenance!closeUninstallConfirm, Maintenance!setUninstallPurge,
         Maintenance!armUninstall, Maintenance!UpdateCheckExited,
         Maintenance!handoffVars
  <2>2. QED
    BY <1>5, <1>s, <2>1 DEF PanelAlone, UpdateCheckExited
<1>6. CASE HandoffBegins \/ \E ok \in BOOLEAN : HandoffExited(ok)
  <2>1. UNCHANGED <<settingsOnly, helperPath>> /\ blocked' \in BOOLEAN
    BY <1>6 DEF HandoffBegins, HandoffExited, Status!MaintenanceBegins,
         Status!MaintenanceEnds, Status!versionVars
  <2>2. QED
    BY <1>m, <2>1
<1>7. CASE UNCHANGED vars
  BY <1>7, <1>s DEF vars
<1>8. QED
  BY <1>1, <1>2, <1>3, <1>4, <1>5, <1>6, <1>7 DEF Next

LEMMA MaintenanceStep == FlagsOK /\ [Next]_vars => [Maintenance!Next]_(Maintenance!vars)
<1> SUFFICES ASSUME FlagsOK,
     [Next]_vars PROVE [Maintenance!Next]_(Maintenance!vars)
  OBVIOUS
<1> USE DEF Maintenance!Next, Maintenance!LaneNext, Maintenance!panelVars,
            Maintenance!handoffVars, panelOnly, handoffOnly
<1>m. ASSUME UNCHANGED <<panelOnly, handoffOnly, blocked, settingsWrite>>,
             statusBusy' \in BOOLEAN, statusBusy' => statusBusy \/ ~blocked
      PROVE  Maintenance!StatusMoves
  BY <1>m DEF Maintenance!StatusMoves
<1>1. CASE VersionExited \/ ManifestArrives
  <2>1. /\ statusBusy' \in BOOLEAN /\ (statusBusy' => statusBusy \/ ~blocked)
        /\ blocked' = blocked
    BY <1>1, StatusFlag DEF VersionExited, ManifestArrives, Status!VersionNext,
         FlagsOK
  <2>2. UNCHANGED <<maintenanceCheck, consent, handoffOnly, settingsWrite>>
    BY <1>1 DEF VersionExited, ManifestArrives, Settings!kickSettingsBootstrap,
         settingsOnly
  <2>3. CASE maintenanceUi' = maintenanceUi
    BY <1>m, <2>1, <2>2, <2>3
  <2>4. CASE maintenanceUi' = Maintenance!syncMaintenanceVersion(maintenanceUi)
    BY <2>1, <2>2, <2>4 DEF Maintenance!VersionKnown
  <2>5. QED
    BY <1>1, <2>3, <2>4 DEF VersionExited, ManifestArrives
<1>2. CASE StatusAlone
  <2>1. /\ statusBusy' \in BOOLEAN /\ (statusBusy' => statusBusy \/ ~blocked)
        /\ blocked' = blocked
    BY <1>2, StatusFlag DEF StatusAlone, Status!VersionNext,
         Status!StatusNext, FlagsOK
  <2>2. QED
    BY <1>2, <1>m, <2>1 DEF StatusAlone, settingsOnly
<1>3. CASE SettingsAlone
  <2>1. /\ UNCHANGED <<panelOnly, handoffOnly, statusBusy, blocked>>
        /\ settingsWrite'.busy = settingsWrite.busy \/ WriteStarts
    BY <1>3, WriteFlag DEF SettingsAlone, statusOnly
  <2>2. CASE settingsWrite'.busy = settingsWrite.busy
    BY <2>1, <2>2 DEF Maintenance!vars, Maintenance!laneVars
  <2>3. CASE WriteStarts
    BY <2>1, <2>3 DEF WriteStarts, Maintenance!SettingsWriteStarts
  <2>4. QED
    BY <2>1, <2>2, <2>3
<1>4. CASE \E ok \in BOOLEAN : SettingsWriteExited(ok)
  <2>1. /\ settingsWrite.busy /\ settingsWrite' = Settings!idle
        /\ Maintenance!tryMaintenanceDetach(blocked, statusBusy, FALSE,
             intention)
        /\ UNCHANGED <<panelOnly, intention, blocked, statusBusy>>
    BY <1>4 DEF SettingsWriteExited, Settings!SettingsWriteExited,
         Settings!environmentVars, statusOnly
  <2>2. settingsWrite'.busy = FALSE
    BY <2>1 DEF Settings!idle
  <2>3. QED
    BY <2>1, <2>2 DEF Maintenance!SettingsWriteEnds
<1>5. CASE PanelAlone
  BY <1>5 DEF PanelAlone, Maintenance!UpdateNext
<1>6. CASE \E result \in Maintenance!CheckResult : UpdateCheckExited(result)
  BY <1>6 DEF UpdateCheckExited, Maintenance!UpdateNext
<1>7. CASE HandoffBegins \/ \E ok \in BOOLEAN : HandoffExited(ok)
  BY <1>7 DEF HandoffBegins, HandoffExited, Maintenance!HandoffEnds
<1>8. CASE UNCHANGED vars
  BY <1>8 DEF vars, statusOnly, settingsOnly, Maintenance!vars,
       Maintenance!laneVars
<1>9. QED
  BY <1>1, <1>2, <1>3, <1>4, <1>5, <1>6, <1>7, <1>8 DEF Next

-----------------------------------------------------------------------------
(* The composition *)

LEMMA FlagsInvariance == Spec => []FlagsOK
BY InitFlags, NextFlags, PTL DEF Spec

(* The status lane of the service is the one StatusLane specifies: no       *)
(* handler of another lane does to it what that module does not allow.      *)
THEOREM StatusIsSpecified == Spec => StatusAsSpecified
<1>1. Init => Status!Init
  BY DEF Init
<1>2. QED
  BY <1>1, StatusStep, FlagsInvariance, PTL DEF Spec, StatusAsSpecified,
       Status!Spec

(* The same of the dialog, the popup and the settings lanes. *)
THEOREM SettingsIsSpecified == Spec => SettingsAsSpecified
<1>1. Init => Settings!Init
  BY DEF Init
<1>2. QED
  BY <1>1, SettingsStep, FlagsInvariance, PTL
     DEF Spec, SettingsAsSpecified, Settings!Spec

(* The same of update and uninstall. *)
THEOREM MaintenanceIsSpecified == Spec => MaintenanceAsSpecified
<1>1. Init => Maintenance!Init
  BY DEF Init
<1>2. QED
  BY <1>1, MaintenanceStep, FlagsInvariance, PTL
     DEF Spec, MaintenanceAsSpecified, Maintenance!Spec

-----------------------------------------------------------------------------
(* What the lanes' own proofs give the service *)

LEMMA ProvedStatus == Spec => SProofs!Spec
<1>1. StatusAsSpecified => SProofs!Spec
  BY SameStatus, PTL DEF StatusAsSpecified, Status!Spec, SProofs!Spec
<1>2. QED
  BY <1>1, StatusIsSpecified, PTL

LEMMA ProvedSettings == Spec => TProofs!Spec
<1>1. SettingsAsSpecified => TProofs!Spec
  BY SameSettings, PTL DEF SettingsAsSpecified, Settings!Spec, TProofs!Spec
<1>2. QED
  BY <1>1, SettingsIsSpecified, PTL

(* Nothing the service does, in any lane, starts a collection before the    *)
(* private helper has answered `version`.                                  *)
THEOREM ServiceCollectsAfterVersion == Spec => []Status!CollectsOnlyAfterVersion
<1>1. SProofs!CollectsOnlyAfterVersion => Status!CollectsOnlyAfterVersion
  BY DEF SProofs!CollectsOnlyAfterVersion, Status!CollectsOnlyAfterVersion,
         SProofs!noSnapshot, Status!noSnapshot, SProofs!versionReady,
         Status!versionReady
<1>2. SProofs!Spec => []SProofs!CollectsOnlyAfterVersion
  BY ServiceAssumption, SProofs!CollectsAfterVersion
<1>3. QED
  BY <1>1, <1>2, ProvedStatus, PTL

(* Whatever update, uninstall or saving interleaves, the bar never loses    *)
(* what it shows and never shows an older run after a newer one.            *)
THEOREM ServiceSnapshotAdvances == Spec => Status!SnapshotOnlyAdvances
<1>1. SProofs!SnapshotOnlyAdvances => Status!SnapshotOnlyAdvances
  BY PTL DEF SProofs!SnapshotOnlyAdvances, Status!SnapshotOnlyAdvances,
         SProofs!noSnapshot, Status!noSnapshot
<1>2. SProofs!Spec => SProofs!SnapshotOnlyAdvances
  BY ServiceAssumption, SProofs!SnapshotAdvances
<1>3. QED
  BY <1>1, <1>2, ProvedStatus, PTL

(* The service keeps what forced refreshes are promised, whatever the other *)
(* lanes do: a request is taken once, by the next run, and none is lost.    *)
THEOREM ServiceCoalesces == Spec => Status!CoalescesAsPromised
<1>1. /\ SProofs!Promise!Init <=> Status!Promise!Init
      /\ [SProofs!Promise!Next]_(SProofs!Promise!vars)
            <=> [Status!Promise!Next]_(Status!Promise!vars)
  BY DEF SProofs!Targets, Status!Targets, SProofs!Promise!Init,
         Status!Promise!Init, SProofs!Promise!Ask, Status!Promise!Ask,
         SProofs!Promise!Start, Status!Promise!Start, SProofs!Promise!Finish,
         Status!Promise!Finish, SProofs!Promise!FinishAndFollowUp,
         Status!Promise!FinishAndFollowUp, SProofs!Promise!Close,
         Status!Promise!Close, SProofs!Promise!Open, Status!Promise!Open,
         SProofs!Promise!Next, Status!Promise!Next, SProofs!Promise!vars,
         Status!Promise!vars
<1>2. SProofs!CoalescesAsPromised => Status!CoalescesAsPromised
  BY <1>1, PTL DEF SProofs!CoalescesAsPromised, Status!CoalescesAsPromised,
         SProofs!Promise!Spec, Status!Promise!Spec
<1>3. SProofs!Spec => SProofs!CoalescesAsPromised
  BY ServiceAssumption, SProofs!Coalesces
<1>4. QED
  BY <1>2, <1>3, ProvedStatus, PTL

(* Beside probes, refreshes and handoffs too, what an open dialog calls     *)
(* saved is what the bar applies, and no dialog is locked for good.         *)
THEOREM ServiceDialog ==
    Spec => [](Settings!DialogAgreesWithBar /\ Settings!DialogMatchesLanes)
<1>1. /\ TProofs!DialogAgreesWithBar => Settings!DialogAgreesWithBar
      /\ TProofs!DialogMatchesLanes => Settings!DialogMatchesLanes
  BY DEF TProofs!DialogAgreesWithBar, Settings!DialogAgreesWithBar,
         TProofs!DialogMatchesLanes, Settings!DialogMatchesLanes
<1>2. TProofs!Spec => []TProofs!DialogAgreesWithBar
  BY ServiceAssumption, TProofs!DialogAgrees
<1>3. TProofs!Spec => []TProofs!DialogMatchesLanes
  BY ServiceAssumption, TProofs!DialogMatches
<1>4. QED
  BY <1>1, <1>2, <1>3, ProvedSettings, PTL

(* No answer of a read, a bootstrap or a write brings back settings that a  *)
(* later one has replaced, whichever lane starts them.                      *)
THEOREM ServiceAppliedAdvances == Spec => Settings!AppliedNeverRegresses
<1>1. TProofs!AppliedNeverRegresses => Settings!AppliedNeverRegresses
  BY PTL DEF TProofs!AppliedNeverRegresses, Settings!AppliedNeverRegresses
<1>2. TProofs!Spec => TProofs!AppliedNeverRegresses
  BY ServiceAssumption, TProofs!AppliedAdvances
<1>3. QED
  BY <1>1, <1>2, ProvedSettings, PTL

(* Nothing the service does, in any lane, takes an edit from the dialog.    *)
THEOREM ServiceEditsSurvive == Spec => Settings!EditsAreKept
<1>1. TProofs!EditsAreKept => Settings!EditsAreKept
  BY PTL DEF TProofs!EditsAreKept, Settings!EditsAreKept, TProofs!noPopup,
         Settings!noPopup, TProofs!laneVars, Settings!laneVars, TProofs!vars,
         Settings!vars, TProofs!dialogVars, Settings!dialogVars,
         TProofs!environmentVars, Settings!environmentVars
<1>2. TProofs!Spec => TProofs!EditsAreKept
  BY ServiceAssumption, TProofs!EditsSurvive
<1>3. QED
  BY <1>1, <1>2, ProvedSettings, PTL

-----------------------------------------------------------------------------
(* The maintenance handoff.  Its three properties are inductive only        *)
(* together with what keeps a second operation out: a closed service has no *)
(* open dialog, two dialogs are never open together, and the purge choice a *)
(* dialog was armed with is the one it confirms.                           *)

(* No dialog can confirm an operation once one has begun. *)
DialogsExclude ==
    /\ blocked => ~maintenanceUi.updateOpen /\ ~maintenanceUi.uninstallOpen
    /\ ~(maintenanceUi.updateOpen /\ maintenanceUi.uninstallOpen)

(* The consent a dialog was armed with is the one shown, and it is kept     *)
(* until the operation it was given for has ended.                         *)
ConsentIsKept ==
    /\ maintenanceUi.uninstallOpen /\ maintenanceUi.armed
          => consent = maintenanceUi.purge
    /\ intention.kind = "uninstall" => consent = intention.purge

IInv == /\ Maintenance!TypeOK
        /\ Maintenance!MaintenanceRunsAlone
        /\ Maintenance!OneOperationAtATime
        /\ DialogsExclude
        /\ ConsentIsKept

LEMMA IntentionType ==
    /\ Maintenance!noIntention \notin Maintenance!Intention
    /\ [kind |-> "update_apply", purge |-> FALSE] \in Maintenance!Intention
    /\ \A purge \in BOOLEAN : [kind |-> "uninstall",
         purge |-> purge] \in Maintenance!Intention
BY DEF Maintenance!noIntention, Maintenance!Intention

LEMMA PanelType ==
    /\ Maintenance!panelIdle \in Maintenance!Panel
    /\ maintenanceUi \in Maintenance!Panel
          => /\ [maintenanceUi EXCEPT !.phase = "error"] \in Maintenance!Panel
             /\ Maintenance!syncMaintenanceVersion(maintenanceUi) \in Maintenance!Panel
<1>1. Maintenance!panelIdle \in Maintenance!Panel
  BY DEF Maintenance!panelIdle, Maintenance!Panel, Maintenance!PanelPhase
<1>2. ASSUME maintenanceUi \in Maintenance!Panel
      PROVE  [maintenanceUi EXCEPT !.phase = "error"] \in Maintenance!Panel
  BY <1>2 DEF Maintenance!Panel, Maintenance!PanelPhase, Maintenance!CheckResult
<1>3. QED
  BY <1>1, <1>2 DEF Maintenance!syncMaintenanceVersion

(* A panel told of a version is as it was, or closed and disarmed. *)
LEMMA SyncedPanel ==
    LET synced == Maintenance!syncMaintenanceVersion(maintenanceUi)
    IN  \/ synced = maintenanceUi
        \/ ~synced.updateOpen /\ ~synced.uninstallOpen /\ ~synced.armed
BY DEF Maintenance!syncMaintenanceVersion, Maintenance!panelIdle

LEMMA InitIInv == Maintenance!Init => IInv
<1> SUFFICES ASSUME Maintenance!Init PROVE IInv
  OBVIOUS
<1>1. Maintenance!TypeOK
  BY PanelType DEF Maintenance!Init, Maintenance!TypeOK
<1>2. Maintenance!MaintenanceRunsAlone /\ Maintenance!OneOperationAtATime
  BY DEF Maintenance!Init, Maintenance!MaintenanceRunsAlone,
       Maintenance!OneOperationAtATime, Maintenance!maintenanceHandoffBusy
<1>3. DialogsExclude /\ ConsentIsKept
  BY DEF Maintenance!Init, DialogsExclude, ConsentIsKept,
       Maintenance!panelIdle, Maintenance!noIntention
<1>4. QED
  BY <1>1, <1>2, <1>3 DEF IInv

(* Beginning a handoff closes the service; the helper is started at once or *)
(* when the last lane has drained, in both cases for this intention.        *)
LEMMA HandoffBeginsSafely ==
    ASSUME IInv, ~blocked, NEW pending \in Maintenance!Intention,
         Maintenance!beginMaintenanceHandoff(pending),
           UNCHANGED Maintenance!laneVars
    PROVE  /\ intention' = pending /\ blocked' = TRUE
           /\ operation' \in Maintenance!Intention \cup {Maintenance!noIntention}
           /\ Maintenance!MaintenanceRunsAlone'
           /\ Maintenance!OneOperationAtATime'
<1>1. ~Maintenance!maintenanceHandoffBusy
  BY DEF IInv, Maintenance!MaintenanceRunsAlone
<1>2. /\ intention' = pending /\ blocked' = TRUE
      /\ operation' = IF ~statusBusy /\ ~settingsWrite.busy THEN pending ELSE operation
  BY <1>1 DEF Maintenance!beginMaintenanceHandoff,
       Maintenance!tryMaintenanceDetach, Maintenance!maintenanceCanDetach
<1>3. operation = Maintenance!noIntention /\ pending # Maintenance!noIntention
  BY <1>1, IntentionType DEF Maintenance!maintenanceHandoffBusy
<1>4. QED
  BY <1>2, <1>3 DEF Maintenance!MaintenanceRunsAlone,
       Maintenance!OneOperationAtATime,
                    Maintenance!maintenanceHandoffBusy, Maintenance!laneVars

LEMMA NextIInv == IInv /\ [Maintenance!Next]_(Maintenance!vars) => IInv'
<1> SUFFICES ASSUME IInv, [Maintenance!Next]_(Maintenance!vars) PROVE IInv'
  OBVIOUS
<1> USE DEF IInv, Maintenance!TypeOK, Maintenance!panelVars,
     Maintenance!handoffVars, Maintenance!laneVars
<1>p. /\ maintenanceUi \in Maintenance!Panel
      /\ maintenanceUi.updateOpen \in BOOLEAN
      /\ maintenanceUi.uninstallOpen \in BOOLEAN
      /\ maintenanceUi.armed \in BOOLEAN /\ maintenanceUi.purge \in BOOLEAN
  BY DEF Maintenance!Panel
<1>h. ASSUME UNCHANGED <<Maintenance!handoffVars, Maintenance!laneVars>>
      PROVE  Maintenance!MaintenanceRunsAlone' /\ Maintenance!OneOperationAtATime'
  BY <1>h DEF Maintenance!MaintenanceRunsAlone,
       Maintenance!OneOperationAtATime, Maintenance!maintenanceHandoffBusy
<1>1. CASE Maintenance!checkForUpdates
  <2> DEFINE synced == Maintenance!syncMaintenanceVersion(maintenanceUi)
  <2>0. synced \in Maintenance!Panel
    BY <1>p, PanelType
  <2>s. \/ synced = maintenanceUi
        \/ ~synced.updateOpen /\ ~synced.uninstallOpen /\ ~synced.armed
    BY SyncedPanel
  <2>c. /\ maintenanceUi' = [synced EXCEPT !.phase = "checking", !.updateOpen = FALSE]
        /\ UNCHANGED <<consent, intention, blocked>>
    BY <1>1 DEF Maintenance!checkForUpdates
  <2> HIDE DEF synced
  <2>1. maintenanceUi' \in Maintenance!Panel
    BY <2>0, <2>c DEF Maintenance!Panel, Maintenance!PanelPhase
  <2>2. DialogsExclude' /\ ConsentIsKept'
    BY <1>p, <2>0, <2>s, <2>c DEF Maintenance!Panel, DialogsExclude, ConsentIsKept
  <2>3. QED
    BY <1>1, <1>h, <2>1, <2>2 DEF Maintenance!checkForUpdates
<1>2. ASSUME NEW result \in Maintenance!CheckResult,
     Maintenance!UpdateCheckExited(result) PROVE IInv'
  <2>1. maintenanceUi' \in Maintenance!Panel
    BY <1>2 DEF Maintenance!UpdateCheckExited, Maintenance!Panel,
         Maintenance!PanelPhase
  <2>2. DialogsExclude' /\ ConsentIsKept'
    BY <1>2, <1>p DEF Maintenance!UpdateCheckExited, Maintenance!Panel,
         DialogsExclude, ConsentIsKept
  <2>3. QED
    BY <1>2, <1>h, <2>1, <2>2 DEF Maintenance!UpdateCheckExited
<1>3. CASE Maintenance!openUpdateConfirm \/ Maintenance!closeUpdateConfirm
  <2>1. maintenanceUi' \in Maintenance!Panel
    BY <1>3 DEF Maintenance!openUpdateConfirm, Maintenance!closeUpdateConfirm,
         Maintenance!Panel
  <2>2. DialogsExclude' /\ ConsentIsKept'
    BY <1>3, <1>p DEF Maintenance!openUpdateConfirm,
         Maintenance!closeUpdateConfirm, Maintenance!Panel,
         Maintenance!panelLocked,
                      Maintenance!dialogOpen, DialogsExclude, ConsentIsKept
  <2>3. QED
    BY <1>3, <1>h, <2>1, <2>2 DEF Maintenance!openUpdateConfirm,
         Maintenance!closeUpdateConfirm
<1>4. CASE Maintenance!openUninstallConfirm
  <2>1. maintenanceUi' \in Maintenance!Panel
    BY <1>4 DEF Maintenance!openUninstallConfirm, Maintenance!Panel
  <2>2. DialogsExclude' /\ ConsentIsKept'
    BY <1>4, <1>p DEF Maintenance!openUninstallConfirm, Maintenance!Panel,
         Maintenance!panelLocked, Maintenance!dialogOpen,
                      DialogsExclude, ConsentIsKept
  <2>3. QED
    BY <1>4, <1>h, <2>1, <2>2 DEF Maintenance!openUninstallConfirm
<1>i. maintenanceUi.uninstallOpen => ~blocked /\ intention = Maintenance!noIntention
  BY DEF DialogsExclude, Maintenance!OneOperationAtATime
<1>5. CASE Maintenance!closeUninstallConfirm \/ Maintenance!setUninstallPurge \/ Maintenance!armUninstall
  <2>1. maintenanceUi' \in Maintenance!Panel /\ consent' \in BOOLEAN
    BY <1>5, <1>p DEF Maintenance!closeUninstallConfirm,
         Maintenance!setUninstallPurge, Maintenance!armUninstall,
         Maintenance!Panel
  <2>2. DialogsExclude'
    BY <1>5, <1>p DEF Maintenance!closeUninstallConfirm,
         Maintenance!setUninstallPurge, Maintenance!armUninstall,
                      Maintenance!Panel, DialogsExclude
  <2>3. ConsentIsKept'
    <3>1. intention' = Maintenance!noIntention /\ Maintenance!noIntention.kind # "uninstall"
      BY <1>5, <1>i DEF Maintenance!closeUninstallConfirm,
           Maintenance!setUninstallPurge, Maintenance!armUninstall,
                        Maintenance!noIntention
    <3>2. CASE Maintenance!armUninstall
      BY <1>p, <3>1, <3>2 DEF Maintenance!armUninstall, Maintenance!Panel,
           ConsentIsKept
    <3>3. CASE Maintenance!closeUninstallConfirm \/ Maintenance!setUninstallPurge
      <4>1. ~maintenanceUi'.armed
        BY <1>p, <3>3 DEF Maintenance!closeUninstallConfirm,
             Maintenance!setUninstallPurge, Maintenance!Panel
      <4>2. QED
        BY <3>1, <4>1 DEF ConsentIsKept
    <3>4. QED
      BY <1>5, <3>2, <3>3
  <2>4. QED
    BY <1>5, <1>h, <2>1, <2>2, <2>3
       DEF Maintenance!closeUninstallConfirm, Maintenance!setUninstallPurge,
            Maintenance!armUninstall
<1>6. CASE Maintenance!confirmUpdateApply
  <2> DEFINE pending == [kind |-> "update_apply", purge |-> FALSE]
  <2>1. ~blocked
    BY <1>6 DEF Maintenance!confirmUpdateApply, DialogsExclude
  <2>2. pending \in Maintenance!Intention /\ Maintenance!beginMaintenanceHandoff(pending) /\ UNCHANGED Maintenance!laneVars
    BY <1>6, IntentionType DEF Maintenance!confirmUpdateApply
  <2>3. /\ intention' = pending /\ blocked' = TRUE
        /\ operation' \in Maintenance!Intention \cup {Maintenance!noIntention}
        /\ Maintenance!MaintenanceRunsAlone' /\ Maintenance!OneOperationAtATime'
    BY <2>1, <2>2, HandoffBeginsSafely
  <2>4. maintenanceUi' \in Maintenance!Panel
    BY <1>6 DEF Maintenance!confirmUpdateApply, Maintenance!Panel,
         Maintenance!PanelPhase
  <2>5. DialogsExclude' /\ ConsentIsKept'
    BY <1>6, <1>p, <2>3 DEF Maintenance!confirmUpdateApply, Maintenance!Panel,
         DialogsExclude, ConsentIsKept
  <2>6. QED
    BY <1>6, <2>2, <2>3, <2>4, <2>5 DEF Maintenance!confirmUpdateApply
<1>7. CASE Maintenance!confirmUninstall
  <2> DEFINE pending == [kind |-> "uninstall", purge |-> maintenanceUi.purge]
  <2>1. ~blocked
    BY <1>7 DEF Maintenance!confirmUninstall, DialogsExclude
  <2>2. pending \in Maintenance!Intention /\ Maintenance!beginMaintenanceHandoff(pending) /\ UNCHANGED Maintenance!laneVars
    BY <1>7, <1>p, IntentionType DEF Maintenance!confirmUninstall
  <2>3. /\ intention' = pending /\ blocked' = TRUE
        /\ operation' \in Maintenance!Intention \cup {Maintenance!noIntention}
        /\ Maintenance!MaintenanceRunsAlone' /\ Maintenance!OneOperationAtATime'
    BY <2>1, <2>2, HandoffBeginsSafely
  <2>4. maintenanceUi' \in Maintenance!Panel
    BY <1>7 DEF Maintenance!confirmUninstall, Maintenance!Panel,
         Maintenance!PanelPhase
  <2>5. DialogsExclude' /\ ConsentIsKept'
    BY <1>7, <1>p, <2>3 DEF Maintenance!confirmUninstall, Maintenance!Panel,
         DialogsExclude, ConsentIsKept
  <2>6. QED
    BY <1>7, <2>2, <2>3, <2>4, <2>5 DEF Maintenance!confirmUninstall
<1>8. ASSUME NEW ok \in BOOLEAN, Maintenance!HandoffExited(ok) PROVE IInv'
  <2>1. maintenanceUi' \in {maintenanceUi, Maintenance!panelIdle,
                            [maintenanceUi EXCEPT !.phase = "error"]}
    BY <1>8 DEF Maintenance!HandoffExited
  <2>2. maintenanceUi' \in Maintenance!Panel
    BY <1>p, <2>1, PanelType
  <2>3. /\ ~maintenanceUi'.updateOpen /\ ~maintenanceUi'.uninstallOpen
        /\ operation' = Maintenance!noIntention /\ intention' = Maintenance!noIntention
        /\ blocked' = FALSE /\ consent' = FALSE
        /\ UNCHANGED <<maintenanceCheck, Maintenance!laneVars>>
    BY <1>8, <1>p, <2>1 DEF Maintenance!HandoffExited, Maintenance!panelIdle,
         Maintenance!Panel, DialogsExclude,
                            Maintenance!MaintenanceRunsAlone
  <2>4. QED
    BY <2>2, <2>3 DEF Maintenance!MaintenanceRunsAlone,
         Maintenance!OneOperationAtATime,
          Maintenance!maintenanceHandoffBusy, DialogsExclude, ConsentIsKept,
          Maintenance!noIntention
<1>9. CASE Maintenance!StatusMoves \/ Maintenance!SettingsWriteStarts
  <2>1. UNCHANGED <<Maintenance!panelVars, maintenanceCheck,
       Maintenance!handoffVars>>
    BY <1>9 DEF Maintenance!StatusMoves, Maintenance!SettingsWriteStarts
  <2>2. Maintenance!TypeOK'
    BY <1>9, <2>1 DEF Maintenance!StatusMoves, Maintenance!SettingsWriteStarts
  <2>3. Maintenance!MaintenanceRunsAlone'
    BY <1>9 DEF Maintenance!StatusMoves, Maintenance!SettingsWriteStarts,
         Maintenance!MaintenanceRunsAlone,
                Maintenance!maintenanceHandoffBusy
  <2>4. Maintenance!OneOperationAtATime' /\ DialogsExclude' /\ ConsentIsKept'
    BY <2>1 DEF Maintenance!OneOperationAtATime,
         Maintenance!maintenanceHandoffBusy, DialogsExclude,
                ConsentIsKept
  <2>5. QED
    BY <2>2, <2>3, <2>4
<1>10. CASE Maintenance!SettingsWriteEnds
  <2>1. /\ operation' = IF blocked /\ ~statusBusy /\ ~Maintenance!maintenanceHandoffBusy
                        THEN intention ELSE operation
        /\ settingsWrite.busy' = FALSE
        /\ UNCHANGED <<Maintenance!panelVars, maintenanceCheck, intention,
             blocked, statusBusy>>
    BY <1>10 DEF Maintenance!SettingsWriteEnds,
         Maintenance!tryMaintenanceDetach, Maintenance!maintenanceCanDetach
  <2>2. Maintenance!MaintenanceRunsAlone' /\ Maintenance!OneOperationAtATime'
    BY <2>1 DEF Maintenance!MaintenanceRunsAlone,
         Maintenance!OneOperationAtATime, Maintenance!maintenanceHandoffBusy
  <2>3. Maintenance!TypeOK'
    <3>1. operation' \in Maintenance!Intention \cup {Maintenance!noIntention}
      BY <2>1
    <3>2. settingsWrite.busy' \in BOOLEAN
      BY <2>1
    <3>3. QED
      BY <2>1, <3>1, <3>2
  <2>4. DialogsExclude' /\ ConsentIsKept'
    BY <2>1 DEF DialogsExclude, ConsentIsKept
  <2>5. QED
    BY <2>2, <2>3, <2>4
<1>11. CASE UNCHANGED Maintenance!vars
  <2>1. /\ UNCHANGED <<maintenanceUi, consent, maintenanceCheck, intention,
                       operation, blocked, statusBusy>>
        /\ settingsWrite.busy' = settingsWrite.busy
    BY <1>11 DEF Maintenance!vars
  <2>2. Maintenance!TypeOK'
    <3>1. settingsWrite.busy' \in BOOLEAN
      BY <2>1
    <3>2. QED
      BY <2>1, <3>1
  <2>3. QED
    BY <2>1, <2>2 DEF Maintenance!MaintenanceRunsAlone,
       Maintenance!OneOperationAtATime, Maintenance!maintenanceHandoffBusy,
       DialogsExclude, ConsentIsKept
<1>v. CASE Maintenance!VersionKnown
  <2> DEFINE synced == Maintenance!syncMaintenanceVersion(maintenanceUi)
  <2>0. synced \in Maintenance!Panel
    BY <1>p, PanelType
  <2>s. \/ synced = maintenanceUi
        \/ ~synced.updateOpen /\ ~synced.uninstallOpen /\ ~synced.armed
    BY SyncedPanel
  <2>c. /\ maintenanceUi' = synced
        /\ statusBusy' \in BOOLEAN /\ (statusBusy' => statusBusy \/ ~blocked)
        /\ UNCHANGED <<consent, maintenanceCheck, Maintenance!handoffVars>>
        /\ settingsWrite.busy' = settingsWrite.busy
    BY <1>v DEF Maintenance!VersionKnown
  <2> HIDE DEF synced
  <2>1. Maintenance!TypeOK'
    BY <2>0, <2>c
  <2>2. Maintenance!MaintenanceRunsAlone' /\ Maintenance!OneOperationAtATime'
    BY <2>c DEF Maintenance!MaintenanceRunsAlone, Maintenance!OneOperationAtATime,
         Maintenance!maintenanceHandoffBusy
  <2>3. DialogsExclude' /\ ConsentIsKept'
    BY <2>s, <2>c DEF DialogsExclude, ConsentIsKept
  <2> QED
    BY <2>1, <2>2, <2>3
<1>12. CASE \E result \in Maintenance!CheckResult : Maintenance!UpdateCheckExited(result)
  BY <1>2, <1>12
<1>13. CASE \E ok \in BOOLEAN : Maintenance!HandoffExited(ok)
  BY <1>8, <1>13
<1>14. Maintenance!Next \/ UNCHANGED Maintenance!vars
  OBVIOUS
<1>15. CASE Maintenance!LaneNext
  BY <1>15, <1>9, <1>10, <1>v DEF Maintenance!LaneNext
<1>16. CASE Maintenance!UpdateNext
  BY <1>16, <1>1, <1>12, <1>3 DEF Maintenance!UpdateNext
<1>17. CASE Maintenance!UninstallNext
  BY <1>17, <1>4, <1>5 DEF Maintenance!UninstallNext
<1>18. CASE Maintenance!HandoffBegins
  BY <1>18, <1>6, <1>7 DEF Maintenance!HandoffBegins
<1>19. CASE Maintenance!HandoffEnds
  BY <1>19, <1>13 DEF Maintenance!HandoffEnds
<1>20. QED
  BY <1>14, <1>11, <1>15, <1>16, <1>17, <1>18, <1>19 DEF Maintenance!Next

LEMMA MaintenanceInvariance == Spec => []IInv
<1>1. MaintenanceAsSpecified => []IInv
  BY InitIInv, NextIInv, PTL DEF MaintenanceAsSpecified, Maintenance!Spec
<1>2. QED
  BY <1>1, MaintenanceIsSpecified, PTL

(* The helper that updates or removes the plugin runs only in a closed      *)
(* service whose status and settings-write lanes have drained.             *)
THEOREM RunsAlone == Spec => []MaintenanceRunsAlone
<1>1. IInv => MaintenanceRunsAlone
  BY DEF IInv, MaintenanceRunsAlone
<1>2. QED
  BY <1>1, MaintenanceInvariance, PTL

(* The result is always reported for the operation that ran. *)
THEOREM OneAtATime == Spec => []OneOperationAtATime
<1>1. IInv => OneOperationAtATime
  BY DEF IInv, OneOperationAtATime
<1>2. QED
  BY <1>1, MaintenanceInvariance, PTL

(* Settings are removed only with the consent both clicks saw. *)
THEOREM Consented == Spec => UninstallIsConsented
<1>1. IInv /\ [Maintenance!Next]_(Maintenance!vars) =>
        [operation'.kind = "uninstall" /\ operation.kind # "uninstall"
            => operation'.purge = consent]_(Maintenance!vars)
  <2> SUFFICES ASSUME IInv, Maintenance!Next, operation'.kind = "uninstall",
                      operation.kind # "uninstall"
               PROVE  operation'.purge = consent
    BY DEF Maintenance!vars
  <2> USE DEF Maintenance!panelVars, Maintenance!handoffVars,
       Maintenance!laneVars
  <2>1. CASE Maintenance!confirmUninstall
    BY <2>1 DEF Maintenance!confirmUninstall,
         Maintenance!beginMaintenanceHandoff, Maintenance!tryMaintenanceDetach,
                IInv, ConsentIsKept
  <2>2. CASE Maintenance!confirmUpdateApply
    BY <2>2 DEF Maintenance!confirmUpdateApply,
         Maintenance!beginMaintenanceHandoff, Maintenance!tryMaintenanceDetach
  <2>3. CASE Maintenance!SettingsWriteEnds
    BY <2>3 DEF Maintenance!SettingsWriteEnds,
         Maintenance!tryMaintenanceDetach, IInv, ConsentIsKept
  <2>4. CASE Maintenance!HandoffEnds
    BY <2>4 DEF Maintenance!HandoffEnds, Maintenance!HandoffExited,
         Maintenance!noIntention
  <2>5. CASE Maintenance!UpdateNext \/ Maintenance!UninstallNext \/ Maintenance!StatusMoves
              \/ Maintenance!VersionKnown \/ Maintenance!SettingsWriteStarts
    BY <2>5 DEF Maintenance!UpdateNext, Maintenance!UninstallNext,
         Maintenance!checkForUpdates, Maintenance!UpdateCheckExited,
         Maintenance!openUpdateConfirm, Maintenance!closeUpdateConfirm,
         Maintenance!openUninstallConfirm,
         Maintenance!closeUninstallConfirm, Maintenance!setUninstallPurge,
         Maintenance!armUninstall, Maintenance!StatusMoves,
         Maintenance!VersionKnown, Maintenance!SettingsWriteStarts
  <2>6. QED
    BY <2>1, <2>2, <2>3, <2>4, <2>5 DEF Maintenance!Next,
         Maintenance!HandoffBegins, Maintenance!LaneNext
<1>2. MaintenanceAsSpecified /\ []IInv => UninstallIsConsented
  BY <1>1, PTL DEF MaintenanceAsSpecified, Maintenance!Spec,
     UninstallIsConsented, Maintenance!UninstallIsConsented
<1>3. QED
  BY <1>2, MaintenanceIsSpecified, MaintenanceInvariance, PTL

-----------------------------------------------------------------------------
(* The handoff that ARCH-024 promises and the code can miss                 *)

(* Both lanes have drained and the handoff still waits. *)
Stranded == /\ blocked /\ ~statusBusy /\ ~settingsWrite.busy
            /\ ~Maintenance!maintenanceHandoffBusy

(* A handoff is stranded by the end of a status run and by nothing else.    *)
OnlyStatusRunsStrand ==
    [][Stranded' => Stranded \/ (statusBusy /\ ~statusBusy')]_vars

(* Once stranded, no handler of the service launches or drops it.           *)
StrandedForGood == [][Stranded => Stranded']_vars

(* A step of the maintenance lane strands a handoff only by ending a status *)
(* run, and rescues none.                                                   *)
LEMMA StrandedSteps ==
    IInv /\ [Maintenance!Next]_(Maintenance!vars) =>
        /\ Stranded' => Stranded \/ (statusBusy /\ ~statusBusy')
        /\ Stranded => Stranded'
<1> SUFFICES ASSUME IInv, [Maintenance!Next]_(Maintenance!vars)
             PROVE  /\ Stranded' => Stranded \/ (statusBusy /\ ~statusBusy')
                    /\ Stranded => Stranded'
  OBVIOUS
<1> DEFINE Same == /\ UNCHANGED <<blocked, operation, statusBusy>>
                   /\ settingsWrite.busy' = settingsWrite.busy
<1>0. Same => (Stranded <=> Stranded')
  BY DEF Stranded, Maintenance!maintenanceHandoffBusy
<1> USE DEF Stranded, Maintenance!maintenanceHandoffBusy
<1>1. ASSUME Maintenance!UpdateNext \/ Maintenance!UninstallNext \/ UNCHANGED Maintenance!vars
      PROVE  Same
  <2> USE DEF Maintenance!handoffVars, Maintenance!laneVars
  <2>1. CASE Maintenance!UpdateNext
    <3>1. CASE Maintenance!checkForUpdates
      BY <3>1 DEF Maintenance!checkForUpdates
    <3>2. CASE \E result \in Maintenance!CheckResult : Maintenance!UpdateCheckExited(result)
      BY <3>2 DEF Maintenance!UpdateCheckExited
    <3>3. CASE Maintenance!openUpdateConfirm \/ Maintenance!closeUpdateConfirm
      BY <3>3 DEF Maintenance!openUpdateConfirm, Maintenance!closeUpdateConfirm
    <3> QED  BY <2>1, <3>1, <3>2, <3>3 DEF Maintenance!UpdateNext
  <2>2. CASE Maintenance!UninstallNext
    BY <2>2 DEF Maintenance!UninstallNext, Maintenance!openUninstallConfirm,
         Maintenance!closeUninstallConfirm, Maintenance!setUninstallPurge,
         Maintenance!armUninstall
  <2>3. CASE UNCHANGED Maintenance!vars
    BY <2>3 DEF Maintenance!vars
  <2> QED  BY <1>1, <2>1, <2>2, <2>3
<1>2. CASE Maintenance!HandoffBegins
  <2>1. PICK pending \in Maintenance!Intention : Maintenance!beginMaintenanceHandoff(pending)
    BY <1>2, IntentionType DEF IInv, Maintenance!TypeOK, Maintenance!Panel,
         Maintenance!HandoffBegins, Maintenance!confirmUpdateApply,
         Maintenance!confirmUninstall
  <2>2. ~blocked /\ UNCHANGED Maintenance!laneVars
    BY <1>2 DEF IInv, DialogsExclude, Maintenance!HandoffBegins,
         Maintenance!confirmUpdateApply, Maintenance!confirmUninstall
  <2>3. ~statusBusy /\ ~settingsWrite.busy => operation' # Maintenance!noIntention
    BY <2>1 DEF Maintenance!beginMaintenanceHandoff, Maintenance!tryMaintenanceDetach,
         Maintenance!maintenanceCanDetach, Maintenance!Intention, Maintenance!noIntention
  <2> QED  BY <2>2, <2>3 DEF Maintenance!laneVars
<1>3. CASE Maintenance!HandoffEnds
  <2>1. operation # Maintenance!noIntention /\ ~blocked'
    BY <1>3 DEF Maintenance!HandoffEnds, Maintenance!HandoffExited
  <2> QED  BY <2>1
<1>4. CASE Maintenance!StatusMoves \/ Maintenance!VersionKnown
  BY <1>4 DEF Maintenance!StatusMoves, Maintenance!VersionKnown, Maintenance!handoffVars
<1>5. CASE Maintenance!SettingsWriteStarts
  BY <1>5 DEF Maintenance!SettingsWriteStarts, Maintenance!handoffVars
<1>6. CASE Maintenance!SettingsWriteEnds
  <2>1. settingsWrite.busy /\ UNCHANGED <<blocked, statusBusy, intention>>
    BY <1>6 DEF Maintenance!SettingsWriteEnds
  <2>2. blocked => intention # Maintenance!noIntention
    BY DEF IInv, Maintenance!OneOperationAtATime
  <2>3. blocked /\ ~statusBusy => operation' # Maintenance!noIntention
    BY <1>6, <2>1, <2>2 DEF Maintenance!SettingsWriteEnds,
         Maintenance!tryMaintenanceDetach, Maintenance!maintenanceCanDetach
  <2> QED  BY <2>1, <2>3
<1>7. CASE Same
  BY <1>0, <1>7
<1> HIDE DEF Same
<1> QED
  BY <1>1, <1>2, <1>3, <1>4, <1>5, <1>6, <1>7 DEF Maintenance!Next, Maintenance!LaneNext

(* The handoff of ARCH-024 is missed at one place of the code only: where a *)
(* status run ends while maintenance waits (statusFinish does not retry it).*)
THEOREM OnlyStatusRunsMissIt == Spec => OnlyStatusRunsStrand
<1>1. MaintenanceAsSpecified /\ []IInv => OnlyStatusRunsStrand
  BY StrandedSteps, PTL DEF MaintenanceAsSpecified, Maintenance!Spec, OnlyStatusRunsStrand
<1> QED
  BY <1>1, MaintenanceIsSpecified, MaintenanceInvariance, PTL

(* And it is missed for good: until the shell restarts, the service stays   *)
(* closed and no update or uninstall runs.                                  *)
THEOREM StrandedStays == Spec => StrandedForGood
<1>1. MaintenanceAsSpecified /\ []IInv => StrandedForGood
  BY StrandedSteps, PTL DEF MaintenanceAsSpecified, Maintenance!Spec, StrandedForGood
<1> QED
  BY <1>1, MaintenanceIsSpecified, MaintenanceInvariance, PTL
=============================================================================
