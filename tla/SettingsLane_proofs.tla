------------------------ MODULE SettingsLane_proofs ------------------------
(***************************************************************************)
(* The dialog and its helpers, for any number of widgets, opens, saves and  *)
(* writes of settings.json.  The properties are inductive only together     *)
(* with what each running child is for: a read belongs to the dialog that   *)
(* loads, a write to the dialog that saves, and neither has seen a document *)
(* newer than the file.                                                    *)
(***************************************************************************)
EXTENDS SettingsLane, TLAPS

Editable == {"clean", "dirty", "saving"}

(* Only a loading dialog is read for, only a saving one is written for: the *)
(* answer always meets the generation that asked.                          *)
LanesServeTheDialog ==
    /\ settingsRead.busy =>
          /\ settingsState.phase = "loading"
          /\ settingsRead.generation = settingsState.generation
    /\ settingsWrite.busy =>
          /\ settingsState.phase = "saving"
          /\ settingsWrite.generation = settingsState.generation
    /\ settingsState.phase = "saving" => settingsWrite.busy

(* A dialog is loaded through a known helper; edits are in a dialog that    *)
(* can still save them.                                                    *)
DialogIsLoaded ==
    /\ settingsRead.busy \/ settingsState.phase \in Editable => helperPath = TRUE
    /\ settingsState.edited => settingsState.phase \in {"dirty", "saving"}

(* Nobody has seen a document newer than the file, and what a save has      *)
(* stored is newer than what the bar applies.                              *)
DocumentsAreStored ==
    /\ appliedSettings <= stored
    /\ settingsRead.document <= stored
    /\ settingsBootstrap.document <= stored
    /\ settingsWrite.document <= stored
    /\ settingsWrite.document # 0 =>
          settingsWrite.busy /\ settingsWrite.document > appliedSettings

IInv == /\ TypeOK
        /\ LanesServeTheDialog
        /\ DialogIsLoaded
        /\ DocumentsAreStored
        /\ DialogAgreesWithBar

LEMMA LaneType ==
    /\ idle \in Lane
    /\ \A generation \in Nat : started(generation) \in Lane
    /\ \A lane \in Lane : ended(lane) \in Lane
    /\ \A lane \in Lane, document \in Version :
          [lane EXCEPT !.document = document] \in Lane
<1>1. 0 \in Version
  BY SettingsBoundsAssumption DEF Version
<1>2. QED
  BY <1>1 DEF Lane, idle, started, ended

LEMMA InitIInv == Init => IInv
<1> SUFFICES ASSUME Init PROVE IInv
  OBVIOUS
<1>1. 0 \in Version /\ 1 \in Version \ {0}
  BY SettingsBoundsAssumption DEF Version
<1>2. settingsState \in Dialog /\ popupOwner \in Popup
  BY <1>1 DEF Init, settingsClosed, Dialog, Phase, noPopup, Popup
<1>3. TypeOK
  BY <1>1, <1>2, LaneType DEF Init, TypeOK
<1>4. LanesServeTheDialog /\ DialogIsLoaded
  BY DEF Init, LanesServeTheDialog, DialogIsLoaded, settingsClosed, idle, Editable
<1>5. DocumentsAreStored /\ DialogAgreesWithBar
  BY DEF Init, DocumentsAreStored, DialogAgreesWithBar, settingsClosed, idle
<1>6. QED
  BY <1>3, <1>4, <1>5 DEF IInv

LEMMA NextIInv == IInv /\ [Next]_vars => IInv'
<1> SUFFICES ASSUME IInv, [Next]_vars PROVE IInv'
  OBVIOUS
<1> USE DEF IInv, dialogVars, laneVars, environmentVars, editVars
<1>0. 0 \in Version /\ Version \subseteq Nat
  BY SettingsBoundsAssumption DEF Version
<1>p. /\ popupOwner \in Popup /\ settingsState \in Dialog
      /\ settingsRead \in Lane /\ settingsBootstrap \in Lane /\ settingsWrite \in Lane
      /\ settingsGeneration \in Nat /\ appliedSettings \in Version
      /\ stored \in Version \ {0} /\ helperPath \in BOOLEAN /\ blocked \in BOOLEAN
  BY DEF TypeOK
<1>r. /\ settingsState.phase \in Phase /\ settingsState.generation \in Nat
      /\ settingsState.snapshot \in Version
      /\ settingsState.edited \in BOOLEAN /\ settingsState.valid \in BOOLEAN
      /\ \A lane \in {settingsRead, settingsBootstrap, settingsWrite} :
            /\ lane.busy \in BOOLEAN /\ lane.generation \in Nat
            /\ lane.document \in Version
  BY <1>p DEF Dialog, Lane
<1>k. ASSUME UNCHANGED <<settingsState, appliedSettings, laneVars, stored, helperPath>>,
             popupOwner' \in Popup, blocked' \in BOOLEAN
      PROVE  IInv'
  BY <1>k DEF TypeOK, LanesServeTheDialog, DialogIsLoaded, DocumentsAreStored,
     DialogAgreesWithBar
<1>1. CASE \E owner \in Widget : requestPopup(owner)
  <2>1. PICK owner \in Widget : requestPopup(owner)
    BY <1>1
  <2>2. popupOwner' \in Popup
    BY <2>1 DEF requestPopup, Popup
  <2>3. QED
    BY <2>1, <2>2, <1>k, <1>p DEF requestPopup
<1>2. ASSUME closes, UNCHANGED <<appliedSettings, laneVars, stored, environmentVars>>
      PROVE  IInv'
  <2>1. popupOwner' \in Popup
    BY <1>2 DEF closes, noPopup, Popup
  <2>2. CASE settingsShouldRetainOnClose
    BY <1>2, <1>k, <1>p, <2>1, <2>2 DEF closes
  <2>3. CASE ~settingsShouldRetainOnClose
    <3>1. settingsState' = settingsClosed
          /\ settingsState.phase \notin {"loading", "saving"}
      BY <1>2, <2>3 DEF closes, settingsShouldRetainOnClose
    <3>2. settingsClosed \in Dialog /\ settingsClosed.phase = "closed"
          /\ settingsClosed.edited = FALSE
      BY <1>0 DEF settingsClosed, Dialog, Phase
    <3>3. ~settingsRead.busy /\ ~settingsWrite.busy
      BY <3>1 DEF LanesServeTheDialog
    <3>4. TypeOK'
      BY <1>2, <1>p, <2>1, <3>1, <3>2 DEF TypeOK
    <3>5. LanesServeTheDialog' /\ DialogIsLoaded'
      BY <1>2, <3>1, <3>2, <3>3 DEF LanesServeTheDialog, DialogIsLoaded, Editable
    <3>6. DocumentsAreStored' /\ DialogAgreesWithBar'
      BY <1>2, <3>1, <3>2 DEF DocumentsAreStored, DialogAgreesWithBar
    <3>7. QED
      BY <3>4, <3>5, <3>6
  <2>4. QED
    BY <2>2, <2>3
<1>3. CASE \E owner \in Widget : openSettings(owner)
  <2>1. PICK owner \in Widget : openSettings(owner)
    BY <1>3
  <2>2. popupOwner' \in Popup
    BY <2>1 DEF openSettings, Popup
  <2>3. CASE settingsState.phase # "closed"
    BY <1>k, <1>p, <2>1, <2>2, <2>3 DEF openSettings
  <2>4. CASE settingsState.phase = "closed"
    <3> DEFINE generation == settingsGeneration + 1
               loading == [settingsClosed EXCEPT !.phase = "loading",
                                                 !.generation = generation]
    <3>1. ~settingsRead.busy /\ ~settingsWrite.busy
      BY <2>4 DEF LanesServeTheDialog
    <3>2. /\ settingsState' = loading /\ settingsGeneration' = generation
          /\ settingsRead' = IF helperPath THEN started(generation) ELSE settingsRead
          /\ UNCHANGED <<appliedSettings, settingsBootstrap, settingsWrite, stored,
                         environmentVars>>
      BY <2>1, <2>4, <3>1 DEF openSettings
    <3>3. generation \in Nat
      BY <1>p
    <3>4. loading \in Dialog /\ loading.phase = "loading" /\ loading.edited = FALSE
          /\ loading.generation = generation
      BY <1>0, <3>3 DEF settingsClosed, Dialog, Phase
    <3>5. /\ settingsRead' \in Lane
          /\ settingsRead'.busy => helperPath = TRUE /\ settingsRead'.generation = generation
          /\ settingsRead'.document <= stored
      <4>1. CASE helperPath
        <5>1. started(generation) \in Lane /\ started(generation).generation = generation
              /\ started(generation).document = 0
          BY <3>3, LaneType DEF started
        <5>2. helperPath = TRUE /\ 0 <= stored
          BY <4>1, <1>0, <1>p
        <5>3. QED
          BY <3>2, <4>1, <5>1, <5>2
      <4>2. CASE ~helperPath
        BY <1>p, <3>1, <3>2, <4>2 DEF DocumentsAreStored
      <4>3. QED
        BY <4>1, <4>2
    <3>6. TypeOK'
      BY <1>p, <2>2, <3>2, <3>3, <3>4, <3>5 DEF TypeOK
    <3> HIDE DEF loading, generation
    <3>7. LanesServeTheDialog'
      BY <3>1, <3>2, <3>4, <3>5 DEF LanesServeTheDialog
    <3>8. DialogIsLoaded' /\ DialogAgreesWithBar'
      BY <3>2, <3>4, <3>5 DEF DialogIsLoaded, DialogAgreesWithBar, Editable
    <3>9. DocumentsAreStored'
      BY <3>2, <3>5 DEF DocumentsAreStored
    <3>10. QED
      BY <3>6, <3>7, <3>8, <3>9
  <2>5. QED
    BY <2>3, <2>4
<1>4. CASE (\E valid \in BOOLEAN : EditDraft(valid)) \/ cancelSettings
  <2>1. /\ settingsState.phase \in {"clean", "dirty"}
        /\ UNCHANGED editVars
        /\ \E phase \in {"clean", "dirty"}, edited \in BOOLEAN, valid \in BOOLEAN :
              /\ edited => phase = "dirty"
              /\ settingsState' = [settingsState EXCEPT !.phase = phase, !.edited = edited,
                                                        !.valid = valid]
    <3>1. CASE \E valid \in BOOLEAN : EditDraft(valid)
      BY <1>r, <3>1 DEF EditDraft, controlsLocked, Phase
    <3>2. CASE cancelSettings
      BY <3>2 DEF cancelSettings
    <3>3. QED
      BY <1>4, <3>1, <3>2
  <2>2. /\ settingsState' \in Dialog /\ settingsState'.phase \in {"clean", "dirty"}
        /\ settingsState'.snapshot = settingsState.snapshot
        /\ settingsState'.generation = settingsState.generation
        /\ settingsState'.edited => settingsState'.phase = "dirty"
    <3>1. PICK phase \in {"clean", "dirty"}, edited \in BOOLEAN, valid \in BOOLEAN :
             /\ edited => phase = "dirty"
             /\ settingsState' = [settingsState EXCEPT !.phase = phase, !.edited = edited,
                                                       !.valid = valid]
      BY <2>1
    <3>2. settingsState \in Dialog /\ phase \in Phase
      BY <1>p DEF Phase
    <3>3. QED
      BY <3>1, <3>2 DEF Dialog
  <2>3. ~settingsRead.busy /\ ~settingsWrite.busy /\ helperPath = TRUE
    BY <2>1 DEF LanesServeTheDialog, DialogIsLoaded, Editable
  <2>4. TypeOK'
    BY <1>p, <2>1, <2>2 DEF TypeOK
  <2>5. LanesServeTheDialog' /\ DialogIsLoaded'
    BY <2>1, <2>2, <2>3 DEF LanesServeTheDialog, DialogIsLoaded, Editable
  <2>6. DocumentsAreStored' /\ DialogAgreesWithBar'
    BY <2>1, <2>2 DEF DocumentsAreStored, DialogAgreesWithBar
  <2>7. QED
    BY <2>4, <2>5, <2>6
<1>5. CASE saveSettings
  <2> DEFINE generation == settingsGeneration + 1
  <2>1. /\ settingsState.phase = "dirty" /\ settingsGeneration' = generation
        /\ settingsState' = [settingsState EXCEPT !.phase = "saving",
                                                  !.generation = generation]
        /\ ~settingsWrite.busy /\ ~blocked
        /\ settingsWrite' = IF ~blocked /\ helperPath THEN started(generation)
                                                     ELSE settingsWrite
        /\ UNCHANGED <<popupOwner, appliedSettings, settingsRead, settingsBootstrap,
                       stored, environmentVars>>
    BY <1>5 DEF saveSettings, canSaveSettings
  <2>2. helperPath = TRUE /\ ~settingsRead.busy
    BY <2>1 DEF LanesServeTheDialog, DialogIsLoaded, Editable
  <2>3. settingsWrite' = started(generation) /\ generation \in Nat
    BY <1>p, <2>1, <2>2
  <2>4. /\ started(generation) \in Lane /\ started(generation).generation = generation
        /\ started(generation).busy = TRUE /\ started(generation).document = 0
    BY <2>3, LaneType DEF started
  <2>5. /\ settingsState' \in Dialog /\ settingsState'.phase = "saving"
        /\ settingsState'.generation = generation
        /\ settingsState'.snapshot = settingsState.snapshot
    BY <1>p, <2>1, <2>3 DEF Dialog, Phase
  <2> HIDE DEF generation
  <2>6. TypeOK'
    BY <1>p, <2>1, <2>3, <2>4, <2>5 DEF TypeOK
  <2>7. LanesServeTheDialog' /\ DialogIsLoaded'
    BY <2>1, <2>2, <2>3, <2>4, <2>5 DEF LanesServeTheDialog, DialogIsLoaded, Editable
  <2>8. DialogAgreesWithBar'
    BY <2>1, <2>5 DEF DialogAgreesWithBar
  <2>9. DocumentsAreStored'
    <3>1. 0 <= stored
      BY <1>0, <1>p
    <3>2. QED
      BY <2>1, <2>3, <2>4, <3>1 DEF DocumentsAreStored
  <2>10. QED
    BY <2>6, <2>7, <2>8, <2>9
<1>6. CASE HelperReads
  <2>1. settingsRead' \in Lane /\ settingsRead'.busy = settingsRead.busy
        /\ settingsRead'.generation = settingsRead.generation
        /\ settingsRead'.document = stored
    BY <1>6, <1>p, LaneType DEF HelperReads, Lane
  <2>2. UNCHANGED <<popupOwner, settingsState, appliedSettings, settingsGeneration,
                    settingsBootstrap, settingsWrite, stored, helperPath, blocked>>
    BY <1>6 DEF HelperReads
  <2>3. QED
    BY <1>p, <1>0, <2>1, <2>2 DEF TypeOK, LanesServeTheDialog, DialogIsLoaded,
       DocumentsAreStored, DialogAgreesWithBar
<1>7. CASE BootstrapReads
  <2>1. settingsBootstrap' \in Lane /\ settingsBootstrap'.document = stored
    BY <1>7, <1>p, LaneType DEF BootstrapReads, Lane
  <2>2. UNCHANGED <<popupOwner, settingsState, appliedSettings, settingsGeneration,
                    settingsRead, settingsWrite, stored, helperPath, blocked>>
    BY <1>7 DEF BootstrapReads
  <2>3. QED
    BY <1>p, <1>0, <2>1, <2>2 DEF TypeOK, LanesServeTheDialog, DialogIsLoaded,
       DocumentsAreStored, DialogAgreesWithBar
<1>8. CASE SettingsReadSucceeds
  <2> DEFINE document == settingsRead.document
  <2>1. /\ settingsState.phase = "loading" /\ helperPath = TRUE
        /\ settingsRead.generation = settingsState.generation
        /\ ~settingsWrite.busy
    BY <1>8 DEF SettingsReadSucceeds, LanesServeTheDialog, DialogIsLoaded
  <2>2. /\ document # 0 /\ settingsRead' = ended(settingsRead)
        /\ appliedSettings' = document
        /\ settingsState' = [settingsState EXCEPT !.phase = "clean", !.snapshot = document,
                                                  !.edited = FALSE, !.valid = TRUE]
        /\ UNCHANGED <<popupOwner, settingsGeneration, settingsBootstrap,
                       settingsWrite, stored, environmentVars>>
    BY <1>8, <2>1 DEF SettingsReadSucceeds
  <2>3. /\ ended(settingsRead) \in Lane /\ ~ended(settingsRead).busy
        /\ ended(settingsRead).document = 0
    BY <1>p, LaneType DEF ended, Lane
  <2>4. document \in Version /\ document <= stored
    BY <1>r DEF DocumentsAreStored
  <2>5. /\ settingsState' \in Dialog /\ settingsState'.phase = "clean"
        /\ settingsState'.snapshot = document /\ settingsState'.edited = FALSE
    BY <1>p, <2>2, <2>4 DEF Dialog, Phase
  <2>w. settingsWrite.document = 0
    BY <2>1 DEF DocumentsAreStored
  <2> HIDE DEF document
  <2>6. TypeOK'
    BY <1>p, <2>2, <2>3, <2>4, <2>5 DEF TypeOK
  <2>7. LanesServeTheDialog' /\ DialogIsLoaded' /\ DialogAgreesWithBar'
    BY <2>1, <2>2, <2>3, <2>5 DEF LanesServeTheDialog, DialogIsLoaded, Editable,
       DialogAgreesWithBar
  <2>8. DocumentsAreStored'
    BY <1>0, <1>p, <2>2, <2>3, <2>4, <2>w DEF DocumentsAreStored
  <2>9. QED
    BY <2>6, <2>7, <2>8
<1>9. CASE SettingsReadFails
  <2>1. settingsRead' \in Lane /\ ~settingsRead'.busy /\ settingsRead'.document = 0
    BY <1>9, <1>p, LaneType DEF SettingsReadFails, ended, Lane
  <2>2. UNCHANGED <<popupOwner, settingsState, appliedSettings, settingsGeneration,
                    settingsBootstrap, settingsWrite, stored, helperPath, blocked>>
    BY <1>9 DEF SettingsReadFails
  <2>3. QED
    BY <1>p, <1>0, <2>1, <2>2 DEF TypeOK, LanesServeTheDialog, DialogIsLoaded,
       DocumentsAreStored, DialogAgreesWithBar
<1>10. CASE HelperWrites
  <2> DEFINE version == stored + 1
  <2>1. /\ settingsWrite.busy /\ stored < MaxStored /\ stored' = version
        /\ settingsWrite' = [settingsWrite EXCEPT !.document = version]
        /\ UNCHANGED <<popupOwner, settingsState, appliedSettings, settingsGeneration,
                       settingsRead, settingsBootstrap, helperPath, blocked>>
    BY <1>10 DEF HelperWrites
  <2>2. version \in Version \ {0}
    BY <1>p, <2>1, SettingsBoundsAssumption DEF Version
  <2>3. /\ settingsWrite' \in Lane /\ settingsWrite'.busy = settingsWrite.busy
        /\ settingsWrite'.generation = settingsWrite.generation
        /\ settingsWrite'.document = version
    BY <1>p, <2>1, <2>2 DEF Lane
  <2>4. TypeOK' /\ DialogIsLoaded' /\ DialogAgreesWithBar'
    BY <1>p, <2>1, <2>2, <2>3 DEF TypeOK, DialogIsLoaded, DialogAgreesWithBar
  <2>5. LanesServeTheDialog'
    BY <2>1, <2>3 DEF LanesServeTheDialog
  <2>6. DocumentsAreStored'
    <3>1. /\ stored \in Nat /\ appliedSettings \in Nat /\ settingsRead.document \in Nat
          /\ settingsBootstrap.document \in Nat
      BY <1>0, <1>p, <1>r
    <3>2. settingsWrite'.busy
      BY <2>1, <2>3
    <3>3. QED
      BY <2>1, <2>3, <3>1, <3>2 DEF DocumentsAreStored
  <2>7. QED
    BY <2>4, <2>5, <2>6
<1>11. CASE \E ok \in BOOLEAN : SettingsWriteExited(ok)
  <2>1. PICK ok \in BOOLEAN : SettingsWriteExited(ok)
    BY <1>11
  <2> DEFINE document == settingsWrite.document
  <2>2. /\ settingsState.phase = "saving" /\ helperPath = TRUE
        /\ settingsState.generation = settingsWrite.generation
        /\ ~settingsRead.busy
        /\ settingsState.snapshot = appliedSettings /\ appliedSettings # 0
    BY <2>1 DEF SettingsWriteExited, LanesServeTheDialog, DialogIsLoaded, Editable,
       DialogAgreesWithBar
  <2>3. /\ ok => document # 0
        /\ settingsState' =
             IF ok THEN [settingsState EXCEPT !.phase = "clean", !.edited = FALSE,
                                !.valid = TRUE, !.snapshot = document]
                   ELSE [settingsState EXCEPT !.phase = "dirty"]
        /\ appliedSettings' = IF ok THEN document ELSE appliedSettings
        /\ settingsWrite' = idle
        /\ UNCHANGED <<popupOwner, settingsGeneration, settingsRead,
                       settingsBootstrap, stored, helperPath, blocked>>
    BY <2>1, <2>2 DEF SettingsWriteExited, settingsFinishSave
  <2>4. document \in Version /\ document <= stored
    BY <1>r DEF DocumentsAreStored
  <2>5. idle \in Lane /\ ~idle.busy /\ idle.document = 0
    BY LaneType DEF idle
  <2> HIDE DEF document
  <2>6. /\ settingsState' \in Dialog /\ settingsState'.phase \in {"clean", "dirty"}
        /\ settingsState'.snapshot = appliedSettings' /\ appliedSettings' # 0
        /\ settingsState'.edited => settingsState'.phase = "dirty"
        /\ appliedSettings' \in Version /\ appliedSettings' <= stored
    <3>1. CASE ok
      BY <1>p, <2>3, <2>4, <3>1 DEF Dialog, Phase
    <3>2. CASE ~ok
      BY <1>p, <2>2, <2>3, <3>2 DEF Dialog, Phase, DocumentsAreStored
    <3>3. QED
      BY <3>1, <3>2
  <2>7. TypeOK'
    BY <1>p, <2>3, <2>5, <2>6 DEF TypeOK
  <2>8. LanesServeTheDialog' /\ DialogIsLoaded' /\ DialogAgreesWithBar'
    BY <2>2, <2>3, <2>5, <2>6 DEF LanesServeTheDialog, DialogIsLoaded, Editable,
       DialogAgreesWithBar
  <2>9. DocumentsAreStored'
    BY <1>0, <1>p, <2>3, <2>5, <2>6 DEF DocumentsAreStored
  <2>10. QED
    BY <2>7, <2>8, <2>9
<1>12. CASE \E ok \in BOOLEAN : SettingsBootstrapExited(ok)
  <2>1. PICK ok \in BOOLEAN : SettingsBootstrapExited(ok)
    BY <1>12
  <2>2. /\ settingsBootstrap' = idle
        /\ UNCHANGED <<popupOwner, settingsState, settingsGeneration, settingsRead,
                       settingsWrite, stored, helperPath, blocked>>
        /\ \/ appliedSettings' = appliedSettings
           \/ appliedSettings = 0 /\ appliedSettings' \in {settingsBootstrap.document, 0}
    BY <2>1 DEF SettingsBootstrapExited, settingsBootstrapResult
  <2>3. idle \in Lane /\ idle.document = 0
    BY LaneType DEF idle
  <2>4. appliedSettings' \in Version /\ appliedSettings' <= stored
    BY <1>0, <1>p, <1>r, <2>2 DEF DocumentsAreStored
  <2>5. TypeOK' /\ LanesServeTheDialog' /\ DialogIsLoaded'
    BY <1>p, <2>2, <2>3, <2>4 DEF TypeOK, LanesServeTheDialog, DialogIsLoaded
  <2>6. DialogAgreesWithBar'
    <3>1. settingsState.phase \in {"clean", "dirty", "saving"} => appliedSettings # 0
      BY DEF DialogAgreesWithBar
    <3>2. settingsState'.phase \in {"clean", "dirty", "saving"}
             => appliedSettings' = appliedSettings
      BY <2>2, <3>1
    <3>3. QED
      BY <2>2, <3>2 DEF DialogAgreesWithBar
  <2>7. DocumentsAreStored'
    <3>1. settingsWrite.document # 0 => appliedSettings # 0
      BY DEF DocumentsAreStored, LanesServeTheDialog, DialogAgreesWithBar
    <3>2. settingsWrite.document # 0 => appliedSettings' = appliedSettings
      BY <2>2, <3>1
    <3>3. QED
      BY <1>0, <1>p, <2>2, <2>3, <2>4, <3>2 DEF DocumentsAreStored
  <2>8. QED
    BY <2>5, <2>6, <2>7
<1>13. CASE CommandLineApplies
  <2>1. stored' \in Version \ {0} /\ stored' > stored
    BY <1>13, <1>p, SettingsBoundsAssumption DEF CommandLineApplies, Version
  <2>2. UNCHANGED <<popupOwner, settingsState, appliedSettings, settingsGeneration,
                    settingsRead, settingsBootstrap, settingsWrite, helperPath, blocked>>
    BY <1>13 DEF CommandLineApplies
  <2>3. TypeOK' /\ LanesServeTheDialog' /\ DialogIsLoaded' /\ DialogAgreesWithBar'
    BY <1>p, <2>1, <2>2 DEF TypeOK, LanesServeTheDialog, DialogIsLoaded,
       DialogAgreesWithBar
  <2>4. DocumentsAreStored'
    <3>1. /\ stored \in Nat /\ stored' \in Nat /\ appliedSettings \in Nat
          /\ settingsRead.document \in Nat /\ settingsBootstrap.document \in Nat
          /\ settingsWrite.document \in Nat
      BY <1>0, <1>p, <1>r, <2>1
    <3>2. QED
      BY <2>1, <2>2, <3>1 DEF DocumentsAreStored
  <2>5. QED
    BY <2>3, <2>4
<1>14. CASE HelperPathAppears
  <2>1. helperPath' = TRUE
        /\ UNCHANGED <<popupOwner, settingsState, appliedSettings, settingsGeneration,
                       settingsRead, settingsBootstrap, settingsWrite, stored, blocked>>
    BY <1>14 DEF HelperPathAppears
  <2>2. QED
    BY <1>p, <2>1 DEF TypeOK, LanesServeTheDialog, DialogIsLoaded,
       DocumentsAreStored, DialogAgreesWithBar
<1>15. CASE VersionProbeSucceeds
  <2>1. /\ settingsBootstrap' \in {started(0), settingsBootstrap}
        /\ UNCHANGED <<popupOwner, settingsState, appliedSettings, settingsGeneration,
                       settingsRead, settingsWrite, stored, helperPath, blocked>>
    BY <1>15 DEF VersionProbeSucceeds, kickSettingsBootstrap
  <2>2. settingsBootstrap' \in Lane /\ settingsBootstrap'.document <= stored
    <3>1. started(0) \in Lane /\ started(0).document = 0 /\ 0 <= stored
      BY <1>0, <1>p, LaneType DEF started
    <3>2. QED
      BY <1>p, <2>1, <3>1 DEF DocumentsAreStored
  <2>3. QED
    BY <1>p, <2>1, <2>2 DEF TypeOK, LanesServeTheDialog, DialogIsLoaded,
       DocumentsAreStored, DialogAgreesWithBar
<1>16. CASE MaintenanceToggles
  BY <1>16, <1>k, <1>p DEF MaintenanceToggles
<1>17. CASE UNCHANGED vars
  BY <1>17, <1>k, <1>p DEF vars
<1>18. CASE PopupNext
  <2>1. CASE dismissPopup \/ \E owner \in Widget : closePopup(owner)
    BY <1>2, <2>1 DEF dismissPopup, closePopup
  <2>2. QED
    BY <1>1, <1>18, <2>1 DEF PopupNext
<1>19. CASE DialogNext
  BY <1>3, <1>4, <1>5, <1>19 DEF DialogNext
<1>20. CASE LaneNext
  BY <1>6, <1>7, <1>8, <1>9, <1>10, <1>11, <1>12, <1>20 DEF LaneNext
<1>21. CASE EnvironmentNext
  BY <1>13, <1>14, <1>15, <1>16, <1>21 DEF EnvironmentNext
<1>22. QED
  BY <1>17, <1>18, <1>19, <1>20, <1>21 DEF Next

(* Every state has the invariant. *)
LEMMA SettingsInvariance == Spec => []IInv
BY InitIInv, NextIInv, PTL DEF Spec

(* What an open dialog calls persisted is what the bar applies. *)
THEOREM DialogAgrees == Spec => []DialogAgreesWithBar
<1>1. IInv => DialogAgreesWithBar
  BY DEF IInv
<1>2. QED
  BY <1>1, SettingsInvariance, PTL

(* A dialog locked by a save has that save running, and a closed dialog has *)
(* nothing in flight.                                                      *)
THEOREM DialogMatches == Spec => []DialogMatchesLanes
<1>1. IInv => DialogMatchesLanes
  BY DEF IInv, LanesServeTheDialog, DialogMatchesLanes
<1>2. QED
  BY <1>1, SettingsInvariance, PTL

-----------------------------------------------------------------------------
(* Steps *)

(* The bar never goes back to settings older than those it has applied,     *)
(* except to what the dialog's own load has read.                          *)
THEOREM AppliedAdvances == Spec => AppliedNeverRegresses
<1>1. IInv /\ [Next]_vars =>
        [\/ appliedSettings' >= appliedSettings
         \/ settingsState.phase = "loading" /\ settingsState'.phase = "clean"
        ]_<<appliedSettings, settingsState>>
  <2> SUFFICES ASSUME IInv, Next, appliedSettings' # appliedSettings
               PROVE  \/ appliedSettings' >= appliedSettings
                      \/ settingsState.phase = "loading" /\ settingsState'.phase = "clean"
    <3>1. IInv => appliedSettings >= appliedSettings
      BY SettingsBoundsAssumption DEF IInv, TypeOK, Version
    <3>2. QED
      BY <3>1 DEF vars, dialogVars
  <2>1. /\ appliedSettings \in Nat /\ settingsWrite.document \in Nat
        /\ settingsBootstrap.document \in Nat /\ settingsState \in Dialog
    BY SettingsBoundsAssumption DEF IInv, TypeOK, Version, Lane
  <2>2. CASE SettingsReadSucceeds
    <3>1. settingsState.phase = "loading"
          /\ settingsRead.generation = settingsState.generation
      BY <2>2 DEF SettingsReadSucceeds, IInv, LanesServeTheDialog
    <3>2. settingsState'.phase = "clean"
      BY <2>1, <2>2, <3>1 DEF SettingsReadSucceeds, Dialog
    <3>3. QED
      BY <3>1, <3>2
  <2>3. CASE \E ok \in BOOLEAN : SettingsWriteExited(ok)
    <3>1. appliedSettings' = settingsWrite.document /\ settingsWrite.document # 0
      BY <2>3 DEF SettingsWriteExited
    <3>2. QED
      BY <2>1, <3>1 DEF IInv, DocumentsAreStored
  <2>4. CASE \E ok \in BOOLEAN : SettingsBootstrapExited(ok)
    BY <2>1, <2>4 DEF SettingsBootstrapExited, settingsBootstrapResult
  <2>5. CASE PopupNext \/ DialogNext \/ EnvironmentNext
    BY <2>5 DEF PopupNext, requestPopup, closePopup, dismissPopup, DialogNext,
       openSettings, EditDraft, cancelSettings, saveSettings, editVars,
       EnvironmentNext, CommandLineApplies, HelperPathAppears,
       VersionProbeSucceeds, MaintenanceToggles, kickSettingsBootstrap
  <2>6. CASE HelperReads \/ SettingsReadFails \/ HelperWrites \/ BootstrapReads
    BY <2>6 DEF HelperReads, SettingsReadFails, HelperWrites, BootstrapReads
  <2>7. QED
    BY <2>2, <2>3, <2>4, <2>5, <2>6 DEF Next, LaneNext
<1>2. QED
  BY <1>1, SettingsInvariance, PTL DEF Spec, AppliedNeverRegresses

(* The user's edits go away only by his own Cancel or close, or by a save   *)
(* that stored them.                                                       *)
THEOREM EditsSurvive == Spec => EditsAreKept
<1>1. IInv /\ [Next]_vars =>
        [settingsState.edited /\ ~settingsState'.edited =>
            \/ popupOwner' = noPopup
            \/ settingsState.phase = "dirty" /\ UNCHANGED <<popupOwner, laneVars>>
            \/ /\ settingsState.phase = "saving"
               /\ appliedSettings' = settingsWrite.document]_vars
  <2> SUFFICES ASSUME IInv, Next, settingsState.edited, ~settingsState'.edited
               PROVE  \/ popupOwner' = noPopup
                      \/ settingsState.phase = "dirty" /\ UNCHANGED <<popupOwner, laneVars>>
                      \/ /\ settingsState.phase = "saving"
                         /\ appliedSettings' = settingsWrite.document
    OBVIOUS
  <2>1. settingsState \in Dialog /\ settingsState.phase \in {"dirty", "saving"}
    BY DEF IInv, TypeOK, DialogIsLoaded
  <2>2. settingsState' # settingsState
    OBVIOUS
  <2>3. CASE PopupNext
    BY <2>2, <2>3 DEF PopupNext, requestPopup, closePopup, dismissPopup, closes
  <2>4. CASE \E owner \in Widget : openSettings(owner)
    BY <2>1, <2>2, <2>4 DEF openSettings
  <2>5. CASE \E valid \in BOOLEAN : EditDraft(valid)
    BY <2>1, <2>5 DEF EditDraft, Dialog
  <2>6. CASE cancelSettings
    <3>1. settingsState.phase = "dirty"
      BY <2>1, <2>6 DEF cancelSettings
    <3>2. QED
      BY <2>6, <3>1 DEF cancelSettings, editVars
  <2>7. CASE saveSettings
    BY <2>1, <2>7 DEF saveSettings, Dialog
  <2>8. CASE SettingsReadSucceeds
    BY <2>1, <2>8 DEF SettingsReadSucceeds, IInv, LanesServeTheDialog
  <2>9. CASE \E ok \in BOOLEAN : SettingsWriteExited(ok)
    <3>1. PICK ok \in BOOLEAN : SettingsWriteExited(ok)
      BY <2>9
    <3>2. settingsState.phase = "saving"
      BY <3>1 DEF SettingsWriteExited, IInv, LanesServeTheDialog
    <3>3. CASE ok
      BY <3>1, <3>2, <3>3 DEF SettingsWriteExited
    <3>4. CASE ~ok
      BY <2>1, <3>1, <3>4 DEF SettingsWriteExited, settingsFinishSave, Dialog
    <3>5. QED
      BY <3>3, <3>4
  <2>10. CASE HelperReads \/ SettingsReadFails \/ HelperWrites \/ BootstrapReads
               \/ \E ok \in BOOLEAN : SettingsBootstrapExited(ok)
    BY <2>2, <2>10 DEF HelperReads, SettingsReadFails, HelperWrites, BootstrapReads,
       SettingsBootstrapExited, dialogVars
  <2>11. CASE EnvironmentNext
    BY <2>2, <2>11 DEF EnvironmentNext, CommandLineApplies, HelperPathAppears,
       VersionProbeSucceeds, MaintenanceToggles, kickSettingsBootstrap, dialogVars
  <2>12. QED
    BY <2>3, <2>4, <2>5, <2>6, <2>7, <2>8, <2>9, <2>10, <2>11
       DEF Next, DialogNext, LaneNext
<1>2. QED
  BY <1>1, SettingsInvariance, PTL DEF Spec, EditsAreKept
-----------------------------------------------------------------------------
(* What reopening the dialog runs into (ReopenLoadsAgain).                  *)

(* The dialog is loading, and nobody reads for it. *)
LoadIsLost == settingsState.phase = "loading" /\ ~settingsRead.busy

(* A load is lost when its helper has failed, which leaves the dialog and   *)
(* the bar as they were, or when it never had a helper to ask.             *)
OnlyFailuresLoseALoad ==
    [][~LoadIsLost /\ LoadIsLost' =>
         \/ settingsRead.busy /\ UNCHANGED <<settingsState, appliedSettings>>
         \/ settingsState.phase = "closed" /\ ~helperPath]_vars

(* And then it is lost for good. *)
LostForGood == [][LoadIsLost => LoadIsLost' /\ UNCHANGED settingsState]_vars

(* A load that has its helper is lost by that helper's failure alone: no    *)
(* close, click, save, boot read, write in a terminal or maintenance loses  *)
(* one (applySettingsReadResult, openSettings).                            *)
THEOREM LoadsAreLostByFailure == Spec => OnlyFailuresLoseALoad
<1>1. IInv /\ [Next]_vars =>
        [~LoadIsLost /\ LoadIsLost' =>
            \/ settingsRead.busy /\ UNCHANGED <<settingsState, appliedSettings>>
            \/ settingsState.phase = "closed" /\ ~helperPath]_vars
  <2> SUFFICES ASSUME IInv, Next, ~LoadIsLost, LoadIsLost'
               PROVE  \/ settingsRead.busy /\ UNCHANGED <<settingsState, appliedSettings>>
                      \/ settingsState.phase = "closed" /\ ~helperPath
    OBVIOUS
  <2>1. /\ settingsState \in Dialog /\ settingsRead \in Lane
        /\ settingsRead.busy => settingsState.phase = "loading"
        /\ settingsRead.busy => settingsRead.generation = settingsState.generation
    BY DEF IInv, TypeOK, LanesServeTheDialog
  <2>2. settingsState'.phase = "loading" /\ ~settingsRead'.busy
        /\ (settingsState.phase = "loading" => settingsRead.busy)
    BY DEF LoadIsLost
  <2>3. CASE SettingsReadFails
    BY <2>2, <2>3 DEF SettingsReadFails, dialogVars
  <2>4. CASE SettingsReadSucceeds
    <3>1. settingsState'.phase = "clean"
      BY <2>1, <2>4 DEF SettingsReadSucceeds, Dialog
    <3> QED  BY <2>2, <3>1
  <2>5. CASE PopupNext
    <3>1. UNCHANGED settingsRead /\ settingsState' \in {settingsState, settingsClosed}
      BY <2>5 DEF PopupNext, requestPopup, closePopup, dismissPopup, closes, laneVars
    <3> QED  BY <2>2, <3>1 DEF settingsClosed
  <2>6. ASSUME NEW owner \in Widget, openSettings(owner)
        PROVE  settingsState.phase = "closed" /\ ~helperPath
    <3>1. settingsState.phase = "closed"
      BY <2>2, <2>6 DEF openSettings
    <3>2. ~settingsRead.busy
      BY <2>1, <3>1
    <3>3. helperPath => settingsRead'.busy
      BY <2>6, <3>1, <3>2 DEF openSettings, started
    <3> QED  BY <2>2, <3>1, <3>3
  <2>7. CASE (\E valid \in BOOLEAN : EditDraft(valid)) \/ cancelSettings \/ saveSettings
    BY <2>1, <2>2, <2>7 DEF EditDraft, cancelSettings, saveSettings, Dialog
  <2>8. CASE \E ok \in BOOLEAN : SettingsWriteExited(ok)
    BY <2>1, <2>2, <2>8 DEF SettingsWriteExited, settingsFinishSave, Dialog
  <2>9. CASE \/ HelperReads \/ HelperWrites \/ BootstrapReads
             \/ \E ok \in BOOLEAN : SettingsBootstrapExited(ok)
             \/ EnvironmentNext
    <3>1. UNCHANGED settingsState /\ settingsRead'.busy = settingsRead.busy
      BY <2>1, <2>9 DEF HelperReads, HelperWrites, BootstrapReads, Lane, dialogVars,
         laneVars, SettingsBootstrapExited, EnvironmentNext, CommandLineApplies,
         HelperPathAppears, VersionProbeSucceeds, MaintenanceToggles,
         kickSettingsBootstrap
    <3> QED  BY <2>2, <3>1
  <2> QED  BY <2>3, <2>4, <2>5, <2>6, <2>7, <2>8, <2>9 DEF Next, DialogNext, LaneNext
<1>2. QED
  BY <1>1, SettingsInvariance, PTL DEF Spec, OnlyFailuresLoseALoad

(* "User can close and reopen" is not so: once a load is lost, the dialog   *)
(* keeps its phase, its generation and its lock, and nothing reads for it,  *)
(* whatever the user, the helpers and maintenance do.  (It is kept by a     *)
(* close, and openSettings loads only a closed dialog.)                    *)
THEOREM LostLoadsStayLost == Spec => LostForGood
<1>1. IInv /\ [Next]_vars => [LoadIsLost => LoadIsLost' /\ UNCHANGED settingsState]_vars
  <2> SUFFICES ASSUME IInv, Next, LoadIsLost
               PROVE  settingsState' = settingsState /\ ~settingsRead'.busy
    BY DEF LoadIsLost
  <2>1. /\ settingsState.phase = "loading"
        /\ ~settingsRead.busy /\ ~settingsWrite.busy
    BY DEF LoadIsLost, IInv, LanesServeTheDialog
  <2>2. CASE PopupNext
    BY <2>1, <2>2 DEF PopupNext, requestPopup, closePopup, dismissPopup, closes,
       settingsShouldRetainOnClose, laneVars
  <2>3. CASE DialogNext
    BY <2>1, <2>3 DEF DialogNext, openSettings, EditDraft, controlsLocked,
       cancelSettings, saveSettings, canSaveSettings
  <2>4. CASE LaneNext
    BY <2>1, <2>4 DEF LaneNext, HelperReads, Shows, SettingsReadSucceeds,
       SettingsReadFails, HelperWrites, SettingsWriteExited, BootstrapReads,
       SettingsBootstrapExited, dialogVars
  <2>5. CASE EnvironmentNext
    BY <2>1, <2>5 DEF EnvironmentNext, CommandLineApplies, HelperPathAppears,
       VersionProbeSucceeds, MaintenanceToggles, kickSettingsBootstrap, dialogVars,
       laneVars
  <2> QED  BY <2>2, <2>3, <2>4, <2>5 DEF Next
<1>2. QED
  BY <1>1, SettingsInvariance, PTL DEF Spec, LostForGood
=============================================================================
