---------------------------- MODULE SettingsLane ----------------------------
(***************************************************************************)
(* The settings dialog of Service.qml: the popup it lives in, its draft     *)
(* state machine (closed, loading, clean, dirty, saving), and the three     *)
(* helper lanes that read, bootstrap and write settings.json.               *)
(*                                                                         *)
(* A document is known by its version, the number of writes settings.json  *)
(* had seen; 0 is null.  A draft is known by whether the user has edited   *)
(* it and whether validateSettingsDraft accepts it.  None of these lanes   *)
(* is ever stopped by a timer, so a lane is busy exactly while its child    *)
(* lives, and settingsState.busy is its phase being loading or saving.      *)
(***************************************************************************)
EXTENDS Naturals

CONSTANTS
    Widget,                  \* one bar widget per monitor: the popup owners
    NoWidget,
    MaxSettingsGeneration,   \* bound: opens and saves
    MaxStored                \* bound: writes of settings.json

ASSUME NoWidgetAssumption == NoWidget \notin Widget
ASSUME SettingsBoundsAssumption ==
    MaxSettingsGeneration \in Nat /\ MaxStored \in Nat \ {0}

VARIABLES
    popupOwner,            \* {owner, view}
    settingsState,         \* with settingsDraft, which always is its draft
    appliedSettings,       \* the document the bar and the poll interval use
    settingsGeneration,
    settingsRead,          \* the config show behind the dialog
    settingsBootstrap,     \* the config show of service start
    settingsWrite,         \* the config apply behind Save
    stored,                \* settings.json
    helperPath,            \* resolvedHelperPath() is not empty
    blocked                \* maintenanceState.blocked

dialogVars == <<popupOwner, settingsState>>
laneVars   == <<settingsGeneration, settingsRead, settingsBootstrap, settingsWrite>>
environmentVars == <<helperPath, blocked>>
vars == <<dialogVars, appliedSettings, laneVars, stored, environmentVars>>

-----------------------------------------------------------------------------
Version == 0..MaxStored
Phase   == {"closed", "loading", "clean", "dirty", "saving"}

Popup   == [owner : Widget \cup {NoWidget}, view : {"usage", "settings"}]
noPopup == [owner |-> NoWidget, view |-> "usage"]

Dialog  == [phase : Phase, generation : Nat, snapshot : Version,
            edited : BOOLEAN, valid : BOOLEAN]

settingsClosed == [phase |-> "closed", generation |-> 0, snapshot |-> 0,
                   edited |-> FALSE, valid |-> FALSE]

(* A lane: the child lives, the generation it was started for, and the     *)
(* version it has read or written so far.                                  *)
Lane == [busy : BOOLEAN, generation : Nat, document : Version]
idle == [busy |-> FALSE, generation |-> 0, document |-> 0]
started(generation) == [busy |-> TRUE, generation |-> generation, document |-> 0]
(* activeSettingsReadGeneration outlives its child. *)
ended(lane) == [lane EXCEPT !.busy = FALSE, !.document = 0]

TypeOK ==
    /\ popupOwner \in Popup
    /\ settingsState \in Dialog
    /\ appliedSettings \in Version
    /\ settingsGeneration \in Nat
    /\ settingsRead \in Lane
    /\ settingsBootstrap \in Lane
    /\ settingsWrite \in Lane
    /\ stored \in Version \ {0}
    /\ helperPath \in BOOLEAN
    /\ blocked \in BOOLEAN

Init ==
    /\ popupOwner = noPopup
    /\ settingsState = settingsClosed
    /\ appliedSettings = 0
    /\ settingsGeneration = 0
    /\ settingsRead = idle
    /\ settingsBootstrap = idle
    /\ settingsWrite = idle
    /\ stored = 1
    /\ helperPath = FALSE
    /\ blocked = FALSE

-----------------------------------------------------------------------------
(* Popup ownership *)

popupOpen == popupOwner.owner # NoWidget

(* A chip click shows the usage view on that widget's monitor. *)
requestPopup(owner) ==
    /\ popupOwner' = [owner |-> owner, view |-> "usage"]
    /\ UNCHANGED <<settingsState, appliedSettings, laneVars, stored, environmentVars>>

settingsShouldRetainOnClose == settingsState.phase \in {"loading", "saving"}

(* The popup is gone; so is the dialog, unless a load or save is running. *)
closes ==
    /\ popupOwner' = noPopup
    /\ settingsState' = IF settingsShouldRetainOnClose THEN settingsState
                                                       ELSE settingsClosed

(* closePopup: another monitor's widget cannot close the popup. *)
closePopup(owner) ==
    /\ popupOwner.owner \in {owner, NoWidget}
    /\ closes
    /\ UNCHANGED <<appliedSettings, laneVars, stored, environmentVars>>

(* dismissPopup: a click outside, on any monitor *)
dismissPopup ==
    /\ closes
    /\ UNCHANGED <<appliedSettings, laneVars, stored, environmentVars>>

-----------------------------------------------------------------------------
(* Opening the dialog *)

(* BUG: opening always starts a fresh load. *)
Mutant_openSettings(owner) ==
    /\ ~blocked
    /\ popupOwner' = [owner |-> owner, view |-> "settings"]
    /\ IF settingsState.phase \notin {"loading", "saving"}
       THEN LET generation == settingsGeneration + 1 IN
            /\ generation <= MaxSettingsGeneration
            /\ settingsGeneration' = generation
            /\ settingsState' = [settingsClosed EXCEPT !.phase = "loading",
                                                       !.generation = generation]
            /\ settingsRead' = IF helperPath /\ ~settingsRead.busy
                               THEN started(generation) ELSE settingsRead
       ELSE UNCHANGED <<settingsState, settingsGeneration, settingsRead>>
    /\ UNCHANGED <<appliedSettings, settingsBootstrap, settingsWrite, stored,
                   environmentVars>>

(* openSettings: the popup moves to this widget.  Only a closed dialog      *)
(* loads; the load needs the read lane free and the helper path known.      *)
openSettings(owner) ==
    /\ ~blocked
    /\ popupOwner' = [owner |-> owner, view |-> "settings"]
    /\ IF settingsState.phase = "closed"
       THEN LET generation == settingsGeneration + 1 IN
            /\ generation <= MaxSettingsGeneration
            /\ settingsGeneration' = generation
            /\ settingsState' = [settingsClosed EXCEPT !.phase = "loading",
                                                       !.generation = generation]
            /\ settingsRead' = IF helperPath /\ ~settingsRead.busy
                               THEN started(generation) ELSE settingsRead
       ELSE UNCHANGED <<settingsState, settingsGeneration, settingsRead>>
    /\ UNCHANGED <<appliedSettings, settingsBootstrap, settingsWrite, stored,
                   environmentVars>>

(* A running config show reads settings.json at some moment of its life. *)
Shows(lane) == lane.busy /\ lane.document = 0

HelperReads ==
    /\ Shows(settingsRead)
    /\ settingsRead' = [settingsRead EXCEPT !.document = stored]
    /\ UNCHANGED <<dialogVars, appliedSettings, settingsGeneration,
                   settingsBootstrap, settingsWrite, stored, environmentVars>>

BootstrapReads ==
    /\ Shows(settingsBootstrap)
    /\ settingsBootstrap' = [settingsBootstrap EXCEPT !.document = stored]
    /\ UNCHANGED <<dialogVars, appliedSettings, settingsGeneration,
                   settingsRead, settingsWrite, stored, environmentVars>>

(* applySettingsReadResult: exit 0 with a valid document. *)
SettingsReadSucceeds ==
    LET document == settingsRead.document IN
    /\ settingsRead.busy /\ document # 0
    /\ settingsRead' = ended(settingsRead)
    /\ IF settingsState.phase = "closed"
       THEN UNCHANGED <<settingsState, appliedSettings>>
       ELSE /\ appliedSettings' = document
            /\ settingsState' =
                 IF /\ settingsState.generation = settingsRead.generation
                    /\ settingsState.phase \in {"loading", "clean"}
                 THEN [settingsState EXCEPT !.phase = "clean", !.snapshot = document,
                                            !.edited = FALSE, !.valid = TRUE]
                 ELSE settingsState
    /\ UNCHANGED <<popupOwner, settingsGeneration, settingsBootstrap,
                   settingsWrite, stored, environmentVars>>

(* A nonzero exit or an unusable document: the lane is freed, the dialog    *)
(* stays as it is.                                                         *)
SettingsReadFails ==
    /\ settingsRead.busy
    /\ settingsRead' = ended(settingsRead)
    /\ UNCHANGED <<dialogVars, appliedSettings, settingsGeneration,
                   settingsBootstrap, settingsWrite, stored, environmentVars>>

-----------------------------------------------------------------------------
(* Editing, saving *)

dialogVisible == popupOpen /\ popupOwner.view = "settings"

controlsLocked == settingsState.phase \in {"closed", "loading", "saving"}

editVars == <<popupOwner, appliedSettings, laneVars, stored, environmentVars>>

(* mutateSettingsDraft and restoreSettingsDefaults: any edit marks the     *)
(* draft dirty; an interval or reminder typed out of range makes it invalid.*)
EditDraft(valid) ==
    /\ dialogVisible /\ ~controlsLocked
    /\ settingsState' = [settingsState EXCEPT !.phase = "dirty", !.edited = TRUE,
                                              !.valid = valid]
    /\ UNCHANGED editVars

cancelSettings ==
    /\ dialogVisible
    /\ settingsState.phase \in {"clean", "dirty"}
    /\ settingsState.snapshot # 0
    /\ settingsState' = [settingsState EXCEPT !.phase = "clean", !.edited = FALSE,
                                              !.valid = TRUE]
    /\ UNCHANGED editVars

canSaveSettings == settingsState.phase = "dirty" /\ settingsState.valid

(* BUG: Save does not ask whether maintenance has begun; the write lane     *)
(* does.                                                                   *)
Mutant_saveSettings ==
    LET generation == settingsGeneration + 1 IN
    /\ dialogVisible
    /\ canSaveSettings /\ ~settingsWrite.busy
    /\ generation <= MaxSettingsGeneration
    /\ settingsGeneration' = generation
    /\ settingsState' = [settingsState EXCEPT !.phase = "saving",
                                              !.generation = generation]
    /\ settingsWrite' = IF ~blocked /\ helperPath THEN started(generation)
                                                  ELSE settingsWrite
    /\ UNCHANGED <<popupOwner, appliedSettings, settingsRead, settingsBootstrap,
                   stored, environmentVars>>

(* saveSettings, then kickSettingsWrite with its own guards. *)
saveSettings ==
    LET generation == settingsGeneration + 1 IN
    /\ ~blocked
    /\ dialogVisible
    /\ canSaveSettings /\ ~settingsWrite.busy
    /\ generation <= MaxSettingsGeneration
    /\ settingsGeneration' = generation
    /\ settingsState' = [settingsState EXCEPT !.phase = "saving",
                                              !.generation = generation]
    /\ settingsWrite' = IF ~blocked /\ helperPath THEN started(generation)
                                                  ELSE settingsWrite
    /\ UNCHANGED <<popupOwner, appliedSettings, settingsRead, settingsBootstrap,
                   stored, environmentVars>>

(* The config apply child replaces settings.json. *)
HelperWrites ==
    /\ settingsWrite.busy /\ settingsWrite.document = 0
    /\ stored < MaxStored
    /\ stored' = stored + 1
    /\ settingsWrite' = [settingsWrite EXCEPT !.document = stored + 1]
    /\ UNCHANGED <<dialogVars, appliedSettings, settingsGeneration,
                   settingsRead, settingsBootstrap, environmentVars>>

(* BUG: the answer to a failed save is ignored. *)
Mutant_settingsFinishSaveIgnored(ok) ==
    IF /\ settingsState.generation = settingsWrite.generation
       /\ settingsState.phase = "saving" /\ ok
    THEN [settingsState EXCEPT !.phase = "clean", !.edited = FALSE,
                     !.valid = TRUE, !.snapshot = settingsWrite.document]
    ELSE settingsState

(* Success adopts the canonical document, failure gives the draft back. *)
settingsFinishSave(ok) ==
    IF /\ settingsState.generation = settingsWrite.generation
       /\ settingsState.phase = "saving"
    THEN IF ok
         THEN [settingsState EXCEPT !.phase = "clean", !.edited = FALSE,
                     !.valid = TRUE, !.snapshot = settingsWrite.document]
         ELSE [settingsState EXCEPT !.phase = "dirty"]
    ELSE settingsState

(* settingsWriteProcess.onExited and applySettingsWriteResult.  A child may *)
(* fail after it has replaced the file; it never succeeds before.           *)
SettingsWriteExited(ok) ==
    /\ settingsWrite.busy
    /\ ok => settingsWrite.document # 0
    /\ settingsState' = settingsFinishSave(ok)
    /\ appliedSettings' = IF ok THEN settingsWrite.document ELSE appliedSettings
    /\ settingsWrite' = idle
    /\ UNCHANGED <<popupOwner, settingsGeneration, settingsRead,
                   settingsBootstrap, stored, environmentVars>>

-----------------------------------------------------------------------------
(* Bootstrap (SET-023) *)

(* kickSettingsBootstrap, called when the version probe succeeds. *)
kickSettingsBootstrap ==
    /\ settingsBootstrap' =
         IF appliedSettings = 0 /\ ~settingsBootstrap.busy /\ ~blocked /\ helperPath
         THEN started(0) ELSE settingsBootstrap
    /\ UNCHANGED <<dialogVars, appliedSettings, settingsGeneration, settingsRead,
                   settingsWrite, stored>>

(* BUG: the boot-time read replaces what the dialog has applied since. *)
Mutant_settingsBootstrapResult(ok) ==
    IF ok THEN settingsBootstrap.document ELSE appliedSettings

(* Newer settings win; a failed read changes nothing. *)
settingsBootstrapResult(ok) ==
    IF appliedSettings # 0 THEN appliedSettings
    ELSE IF ok THEN settingsBootstrap.document ELSE 0

SettingsBootstrapExited(ok) ==
    /\ settingsBootstrap.busy
    /\ ok => settingsBootstrap.document # 0
    /\ appliedSettings' = settingsBootstrapResult(ok)
    /\ settingsBootstrap' = idle
    /\ UNCHANGED <<dialogVars, settingsGeneration, settingsRead, settingsWrite,
                   stored, environmentVars>>

-----------------------------------------------------------------------------
(* The rest of the world *)

(* Another agent-bar process (config apply in a terminal) writes. *)
CommandLineApplies ==
    /\ stored < MaxStored
    /\ stored' = stored + 1
    /\ UNCHANGED <<dialogVars, appliedSettings, laneVars, environmentVars>>

(* The version lane learns the helper path, then proves the helper. *)
HelperPathAppears ==
    /\ helperPath' = TRUE
    /\ UNCHANGED <<dialogVars, appliedSettings, laneVars, stored, blocked>>

VersionProbeSucceeds ==
    /\ helperPath
    /\ kickSettingsBootstrap
    /\ UNCHANGED environmentVars

(* The maintenance lane closes and reopens the service. *)
MaintenanceToggles ==
    /\ blocked' \in BOOLEAN
    /\ UNCHANGED <<dialogVars, appliedSettings, laneVars, stored, helperPath>>

-----------------------------------------------------------------------------
PopupNext ==
    \/ \E owner \in Widget : requestPopup(owner) \/ closePopup(owner)
    \/ dismissPopup

DialogNext ==
    \/ \E owner \in Widget : openSettings(owner)
    \/ \E valid \in BOOLEAN : EditDraft(valid)
    \/ cancelSettings
    \/ saveSettings

LaneNext ==
    \/ HelperReads \/ SettingsReadSucceeds \/ SettingsReadFails
    \/ HelperWrites \/ \E ok \in BOOLEAN : SettingsWriteExited(ok)
    \/ BootstrapReads \/ \E ok \in BOOLEAN : SettingsBootstrapExited(ok)

EnvironmentNext == CommandLineApplies \/ HelperPathAppears
                      \/ VersionProbeSucceeds \/ MaintenanceToggles

Next == PopupNext \/ DialogNext \/ LaneNext \/ EnvironmentNext

(* A config show or config apply child ends: it does bounded local work.   *)
(* No lane here has a timer, so the dialog has nothing else to rely on.     *)
Fairness ==
    /\ WF_vars(SettingsReadSucceeds \/ SettingsReadFails)
    /\ WF_vars(\E ok \in BOOLEAN : SettingsWriteExited(ok))

Spec     == Init /\ [][Next]_vars
FairSpec == Spec /\ Fairness

-----------------------------------------------------------------------------
(* The bar never goes back to settings older than those it has applied,     *)
(* however the boot read, the dialog's saves and writes from a terminal     *)
(* interleave.  The one exception SET-023 makes is the completion of the    *)
(* dialog's own load, which counts as newer than the boot read even when    *)
(* it read the file first.                                                  *)
AppliedNeverRegresses ==
    [][\/ appliedSettings' >= appliedSettings
       \/ settingsState.phase = "loading" /\ settingsState'.phase = "clean"
      ]_<<appliedSettings, settingsState>>

(* What an open dialog calls persisted is what the bar applies (SET-014,    *)
(* SET-021, SET-023).                                                      *)
DialogAgreesWithBar ==
    settingsState.phase \in {"clean", "dirty", "saving"}
        => settingsState.snapshot = appliedSettings /\ appliedSettings # 0

(* Dialog and helpers fit together (SET-017, SET-019, SET-020): a dialog    *)
(* locked by a save has that save running, so that no path leaves it locked *)
(* with nobody to unlock it; and a closed dialog has nothing in flight, so  *)
(* that reopening never meets the answer to an earlier life of the dialog.  *)
DialogMatchesLanes ==
    /\ settingsState.phase = "saving" =>
          settingsWrite.busy /\ settingsWrite.generation = settingsState.generation
    /\ settingsState.phase = "closed" => ~settingsRead.busy /\ ~settingsWrite.busy

(* The user's edits go away only by his own Cancel or close, or by a save   *)
(* that stored them (SET-018, SET-021): no answer, failure or reopen drops  *)
(* them.                                                                   *)
EditsAreKept ==
    [][settingsState.edited /\ ~settingsState'.edited =>
         \/ popupOwner' = noPopup
         \/ settingsState.phase = "dirty" /\ UNCHANGED <<popupOwner, laneVars>>
         \/ /\ settingsState.phase = "saving"
            /\ appliedSettings' = settingsWrite.document]_vars

(* A save is answered: the controls come back (SET-019, SET-020). *)
SaveIsAnswered ==
    settingsState.phase = "saving" ~> settingsState.phase \in {"clean", "dirty"}

-----------------------------------------------------------------------------
(* Service.qml on a failed load: "keep loading/locked; user can close and   *)
(* reopen".  When the dialog's own load has ended without an answer it can  *)
(* use, reopening the dialog loads again.                                  *)
ReopenLoadsAgain ==
    [][/\ ~popupOpen /\ popupOwner'.view = "settings"
       /\ settingsState.phase = "loading" /\ ~settingsRead.busy
       /\ settingsRead.generation = settingsState.generation
       => settingsRead'.busy]_vars
=============================================================================
