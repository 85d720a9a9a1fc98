--------------------------- MODULE MaintenanceLane ---------------------------
(***************************************************************************)
(* Update and uninstall in Service.qml: the maintenance panel and its two   *)
(* confirmation dialogs, the update check lane, and the handoff that closes *)
(* the service, drains the status and settings-write lanes and then runs   *)
(* the helper that updates or removes the plugin.                          *)
(*                                                                         *)
(* The panel's buttons are guarded as MaintenanceView.qml enables them; an  *)
(* open ConfirmDialog covers the panel, so no other button is reached.      *)
(* maintenanceState is {phase handoff, blocked} or {idle, not blocked}:     *)
(* `blocked` stands for both, and for ~pollEnabled.                         *)
(***************************************************************************)
VARIABLES
    maintenanceUi,      \* what the panel shows
    maintenanceCheck,   \* an update check child runs
    intention,          \* pendingMaintenanceIntention (and its payload)
    operation,          \* what the running handoff child was told to do
    consent,            \* history: the purge choice the dialog was armed with
    blocked,            \* maintenanceState.blocked
    statusBusy,         \* the status lane's flag
    settingsWriteBusy   \* the settings-write lane's flag

panelVars == <<maintenanceUi, consent>>
handoffVars == <<intention, operation, blocked>>
laneVars == <<statusBusy, settingsWriteBusy>>
vars == <<panelVars, maintenanceCheck, handoffVars, laneVars>>

-----------------------------------------------------------------------------
(* no_update stands for up_to_date and reinstall_required, which differ     *)
(* only in their message.                                                  *)
CheckResult == {"update_available", "no_update", "error"}
PanelPhase  == CheckResult \cup {"idle", "checking", "applying", "uninstalling"}

(* target: targetVersion is not empty *)
Panel == [phase : PanelPhase, target : BOOLEAN, purge : BOOLEAN, armed : BOOLEAN,
          updateOpen : BOOLEAN, uninstallOpen : BOOLEAN]

panelIdle == [phase |-> "idle", target |-> FALSE, purge |-> FALSE, armed |-> FALSE,
              updateOpen |-> FALSE, uninstallOpen |-> FALSE]

Intention   == [kind : {"update_apply", "uninstall"}, purge : BOOLEAN]
noIntention == [kind |-> "none", purge |-> FALSE]

TypeOK ==
    /\ maintenanceUi \in Panel
    /\ maintenanceCheck \in BOOLEAN
    /\ intention \in Intention \cup {noIntention}
    /\ operation \in Intention \cup {noIntention}
    /\ consent \in BOOLEAN
    /\ blocked \in BOOLEAN
    /\ statusBusy \in BOOLEAN
    /\ settingsWriteBusy \in BOOLEAN

Init ==
    /\ maintenanceUi = panelIdle
    /\ maintenanceCheck = FALSE
    /\ intention = noIntention
    /\ operation = noIntention
    /\ consent = FALSE
    /\ blocked = FALSE
    /\ statusBusy = FALSE
    /\ settingsWriteBusy = FALSE

maintenanceHandoffBusy == operation # noIntention

dialogOpen == maintenanceUi.updateOpen \/ maintenanceUi.uninstallOpen

panelLocked == blocked \/ dialogOpen
                  \/ maintenanceUi.phase \in {"applying", "uninstalling"}

-----------------------------------------------------------------------------
(* Update check *)

(* An idle panel starts anew with the installed version that is known now;  *)
(* any other only learns the version.                                      *)
syncMaintenanceVersion(ui) == IF ui.phase = "idle" THEN panelIdle ELSE ui

checkForUpdates ==
    /\ ~panelLocked /\ maintenanceUi.phase # "checking"
    /\ ~maintenanceCheck
    /\ maintenanceUi' = [syncMaintenanceVersion(maintenanceUi) EXCEPT
                            !.phase = "checking", !.updateOpen = FALSE]
    /\ maintenanceCheck' = TRUE
    /\ UNCHANGED <<consent, handoffVars, laneVars>>

(* applyUpdateCheckResult: an offer names a target, an answer without an   *)
(* offer clears it, a failed check leaves the last one.                    *)
UpdateCheckExited(result) ==
    /\ maintenanceCheck
    /\ maintenanceCheck' = FALSE
    /\ maintenanceUi' = [maintenanceUi EXCEPT
            !.phase = result,
            !.updateOpen = FALSE,
            !.target = result = "update_available" \/ (result = "error" /\ @)]
    /\ UNCHANGED <<consent, handoffVars, laneVars>>

-----------------------------------------------------------------------------
(* Handoff *)

(* BUG: the drain rule forgets the settings write. *)
Mutant_maintenanceCanDetach(closed, status, write) == closed /\ ~status

(* The drain rule. *)
maintenanceCanDetach(closed, status, write) == closed /\ ~status /\ ~write

(* tryMaintenanceDetach, given the flags as the calling handler left them: *)
(* the helper is started for the intention that is pending now.            *)
tryMaintenanceDetach(closed, status, write, pending) ==
    operation' = IF /\ maintenanceCanDetach(closed, status, write)
                    /\ ~maintenanceHandoffBusy
                 THEN pending
                 ELSE operation

(* beginMaintenanceHandoff *)
beginMaintenanceHandoff(pending) ==
    /\ intention' = pending
    /\ blocked' = TRUE
    /\ tryMaintenanceDetach(TRUE, statusBusy, settingsWriteBusy, pending)

openUpdateConfirm ==
    /\ ~panelLocked
    /\ maintenanceUi.phase = "update_available" /\ maintenanceUi.target
    /\ maintenanceUi' = [maintenanceUi EXCEPT !.updateOpen = TRUE]
    /\ UNCHANGED <<consent, maintenanceCheck, handoffVars, laneVars>>

closeUpdateConfirm ==
    /\ maintenanceUi.updateOpen
    /\ maintenanceUi' = [maintenanceUi EXCEPT !.updateOpen = FALSE]
    /\ UNCHANGED <<consent, maintenanceCheck, handoffVars, laneVars>>

confirmUpdateApply ==
    /\ maintenanceUi.updateOpen /\ maintenanceUi.target
    /\ maintenanceUi' = [maintenanceUi EXCEPT !.phase = "applying",
                                              !.updateOpen = FALSE]
    /\ beginMaintenanceHandoff([kind |-> "update_apply", purge |-> FALSE])
    /\ UNCHANGED <<consent, maintenanceCheck, laneVars>>

openUninstallConfirm ==
    /\ ~panelLocked
    /\ maintenanceUi' = [maintenanceUi EXCEPT !.uninstallOpen = TRUE,
                                              !.armed = FALSE, !.purge = FALSE]
    /\ UNCHANGED <<consent, maintenanceCheck, handoffVars, laneVars>>

closeUninstallConfirm ==
    /\ maintenanceUi.uninstallOpen
    /\ maintenanceUi' = [maintenanceUi EXCEPT !.uninstallOpen = FALSE,
                                              !.armed = FALSE]
    /\ consent' = FALSE
    /\ UNCHANGED <<maintenanceCheck, handoffVars, laneVars>>

(* BUG: the purge toggle keeps the dialog armed. *)
Mutant_setUninstallPurge ==
    /\ maintenanceUi.uninstallOpen
    /\ maintenanceUi' = [maintenanceUi EXCEPT !.purge = ~@]
    /\ UNCHANGED <<consent, maintenanceCheck, handoffVars, laneVars>>

(* The purge toggle disarms the dialog. *)
setUninstallPurge ==
    /\ maintenanceUi.uninstallOpen
    /\ maintenanceUi' = [maintenanceUi EXCEPT !.purge = ~@, !.armed = FALSE]
    /\ consent' = FALSE
    /\ UNCHANGED <<maintenanceCheck, handoffVars, laneVars>>

(* armOrConfirmUninstall: the first click arms, *)
armUninstall ==
    /\ maintenanceUi.uninstallOpen /\ ~maintenanceUi.armed
    /\ maintenanceUi' = [maintenanceUi EXCEPT !.armed = TRUE]
    /\ consent' = maintenanceUi.purge
    /\ UNCHANGED <<maintenanceCheck, handoffVars, laneVars>>

(* the second confirms. *)
confirmUninstall ==
    /\ maintenanceUi.uninstallOpen /\ maintenanceUi.armed
    /\ maintenanceUi' = [maintenanceUi EXCEPT !.phase = "uninstalling",
                                              !.uninstallOpen = FALSE]
    /\ beginMaintenanceHandoff([kind |-> "uninstall",
                                purge |-> maintenanceUi.purge])
    /\ UNCHANGED <<consent, maintenanceCheck, laneVars>>

(* BUG: a finished handoff leaves the panel's dialogs as they are and       *)
(* the intention pending.                                                  *)
Mutant_HandoffExited(ok) ==
    /\ maintenanceHandoffBusy
    /\ operation' = noIntention
    /\ UNCHANGED intention
    /\ blocked' = FALSE
    /\ maintenanceUi' = IF ok THEN panelIdle ELSE [maintenanceUi EXCEPT !.phase = "error"]
    /\ UNCHANGED <<consent, maintenanceCheck, laneVars>>

(* applyMaintenanceHandoffDone *)
HandoffExited(ok) ==
    /\ maintenanceHandoffBusy
    /\ operation' = noIntention
    /\ intention' = noIntention
    /\ blocked' = FALSE
    /\ maintenanceUi' = IF intention = noIntention THEN maintenanceUi
                        ELSE IF ok THEN panelIdle
                        ELSE [maintenanceUi EXCEPT !.phase = "error"]
    /\ consent' = FALSE
    /\ UNCHANGED <<maintenanceCheck, laneVars>>

-----------------------------------------------------------------------------
(* The lanes the handoff drains *)

(* A status helper starts only while the service is open; its end, unlike  *)
(* the end of a settings write, tells the handoff nothing.                  *)
StatusMoves ==
    /\ statusBusy' \in BOOLEAN
    /\ statusBusy' => statusBusy \/ ~blocked
    /\ UNCHANGED <<panelVars, maintenanceCheck, handoffVars, settingsWriteBusy>>

(* The manifest or the helper's version arrives, also under an open dialog. *)
VersionKnown ==
    /\ maintenanceUi' = syncMaintenanceVersion(maintenanceUi)
    /\ statusBusy' \in BOOLEAN
    /\ statusBusy' => statusBusy \/ ~blocked
    /\ UNCHANGED <<consent, maintenanceCheck, handoffVars, settingsWriteBusy>>

SettingsWriteStarts ==
    /\ ~blocked /\ ~settingsWriteBusy
    /\ settingsWriteBusy' = TRUE
    /\ UNCHANGED <<panelVars, maintenanceCheck, handoffVars, statusBusy>>

(* applySettingsWriteResult ends with tryMaintenanceDetach. *)
SettingsWriteEnds ==
    /\ settingsWriteBusy
    /\ settingsWriteBusy' = FALSE
    /\ tryMaintenanceDetach(blocked, statusBusy, FALSE, intention)
    /\ UNCHANGED <<panelVars, maintenanceCheck, intention, blocked, statusBusy>>

-----------------------------------------------------------------------------
UpdateNext ==
    \/ checkForUpdates
    \/ \E result \in CheckResult : UpdateCheckExited(result)
    \/ openUpdateConfirm \/ closeUpdateConfirm

UninstallNext == openUninstallConfirm \/ closeUninstallConfirm
                    \/ setUninstallPurge \/ armUninstall

HandoffBegins == confirmUpdateApply \/ confirmUninstall

HandoffEnds == \E ok \in BOOLEAN : HandoffExited(ok)

LaneNext == StatusMoves \/ VersionKnown \/ SettingsWriteStarts \/ SettingsWriteEnds

Next == UpdateNext \/ UninstallNext \/ HandoffBegins \/ HandoffEnds \/ LaneNext

Spec == Init /\ [][Next]_vars

-----------------------------------------------------------------------------
(* The helper that updates or removes the plugin never runs beside a status *)
(* or settings-write helper of the same service, and no such helper starts  *)
(* while it runs (ARCH-024, ARCH-026), as the lanes' flags account for them: *)
(* a status child the timeout has signalled is no longer counted.           *)
MaintenanceRunsAlone ==
    maintenanceHandoffBusy => blocked /\ ~statusBusy /\ ~settingsWriteBusy

(* The result is reported for the operation that ran: nothing replaces the  *)
(* pending intention once its helper runs ("Update/uninstall cannot overlap *)
(* each other", ARCH-024), and a closed service has something to wait for.  *)
OneOperationAtATime ==
    /\ maintenanceHandoffBusy => intention = operation
    /\ blocked <=> intention # noIntention

(* Uninstall removes settings and backups only when the dialog offered that *)
(* at both clicks, and keeps them only when it offered that (UX-046, 047).  *)
UninstallIsConsented ==
    [][operation'.kind = "uninstall" /\ operation.kind # "uninstall"
          => operation'.purge = consent]_vars

-----------------------------------------------------------------------------
(* ARCH-024: a check "may finish without overwriting a newer generation".   *)
CheckKeepsNewerPhase ==
    [][maintenanceUi.phase \in {"applying", "uninstalling"} /\ blocked'
          => maintenanceUi'.phase = maintenanceUi.phase]_vars
=============================================================================
