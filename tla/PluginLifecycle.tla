--------------------------- MODULE PluginLifecycle ---------------------------
(***************************************************************************)
(* The plugin from its releases to its removal: the commands of the helper  *)
(* (PluginCommands), the releases, checks and installed trees               *)
(* (PluginUpdates), and between them the detached units in which update     *)
(* apply and uninstall leave the work to omarchy.  A unit runs when it      *)
(* runs, against whatever is installed then.                               *)
(***************************************************************************)
EXTENDS PluginCommands, PluginUpdates

CONSTANT MaxEvents  \* bound: commands begun, merges and update checks

ASSUME MaxEventsAssumption == MaxEvents \in Nat

VARIABLE changes    \* merges and checks so far

vars == <<commandVars, updateVars, changes>>

-----------------------------------------------------------------------------
TypeOK == CommandsTypeOK /\ UpdatesTypeOK /\ changes \in 0..MaxEvents

Init == CommandsInit /\ UpdatesInit /\ changes = 0

(* Bound: releases and checks go with the commands that hand something off; *)
(* the others share no variable with them.                                  *)
HandingOff == {"update_apply", "uninstall"}

(* A command is the installed helper, at least when it starts. *)
Begin(c, kind, purge, tty) ==
    /\ install.kind # "none" /\ begun + changes < MaxEvents
    /\ kind \in HandingOff \/ changes = 0
    /\ Start(c, kind, purge, tty)
    /\ UNCHANGED <<updateVars, changes>>

Step(c) == CommandStep(c) /\ UNCHANGED <<updateVars, changes>>

Reply(c) ==
    /\ \E given \in Given : Confirm(c, given)
    /\ UNCHANGED <<updateVars, changes>>

Surprise ==
    /\ \/ \E content \in LegacyFile : UserEdits(content)
       \/ \E c \in Command : Fails(c)
    /\ UNCHANGED <<updateVars, changes>>

Change ==
    /\ begun + changes < MaxEvents
    /\ \A c \in Command : at(c, "done") \/ command[c].kind \in HandingOff
    /\ Changes
    /\ changes' = changes + 1
    /\ UNCHANGED commandVars

React ==
    /\ Reactions \/ (begun + changes < MaxEvents /\ AddPlugin)
    /\ UNCHANGED <<commandVars, changes>>

(* A unit runs, and may fail: no network, a tree that does not validate.    *)
RunUnit(unit) ==
    /\ unit \in units
    /\ units' = units \ {unit}
    /\ \/ unit = "update" /\ FastForward
       \/ unit = "remove" /\ RemovePlugin
       \/ UNCHANGED updateVars
    /\ UNCHANGED <<gatePath, disk, legacy, copies, command, begun, changes>>

Next ==
    \/ \E c \in Command :
          \/ \E kind \in Kind, purge, tty \in BOOLEAN : Begin(c, kind, purge, tty)
          \/ Step(c)
          \/ Reply(c)
    \/ Surprise
    \/ Change
    \/ React
    \/ \E unit \in {"update", "remove"} : RunUnit(unit)

(* A process is scheduled, and the user answers an uninstall. *)
Spec == Init /\ [][Next]_vars
             /\ \A c \in Command : WF_vars(Step(c) \/ Reply(c))

-----------------------------------------------------------------------------
(* Every command that has begun ends: no two wait for each other at the     *)
(* gate, which a status helper asks for twice (ARCH-026).                   *)
CommandsEnd == \A c \in Command : ~at(c, "done") ~> at(c, "done")
=============================================================================
