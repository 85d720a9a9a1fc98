---------------------------- MODULE PluginCommands ----------------------------
(***************************************************************************)
(* The commands of the helper that change what the plugin keeps on disk     *)
(* (cli/mod.rs): setup, update apply, uninstall [purge], config apply,      *)
(* status and doctor clean, as processes that share the settings, cache and *)
(* state directories and the maintenance gate in the last of them.          *)
(*                                                                         *)
(* The gate is a file locked with flock(2).  MaintenanceGate::open creates  *)
(* it, and every lock opens the path again: a lock belongs to the inode the *)
(* path named at that moment.  A purge removes the gate's own directory,    *)
(* after it has let the gate go; the next open makes a new inode.           *)
(*                                                                         *)
(* Contents are left to the modules that model them: what a status helper   *)
(* merges to StatusCache, what setup writes to SettingsMigration.           *)
(***************************************************************************)
EXTENDS Naturals, Ownership

CONSTANTS
    Command,        \* processes
    MaxCommands     \* bound: commands begun

ASSUME MaxCommandsAssumption == MaxCommands \in Nat

VARIABLES
    gatePath,   \* maintenance.lock: does it exist, and which inode is it
    disk,       \* the directories that hold data
    legacy,     \* a file of an older version, outside these directories
    copies,     \* the contents doctor clean has put under backups
    units,      \* the detached units systemd-run has accepted
    command,    \* what each process is doing
    begun       \* commands begun so far

commandVars == <<gatePath, disk, legacy, copies, units, command, begun>>

-----------------------------------------------------------------------------
(* "backups" stands for the state directory but for maintenance.lock. *)
Dir == {"settings", "cache", "backups"}

Maintenance == {"setup", "update_apply", "uninstall"}
Kind == Maintenance \cup {"config_apply", "status", "doctor_clean"}

(* resolved: omarchy and systemd-run were found; agreed: the uninstall was  *)
(* confirmed; unsettled, uncached: the settings, then the cache are gone;   *)
(* released: the gate was let go; purged: the state directory is gone too.  *)
Holding == {"held", "collected", "resolved", "agreed", "unsettled", "uncached", "guarded"}
Phase   == Holding \cup {"done", "started", "waiting", "released", "purged",
                         "listed", "proved", "copied"}

(* A legacy file: made by an older version, the user's own, or a link. *)
LegacyFile == {"missing", "generated", "foreign", "symlink"}

(* What the user answers: the phrase or anything else at the prompt; a      *)
(* document on stdin that keeps the settings, that purges them, or neither. *)
Given == {"phrase", "keep", "purge", "other"}

(* What a process knows; whether it was turned down, for want of a tool or   *)
(* of the user's word (success and breakdown differ in what they leave on   *)
(* disk, not here); what it has locked (inode, and the second lock a   *)
(* status helper merges under); and the history the properties speak of:    *)
(* the directories it removed, those it still owes the user who asked for   *)
(* a purge, and what that user answered.                                    *)
Process == [kind : Kind, purge : BOOLEAN, tty : BOOLEAN, phase : Phase,
            inode : Nat, guard : Nat, refused : BOOLEAN,
            removed : SUBSET Dir, owed : SUBSET Dir, answer : Given \cup {"none"}]

newborn == [kind |-> "status", purge |-> FALSE, tty |-> FALSE, phase |-> "done",
            inode |-> 0, guard |-> 0, refused |-> FALSE,
            removed |-> {}, owed |-> {}, answer |-> "none"]

CommandsTypeOK ==
    /\ gatePath \in [exists : BOOLEAN, inode : Nat]
    /\ disk \in SUBSET Dir
    /\ legacy \in LegacyFile
    /\ copies \in SUBSET LegacyFile
    /\ units \in SUBSET {"update", "remove"}
    /\ command \in [Command -> Process]
    /\ begun \in 0..MaxCommands

CommandsInit ==
    /\ gatePath = [exists |-> TRUE, inode |-> 0]
    /\ disk = Dir
    /\ legacy = "generated"
    /\ copies = {}
    /\ units = {}
    /\ command = [c \in Command |-> newborn]
    /\ begun = 0

-----------------------------------------------------------------------------
(* Locks *)

at(c, phase) == command[c].phase = phase
runs(c, kind, phase) == command[c].kind = kind /\ command[c].phase = phase

holds(c) == command[c].phase \in Holding
exclusive(c) == holds(c) /\ command[c].kind \in Maintenance

locksOf(c) == IF ~holds(c) THEN {}
              ELSE {command[c].inode}
                     \cup (IF at(c, "guarded") THEN {command[c].guard} ELSE {})

(* flock(2): an exclusive lock is alone on its inode. *)
lockable(c, inode, kind) ==
    \A other \in Command \ {c} :
        inode \in locksOf(other) =>
            kind \notin Maintenance /\ command[other].kind \notin Maintenance

(* The directory of the gate exists: with the gate, or with a backup. *)
stateDir == gatePath.exists \/ "backups" \in disk

goes(c, phase) == command' = [command EXCEPT ![c].phase = phase]

(* The process ends, and its locks with it. *)
ends(c) == command' = [command EXCEPT ![c] = newborn]
refuses(c) == command' = [command EXCEPT ![c] = [newborn EXCEPT !.refused = TRUE]]

(* What somebody writes to d is no longer what a purge was asked to remove. *)
paid(processes, d) ==
    [c \in Command |-> [processes[c] EXCEPT !.owed = @ \ d]]

-----------------------------------------------------------------------------
(* Every command but doctor clean opens the gate first.  Only an uninstall  *)
(* looks at whether it has a terminal.                                     *)

Start(c, kind, purge, tty) ==
    /\ at(c, "done") /\ begun < MaxCommands
    /\ begun' = begun + 1
    /\ purge \/ tty => kind = "uninstall"
    /\ command' = [command EXCEPT ![c] =
           [newborn EXCEPT !.kind = kind, !.purge = purge, !.tty = tty,
                           !.phase = "started"]]
    /\ gatePath' = IF kind = "doctor_clean" THEN gatePath
                   ELSE [gatePath EXCEPT !.exists = TRUE]
    /\ UNCHANGED <<disk, legacy, copies, units>>

(* reopen: the lock file is made again, its directory is not. *)
Reopen(c) ==
    /\ at(c, "started") /\ command[c].kind # "doctor_clean"
    /\ IF stateDir
       THEN /\ gatePath' = [gatePath EXCEPT !.exists = TRUE]
            /\ command' = [command EXCEPT ![c].phase = "waiting",
                                          ![c].inode = gatePath.inode]
       ELSE ends(c) /\ UNCHANGED gatePath
    /\ UNCHANGED <<disk, legacy, copies, units, begun>>

(* lock_shared and lock_exclusive, which wait for as long as it takes. *)
Lock(c) ==
    /\ at(c, "waiting")
    /\ lockable(c, command[c].inode, command[c].kind)
    /\ goes(c, "held")
    /\ UNCHANGED <<gatePath, disk, legacy, copies, units, begun>>

(* config apply parses its input before it takes the gate. *)
Rejects(c) ==
    /\ runs(c, "config_apply", "started")
    /\ refuses(c)
    /\ UNCHANGED <<gatePath, disk, legacy, copies, units, begun>>

(* A signal, a closed terminal, a disk that says no: what was done stays. *)
Fails(c) ==
    /\ ~at(c, "done")
    /\ ends(c)
    /\ UNCHANGED <<gatePath, disk, legacy, copies, units, begun>>

-----------------------------------------------------------------------------
(* The commands that write *)

(* What ends c after it has written the directories d. *)
writes(c, d) ==
    /\ disk' = disk \cup d
    /\ command' = paid([command EXCEPT ![c] = newborn], d)
    /\ UNCHANGED <<gatePath, legacy, copies, units, begun>>

(* setup: migrate_live_paths backs up before it writes; settings that are   *)
(* v10 already are left alone.                                             *)
Migrate(c) ==
    /\ runs(c, "setup", "held")
    /\ \E d \in {{}, {"backups"}, {"backups", "settings"}} : writes(c, d)

(* BUG: the document is written before the gate is taken. *)
Mutant_ApplySettings(c) ==
    /\ command[c].kind = "config_apply"
    /\ command[c].phase \in {"waiting", "held"}
    /\ writes(c, {"settings"})

(* SettingsStore::apply: replace_atomically makes the directory if need be, *)
(* and may fail to sync it when the new file is already in place.           *)
ApplySettings(c) ==
    /\ runs(c, "config_apply", "held")
    /\ writes(c, {"settings"})

(* A status helper finds every row fresh, or collects one that is not. *)
ServeCache(c) ==
    /\ runs(c, "status", "held")
    /\ writes(c, {})

Collect(c) ==
    /\ runs(c, "status", "held")
    /\ goes(c, "collected")
    /\ UNCHANGED <<gatePath, disk, legacy, copies, units, begun>>

(* BUG: the second lock is exclusive and waited for. *)
Mutant_TryGuard(c) ==
    /\ runs(c, "status", "collected")
    /\ stateDir /\ \A d \in Command : gatePath.inode \notin locksOf(d)
    /\ gatePath' = [gatePath EXCEPT !.exists = TRUE]
    /\ command' = [command EXCEPT ![c].phase = "guarded", ![c].guard = gatePath.inode]
    /\ UNCHANGED <<disk, legacy, copies, units, begun>>

(* merge_provider opens the gate again and does not wait for it. *)
TryGuard(c) ==
    /\ runs(c, "status", "collected")
    /\ IF stateDir /\ lockable(c, gatePath.inode, "status")
       THEN /\ gatePath' = [gatePath EXCEPT !.exists = TRUE]
            /\ command' = [command EXCEPT ![c].phase = "guarded",
                                          ![c].guard = gatePath.inode]
       ELSE ends(c) /\ UNCHANGED gatePath
    /\ UNCHANGED <<disk, legacy, copies, units, begun>>

WriteCache(c) ==
    /\ runs(c, "status", "guarded")
    /\ writes(c, {"cache"})

-----------------------------------------------------------------------------
(* update apply and uninstall *)

(* remove_dir_all_idempotent: what is gone already counts as removed. *)
removes(c, d, phase) ==
    /\ disk' = disk \ {d}
    /\ command' = [paid(command, {d}) EXCEPT ![c].phase = phase,
                                             ![c].removed = @ \cup {d}]

(* resolve_absolute_executable, for omarchy and for systemd-run. *)
ResolveTools(c, found) ==
    /\ at(c, "held") /\ command[c].kind \in {"update_apply", "uninstall"}
    /\ IF found THEN goes(c, "resolved") ELSE refuses(c)
    /\ UNCHANGED <<gatePath, disk, legacy, copies, units, begun>>

(* BUG: the document's own word on the purge is not compared. *)
Mutant_confirms(purge, tty, given) ==
    IF tty THEN given = "phrase" ELSE given \in {"keep", "purge"}

(* confirm_uninstall and UninstallConfirmation::validate. *)
confirms(purge, tty, given) ==
    given = IF tty THEN "phrase" ELSE IF purge THEN "purge" ELSE "keep"

(* The gate is held for as long as the user takes to answer.  A purge owes  *)
(* what is there now.                                                      *)
Confirm(c, given) ==
    /\ runs(c, "uninstall", "resolved")
    /\ IF confirms(command[c].purge, command[c].tty, given)
       THEN command' = [command EXCEPT
               ![c].phase = "agreed",
               ![c].owed = IF command[c].purge THEN disk ELSE {},
               ![c].answer = given]
       ELSE refuses(c)
    /\ UNCHANGED <<gatePath, disk, legacy, copies, units, begun>>

RemoveSettings(c) ==
    /\ runs(c, "uninstall", "agreed") /\ command[c].purge
    /\ removes(c, "settings", "unsettled")
    /\ UNCHANGED <<gatePath, legacy, copies, units, begun>>

(* BUG: the cache is left to the plugin manager. *)
Mutant_RemoveCache(c) ==
    /\ runs(c, "uninstall", "unsettled")
    /\ goes(c, "uncached")
    /\ UNCHANGED <<gatePath, disk, legacy, copies, units, begun>>

RemoveCache(c) ==
    /\ runs(c, "uninstall", "unsettled")
    /\ removes(c, "cache", "uncached")
    /\ UNCHANGED <<gatePath, legacy, copies, units, begun>>

(* drop(exclusive) *)
Release(c) ==
    /\ runs(c, "uninstall", IF command[c].purge THEN "uncached" ELSE "agreed")
    /\ goes(c, "released")
    /\ UNCHANGED <<gatePath, disk, legacy, copies, units, begun>>

(* The state directory: backups, and the gate's own file. *)
RemoveState(c) ==
    /\ runs(c, "uninstall", "released") /\ command[c].purge
    /\ removes(c, "backups", "purged")
    /\ gatePath' = [exists |-> FALSE,
                    inode |-> IF gatePath.exists THEN gatePath.inode + 1
                              ELSE gatePath.inode]
    /\ copies' = {}
    /\ UNCHANGED <<legacy, units, begun>>

(* systemd-run accepts the unit that calls omarchy, or does not. *)
HandOff(c, accepted) ==
    /\ \/ runs(c, "update_apply", "resolved")
       \/ runs(c, "uninstall", IF command[c].purge THEN "purged" ELSE "released")
    /\ units' = IF ~accepted THEN units
                ELSE units \cup {IF command[c].kind = "uninstall" THEN "remove"
                                 ELSE "update"}
    /\ ends(c)
    /\ UNCHANGED <<gatePath, disk, legacy, copies, begun>>

-----------------------------------------------------------------------------
(* doctor clean, which takes no gate *)

kindOf(content) == IF content \in {"missing", "symlink"} THEN content ELSE "file"

removable(content) ==
    may_auto_remove(classify_artifact("legacy", kindOf(content), content,
        default_ownership_rules({"legacy"}, {"generated"})))

(* doctor_scan; the backup root is made before anything is known to need it. *)
Scan(c) ==
    /\ runs(c, "doctor_clean", "started")
    /\ disk' = disk \cup {"backups"}
    /\ command' = paid([command EXCEPT
           ![c] = IF removable(legacy) THEN [@ EXCEPT !.phase = "listed"] ELSE newborn],
           {"backups"})
    /\ UNCHANGED <<gatePath, legacy, copies, units, begun>>

(* Classified again at clean time. *)
Reclassify(c) ==
    /\ at(c, "listed")
    /\ IF removable(legacy) THEN goes(c, "proved") ELSE ends(c)
    /\ UNCHANGED <<gatePath, disk, legacy, copies, units, begun>>

(* BUG: a copy that cannot be made is no reason to stop. *)
Mutant_BackUp(c) ==
    /\ at(c, "proved")
    /\ goes(c, "copied")
    /\ UNCHANGED <<gatePath, disk, legacy, copies, units, begun>>

BackUp(c) ==
    /\ at(c, "proved")
    /\ IF legacy = "missing" THEN ends(c) /\ UNCHANGED <<disk, copies>>
       ELSE /\ copies' = copies \cup {legacy}
            /\ disk' = disk \cup {"backups"}
            /\ command' = paid([command EXCEPT ![c].phase = "copied"], {"backups"})
    /\ UNCHANGED <<gatePath, legacy, units, begun>>

RemoveLegacy(c) ==
    /\ at(c, "copied")
    /\ legacy' = "missing"
    /\ ends(c)
    /\ UNCHANGED <<gatePath, disk, copies, units, begun>>

(* The user takes the file over, or away, or puts a link in its place.      *)
(* Nobody can tell when, but doctor clean.                                 *)
UserEdits(content) ==
    /\ legacy = "generated" /\ content # legacy
    /\ \E c \in Command : command[c].kind = "doctor_clean" /\ ~at(c, "done")
    /\ legacy' = content
    /\ UNCHANGED <<gatePath, disk, copies, units, command, begun>>

-----------------------------------------------------------------------------
(* The steps of a process, but for the user's answer to an uninstall. *)
GateStep(c) == Reopen(c) \/ Lock(c) \/ Rejects(c)

WriteStep(c) == Migrate(c) \/ ApplySettings(c) \/ ServeCache(c) \/ Collect(c)
                   \/ TryGuard(c) \/ WriteCache(c)

HandOffStep(c) ==
    \/ \E found \in BOOLEAN : ResolveTools(c, found)
    \/ RemoveSettings(c) \/ RemoveCache(c) \/ Release(c) \/ RemoveState(c)
    \/ \E accepted \in BOOLEAN : HandOff(c, accepted)

DoctorStep(c) == Scan(c) \/ Reclassify(c) \/ BackUp(c) \/ RemoveLegacy(c)

CommandStep(c) == GateStep(c) \/ WriteStep(c) \/ HandOffStep(c) \/ DoctorStep(c)

-----------------------------------------------------------------------------
(* Commands that exclude each other hold the gate at once only on different *)
(* inodes: after a purge has removed the file the older one had locked      *)
(* (ARCH-026).  A status helper holds two locks, maybe on two inodes.       *)
GateExcludes ==
    \A c, d \in Command :
        c # d /\ exclusive(c) /\ holds(d) => command[c].inode \notin locksOf(d)

(* A purge is shut off from the writers: while it holds the gate, settings  *)
(* and cache appear only at the hands of a command whose lock is on another *)
(* inode.                                                                  *)
purging(c) == command[c].phase \in {"unsettled", "uncached"}

WritersAreShutOut ==
    [][\A c \in Command, d \in {"settings", "cache"} :
         purging(c) /\ d \notin disk /\ d \in disk' =>
            \E w \in Command : holds(w) /\ command[w].inode # command[c].inode]_commandVars

(* A command that refuses, for want of a tool or of the user's word, has    *)
(* removed nothing ("must fail closed before anything destructive happens").*)
FailsClosed ==
    [][\A c \in Command :
         ~at(c, "done") /\ command'[c].phase = "done" /\ command'[c].refused
            => command[c].removed = {}]_commandVars

(* A purge that got as far as the handoff leaves nothing of what there was   *)
(* when the user confirmed it, whatever an earlier purge that died had      *)
(* removed and whatever other commands did meanwhile; what they wrote since *)
(* is theirs.                                                              *)
PurgeLeavesNothing ==
    [][\A c \in Command :
         runs(c, "uninstall", "purged") /\ command'[c].phase = "done"
            => command[c].owed = {}]_commandVars

(* What doctor clean removes with proof is in the backups, unless a purge   *)
(* took those as well (CLEAN-007).                                         *)
ProvenIsBackedUp ==
    [][legacy = "generated" /\ legacy' = "missing" /\ command' # command =>
         "generated" \in copies \/ ~gatePath.exists \/ gatePath.inode # 0]_commandVars

(* Directories are removed only by an uninstall whose user typed the phrase *)
(* or sent a document that purges, the plugin's removal is handed off only  *)
(* by one whose user agreed to just what it did.                           *)
RemovalIsConsented ==
    [][/\ ~(disk \subseteq disk') =>
             \E c \in Command : /\ command[c].answer \in {"phrase", "purge"}
                               /\ command'[c].removed # command[c].removed
       /\ "remove" \in units' \ units =>
             \E c \in Command :
                /\ command'[c] # command[c]
                /\ IF command[c].removed = {} THEN command[c].answer \in {"phrase", "keep"}
                   ELSE command[c].removed = Dir /\ command[c].answer \in {"phrase", "purge"}]_commandVars

-----------------------------------------------------------------------------
(* architecture.md: the gate is held over "the purge/preflight/handoff step *)
(* ... preventing an external helper from recreating cache or notification  *)
(* state mid-operation": from its first removal to its handoff, an          *)
(* uninstall that nobody's purge has overtaken sees nothing come back.      *)
NothingIsRecreated ==
    [][gatePath.inode = 0 =>
         \A c \in Command, d \in {"settings", "cache"} :
            command[c].kind = "uninstall" /\ d \in command[c].removed /\ d \notin disk
               => d \notin disk']_commandVars
=============================================================================
