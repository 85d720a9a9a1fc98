-------------------------- MODULE SettingsMigration --------------------------
(***************************************************************************)
(* `agent-bar setup`: the migration of v9 settings and of the refresh       *)
(* interval that v9 kept inline in shell.json (settings/migration.rs), with *)
(* the other writer of settings.json, `config apply` (settings/store.rs).   *)
(*                                                                         *)
(* Setups take the maintenance gate exclusively and config apply takes it   *)
(* shared; shell.json belongs to others, who take no gate.  A setup may     *)
(* fail or be killed between any two of its writes and be run again.        *)
(* Documents are what the migration looks at: the interval and the lists of *)
(* providers.  The three inline keys are one.                              *)
(***************************************************************************)
EXTENDS Naturals, Sequences, SequencesExt

CONSTANTS
    Setup, NoSetup,    \* runs of `agent-bar setup`
    AllProviders,      \* ProviderId::ALL, in its order
    Interval,          \* refresh intervals in range; 0 stands for none
    Word,              \* 2^32: a v9 interval is 64 bits wide, a stored one 32
    DefaultInterval,
    Settings0, Shell0, \* the documents setup may find
    Applied,           \* documents config apply may bring
    MaxApplies,        \* bound: config apply runs
    MaxEdits           \* bound: changes of shell.json by others

ASSUME SetupAssumption == NoSetup \notin Setup
ASSUME AllProvidersAssumption ==
    /\ AllProviders \in Seq(Range(AllProviders))
    /\ IsInjective(AllProviders)
ASSUME IntervalAssumption ==
    Word \in Nat /\ Interval \subseteq 1..Word - 1 /\ DefaultInterval \in Interval
ASSUME MigrationBoundsAssumption == MaxApplies \in Nat /\ MaxEdits \in Nat

VARIABLES
    settings,  \* settings.json
    shell,     \* shell.json
    gate,      \* who holds the maintenance gate exclusively
    phase,     \* where each setup is
    read,      \* both documents as each setup read them
    backup,    \* the backup directory of each setup
    original,  \* history: both documents as the first setup found them
    applies    \* config apply runs so far

vars == <<settings, shell, gate, phase, read, backup, original, applies>>

-----------------------------------------------------------------------------
(* settings.json is absent, empty, not JSON, a v9 document, a v10 document, *)
(* or "edited": one with v10 keys that the strict parser refuses.          *)
absent == [kind |-> "absent"]
v9(interval, enabled, order) ==
    [kind |-> "v9", interval |-> interval, enabled |-> enabled, order |-> order]
v10(interval, providers) ==
    [kind |-> "v10", interval |-> interval, providers |-> providers]

isV10(doc) == doc.interval \in Interval /\ doc = v10(doc.interval, doc.providers)

(* A list of provider names in a v9 document, or its absence. *)
noList == [given |-> FALSE, names |-> <<>>]
list(names) == [given |-> TRUE, names |-> names]

isSeq(s) == s \in Seq(Range(s))

(* config apply takes none but valid v10 documents. *)
ASSUME DocumentsAssumption ==
    /\ \A doc \in Settings0 :
          /\ doc.kind = "v10" => isV10(doc)
          /\ doc.kind = "v9" =>
                doc.interval \in Nat /\ isSeq(doc.enabled.names) /\ isSeq(doc.order.names)
    /\ \A doc \in Applied : isV10(doc)

(* shell.json: the inline interval, 0 for none, and what belongs to others. *)
Shell == [state : {"absent", "invalid", "valid"}, inline : Nat, rest : Nat]
noShell == [state |-> "absent", inline |-> 0, rest |-> 0]

Phase == {"idle", "gate", "locked", "shell", "backup", "store", "backupShell",
          "storeShell", "finish", "done", "gone"}

Init ==
    /\ settings \in Settings0 /\ shell \in Shell0
    /\ gate = NoSetup
    /\ phase = [s \in Setup |-> "idle"]
    /\ read = [s \in Setup |-> [settings |-> absent, shell |-> noShell]]
    /\ backup = [s \in Setup |-> [settings |-> absent, shell |-> noShell]]
    /\ original = [settings |-> settings, shell |-> shell]
    /\ applies = 0

-----------------------------------------------------------------------------
(* MigrationPlan::from_v9 *)

defaults == v10(DefaultInterval,
                [n \in DOMAIN AllProviders |-> [id |-> AllProviders[n], enabled |-> TRUE]])

(* A known name that is not in the list yet joins it. *)
place(ids, id) ==
    IF Contains(AllProviders, id) /\ ~Contains(ids, id) THEN Append(ids, id) ELSE ids

(* BUG: names are placed by their last mention. *)
Mutant_placed(names) == Reverse(FoldLeft(place, <<>>, Reverse(names \o AllProviders)))

(* Known names in the order of their first mention, then all the others. *)
placed(names) == FoldLeft(place, <<>>, names \o AllProviders)

(* The interval of a v9 document is cut to 32 bits before anything else: an  *)
(* explicit 0 is as Word, which leaves nothing.                            *)
asU32(interval) == interval % Word

(* migrate_v9_settings: the order falls back to the enabled list, that to   *)
(* all providers; if no known one is enabled, all are.                     *)
fromV9(doc) ==
    LET enabledList == IF doc.enabled.given THEN doc.enabled.names ELSE AllProviders
        orderList   == IF doc.order.given THEN doc.order.names ELSE enabledList
        ids         == placed(orderList)
        anyEnabled  == \E n \in DOMAIN ids : Contains(enabledList, ids[n])
    IN  v10(IF doc.interval = 0 THEN DefaultInterval ELSE asU32(doc.interval),
            [n \in DOMAIN ids |->
                [id |-> ids[n], enabled |-> Contains(enabledList, ids[n]) \/ ~anyEnabled]])

migrated(doc) ==
    IF doc.kind = "v10" THEN doc ELSE IF doc.kind = "v9" THEN fromV9(doc) ELSE defaults

(* BUG: only v9 settings have an interval of their own. *)
Mutant_hasInterval(doc) == doc.kind = "v9" /\ doc.interval # 0

(* The settings have an interval of their own, so the inline one is dropped. *)
hasInterval(doc) == doc.kind \in {"v9", "v10"} /\ doc.interval # 0

(* Invalid recognized values, and documents that are no JSON.  The inline   *)
(* interval is checked at its full width, that of a v9 document is not.    *)
aborts(doc, sh) ==
    \/ doc.kind = "invalid"
    \/ doc.kind = "v9" /\ doc.interval # 0 /\ asU32(doc.interval) \notin Interval
    \/ sh.state = "invalid"
    \/ sh.inline \notin Interval \cup {0}

(* An inline interval stands in for the one the settings lack. *)
planned(doc, sh) ==
    LET plan == migrated(doc)
    IN  v10(IF sh.inline # 0 /\ ~hasInterval(doc) THEN sh.inline ELSE plan.interval,
            plan.providers)

alreadyMigrated(doc, sh) == doc.kind = "v10" /\ sh.inline = 0

-----------------------------------------------------------------------------
(* One setup *)

goes(s, next) == phase' = [phase EXCEPT ![s] = next]

(* An end of any kind, a kill included: the gate is let go. *)
ends(s, next) ==
    /\ goes(s, next)
    /\ gate' = IF gate = s THEN NoSetup ELSE gate

Starts(s) ==
    /\ phase[s] = "idle"
    /\ goes(s, "gate")
    /\ UNCHANGED <<settings, shell, gate, read, backup, original, applies>>

(* BUG: the gate is opened, not locked. *)
Mutant_LocksGate(s) ==
    /\ phase[s] = "gate"
    /\ goes(s, "locked")
    /\ UNCHANGED <<settings, shell, gate, read, backup, original, applies>>

LocksGate(s) ==
    /\ phase[s] = "gate" /\ gate = NoSetup
    /\ gate' = s
    /\ goes(s, "locked")
    /\ UNCHANGED <<settings, shell, read, backup, original, applies>>

ReadsSettings(s) ==
    /\ phase[s] = "locked"
    /\ read' = [read EXCEPT ![s] = [settings |-> settings, shell |-> noShell]]
    /\ goes(s, "shell")
    /\ UNCHANGED <<settings, shell, gate, backup, original, applies>>

(* shell.json is read and the plan made: it aborts, finds nothing to do, or *)
(* goes on to write.                                                       *)
ReadsShell(s) ==
    /\ phase[s] = "shell"
    /\ LET next == IF aborts(read[s].settings, shell) THEN "gone"
                   ELSE IF alreadyMigrated(read[s].settings, shell) THEN "done"
                   ELSE "backup"
       IN /\ goes(s, next)
          /\ gate' = IF next # "backup" /\ gate = s THEN NoSetup ELSE gate
    /\ read' = [read EXCEPT ![s] = [settings |-> @.settings, shell |-> shell]]
    /\ UNCHANGED <<settings, shell, backup, original, applies>>

(* The file is read once more for its backup. *)
BacksUpSettings(s) ==
    /\ phase[s] = "backup"
    /\ backup' = [backup EXCEPT ![s] = [settings |-> settings, shell |-> @.shell]]
    /\ goes(s, "store")
    /\ UNCHANGED <<settings, shell, gate, read, original, applies>>

StoresSettings(s) ==
    /\ phase[s] = "store"
    /\ settings' = planned(read[s].settings, read[s].shell)
    /\ goes(s, IF read[s].shell.inline # 0 THEN "backupShell" ELSE "finish")
    /\ UNCHANGED <<shell, gate, read, backup, original, applies>>

BacksUpShell(s) ==
    /\ phase[s] = "backupShell"
    /\ backup' = [backup EXCEPT ![s] = [settings |-> @.settings, shell |-> read[s].shell]]
    /\ goes(s, "storeShell")
    /\ UNCHANGED <<settings, shell, gate, read, original, applies>>

(* strip_agent_bar_inline_keys of the shell.json that was read. *)
StoresShell(s) ==
    /\ phase[s] = "storeShell"
    /\ shell' = [state |-> "valid", inline |-> 0, rest |-> read[s].shell.rest]
    /\ goes(s, "finish")
    /\ UNCHANGED <<settings, gate, read, backup, original, applies>>

(* The manifest is written. *)
Finishes(s) ==
    /\ phase[s] = "finish"
    /\ ends(s, "done")
    /\ UNCHANGED <<settings, shell, read, backup, original, applies>>

(* A read or write that fails, or a kill. *)
Dies(s) ==
    /\ phase[s] \notin {"idle", "done", "gone"}
    /\ ends(s, "gone")
    /\ UNCHANGED <<settings, shell, read, backup, original, applies>>

-----------------------------------------------------------------------------
(* config apply: a valid document, under the shared gate. *)
ConfigApplies(doc) ==
    /\ applies < MaxApplies
    /\ gate = NoSetup
    /\ settings' = doc
    /\ applies' = applies + 1
    /\ UNCHANGED <<shell, gate, phase, read, backup, original>>

(* omarchy and the user change what is theirs in shell.json. *)
ShellEdited ==
    /\ shell.state = "valid" /\ shell.rest < MaxEdits
    /\ shell' = [shell EXCEPT !.rest = @ + 1]
    /\ UNCHANGED <<settings, gate, phase, read, backup, original, applies>>

SetupNext(s) ==
    \/ Starts(s) \/ LocksGate(s) \/ ReadsSettings(s) \/ ReadsShell(s)
    \/ BacksUpSettings(s) \/ StoresSettings(s) \/ BacksUpShell(s) \/ StoresShell(s)
    \/ Finishes(s) \/ Dies(s)

Next ==
    \/ \E s \in Setup : SetupNext(s)
    \/ \E doc \in Applied : ConfigApplies(doc)
    \/ ShellEdited

Spec == Init /\ [][Next]_vars

-----------------------------------------------------------------------------
(* Properties *)

IntervalOf(doc) == IF doc.kind \in {"v9", "v10"} THEN doc.interval ELSE 0

(* The names a v9 document puts in order. *)
Mentioned(doc) ==
    IF doc.kind = "v9" /\ doc.order.given THEN doc.order.names
    ELSE IF doc.kind = "v9" /\ doc.enabled.given THEN doc.enabled.names
    ELSE <<>>

FirstIn(names, id) == SelectInSeq(names, LAMBDA n : n = id)

(* By first mention, then as in AllProviders. *)
Rank(id, names) ==
    IF Contains(names, id) THEN FirstIn(names, id)
    ELSE Len(names) + FirstIn(AllProviders, id)

EnabledIn(doc, id) ==
    \/ doc.kind # "v9"
    \/ ~doc.enabled.given
    \/ Contains(doc.enabled.names, id)
    \/ Range(doc.enabled.names) \cap Range(AllProviders) = {}

(* Types. *)
TypeOK ==
    /\ shell \in Shell
    /\ gate \in Setup \cup {NoSetup}
    /\ \A s \in Setup : phase[s] \in Phase /\ read[s].shell \in Shell
    /\ applies \in 0 .. MaxApplies

(* What the migration can convert: nothing, or a v9 document without an      *)
(* interval or with a valid one.                                           *)
Convertible(doc) ==
    \/ doc.kind \in {"absent", "blank"}
    \/ doc.kind = "v9" /\ doc.interval \in Interval \cup {0}

(* What it must refuse, and does: documents that are no JSON, and intervals  *)
(* out of range, if the one of a v9 document fits in 32 bits.              *)
Refused(doc, sh) ==
    \/ doc.kind = "invalid"
    \/ doc.kind = "v9" /\ doc.interval \in (1..Word - 1) \ Interval
    \/ sh.state = "invalid"
    \/ sh.inline \notin Interval \cup {0}

(* MIG-009, MIG-010, MIG-015, until somebody configures and whichever setups  *)
(* died on the way.  The inline interval leaves shell.json only when the    *)
(* settings have become v10.  A document that is refused is never replaced, *)
(* nor is the shell.json beside it.  v10 settings made from a convertible   *)
(* one keep its interval (its own, else the inline one, else the default),  *)
(* and list every provider once, in its order and with its enablement.      *)
(* Two kinds of document are neither: a v9 interval wider than 32 bits, and *)
(* v10 keys that the strict parser refuses.  Of these nothing holds but the *)
(* first sentence: see InvalidIsNotReplaced.                               *)
PreservesSettings ==
    /\ original.shell.inline # shell.inline => settings.kind = "v10"
    /\ applies = 0 /\ Refused(original.settings, original.shell) =>
         settings = original.settings /\ shell.inline = original.shell.inline
    /\ applies = 0 /\ settings.kind = "v10" /\ Convertible(original.settings) =>
         LET own    == IntervalOf(original.settings)
             inline == original.shell.inline
             list1  == settings.providers
         IN /\ settings.interval =
                 IF own # 0 THEN own ELSE IF inline # 0 THEN inline ELSE DefaultInterval
            /\ Len(list1) = Len(AllProviders)
            /\ \A n \in 1 .. Len(list1) - 1 :
                 Rank(list1[n].id, Mentioned(original.settings))
                    < Rank(list1[n + 1].id, Mentioned(original.settings))
            /\ \A n \in DOMAIN list1 :
                 list1[n].enabled = EnabledIn(original.settings, list1[n].id)

(* 06-migration-and-legacy-removal.md:75 (MIG-015), "Invalid recognized      *)
(* values abort before replacement", of the other two kinds.  The code does *)
(* not keep it: an interval of 2^32 + 60 becomes 60, and settings with v10  *)
(* keys that the strict parser refuses become the defaults.  No run has it. *)
InvalidIsNotReplaced ==
    applies = 0 /\ original.settings.kind \notin {"absent", "blank", "v10"}
                /\ ~Convertible(original.settings) =>
        settings = original.settings

(* MIG-016: settings that are v10 are changed by config apply only, though   *)
(* setups that died after writing them run again with the inline interval  *)
(* still in shell.json.                                                    *)
MigratedIsLeftAlone ==
    [][settings.kind = "v10" /\ settings' # settings => applies' # applies]_vars

(* MIG-001: the settings a setup replaces are the ones it read, migrated and *)
(* backed up: nothing that config apply or another setup stored meanwhile   *)
(* is lost unsaved.                                                        *)
ReplacesWhatItRead ==
    [][\A s \in Setup :
         phase[s] = "store" /\ phase'[s] # "store" /\ settings' # settings =>
            settings = read[s].settings /\ backup[s].settings = settings]_vars
=============================================================================
