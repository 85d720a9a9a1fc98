----------------------------- MODULE StatusCache -----------------------------
(***************************************************************************)
(* The helper processes of `agent-bar status` and the normalized cache they *)
(* share (status/coordinator.rs, cache/store.rs, support/maintenance_gate), *)
(* with the maintenance commands that shut them out and, on a purge, remove *)
(* what they share (cli/mod.rs).                                           *)
(*                                                                         *)
(* A helper is one process and runs one collection: the service's lane, a   *)
(* terminal, a second session.  Locks are flock(2) locks: they belong to    *)
(* the inode the path named when it was opened, and go with their process.  *)
(* CacheCoordinator's generations live in one process, which collects each  *)
(* provider once, so its bypass acceptance is never taken and is left out.  *)
(***************************************************************************)
EXTENDS Naturals, FiniteSets

CONSTANTS
    Provider,
    LogBacked,        \* providers whose answer may be read from an old log
    Helper,
    NoHelper,
    Ttl,              \* cache_ttl, in clock ticks
    MaxTime,          \* bound: the clock stops here
    MaxMaintenance    \* bound: maintenance commands

ASSUME ProviderAssumption == IsFiniteSet(Provider)
ASSUME LogBackedAssumption == LogBacked \subseteq Provider
ASSUME NoHelperAssumption == NoHelper \notin Helper
ASSUME CacheBoundsAssumption ==
    Ttl \in Nat \ {0} /\ MaxTime \in Nat /\ MaxMaintenance \in Nat

VARIABLES
    now,
    file,          \* status-v2.json
    lock,          \* who holds status.lock
    gatePath,      \* maintenance.lock: does it exist, and which inode is it
    helper,        \* what each helper process knows
    maintenance,   \* the maintenance command
    commands       \* maintenance commands begun so far

vars == <<now, file, lock, gatePath, helper, maintenance, commands>>

-----------------------------------------------------------------------------
(* A provider's entry: when its collection started and completed, the state *)
(* of its row, and when the usage data it shows was read.  "failed" stands  *)
(* for the four states that show none.                                     *)
Time   == 0..MaxTime
noData == MaxTime + 1
State  == {"none", "ready", "stale", "failed"}
Answer == {"ready", "temporary", "permanent"}

Entry  == [started : Time, completed : Time, state : State,
           success : Time \cup {noData}]
noEntry == [started |-> 0, completed |-> 0, state |-> "none", success |-> noData]

Document == [Provider -> Entry]
empty    == [p \in Provider |-> noEntry]

File   == [state : {"absent", "corrupt", "valid"}, doc : Document]
absent  == [state |-> "absent",  doc |-> empty]
corrupt == [state |-> "corrupt", doc |-> empty]
valid(doc) == [state |-> "valid", doc |-> doc]

Collecting == {"next", "fetch", "merge", "lock", "replace"}
Phase == {"idle", "gate", "load", "quarantine", "gone"} \cup Collecting

(* What a helper knows: its request, the gate inode it opened and the one   *)
(* merge_provider opened, its document, the providers left to collect, the  *)
(* one it collects with the entry it will write, and (history) the rows it  *)
(* reports of generations that started before its request.                 *)
Local == [phase : Phase, mode : {"use", "bypass"}, targets : SUBSET Provider,
          requested : Time, gate : Nat, guard : Nat, doc : Document,
          todo : SUBSET Provider, current : SUBSET Provider, entry : Entry,
          outdated : SUBSET Provider]

newborn == [phase |-> "idle", mode |-> "use", targets |-> {}, requested |-> 0,
            gate |-> 0, guard |-> 0, doc |-> empty, todo |-> {},
            current |-> {}, entry |-> noEntry, outdated |-> {}]

TypeOK ==
    /\ now \in Time
    /\ file \in File
    /\ lock \in Helper \cup {NoHelper}
    /\ gatePath \in [exists : BOOLEAN, inode : Nat]
    /\ helper \in [Helper -> Local]
    /\ maintenance \in [phase : {"none", "gate", "exclusive", "purged", "dropped"},
                        inode : Nat]
    /\ commands \in 0..MaxMaintenance

Init ==
    /\ now = 0
    /\ file \in {absent, corrupt}
    /\ lock = NoHelper
    /\ gatePath = [exists |-> FALSE, inode |-> 0]
    /\ helper = [h \in Helper |-> newborn]
    /\ maintenance = [phase |-> "none", inode |-> 0]
    /\ commands = 0

-----------------------------------------------------------------------------
(* Locks *)

sharedOn(inode) ==
    \E h \in Helper :
        \/ helper[h].phase \in {"load", "quarantine"} \cup Collecting
           /\ helper[h].gate = inode
        \/ helper[h].phase \in {"lock", "replace"} /\ helper[h].guard = inode

exclusiveOn(inode) == maintenance.phase \in {"exclusive", "purged"}
                         /\ maintenance.inode = inode

(* The process is gone, done or by an error or a signal, and its locks with *)
(* it.                                                                     *)
dies(h) ==
    /\ helper' = [helper EXCEPT ![h] = [newborn EXCEPT !.phase = "gone"]]
    /\ lock' = IF lock = h THEN NoHelper ELSE lock

-----------------------------------------------------------------------------
(* One collection *)

(* dispatch_status opens the gate, creating its file; collect takes the     *)
(* time of the request, the targets from the command line or the settings,  *)
(* and opens the gate once more to wait for it.                            *)
Start(h, mode, targets) ==
    /\ helper[h].phase = "idle"
    /\ targets # {}
    /\ gatePath' = [gatePath EXCEPT !.exists = TRUE]
    /\ helper' = [helper EXCEPT ![h] =
           [newborn EXCEPT !.phase = "gate", !.mode = mode, !.targets = targets,
                           !.requested = now, !.gate = gatePath.inode]]
    /\ UNCHANGED <<now, file, lock, maintenance, commands>>

(* BUG: the gate is opened, not locked. *)
Mutant_TakeGate(h) ==
    /\ helper[h].phase = "gate"
    /\ helper' = [helper EXCEPT ![h].phase = "load"]
    /\ UNCHANGED <<now, file, lock, gatePath, maintenance, commands>>

(* gate.lock_shared: held to the end of the collection. *)
TakeGate(h) ==
    /\ helper[h].phase = "gate"
    /\ ~exclusiveOn(helper[h].gate)
    /\ helper' = [helper EXCEPT ![h].phase = "load"]
    /\ UNCHANGED <<now, file, lock, gatePath, maintenance, commands>>

fresh(entry, time) == entry.state # "none" /\ time < entry.completed + Ttl

(* BUG: a forced request accepts a generation that completed after it.      *)
Mutant_servedFrom(doc, mode, targets, requested) ==
    {p \in targets : IF mode = "use" THEN fresh(doc[p], requested)
                     ELSE doc[p].state # "none" /\ doc[p].completed >= requested}

(* The targets a loaded document answers without a collection. *)
servedFrom(doc, mode, targets, requested) ==
    {p \in targets : mode = "use" /\ fresh(doc[p], requested)}

(* Of a document a helper looks at the providers it still has to collect. *)
only(providers, doc) == [p \in Provider |-> IF p \in providers THEN doc[p] ELSE noEntry]

(* The collection goes on from the document it has read. *)
goesOnWith(h, doc) ==
    LET me == helper[h]
        served == servedFrom(doc, me.mode, me.targets, me.requested)
    IN  helper' = [helper EXCEPT ![h] =
            [me EXCEPT !.phase = "next", !.todo = me.targets \ served,
                       !.doc = only(me.targets \ served, doc),
                       !.outdated = {p \in served : doc[p].started < me.requested}]]

(* CacheStore.load, without status.lock *)
Load(h) ==
    /\ helper[h].phase = "load"
    /\ IF file.state = "corrupt"
       THEN helper' = [helper EXCEPT ![h].phase = "quarantine"]
       ELSE goesOnWith(h, file.doc)
    /\ UNCHANGED <<now, file, lock, gatePath, maintenance, commands>>

(* quarantine copies the bytes it read and removes the path, whatever is    *)
(* there by now.                                                           *)
Quarantine(h) ==
    /\ helper[h].phase = "quarantine"
    /\ file' = absent
    /\ goesOnWith(h, empty)
    /\ UNCHANGED <<now, lock, gatePath, maintenance, commands>>

(* The next provider's collection starts. *)
Begin(h, p) ==
    /\ helper[h].phase = "next"
    /\ p \in helper[h].todo
    /\ helper' = [helper EXCEPT ![h].phase = "fetch", ![h].current = {p},
                                ![h].todo = @ \ {p},
                                ![h].entry = [noEntry EXCEPT !.started = now]]
    /\ UNCHANGED <<now, file, lock, gatePath, maintenance, commands>>

(* BUG: the retained row is stamped with the time of the failure. *)
Mutant_retained(answer, prior, read) ==
    IF answer = "temporary" /\ prior.state \in {"ready", "stale"}
    THEN [state |-> "stale", success |-> now]
    ELSE IF answer = "ready" THEN [state |-> "ready", success |-> read]
    ELSE [state |-> "failed", success |-> noData]

(* apply_stale_retention: a temporary failure keeps the data of a ready or  *)
(* stale prior.                                                            *)
retained(answer, prior, read) ==
    IF answer = "temporary" /\ prior.state \in {"ready", "stale"}
    THEN [state |-> "stale", success |-> prior.success]
    ELSE IF answer = "ready" THEN [state |-> "ready", success |-> read]
    ELSE [state |-> "failed", success |-> noData]

(* The provider answers, with data of the moment or (codex's session log)   *)
(* of an earlier one, or fails one way or the other.  The prior is what     *)
(* this process read or wrote last, not what the file holds by now.         *)
Fetched(h, p, answer, read) ==
    /\ helper[h].phase = "fetch" /\ helper[h].current = {p}
    /\ LET row == retained(answer, helper[h].doc[p], read) IN
       helper' = [helper EXCEPT ![h].phase = "merge",
            ![h].entry = [started |-> @.started, completed |-> now,
                          state |-> row.state, success |-> row.success]]
    /\ UNCHANGED <<now, file, lock, gatePath, maintenance, commands>>

(* merge_provider opens the gate a second time and does not wait for it;    *)
(* without its directory the file cannot be opened.                        *)
TryGuard(h) ==
    /\ helper[h].phase = "merge"
    /\ IF gatePath.exists /\ ~exclusiveOn(gatePath.inode)
       THEN /\ helper' = [helper EXCEPT ![h].phase = "lock",
                                        ![h].guard = gatePath.inode]
            /\ UNCHANGED lock
       ELSE dies(h)
    /\ UNCHANGED <<now, file, gatePath, maintenance, commands>>

(* BUG: merge_provider does not read the document again under the lock. *)
Mutant_LockAndLoad(h) ==
    /\ helper[h].phase = "lock"
    /\ lock = NoHelper
    /\ lock' = h
    /\ helper' = [helper EXCEPT ![h].phase = "replace"]
    /\ UNCHANGED <<now, file, gatePath, maintenance, commands>>

(* status.lock is taken and the document is read again under it. *)
LockAndLoad(h) ==
    /\ helper[h].phase = "lock"
    /\ lock = NoHelper
    /\ lock' = h
    /\ file' = IF file.state = "corrupt" THEN absent ELSE file
    /\ helper' = [helper EXCEPT ![h].phase = "replace", ![h].doc = file'.doc]
    /\ UNCHANGED <<now, gatePath, maintenance, commands>>

merged(h) == [p \in Provider |-> IF p \in helper[h].current THEN helper[h].entry
                                 ELSE helper[h].doc[p]]

(* replace_atomically; the row is reported and the next provider is due. *)
Replace(h) ==
    /\ helper[h].phase = "replace"
    /\ file' = valid(merged(h))
    /\ lock' = NoHelper
    /\ LET me == helper[h]
           late == {p \in me.current : me.entry.started < me.requested}
       IN  helper' = [helper EXCEPT ![h] =
               [me EXCEPT !.phase = "next", !.doc = only(me.todo, merged(h)), !.guard = 0,
                          !.entry = noEntry, !.current = {},
                          !.outdated = me.outdated \cup late]]
    /\ UNCHANGED <<now, gatePath, maintenance, commands>>

(* The disk refuses the new file: the old one stays, the helper fails. *)
ReplaceFails(h) ==
    /\ helper[h].phase = "replace"
    /\ dies(h)
    /\ UNCHANGED <<now, file, gatePath, maintenance, commands>>

(* Every target has its row: the envelope is printed and the process ends. *)
Finish(h) ==
    /\ helper[h].phase = "next" /\ helper[h].todo = {}
    /\ dies(h)
    /\ UNCHANGED <<now, file, gatePath, maintenance, commands>>

(* The service's timeout, a logout: the process is killed where it is. *)
Killed(h) ==
    /\ helper[h].phase \notin {"idle", "gone"}
    /\ dies(h)
    /\ UNCHANGED <<now, file, gatePath, maintenance, commands>>

-----------------------------------------------------------------------------
(* Maintenance commands: update apply, setup, uninstall [purge] *)

MaintenanceStarts ==
    /\ maintenance.phase = "none" /\ commands < MaxMaintenance
    /\ commands' = commands + 1
    /\ gatePath' = [gatePath EXCEPT !.exists = TRUE]
    /\ maintenance' = [phase |-> "gate", inode |-> gatePath.inode]
    /\ UNCHANGED <<now, file, lock, helper>>

(* gate.lock_exclusive *)
MaintenanceLocks ==
    /\ maintenance.phase = "gate"
    /\ ~sharedOn(maintenance.inode)
    /\ maintenance' = [maintenance EXCEPT !.phase = "exclusive"]
    /\ UNCHANGED <<now, file, lock, gatePath, helper, commands>>

(* The cache directory goes, status.lock with it. *)
Purge ==
    /\ maintenance.phase = "exclusive"
    /\ file' = absent
    /\ maintenance' = [maintenance EXCEPT !.phase = "purged"]
    /\ UNCHANGED <<now, lock, gatePath, helper, commands>>

(* drop(exclusive): the command is over, but a purge still has a directory  *)
(* to remove.                                                              *)
MaintenanceDrops ==
    /\ maintenance.phase \in {"exclusive", "purged"}
    /\ maintenance' = [phase |-> IF maintenance.phase = "purged" THEN "dropped"
                                 ELSE "none",
                       inode |-> 0]
    /\ UNCHANGED <<now, file, lock, gatePath, helper, commands>>

(* The state directory goes, maintenance.lock with it. *)
PurgeRemovesGate ==
    /\ maintenance.phase = "dropped"
    /\ gatePath' = [exists |-> FALSE, inode |-> gatePath.inode + 1]
    /\ maintenance' = [maintenance EXCEPT !.phase = "none"]
    /\ UNCHANGED <<now, file, lock, helper, commands>>

Tick ==
    /\ now < MaxTime
    /\ now' = now + 1
    /\ UNCHANGED <<file, lock, gatePath, helper, maintenance, commands>>

-----------------------------------------------------------------------------
CollectionStep(h) ==
    \/ TakeGate(h) \/ Load(h) \/ Quarantine(h)
    \/ \E p \in Provider : Begin(h, p)
    \/ \E p \in Provider, answer \in Answer :
          \E read \in IF p \in LogBacked /\ answer = "ready" THEN 0..now ELSE {now} :
             Fetched(h, p, answer, read)
    \/ TryGuard(h) \/ LockAndLoad(h) \/ Replace(h) \/ ReplaceFails(h)
    \/ Finish(h)

MaintenanceNext == MaintenanceStarts \/ MaintenanceLocks \/ Purge
                      \/ MaintenanceDrops \/ PurgeRemovesGate

Next ==
    \/ \E h \in Helper :
          \/ \E mode \in {"use", "bypass"}, targets \in SUBSET Provider :
                Start(h, mode, targets)
          \/ CollectionStep(h)
          \/ Killed(h)
    \/ MaintenanceNext
    \/ Tick

Spec == Init /\ [][Next]_vars

-----------------------------------------------------------------------------
(* The generation an entry stands for answers the helper's request.  (The   *)
(* code accepts a start equal to the request too; leaving it out keeps two  *)
(* events of one clock tick from mattering.)                               *)
Accepts(h, entry) ==
    /\ entry.state # "none"
    /\ IF helper[h].mode = "use" THEN fresh(entry, helper[h].requested)
                                 ELSE entry.started > helper[h].requested

(* No merge loses another helper's entry: what changes in a valid document  *)
(* is the provider being merged, and nothing else ("Disjoint cross-process  *)
(* provider targets ... are never ... overwritten", CACHE-013).             *)
MergesKeepSiblings ==
    [][file.state = "valid" /\ file'.state = "valid" =>
         \A p \in Provider : file'.doc[p] # file.doc[p] =>
            /\ lock # NoHelper
            /\ helper[lock].current = {p}]_file

(* A forced request is answered by collections that started after it, never *)
(* by one already active that merely completed later (CACHE-010).           *)
ForcedIsCollected ==
    \A h \in Helper : helper[h].mode = "bypass" => helper[h].outdated = {}

(* lastSuccessAt never makes data look younger than it is (CACHE-024): what *)
(* a stale row shows is from before the failed collection began, through    *)
(* any chain of failures and whatever other helpers merge meanwhile, and no *)
(* row shows data from after its collection.                               *)
DataKeepsItsAge ==
    \A p \in Provider : LET entry == file.doc[p] IN
        /\ entry.state = "ready" => entry.success <= entry.completed
        /\ entry.state = "stale" => entry.success <= entry.started

(* Until a purge has removed the gate's own file, a maintenance command has *)
(* the cache for itself: nothing is read, collected or written beside it,   *)
(* and what it purged stays purged while it runs (CACHE-019B).              *)
MaintenanceExcludesHelpers ==
    gatePath.inode = 0 /\ maintenance.phase \in {"exclusive", "purged"} =>
        /\ \A h \in Helper :
              helper[h].phase \notin {"load", "quarantine"} \cup Collecting
        /\ maintenance.phase = "purged" => file = absent

-----------------------------------------------------------------------------
(* architecture.md: "Under the cross-process lock, it rechecks per-provider *)
(* generations: cache-use accepts a valid generation; cache-bypass accepts  *)
(* only a live generation started no earlier than its request".  A helper   *)
(* never publishes over a generation that it had to accept.                 *)
GenerationsAreRechecked ==
    [][\A h \in Helper : helper[h].phase = "replace" /\ helper'[h].phase = "next" =>
         \A p \in helper[h].current : ~Accepts(h, helper[h].doc[p])]_vars
=============================================================================
