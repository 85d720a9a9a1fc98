# agent-bar: verification project

TLA+ modules, TLC runs and TLAPS proofs for agent-bar, a Quickshell plugin that
shows provider usage in a bar. A QML service (`Service.qml` and its `Core*.js`
helpers) runs for the whole session and starts short-lived Rust helper processes
(`agent-bar status`, `config show`, `config apply`, `version`, `update ...`,
`uninstall`). Helpers of several services and terminals share files and locks.
Nearly all that is hard to test lies in the orders of those events.

## Inventory

| Part | State it keeps | Operations | Talks to |
|---|---|---|---|
| Status lane (`Service.qml` 442-584, `CoreService.js`) | probe flags, poll timer, `statusBusy`, generations, `pendingForcedTargets`, `snapshot` | probe, kick, result, timeout, poll, forced refresh | version and status child; maintenance closes it |
| Settings lane (`Service.qml` 146-281, 592-669, `CoreSettings.js`) | popup owner, dialog phase and draft, `appliedSettings`, three lanes | open, edit, cancel, save, close; read, bootstrap, write | `settings.json` through children; the end of a write retries the handoff |
| Maintenance lane (`Service.qml` 310-398, 672-742, `CoreMaintenance.js`) | panel, dialogs, intention, `blocked` | check, confirm, arm, handoff | update and uninstall child; closes the other lanes |
| Helper `status` (`status/coordinator.rs`) | request, targets, the document it read | gate, load, collect, merge, print | providers, cache, gate |
| Cache (`cache/store.rs`, `cache/schema.rs`) | `status-v2.json`, `status.lock` | load, quarantine, merge | all helpers |
| Maintenance gate (`support/maintenance_gate.rs`) | `maintenance.lock` | shared, try-shared and exclusive flock | helpers; setup, update, uninstall |
| Settings store and migration (`settings/`) | `settings.json` | show, apply, migrate | gate |
| Notifications (`notifications/`) | `notification-state-v2.json` | evaluate, prune, dispatch, save | envelope, `notify-send` |
| Provider collection (`providers/`) | none across runs | HTTP with one retry, child with timeout, app-server protocol | network, provider CLIs |
| Payload mapping and the row (`providers/v2_map.rs`, `status/collect.rs`, `status/schema.rs`) | a provider's row: state, provenance, windows, error, action | map a payload, construct, retain, serve from the cache, validate | adapters, cache, envelope |
| Maintenance commands (`cli/mod.rs`, `plugin/omarchy.rs`, `plugin/paths.rs`) | settings, cache and state directories, `maintenance.lock`, detached units | setup, update apply, uninstall [purge] | gate, user, `systemd-run`, omarchy |
| Bundle, release, update check (`plugin/bundle.rs`, `bin/agent-bar-bundle.rs`, `plugin/maintenance.rs`, `auto-release.yml`) | master, released trees and receipts, the installed tree | stamp, validate, release, check, update | GitHub, omarchy, the panel |
| Doctor and ownership (`plugin/doctor.rs`, `plugin/ownership.rs`) | legacy artifacts, their backups | classify, scan, re-check, back up, remove | file system, the user |
| CLI grammar (`cli/grammar.rs`) | none | parse | dispatch |
| Views (`BarWidget.qml`, `Popup.qml`, `CoreView.js`, ...) | scroll and focus | bindings | service |

What is hard: QML handlers interleave with timers and with the late exits of
children that were told to stop; three lanes share flags; two helper processes
share a document under two locks, one of which guards only the write; any process
may be killed at any step; a purge removes the lock file itself; an update is
decided by a receipt that may be older than what is installed, and carried out by a
unit that runs when it runs. `PROJECT.json` lists each hazard at its line.

What makes each part right:
- status lane: no collection before the probe, no forced refresh lost or served by
  a run that was already active, the bar's model never cleared nor taken back, no
  run waited for forever;
- settings lane: edits survive everything but the user's own cancel, close or a
  successful save; what the dialog calls saved is what the bar applies; a locked
  dialog has something in flight to unlock it;
- maintenance lane: alone, one operation at a time, purging only by consent;
- notifications: every recorded alert was heard, at most one heard alert is
  unrecorded, a steady window is not spoken of more often than the reminder;
- collection: it ends, within its timeouts; what has arrived is shown; whoever has
  answered is not asked again;
- migration: nothing is replaced that was not read and backed up, refused documents
  stay as they are, nothing of a convertible one is lost by a setup that dies
  half-way, and v10 settings are left alone;
- rows: state, provenance, error and action agree; every quota of the last good answer
  is shown, under stable ids; no row is refused, which would cost its siblings too;
- cache: merges keep siblings, data keeps its age, forced requests are collected,
  maintenance excludes helpers;
- maintenance commands: they exclude the writers, remove only what the user agreed
  to, leave nothing behind, end, and refuse before they have removed anything;
- releases: what is installed is of one version, and following offers ends;
- doctor: what it removes it owns and has backed up.

## Modules

| Module | Models | Correspondence |
|---|---|---|
| `LaneProcess` | a Quickshell `Process` (external) | `running = true/false`; exit is delivered later |
| `ForcedTargets` | the pending set and the status command | `CoreService.js` 71-158 |
| `RefreshPromise` | abstract: what forced refreshes are promised | CACHE-011, CACHE-012 |
| `StatusLane` | probe, status lane, timers | one action per handler of `Service.qml` |
| `SettingsLane` | dialog, popup owner, three settings lanes | one action per public function or `onExited` |
| `MaintenanceLane` | panel, dialogs, handoff | the same |
| `Service` | the three lanes composed | each action is a whole handler: the parts of all lanes in one step |
| `StatusCache` | helpers, cache, gate, maintenance commands | one action per step between two observable effects |
| `Notifications` | overlapping evaluations, the notification state | one action per step of `evaluate` that another process or a kill can come between |
| `ProviderCollection` | one provider's collection | one action per event an adapter waits for: an answer, a timer, the end of a child |
| `SettingsMigration` | `setup` processes, `config apply`, settings.json and shell.json | one action per read, backup or replacement of `migration.rs`; the plan is pure operators |
| `WindowMapping` | how a provider's answer becomes windows | pure operators, named for the functions of `v2_map.rs` and `codex_app_server.rs` |
| `StatusRow` | one provider's row through answers, failures, cache hits and removals | the constructors and validators of `status/schema.rs` as operators; one action per outcome of a request |
| `Ownership` | whose a file is | `classify_artifact` and its rules, pure operators |
| `Bundle` | a shipped tree and its receipt | `stamp` and `validate_tree` of `bundle.rs`, pure operators |
| `PluginCommands` | the commands as processes around the gate, the directories, the legacy file | one action per lock, removal, write, answer or handoff of `cli/mod.rs` and `doctor.rs` |
| `PluginUpdates` | master, releases, receipts of any age, checks, the installed tree | one action per merge, release, check and change of the install |
| `PluginLifecycle` | the two composed, with the detached units between them | a unit accepted by `HandOff` runs later, against what is installed then |
| `MCStatusLane`, `MCStatusCache`, `MCNotifications`, `MCSettingsMigration`, `MCStatusRow` | instances for TLC | provider sets, readings, payloads, symmetry |
| `StatusLane_proofs`, `SettingsLane_proofs`, `Service_proofs`, `Notifications_proofs`, `StatusCache_proofs`, `ProviderCollection_proofs`, `Documents_proofs`, `PluginLifecycle_proofs` | theorems | those of `MaintenanceLane` are in `Service_proofs`, those of `SettingsMigration`, `WindowMapping` and `StatusRow` in `Documents_proofs` |

The composition is in three layers. `Service` composes the three lanes of one service
process. Between processes, `StatusCache` has the helpers that the status lane
starts (its `Killed` is the lane's timeout), `Notifications` what each of them does
at its end, and `ProviderCollection` what stands behind one `Fetched` of
`StatusCache`, whose three answers (ready, temporary, permanent) are the rows a
collection returns. `StatusRow` follows what such an answer says: `Answers` and `Fails` are `Fetched` with
the payload in it, `Hit` is a request served from the cache. `SettingsMigration` stands beside them: what its setups store is
one of the external writes of settings.json in `SettingsLane`. `PluginLifecycle` is
the plugin over its life: its commands take the gate that `StatusCache` and
`SettingsMigration` share, and leave what they store under it to those two; the
update check and the handoffs are what the children of `MaintenanceLane` do.

Definitions carry the source's names wherever a function exists. A function that
handlers share (`kickStatus`, `tryMaintenanceDetach`) is an operator that takes what
the calling handler has already assigned, so that a handler that ends in a call of
it is still one atomic step, as it is in the QML event loop. Definitions named
`Mutant_...` and marked BUG are plausible errors, kept beside what they are errors
of; each is what one property is meant to catch.

Abstractions:
- An envelope is the run that produced it and the set of its providers. A settings
  document is its version, a draft is edited or not and valid or not. Usage data is
  the moment it was read.
- Counters the code always sets together (`statusGeneration` and
  `activeStatusGeneration`) are one variable; the settings-read generation stays
  with its lane after the child ended, as in the code.
- The three update-check answers without an offer that differ in their message only
  are one. `maintenanceState` has two values, so `blocked` stands for it.
- The version text of the maintenance panel is left out, but not what learning it does:
  an idle panel starts anew, and an uninstall dialog that was open on it is closed
  (`syncMaintenanceVersion`, called from `VersionExited` and `ManifestArrives`).
- The helper path, once known, stays known. `ConfirmDialog` is modal: while one is
  open no other button of the panel is clicked.
- Exits of children are asynchronous. What Quickshell does with `running = true`
  while a child is still terminating is left open (`AfterExit`): the old exit
  arrives, and the new child may or may not then start.
- A helper opens the gate twice before waiting for it; the two opens are one step
  (`Start`). The gate file is created by whoever opens it; `merge_provider` reopens
  it by path, so it may meet another inode than the one the helper holds.
- `flock` belongs to the process: a death releases it. `status.lock` is removed by
  a purge only, which the gate keeps apart from its holders while the gate's file
  is the original one. The document's revision counter is not modelled: nothing
  reads it.
- A log-backed provider (codex's session log) may answer with data older than its
  collection; every other ready answer is of its moment. `LogBacked` names the
  former. Timestamps in such a log are taken not to lie in the future.
- One maintenance command runs at a time in `StatusCache`.
- A helper of `StatusCache` forgets its copy of a provider once it has collected it:
  nothing reads it again. `outdated` is the history of the rows it reports of
  generations that started before its request.
- `SettingsMigration`: a document is its interval and its lists of providers; the
  display metric, the notification settings and the report of unknown keys are left
  out, the three spellings of the inline interval are one, and several v9 entries
  in shell.json are one. A `waybar.interval` that is no integer counts as none, as
  in the code, and a wider one is cut to 32 bits first (`asU32`, modulo the constant
  `Word`). v10 keys that the strict parser refuses make the kind "edited".
- `Notifications`: a reading is one window's level and reset, or nothing; two
  windows with one id (payloads that name a bucket twice) are left out. The text
  of an alert is left out.
- `ProviderCollection`: an executable that is there, or not, stays so. Timers fire
  when they are due: `Tick` waits for them, since the event loop has nothing else
  to do. Writes to the app server do not block. It answers each request at most
  once. A rate-limits answer is usable ("windows"), has data that maps to no
  window ("bare") or none ("none": malformed or empty). Names, plans and the
  percentages of windows are left out, and so is the walk over session logs, which
  has no timeout of its own.
- `WindowMapping` and `StatusRow`: percentages are integers (the code compares sums of
  doubles within 0.01), labels are empty or not, reset times are left out. An id is
  the tuple of its words, so `weekly-model:opus:2` is `<<"weekly-model", "opus", 2>>`;
  what is left of a name when it is sanitized is the constant `Sanitize`. Requests
  do not overlap there. `MCStatusRow` has every list of up to two of eight kinds of
  entries of Claude's `limits`, Codex roots and buckets by id that overlap in one
  of them or in the case of their names, and percentages out of range.
- `Bundle`: five files stand for the inventory (helper, manifest, terminal script,
  preview, every other), a file's content for its hash and size; versions are
  release numbers. The spelling rules of paths, hashes and versions are left out.
- `PluginCommands`: a directory is there or not, `backups` stands for the state
  directory but for the gate, and the legacy artifact is one file outside of these.
  A command may die at every step (`Fails`), which releases its locks. A status
  helper collects one provider. Every lock opens the gate's path again, as in the
  code, so that a purge that unlinks it makes a second inode.
- `PluginUpdates`: a merge may lose a file, its mode, or bring a link; the release
  job is triggered by merges only (`workflow_dispatch` without a merge releases the
  same tree again). Fetched receipts are any released one (GitHub's raw files
  are cached). The probe's Quickshell version is the helper's own constant, as in
  `maintenance.rs`.

## Runs

| Run | Bounds | What it shows |
|---|---|---|
| `status_lane` | 2 enabled + 1 disabled provider, requests stop after generation 2 | no collection before the probe, refinement of `RefreshPromise`, the snapshot only advances, a busy run ends, forced refreshes are taken |
| `settings_lane` | 2 widgets, 4 opens or saves, 4 file versions | dialog and bar agree, dialog and helpers fit together, applied settings never regress, edits are kept, a save is answered |
| `service` | 1 provider, 1 widget, 2 opens or saves, 2 file versions | the composition implements each lane's specification; a handoff waiting for a write is launched; an update or uninstall runs alone, one at a time, and purges by consent |
| `status_cache` | 2 helpers, 2 providers, 1 tick, 1 maintenance command | siblings kept, data keeps its age, forced is collected, maintenance excludes |
| `notifications` | 2 windows, 3 evaluations, 2 at a time, clock 0 to 2, reminder after 2 | rows are heard, one heard alert at most is unrecorded, a steady window is spaced, rows follow their window |
| `provider_collection` | 4 providers, timeout 4, delay 1, grace 2 | it ends, in time; received limits are shown |
| `settings_migration` | 2 setups, 2 providers and an unknown name, v9 lists of up to 3 names, intervals in and out of range and wider than a word of 16, 1 config apply, 1 edit of shell.json | refused documents stay, preferences of the convertible ones survive, v10 is left alone, what is replaced was read and backed up |
| `status_row` | 1 provider of 4, some 600 payloads, any number of requests (10,616 states) | rows follow their state's contract, answers are shown but for a second model of one name, ids of model windows are stable |
| `plugin_lifecycle` | 2 processes, 3 commands, merges or checks in all, 2 releases | writers are shut out of a purge, which leaves nothing; removal is agreed to, doctor's is backed up; offers end; commands end |
| `drain` (violation) | smaller `service` | a status run's end does not start the waiting handoff |
| `reopen_loads` (violation) | 1 widget | a failed load is never retried by closing and reopening |
| `alerts_doubled` (violation) | 1 window, 2 overlapping evaluations | two processes send the same alert |

Why the bounds are enough. The status lane has one slot for a running helper and one
pending set, so the interesting cases need a run, a second that overlaps the late
exit of the first and a follow-up: three generations. Three providers give a
union of two that is not `all`, and a disabled one. In the settings lane a load, a
save and a reopening that overlaps either need three generations. In the
composition each lane is checked elsewhere with more, so that it only needs one run
of each. The cache needs two processes for every race named in the hazards (they
all are between two), two providers for siblings, and one tick to tell before from
after. Notifications need two windows (saving one must not touch the other), two processes
at once and a third evaluation that finds what the two left. A collection needs a
timeout longer than its grace, so that either may end first, and a delay that is
not zero; the theorems hold for all of them. A migration needs one setup that dies and
one that runs after or beside it; lists of three names over two providers and an
unknown one have the repetitions, the gaps and the empty intersection that its
fallbacks distinguish. With a word of 16, the intervals 16 and 18 are cut to nothing and
to a valid one, as 2^32 and 2^32 + 60 are. Bounds are guards named `Max...`; the
action that reaches one is disabled, and deadlock is still checked except in `status_cache`, `notifications`,
`provider_collection`, `settings_migration` and `plugin_lifecycle`, whose processes
run once and end.

A row depends on the answer, the row before it and nothing else, so that one provider
and unbounded requests reach every sequence; two entries of a list are enough for a
collision and a shift, three for a third ordinal, and those lists are named.

In the plugin's life a race at the gate is between two processes, and the third
command meets what the two left: the inode of a new gate, a purge that died, a unit
still to run. Two releases tell a stale receipt from the current one. The rest of
the bounds only cut apart what shares no variable: the commands that hand nothing
off begin before the first merge or check (`HandingOff`), the user edits the
legacy file only while doctor looks at it, and the plugin is added again only
while something may still begin. The theorems hold for any number of processes,
commands and releases.

Fairness. Timers are event-loop work and always fire, so `StatusLane` has weak
fairness on the four timer handlers and none on its children, which may hang.
`SettingsLane` and `Service` have no timer over `config show` and `config apply`
and rely on those children ending: they read or replace one local file. (A `config
apply` waits for the maintenance gate, which a maintenance command holds; the
commands end too, except an interactive uninstall that waits for its answer.)
`ProviderCollection` is weakly fair to the helper's own steps and to time, never to
the provider: answers, exits and the end of a pipe may not come.
`PluginLifecycle` is weakly fair to each process, which the kernel schedules and
whose flock it grants when it is free, and to its user, who answers an uninstall;
not to units, releases or failures. Without the answer an uninstall holds the gate
for ever, and the helpers behind it wait: that is the code's behaviour.
The violations need no fairness: they are safety properties.

## Proofs

`StatusLane_proofs` proves, for any set of providers, any set of enabled ones and
any `MaxGeneration`:
- `TypeCorrect`: `[]TypeOK`. `TypeOK` is inductive by itself. The lemmas about
  `unionForced`, `kickStatus` and the process operators give the type of what each
  handler assigns.
- `CollectsAfterVersion`: `[]CollectsOnlyAfterVersion`. Inductive with `TypeOK`:
  nothing leaves "ready", and only a ready lane is kicked.
- `Coalesces`: the status lane implements `RefreshPromise`. Every handler is mapped
  to one abstract step or a stutter (`KickPromise` for handlers that end in a kick,
  `ApplyPromise` for the two that end a run). It rests on the two invariants above.
- `SnapshotAdvances`. The strengthening is `GenerationsOrdered`: a child's job is
  never of a later run than the counter nor of an earlier one than the snapshot, so
  even an exit taken for the wrong run cannot show an older one. This is where
  the late exits after a timeout matter.

`SettingsLane_proofs` proves, for any widgets and any number of opens, saves and
writes of the file, `DialogAgrees`, `DialogMatches`, `AppliedAdvances` and
`EditsSurvive`. Agreement of the dialog with the bar is inductive only together
with what each child is for (`LanesServeTheDialog`: a read belongs to the dialog
that loads and a write to the one that saves, and both carry its generation, so
that no answer meets another life of the dialog), with `DialogIsLoaded`, and with
`DocumentsAreStored`: nobody has seen a document newer than the file, and what a
save has stored is newer than what the bar applies, which is why applying it cannot
take the bar back. Two more theorems say how far `ReopenLoadsAgain` fails:
`LoadsAreLostByFailure` (a load that has its helper is lost only by the failure of
that helper) and `LostLoadsStayLost` (no step recovers one).

`Service_proofs` proves that the composition implements each lane's specification
(`StatusIsSpecified`, `SettingsIsSpecified`, `MaintenanceIsSpecified`): every handler
of the service is a step of the lane or a stutter of it. What the lanes' proof modules
show then holds of the whole service (`ServiceCollectsAfterVersion`,
`ServiceCoalesces`, `ServiceSnapshotAdvances`, `ServiceDialog`); the instances ask for
the lanes' assumptions, which `ServiceAssumption` gives. The maintenance handoff
reads the flags of the other lanes and is proved in place: `RunsAlone`, `OneAtATime`
and `Consented`. The invariant adds to them that a closed service has no open
dialog and two dialogs are never open together (`DialogsExclude`: without it a
second confirmation could replace the running intention), and that the consent
kept is the choice shown and later pending (`ConsentIsKept`). The two action
properties of the dialog follow for the service from the lane's
(`ServiceAppliedAdvances`, `ServiceEditsSurvive`).

`DrainedHandoffIsDetached` fails; how far is a theorem. A handoff whose lanes have
drained is left waiting only by the end of a status run (`OnlyStatusRunsMissIt`):
begun beside idle lanes, or beside a settings write that ends last, it is launched.
And once left waiting it stays so (`StrandedStays`): a closed service starts neither
of the runs whose end could try it again.

`Notifications_proofs` proves, for any windows, readings, processes, reminder and
number of evaluations:
- `NothingIsSilencedUnheard`: a row in the file, or in the memory of a process, is
  an alert that the user was shown at that time, at that level or a higher one. It
  needs the rows each process has in hand to be heard too, since a save replaces
  the whole file by them.
- `OneUnrecorded` and `WindowsAreFollowed`, of evaluations that do not overlap. The
  invariant `Tracked` says that the one that runs knows the file: its rows are what
  it saved last, and every window that is not waiting for its alert is tracked at
  the level it has.
- `SteadyIsSpaced`. `Spaced` says that a window that stays as it was alerted about
  keeps the row of that alert until its reset passes, so that what is due is due
  by that row; a kill between the save that clears a row and the alert is what
  makes the exception for a passed reset necessary.
- `AloneNothingIsDoubled`: as long as no two evaluations have overlapped, an alert is
  due by the state as recorded. `AlertsAreNotDoubled`, which asks this of all
  evaluations, fails; so the lock that the documents put around an evaluation
  would mend all of it. The invariant is `AllDue`: what a process has still to send is due
  by the rows in its hand, which no acknowledgement of another window touches.

`ProviderCollection_proofs` proves, for any timeout, delay and grace:
- `CollectionTypeCorrect` and `CollectionKeepsTime`, from the invariant `IInv`.
  `EndsInTime` is not inductive: it needs that no timer is passed over and that
  each was set within the budget of its attempt (`DeadlinesHold`), and who may be
  in which phase (`PhasesOfProvider`).
- `AnswersEndTheAsking`, from `HeardSoFar`: an attempt that ends in a delay has
  heard no answer.
- `ReceivedIsShown`, from a second invariant, `TalkInOrder`: once rate limits have
  arrived only the account is waited for, so no later answer replaces or refuses
  them.

`StatusCache_proofs` proves, for any number of helpers, providers, ticks and
maintenance commands, `ForcedRequestsAreCollected`, `DataIsAsOldAsItSays`,
`MaintenanceIsAlone` and `SiblingsAreKept`, from one invariant (`CacheInvariant`):
- `LockHolds`: who has `status.lock` is replacing the file and knows what is in it,
  since nobody else writes a document. With `OneCurrent` it makes a merge a change of
  one entry, though the document was read two steps earlier.
- `GateHolds`: no inode is from the future, and a maintenance command that has one
  exclusively shares it with no helper. A purge makes a new inode, so the exclusion
  is of inodes; before the first purge there is but one, which is what the property says.
- `AgesHold`: every entry is as old as it says, in the file and in the memory of each
  helper, and what a failure may retain is older than the collection it fails in.
  The prior row is read before the collection and kept across it, while others
  store newer ones, so the property alone is not inductive.
- `RequestsHold`: a collection starts after the request it is for.

It also proves why a collection ends, but for the fairness:
- `WaitsAreNotCircular`: some process that is underway waits for no other. A helper at
  the gate waits for a command that has it; one at `status.lock` for a helper that
  replaces the file (`LockHolds`), which waits for nothing; and a command at the
  gate for helpers, one of which is therefore free to go on. The second look at the
  gate is a try, so it is no wait.
- `StepsAreProgress`: what a helper has left (`Work`) falls with every change of it.
  It counts the targets left, so providers are assumed to be finitely many
  (`ProviderAssumption`; they are an enum).

`Documents_proofs` proves, for any number of setups, documents and config applies,
`ReplacesOnlyWhatItRead` and `V10IsLeftAlone`. The invariant is mutual
exclusion by the gate with what follows from it: between its read and its
replacement a setup's copy is the file, its backup is the file, and its plan did
not abort, so that what it writes is a v10 document. `SettingsArePreserved` adds
`OriginHolds`: as long as the settings are not v10 they are the ones first found, with
the inline interval first found beside them, so that v10 settings which nobody
configured are the plan of those two, however many setups died on the way, and that
documents which make the plan abort are the ones still there (`RefusedHolds`). That the
plan preserves them (`MigratedIsRanked`) is a statement about the fold `placed`: its
result is in the order of first mention, then of `AllProviders`, and misses nobody.
It is stated of `Convertible` documents: an interval wider than 32 bits is truncated and
v10 keys that the strict parser refuses become the defaults, and neither is preserved.

For any payloads it proves:
- `RowsAreCoherent`: whatever the history, every row in the cache and in an envelope
  has what its state demands. The invariant is the property itself with what the
  retention reads of the prior row; the lemmas follow the constructors
  (`statusOf`, `liveRows`, `apply_stale_retention`, `for_cache_hit`).
- `AnswersAreKept`: ready and stale rows carry the data of the last payload that
  made a ready row, however many retentions ago.
- `EveryAnswerIsShown`: no row is refused, and the row shows of that payload what
  `showsAll` names: every quota, every model's entry but a second one of the same
  name, every slot.
  The invariant `ShownInv` adds that every cached row is one that every validator
  accepts (`GoodRow`), so that retention and cache hits cannot make a refused one.
  About a payload it rests on two results. For Claude, the quotas of the windows are
  the quotas reported, whichever fields report them (`ClaudeShowsQuotas`), and each
  entry of a model has a window of its own with its percentage (`ClaudeShowsApart`):
  an id tells the model and, from the third on, the ordinal, so only the second entry of a
  name meets the id of the first (`OneIdIsTwin`) and is dropped. For Codex,
  slot to window id is injective, so no push drops a window and there are as many as
  slots (`SlotIdsDiffer`, `CodexSlotsAreShown`), when the buckets' names still
  differ once they are sanitized.
- `ModelIdsStay`: two answers in a row that say the same of the models are shown with
  the same windows of models. Selecting the models' windows commutes with pushing
  (`OnlyOfPushed`, since an id tells whose a window is), and what the list of limits
  adds to them is a function of its entries of models alone (`ModelsOfLimits`):
  the ordinal of such an entry is the number of those before it, whatever grouped
  entries stand between.

`PluginLifecycle_proofs` proves, for any number of processes, commands and releases:
- `InstallsAreWhole` and `OffersComeToAnEnd`, from `UpdatesInv`: what is stamped is
  of one version, a merge leaves the stamped artifacts alone, so every commit that
  can be installed is of one version (`TreesAreWhole`), and a check that was started
  from it knows its own version (`ChecksAreTrue`).
- `GateKeepsOut`, `WritersWait`, `PurgesAreWhole`, `RefusalsRemoveNothing`,
  `RemovalsAreAgreed` and `RemovalsAreBackedUp`, from `CommandsInv`: what a process has
  removed, still owes and was told follows from its phase (`Sound`), no two hold an
  inode from which they exclude each other (`GateExcludes`), and doctor's copy is
  there while it needs it (`CopiesAreKept`). One `Effect` lemma per action says what
  the action changes in these terms, and one lemma that effects keep the invariant.
- `CommandsComeCloserToTheirEnd`: every step of a command takes it to a later
  `stage`. Who waits at the gate waits for one that has it (`lockable`), which is past
  waiting; so of finitely many commands each ends, with the fairness of `CommandsEnd`.

Theorems that no run states (their properties would exceed what the runs need):
the types of each module, `AnswersEndTheAsking` (`AnsweredIsNotRetried`),
`GateKeepsOut`, `RefusalsRemoveNothing` (`FailsClosed`), `InstallsAreWhole`
(`InstalledIsOneVersion`), `AnswersAreKept`; those of the whole service that follow from
a lane's; those that say how far a violated property fails (`OnlyStatusRunsMissIt`,
`StrandedStays`, `LoadsAreLostByFailure`, `LostLoadsStayLost`, `AloneNothingIsDoubled`);
and the two facts behind termination (`WaitsAreNotCircular`, and `StepsAreProgress` with
`CommandsComeCloserToTheirEnd`). What these state is defined beside the proofs; TLC found
it true on the instances of the runs before it was proved.

Assumptions are the named `ASSUME`s of the modules: there is a provider, providers
are finitely many, enabled providers are providers, `All` is not one, bounds are
naturals, the list of all providers names each once, valid intervals are below `Word`, the lists of documents and payloads
are lists and their percentages numbers (`DocumentsAssumption`, `PayloadAssumption`:
others are not decoded),
the v10 documents that setup finds or config apply brings are well-formed, and
sanitizing leaves "opus" and "sonnet" as they are (`SanitizeAssumption`: they are
lower-case letters).

Folds. `placed`, `pushedOnto` and `FlattenSeq` pass over a list of any length, and what
they compute is proved by induction on its prefixes. The induction theorems of
the library take an operator as a parameter, which no backend here can
instantiate; the lemma `SetInduction` of `Documents_proofs` states induction about a set
of numbers instead and follows from the least element of a well-founded order.
`PrefixIteration` then gives each fold the value of its prefixes, and `ListInduction` is
induction on lists. `SelectSeq` is no fold but a recursive operator of the standard
module, which the prover does not expand; where a property selects from a list it
uses `only`, which flattens.

The proofs changed the models in two places, in form only. `CASE` arms that
overlap are an `IF` now (`PreservesSettings`), because the prover takes any arm that
applies where TLC takes the first. A union of a `UNION` with another set is written
with the `UNION` last (`codexSlots`), because the prover reads `UNION X \cup Y` as
`UNION (X \cup Y)`.

Only model-checked: liveness (`BusyRunEnds`, `ForcedIsEventuallyTaken`,
`SaveIsAnswered`, `WriteDrainLaunches`, `CollectionEnds`, `CommandsEnd`), which the
prover does not do. Every invariant and every action property that a run checks is
a theorem.

## What the violations say

- A handoff confirmed while a status helper runs is never started: only the
  beginning and the end of a settings write try it. Nothing reopens the service
  (`StrandedStays`) until the shell restarts.
- A settings load that fails leaves the dialog in "loading", which closing keeps and
  reopening does not reload, nor does anything else (`LostLoadsStayLost`).
- Two evaluations that overlap both send an alert: the notification state is read
  without the lock that its saves take. Evaluations that do not overlap double none
  (`AloneNothingIsDoubled`).

Further statements of the repository are formalised beside these without a run
of their own: `GenerationsAreRechecked` (architecture.md:96-101) in `StatusCache`:
`merge_provider` rereads the document under the lock to keep the siblings but not to
ask whether its own provider was stored meanwhile; `NoExecWhileRunning` (ARCH-023), `ProviderOnlyStaysExact` and
`ProviderRefreshKeepsSiblings` (CACHE-025) in `StatusLane`, and `CheckKeepsNewerPhase`
(02-target-architecture.md:267) in `MaintenanceLane`: a check that ends after a
confirmation puts its own phase on the panel; and `MalformedIsNotRetried`
(02-target-architecture.md:229-230) in `ProviderCollection`: a rate-limits answer
that cannot be used is neither a failure nor a result, the conversation goes on to
its hard timeout, and that is retried. `NothingIsRecreated` (architecture.md:154-158
and the comment at cli/mod.rs:353) in `PluginCommands`: the gate is let go before the
state directory is removed and before the handoff, so a waiting helper writes its
cache again between the two. `ReleasesValidate` (auto-release.yml:5) in
`PluginUpdates`: the release commit adds three files only, so a script whose mode a
merge has lost is released with the wrong mode under a receipt that says otherwise;
and between a merge and its release the tip of master has new QML beside the
helper and receipt of the release before. `InvalidIsNotReplaced` (MIG-015,
06-migration-and-legacy-removal.md:75) in `SettingsMigration`: setup casts
`waybar.interval` to 32 bits before it checks the range, so that 2^32 + 60 becomes 60,
and resets settings with v10 keys that the strict parser refuses to the defaults,
unreported (`migration.rs` 75-86, 325-344, 361-374). `CollisionsAreKept`
(02-target-architecture.md:235-237) in `StatusRow`: `weekly_model_id` gives the ordinals 0 and
1 no suffix, so the second of two models of one name is dropped; and the suffix counts
windows of all models, so a third model alone with its name has `:2`.

Seen while reading, and only noted here:
- docs/specs/v10/08-plugin-bundle-and-release.md:287-290 wants `latestCompatible`
  null for a receipt of another target or contract; the code answers with an error.
  It answers null when the receipt asks for a newer Quickshell than the helper's own
  constant, which is what it takes for the installed version: a release that raises
  the minimum is never offered by an older helper.
- A purge unlinks `maintenance.lock`; whoever had opened the old file locks that one.
- `copy_dir` of doctor's backup skips links and special files, and the directory is
  then removed whole; the production rules never prove a directory owned.
- An interactive login runs under the collection timeout of 10 s with its output
  captured.
- Two provider refreshes that coalesce become one command for all providers
  (`CoreService.js:150`), and the envelope of a single provider replaces the whole
  snapshot until the next poll (`Service.qml:573`).
- Codex's two slots may name one window (both 10080 minutes, or one without a
  duration); the whole answer is then a `provider_error` that is not retryable.
- Amp's free percentage is not clamped: more than 100 drops the window.
- 02-target-architecture.md:211 promises Amp one retry; its adapter has none
  (`adapters.rs` 39-66).
- 03-cli-and-json-contract.md:242 says a 429 is `rate_limited`; Grok's becomes a
  `provider_error` that is not retryable (`adapters.rs` 204-210).
- An app server that ends by itself while its rate limits wait for the account loses
  them to the session log (`codex_app_server.rs` 326-330).
- Setup takes a `waybar.interval` that is no integer for absent.
- Setup backs shell.json up only after it has replaced the settings (MIG-001), and a
  change of shell.json by others between its read and its replacement is lost.
- The service's 60 s over a status run is less than the 70.75 s that four providers,
  collected one after the other, may take (`Service.qml:29`).

## Size

The map covers about a third of the implementation's lines. The Rust
sources it leaves out are mostly JSON decoding, argument parsing, rendering and
file-system helpers; the QML it leaves out is presentation.

## Plan

Done: the three lanes, their promises and composition, cache and gate,
notifications, provider collection, migration, rows, the plugin's commands,
releases and updates, the proofs above. What could follow:

1. The interactive login and the action dispatch of the service, which keep no
   state that a lane depends on.
2. The unknown-key reports and the notification settings of the migration.

## Not modelled

- CLI grammar and exit codes: pure argument parsing.
- Bar, popup and view QML: bindings on the service's properties, scrolling, focus.
  The popup's ownership, which the settings dialog depends on, is in `SettingsLane`.
- Decoding of JSON and of Amp's text, formatting, countdowns, redaction, the clock:
  pure conversions that the repository's unit tests reach.
- The walk over session logs and the discovery of executables: sequential I/O. Their
  outcomes are choices in `ProviderCollection`.
