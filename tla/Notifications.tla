---------------------------- MODULE Notifications ----------------------------
(***************************************************************************)
(* Usage alerts: the evaluation at the end of a collection that was asked   *)
(* for `notifications evaluate`, and the state file its processes share     *)
(* (notifications/mod.rs, notifications/state.rs).                         *)
(*                                                                         *)
(* A helper here is a process from the moment its collection has taken its  *)
(* time stamp.  Two of them overlap when a terminal, a second session or a  *)
(* restarted shell evaluates beside the service.  Rows are sent in the      *)
(* settings' provider order, which the user may permute: any order is       *)
(* possible.  What a provider answers is any reading a cycle can give.      *)
(***************************************************************************)
EXTENDS Integers, FiniteSets

CONSTANTS
    Key,         \* (provider, window): what a notification is about
    Provider(_), \* the provider of a key
    Helper,
    Observed(_), \* the levels and resets a window may show
    Reminder,    \* notifications.reminderMinutes, in clock ticks
    Jitter,      \* RESET_JITTER_TOLERANCE, in clock ticks
    MaxTime,     \* bound: the clock stops here
    MaxEvaluations \* bound: evaluations begun

noReset == 0     \* resets_at: None (a zero stamp is no stamp in every mapper)
Level   == 0..2  \* below 90, from 90 (warning), from 95 (critical)

ASSUME ObservedAssumption ==
    \A k \in Key : Observed(k) \subseteq [level : Level, reset : Nat]
ASSUME NotificationBoundsAssumption ==
    /\ Reminder \in Nat \ {0} /\ Jitter \in Nat /\ MaxTime \in Nat
    /\ MaxEvaluations \in Nat

VARIABLES
    now,
    file,        \* notification-state-v2.json
    helper,      \* what each evaluating process knows
    heard,       \* history: the alerts the user was shown, per key
    steady,      \* history: the last recorded alert of a window that has not
                 \* changed since, in what evaluations saved
    overlapped,  \* history: two evaluations have overlapped
    begun        \* evaluations begun so far

vars == <<now, file, helper, heard, steady, overlapped, begun>>

-----------------------------------------------------------------------------
(* NotificationEntry: the level spoken at, the reset seen, and when. *)
Time  == 0..MaxTime
Row   == [level : Level, reset : Nat, notified : Time]
noRow == [level |-> 0, reset |-> noReset, notified |-> 0]
Rows  == [Key -> Row]
empty == [k \in Key |-> noRow]

(* What an envelope says of a window: its provider is not Ready ("unread"), *)
(* it is Ready without that window ("gone"), from the cache or live.       *)
Reading  == [kind : {"unread", "gone", "replayed", "live"},
             level : Level, reset : Nat]
silent(kind) == [kind |-> kind, level |-> 0, reset |-> noReset]
shown(kind, k) == {[kind |-> kind, level |-> o.level, reset |-> o.reset] :
                      o \in Observed(k)}

(* One provider's windows come from one reading of it. *)
Possible(k) == {silent("unread"), silent("gone")}
                  \cup shown("replayed", k) \cup shown("live", k)
Envelope == {reads \in [Key -> UNION {Possible(k) : k \in Key}] :
                /\ \A k \in Key : reads[k] \in Possible(k)
                /\ \A k, l \in Key : Provider(k) = Provider(l) =>
                    /\ reads[k].kind = "unread" <=> reads[l].kind = "unread"
                    /\ ~(reads[k].kind = "live" /\ reads[l].kind = "replayed")}

noEnvelope == [k \in Key |-> silent("unread")]

Local == [phase : {"idle", "load", "quarantine", "save", "send", "ack"},
          at : Time, reads : [Key -> Reading], rows : Rows,
          pending : SUBSET Key,   \* alerts still to send
          current : SUBSET Key,   \* the one being acknowledged
          told : SUBSET Key]      \* those sent
newborn == [phase |-> "idle", at |-> 0, reads |-> noEnvelope, rows |-> empty,
            pending |-> {}, current |-> {}, told |-> {}]

TypeOK ==
    /\ now \in Time
    /\ file \in [state : {"absent", "corrupt", "valid"}, rows : Rows]
    /\ helper \in [Helper -> Local]
    /\ heard \in [Key -> SUBSET [at : Time, level : Level]]
    /\ steady \in Rows
    /\ overlapped \in BOOLEAN
    /\ begun \in 0..MaxEvaluations

absent == [state |-> "absent", rows |-> empty]
valid(rows) == [state |-> "valid", rows |-> rows]

Init ==
    /\ now = 0
    /\ file \in {absent, [state |-> "corrupt", rows |-> empty]}
    /\ helper = [h \in Helper |-> newborn]
    /\ heard = [k \in Key |-> {}]
    /\ steady = empty
    /\ overlapped = FALSE
    /\ begun = 0

-----------------------------------------------------------------------------
(* The transition of one row *)

same_window(saved, observed) ==
    /\ saved = noReset <=> observed = noReset
    /\ saved - observed <= Jitter /\ observed - saved <= Jitter

(* prune_ready_provider *)
pruned(row, read, at) ==
    IF \/ read.kind = "gone"
       \/ read.kind = "live" /\ row.reset # noReset /\ row.reset <= at
    THEN noRow ELSE row

(* BUG: the same level speaks at every poll. *)
Mutant_should_emit(row, read, at) ==
    /\ read.level > 0
    /\ row.level = 0 \/ ~same_window(row.reset, read.reset) \/ read.level >= row.level

(* should_emit *)
should_emit(row, read, at) ==
    /\ read.level > 0
    /\ \/ row.level = 0
       \/ ~same_window(row.reset, read.reset)
       \/ read.level > row.level
       \/ read.level = row.level /\ at >= row.notified + Reminder

(* BUG: the tracked level does not follow the window down. *)
Mutant_silently(row, read, at) ==
    IF read.kind \in {"unread", "gone"} THEN row
    ELSE IF read.level = 0 THEN noRow
    ELSE row

(* The changes that say nothing: recovery rearms, a lower level in the same *)
(* window is tracked.                                                      *)
silently(row, read, at) ==
    IF read.kind \in {"unread", "gone"} THEN row
    ELSE IF read.level = 0 THEN noRow
    ELSE IF ~should_emit(row, read, at) /\ read.level < row.level
    THEN [row EXCEPT !.level = read.level, !.reset = read.reset]
    ELSE row

-----------------------------------------------------------------------------
(* One evaluation *)

(* requested_at is taken when the collection starts. *)
Start(h) ==
    /\ helper[h].phase = "idle"
    /\ begun < MaxEvaluations
    /\ begun' = begun + 1
    /\ helper' = [helper EXCEPT ![h] = [newborn EXCEPT !.phase = "load", !.at = now]]
    /\ overlapped' = (overlapped \/ \E g \in Helper \ {h} : helper[g].phase # "idle")
    /\ UNCHANGED <<now, file, heard, steady>>

(* The evaluation of an envelope against the rows this process has read. *)
evaluates(h, rows, reads) ==
    LET at   == helper[h].at
        base == [k \in Key |-> pruned(rows[k], reads[k], at)]
    IN  helper' = [helper EXCEPT ![h] =
            [@ EXCEPT !.phase = "save", !.reads = reads,
                      !.rows = [k \in Key |-> silently(base[k], reads[k], at)],
                      !.pending = {k \in Key : should_emit(base[k], reads[k], at)}]]

(* NotificationStateStore.load, without notification.lock *)
Load(h, reads) ==
    /\ helper[h].phase = "load"
    /\ IF file.state = "corrupt"
       THEN helper' = [helper EXCEPT ![h].phase = "quarantine"]
       ELSE evaluates(h, file.rows, reads)
    /\ UNCHANGED <<now, file, heard, steady, overlapped, begun>>

(* quarantine removes the path, whatever is there by now. *)
Quarantine(h, reads) ==
    /\ helper[h].phase = "quarantine"
    /\ file' = absent
    /\ evaluates(h, empty, reads)
    /\ steady' = empty
    /\ UNCHANGED <<now, heard, overlapped, begun>>

(* What a saved evaluation says of the windows that were steady. *)
remainsSteady(k, read) ==
    \/ read.kind = "unread"
    \/ /\ read.kind \in {"live", "replayed"}
       /\ read.level = steady[k].level
       /\ same_window(steady[k].reset, read.reset)

(* The row of an alert that was sent. *)
spoken(h, k) == [level |-> helper[h].reads[k].level,
                 reset |-> helper[h].reads[k].reset, notified |-> helper[h].at]

(* BUG: the rows of the alerts to send are saved with the silent changes. *)
Mutant_SaveSilent(h) ==
    /\ helper[h].phase = "save"
    /\ file' = valid([k \in Key |-> IF k \in helper[h].pending THEN spoken(h, k)
                                    ELSE helper[h].rows[k]])
    /\ helper' = [helper EXCEPT ![h].phase = "send"]
    /\ steady' = [k \in Key |-> IF remainsSteady(k, helper[h].reads[k])
                                THEN steady[k] ELSE noRow]
    /\ UNCHANGED <<now, heard, overlapped, begun>>

(* Silent rearms and lower levels are saved first (under notification.lock, *)
(* in one atomic replacement).                                             *)
SaveSilent(h) ==
    /\ helper[h].phase = "save"
    /\ file' = valid(helper[h].rows)
    /\ helper' = [helper EXCEPT ![h].phase = "send"]
    /\ steady' = [k \in Key |-> IF remainsSteady(k, helper[h].reads[k])
                                THEN steady[k] ELSE noRow]
    /\ UNCHANGED <<now, heard, overlapped, begun>>

(* notify-send shows the alert and exits 0. *)
Send(h, k) ==
    /\ helper[h].phase = "send"
    /\ k \in helper[h].pending
    /\ heard' = [heard EXCEPT ![k] = @ \cup
                    {[at |-> helper[h].at, level |-> helper[h].reads[k].level]}]
    /\ helper' = [helper EXCEPT ![h].phase = "ack", ![h].pending = @ \ {k},
                                ![h].current = {k}, ![h].told = @ \cup {k}]
    /\ UNCHANGED <<now, file, steady, overlapped, begun>>

(* BUG: the rows are saved when the last alert has been sent. *)
Mutant_Acknowledge(h, k) ==
    /\ helper[h].phase = "ack" /\ k \in helper[h].current
    /\ LET rows == [helper[h].rows EXCEPT ![k] = spoken(h, k)] IN
       /\ file' = IF helper[h].pending = {} THEN valid(rows) ELSE file
       /\ helper' = [helper EXCEPT ![h].phase = "send", ![h].current = {},
                                   ![h].rows = rows]
    /\ steady' = [steady EXCEPT ![k] = spoken(h, k)]
    /\ UNCHANGED <<now, heard, overlapped, begun>>

(* The row is written and saved before the next alert is sent. *)
Acknowledge(h, k) ==
    /\ helper[h].phase = "ack" /\ k \in helper[h].current
    /\ LET rows == [helper[h].rows EXCEPT ![k] = spoken(h, k)] IN
       /\ file' = valid(rows)
       /\ helper' = [helper EXCEPT ![h].phase = "send", ![h].current = {},
                                   ![h].rows = rows]
    /\ steady' = [steady EXCEPT ![k] = spoken(h, k)]
    /\ UNCHANGED <<now, heard, overlapped, begun>>

ends(h) == helper' = [helper EXCEPT ![h] = newborn]

(* notify-send fails, times out or is killed, after it showed the alert or  *)
(* before: the error ends the evaluation and the row is not advanced.      *)
SendFails(h, k, wasShown) ==
    /\ helper[h].phase = "send"
    /\ k \in helper[h].pending
    /\ heard' = IF wasShown
                THEN [heard EXCEPT ![k] = @ \cup
                        {[at |-> helper[h].at, level |-> helper[h].reads[k].level]}]
                ELSE heard
    /\ ends(h)
    /\ UNCHANGED <<now, file, steady, overlapped, begun>>

(* Everything due has been sent. *)
Finish(h) ==
    /\ helper[h].phase = "send" /\ helper[h].pending = {}
    /\ ends(h)
    /\ UNCHANGED <<now, file, heard, steady, overlapped, begun>>

(* A save that fails (disk, maintenance), an unreadable file, the service's *)
(* timeout, a logout: the evaluation stops where it is.                    *)
Stops(h) ==
    /\ helper[h].phase # "idle"
    /\ ends(h)
    /\ UNCHANGED <<now, file, heard, steady, overlapped, begun>>

(* `uninstall purge` removes the cache directory; the maintenance gate      *)
(* keeps it out while a collection runs.                                   *)
Purge ==
    /\ \A h \in Helper : helper[h].phase = "idle"
    /\ file' = absent
    /\ steady' = empty
    /\ UNCHANGED <<now, helper, heard, overlapped, begun>>

Tick ==
    /\ now < MaxTime
    /\ now' = now + 1
    /\ UNCHANGED <<file, helper, heard, steady, overlapped, begun>>

EvaluationStep(h) ==
    \/ \E reads \in Envelope : Load(h, reads) \/ Quarantine(h, reads)
    \/ SaveSilent(h)
    \/ \E k \in Key : \/ Send(h, k) \/ Acknowledge(h, k)
                      \/ \E wasShown \in BOOLEAN : SendFails(h, k, wasShown)
    \/ Finish(h)

Next ==
    \/ \E h \in Helper : Start(h) \/ EvaluationStep(h) \/ Stops(h)
    \/ Purge
    \/ Tick

Spec == Init /\ [][Next]_vars

-----------------------------------------------------------------------------
(* No window is silenced by an alert nobody saw (NOTIFY-010): every row in  *)
(* the file, through kills, failures and overlapping evaluations, stands    *)
(* for an alert shown at that time and at that level or a higher one.      *)
RowsAreHeard ==
    \A k \in Key : file.rows[k].level > 0 =>
        \E alert \in heard[k] : /\ alert.at = file.rows[k].notified
                                /\ alert.level >= file.rows[k].level

(* A crash may repeat one alert, never more (NOTIFY-012): of those an       *)
(* evaluation has sent, at most the last is not recorded yet.              *)
OnlyOneUnrecorded ==
    ~overlapped => \A h \in Helper :
        Cardinality({k \in helper[h].told : file.rows[k].notified # helper[h].at}) <= 1

Sends(h, k) == /\ helper[h].phase = "send" /\ helper'[h].phase = "ack"
               /\ k \in helper[h].pending \ helper'[h].pending

(* A window that stays as it was alerted about is not alerted about again   *)
(* before the reminder (NOTIFY-003), unless the reset it was alerted about   *)
(* has passed.                                                             *)
SteadyWindowIsSpaced ==
    [][\A h \in Helper, k \in Key :
         Sends(h, k) /\ ~overlapped /\ steady[k].level > 0 =>
            \/ helper[h].at >= steady[k].notified + Reminder
            \/ steady[k].reset \in 1..helper[h].at]_vars

(* A completed evaluation leaves each window it read tracked at the level   *)
(* the window has: one above a threshold is never silenced by a row of      *)
(* another level, one below is armed, one that vanished is forgotten        *)
(* (NOTIFY-002, NOTIFY-005).                                               *)
FollowsTheWindow ==
    [][\A h \in Helper :
         helper[h].phase = "send" /\ helper[h].pending = {} /\ ~overlapped =>
            \A k \in Key : helper[h].reads[k].kind # "unread" =>
                file.rows[k].level = helper[h].reads[k].level]_vars

-----------------------------------------------------------------------------
(* 05-settings-cache-and-notifications.md: "Notification evaluation         *)
(* acquires notification.lock, reloads state, evaluates, dispatches, and    *)
(* persists before releasing the lock."  An alert that is sent is due by    *)
(* the state as it is recorded at that moment.                             *)
AlertsAreNotDoubled ==
    [][\A h \in Helper, k \in Key : Sends(h, k) =>
         should_emit(file.rows[k], helper[h].reads[k], helper[h].at)]_vars
=============================================================================
