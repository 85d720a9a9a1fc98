---------------------------- MODULE WindowMapping ----------------------------
(***************************************************************************)
(* How a provider's answer becomes the windows of its row                   *)
(* (providers/v2_map.rs and, for Codex, codex_app_server.rs): pure          *)
(* functions of the decoded payload.                                       *)
(*                                                                         *)
(* A field that may be absent is a sequence of at most one element, and so  *)
(* is a window that may be refused.  Percentages are integers.  A window's  *)
(* label, its reset time and monetary fields are left out; what is kept of  *)
(* a label is whether it is empty, which refuses the window.               *)
(***************************************************************************)
EXTENDS Integers, Sequences, SequencesExt

CONSTANT Sanitize  \* raw model or bucket name -> its lower-case ASCII letters, digits and hyphens

ASSUME SanitizeAssumption == \A name \in {"opus", "sonnet"} : Sanitize[name] = name

(* A field that is absent or in S. *)
optional(field, S) == field = <<>> \/ field[1] \in S

orElse(first, second) == IF first # <<>> THEN first ELSE second

clamp(x) == IF x < 0 THEN 0 ELSE IF x > 100 THEN 100 ELSE x

sanitized(raw, fallback) == IF Sanitize[raw] = "" THEN fallback ELSE Sanitize[raw]

-----------------------------------------------------------------------------
(* Windows.  An id is the tuple of the words that a colon joins.            *)

session == <<"session">>
weekly  == <<"weekly">>

(* UsageWindow::try_new *)
tryNew(id, labelled, used, remaining) ==
    IF labelled /\ {used, remaining} \subseteq 0..100 /\ used + remaining = 100
    THEN <<[id |-> id, used |-> used, remaining |-> remaining]>>
    ELSE <<>>

(* A used percentage, if there is one, as a window. *)
usedWindow(id, labelled, percent) ==
    IF percent = <<>> THEN <<>>
    ELSE tryNew(id, labelled, clamp(percent[1]), 100 - clamp(percent[1]))

remainingWindow(id, percent) ==
    IF percent = <<>> THEN <<>>
    ELSE tryNew(id, TRUE, 100 - clamp(percent[1]), clamp(percent[1]))

(* The first window of an id is kept. *)
push_window_unique(windows, window) ==
    IF \E i \in DOMAIN windows : windows[i].id = window.id THEN windows
    ELSE Append(windows, window)

pushedOnto(windows, more) == FoldLeft(push_window_unique, windows, more)

-----------------------------------------------------------------------------
(* Claude: dedicated fields, the limits list, and the older model fields.   *)
(* An entry of the list may belong to a model, named by an id or a display  *)
(* name.                                                                   *)

value(limit) == orElse(limit.utilization, limit.percent)

legacyKinds  == {"five_hour", "seven_day", "seven_day_oauth_apps"}
groupedId    == [session |-> session, weekly_all |-> weekly]
isScoped(limit) == /\ value(limit) # <<>>
                   /\ limit.kind \notin legacyKinds \cup DOMAIN groupedId

weekly_model_id(raw, ordinal) ==
    LET base == <<"weekly-model", sanitized(raw, "model")>>
    IN  IF ordinal <= 1 THEN base ELSE Append(base, ordinal)

modelOf(limit) == orElse(orElse(limit.model, limit.display), <<"model">>)[1]

(* BUG: the ordinal of a model's window is its entry's place in the list. *)
Mutant_scopedBefore(limits, i) == i - 1

(* How many windows of models came before the i-th entry. *)
scopedBefore(limits, i) == Cardinality({j \in 1..i - 1 : isScoped(limits[j])})

limitWindow(limits, i) ==
    LET limit == limits[i] IN
    IF limit.kind \in legacyKinds THEN <<>>
    ELSE IF limit.kind \in DOMAIN groupedId
         THEN usedWindow(groupedId[limit.kind], TRUE, value(limit))
         ELSE usedWindow(weekly_model_id(modelOf(limit), scopedBefore(limits, i)),
                         limit.display # <<"">>, value(limit))

claudeWindows(doc) ==
    pushedOnto(<<>>,
        usedWindow(session, TRUE, doc.five_hour)
        \o usedWindow(weekly, TRUE, orElse(doc.seven_day_oauth_apps, doc.seven_day))
        \o FlattenSeq([i \in DOMAIN doc.limits |-> limitWindow(doc.limits, i)])
        \o usedWindow(weekly_model_id("opus", 0), TRUE, doc.seven_day_opus)
        \o usedWindow(weekly_model_id("sonnet", 0), TRUE, doc.seven_day_sonnet))

(* ClaudeUsageDoc *)
isClaudeDoc(doc) ==
    /\ doc.limits \in Seq(ToSet(doc.limits))
    /\ \A limit \in ToSet(doc.limits) :
          optional(limit.utilization, Int) /\ optional(limit.percent, Int)
    /\ \A field \in {doc.five_hour, doc.seven_day, doc.seven_day_oauth_apps,
                     doc.seven_day_opus, doc.seven_day_sonnet} : optional(field, Int)

-----------------------------------------------------------------------------
(* Codex: what the app server answers, and the document it is normalized    *)
(* into, which is also what a session log holds.  A bucket's window is its  *)
(* used percentage and perhaps its duration in minutes.  The plan of an     *)
(* answer is its own or, without one, its root bucket's.                   *)

(* CodexAppServerLimitBucket *)
isBucket(bucket) ==
    \A slot \in {bucket.primary, bucket.secondary} :
        optional(slot, [used : Int, minutes : Seq(Int)])

isRead(read) ==
    /\ read.byId \in Seq(ToSet(read.byId))
    /\ \A entry \in ToSet(read.byId) : isBucket(entry.bucket)
    /\ read.root # <<>> => isBucket(read.root[1])

hasWindows(bucket) == bucket.primary # <<>> \/ bucket.secondary # <<>>

(* window_to_json: a duration that is missing is that of the slot. *)
timed(raw, minutes) ==
    IF raw = <<>> THEN <<>>
    ELSE <<[raw[1] EXCEPT !.minutes = orElse(@, <<minutes>>)]>>

extraBucket(entry) ==
    [limitId |-> entry.key, primary |-> timed(entry.bucket.primary, 300),
     secondary |-> timed(entry.bucket.secondary, 10080)]

rootIsUsed(read) == read.root # <<>> /\ hasWindows(read.root[1])

(* The key of the bucket shown as session and weekly. *)
preferredKey(read) ==
    LET first == SelectInSeq(read.byId, LAMBDA e : hasWindows(e.bucket)) IN
    IF rootIsUsed(read) THEN orElse(read.root[1].limit_id, <<"codex">>)
    ELSE IF \E e \in ToSet(read.byId) : e.key = "codex" /\ hasWindows(e.bucket) THEN <<"codex">>
    ELSE IF first = 0 THEN <<>>
    ELSE <<read.byId[first].key>>

preferredBucket(read) ==
    IF rootIsUsed(read) THEN read.root
    ELSE LET found == SelectInSeq(read.byId, LAMBDA e : <<e.key>> = preferredKey(read))
         IN  IF found = 0 THEN <<>> ELSE <<read.byId[found].bucket>>

(* BUG: the buckets by id are looked at only when there is none at the root. *)
Mutant_isExtra(read, e) ==
    ~rootIsUsed(read) /\ hasWindows(e.bucket) /\ <<e.key>> # preferredKey(read)

isExtra(read, e) == hasWindows(e.bucket) /\ <<e.key>> # preferredKey(read)

(* Every other bucket that carries a window, in the order of their keys. *)
extraBuckets(read) ==
    FlattenSeq([i \in DOMAIN read.byId |->
        IF isExtra(read, read.byId[i]) THEN <<extraBucket(read.byId[i])>> ELSE <<>>])

normalize_to_rate_limits_json(read) ==
    IF preferredBucket(read) = <<>> THEN <<>>
    ELSE LET bucket == preferredBucket(read)[1] IN
         <<[primary |-> timed(bucket.primary, 300),
            secondary |-> timed(bucket.secondary, 10080),
            individual |-> bucket.individual,
            extra |-> extraBuckets(read),
            plan |-> orElse(read.accountPlan, read.plan),
            resets |-> read.resets]>>

codex_window_identity(minutes, ordinal) ==
    IF minutes = <<10080>> THEN weekly
    ELSE IF minutes = <<300>> THEN session
    ELSE IF minutes # <<>> /\ minutes[1] > 0 THEN <<"other", minutes[1], ordinal>>
    ELSE IF ordinal = 1 THEN session ELSE weekly

codexWindow(id, raw) == IF raw = <<>> THEN <<>> ELSE usedWindow(id, TRUE, <<raw[1].used>>)

slotWindow(raw, ordinal) ==
    IF raw = <<>> THEN <<>>
    ELSE codexWindow(codex_window_identity(raw[1].minutes, ordinal), raw)

bucketWindows(bucket) ==
    LET base == <<"codex", sanitized(bucket.limitId, "bucket")>>
    IN  codexWindow(base, bucket.primary) \o codexWindow(Append(base, 2), bucket.secondary)

(* The two slots are pushed as they are, and so is the workspace limit. *)
codexWindows(doc) ==
    pushedOnto(slotWindow(doc.primary, 1) \o slotWindow(doc.secondary, 2),
               FlattenSeq([i \in DOMAIN doc.extra |-> bucketWindows(doc.extra[i])]))
    \o remainingWindow(<<"workspace-limit">>, doc.individual)

-----------------------------------------------------------------------------
(* Amp: a percentage or a ratio of dollars, and a subscription.             *)

free(text) ==
    IF text.freePercent # <<>> THEN text.freePercent
    ELSE IF text.dollars = <<>> \/ text.dollars[1].total = 0 THEN <<>>
    ELSE <<clamp((text.dollars[1].remaining * 100) \div text.dollars[1].total)>>

(* What remains of the free allowance is shown as it was read. *)
freeWindow(text) ==
    IF free(text) = <<>> THEN <<>>
    ELSE tryNew(<<"daily">>, TRUE, clamp(100 - free(text)[1]), free(text)[1])

ampWindows(text) ==
    freeWindow(text)
    \o IF text.subscription = <<>> THEN <<>>
       ELSE remainingWindow(<<"plan-other">>, text.subscription[1].other)
            \o remainingWindow(<<"plan-orb">>, text.subscription[1].orb)

-----------------------------------------------------------------------------
(* Grok: one window, named for the period's type when that has the known    *)
(* prefix.                                                                 *)

grok_window_identity(period) ==
    IF period \in {<<>>, <<"foreign">>} THEN weekly ELSE <<period[1]>>

grokWindows(doc) ==
    usedWindow(grok_window_identity(doc.period), TRUE, doc.creditUsagePercent)
=============================================================================
