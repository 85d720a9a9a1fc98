------------------------------ MODULE StatusRow ------------------------------
(***************************************************************************)
(* One provider's row in the status document, from the provider's answers   *)
(* through retention and the cache to the envelope (status/collect.rs,      *)
(* status/schema.rs, apply_stale_retention, CacheDocument::validate).      *)
(*                                                                         *)
(* Requests come one after the other here; StatusCache has the processes    *)
(* that overlap, the clock and the age of the data.  Rows of different      *)
(* providers do not touch each other, so there is one provider; but a row   *)
(* that is refused costs the request every provider's.                     *)
(***************************************************************************)
EXTENDS WindowMapping

CONSTANTS
    Provider,   \* of "claude", "codex", "amp", "grok"
    Payload     \* the payloads each provider may answer with

ASSUME RowAssumption ==
    /\ Provider \subseteq {"claude", "codex", "amp", "grok"}
    /\ DOMAIN Payload = Provider

(* Lists are lists and percentages are numbers: others are not decoded. *)
isPayload(p, payload) ==
    CASE p = "claude" -> isClaudeDoc(payload)
      [] p = "codex"  -> IF payload.from = "log"
                         THEN payload.doc.extra \in Seq(ToSet(payload.doc.extra))
                         ELSE isRead(payload.read)
      [] OTHER        -> TRUE

ASSUME PayloadAssumption ==
    \A p \in Provider : \A payload \in Payload[p] : isPayload(p, payload)

VARIABLES
    provider,
    cached,     \* the provider's row in the cache file, if it has one
    served,     \* the row the last request reported
    refused,    \* has a request failed on the provider's row
    answered    \* history: the last payload that made a ready row

rowVars == <<provider, cached, served, refused, answered>>

-----------------------------------------------------------------------------
(* Results of a collection *)

noData == [plan |-> <<>>, account |-> <<>>, windows |-> <<>>, resets |-> <<>>]

readyResult(data) ==
    [state |-> "ready", retryable |-> FALSE, login |-> FALSE, data |-> data]
failure(state, retryable, login) ==
    [state |-> state, retryable |-> retryable, login |-> login, data |-> noData]

dataOf(plan, account, windows) ==
    [noData EXCEPT !.plan = plan, !.account = account, !.windows = windows]

claudeResult(doc) == readyResult(dataOf(doc.plan, doc.account, claudeWindows(doc)))

codexReady(doc) ==
    readyResult([dataOf(doc.plan, <<>>, codexWindows(doc)) EXCEPT !.resets = doc.resets])

(* The app server's answer, or a document found in a session log.  Without  *)
(* windows the server has failed, and here the log has nothing either.      *)
codexResult(payload) ==
    LET doc == IF payload.from = "log" THEN <<payload.doc>>
               ELSE normalize_to_rate_limits_json(payload.read)
    IN  IF doc = <<>> THEN failure("provider_error", TRUE, FALSE) ELSE codexReady(doc[1])

ampResult(text) ==
    LET plan == IF text.subscription = <<>> THEN <<>> ELSE <<text.subscription[1].name>>
    IN  readyResult(dataOf(plan, text.account, ampWindows(text)))

grokResult(doc) == readyResult(dataOf(doc.plan, doc.account, grokWindows(doc)))

resultOf(p, payload) ==
    CASE p = "claude" -> claudeResult(payload)
      [] p = "codex"  -> codexResult(payload)
      [] p = "amp"    -> ampResult(payload)
      [] p = "grok"   -> grokResult(payload)

results == [p \in Provider |-> [payload \in Payload[p] |-> resultOf(p, payload)]]

(* What else the adapters return, bodies that say so or are malformed too. *)
refusals(p) ==
    LET signedOut(retryable) == {failure("unauthenticated", retryable, l) : l \in BOOLEAN}
        offline == {failure("network_error", TRUE, FALSE)}
        broken(retryable) == {failure("provider_error", r, FALSE) : r \in retryable}
    IN  CASE p = "claude" -> signedOut(FALSE) \cup signedOut(TRUE) \cup offline
                               \cup broken({FALSE}) \cup {failure("rate_limited", TRUE, FALSE)}
          [] p = "codex"  -> broken(BOOLEAN) \cup {failure("cli_missing", FALSE, FALSE)}
          [] p = "amp"    -> signedOut(FALSE) \cup offline \cup broken({FALSE})
                               \cup {failure("cli_missing", FALSE, FALSE)}
          [] p = "grok"   -> signedOut(FALSE) \cup offline \cup broken(BOOLEAN)

-----------------------------------------------------------------------------
(* Rows.  A constructor that refuses its arguments returns no row.          *)

noError == [code |-> "none", retryable |-> FALSE]

uniqueIds(windows) ==
    \A i, j \in DOMAIN windows : windows[i].id = windows[j].id => i = j

readyRow(source, data) ==
    IF ~uniqueIds(data.windows) THEN {}
    ELSE {[state |-> "ready", source |-> source, data |-> data, success |-> TRUE,
           error |-> noError, action |-> "none"]}

staleRow(data, error) ==
    IF ~uniqueIds(data.windows) THEN {}
    ELSE {[state |-> "stale", source |-> "cache", data |-> data, success |-> TRUE,
           error |-> error, action |-> "retry"]}

FailureState == {"cli_missing", "unauthenticated", "rate_limited", "network_error",
                 "provider_error"}

(* ErrorCode *)
errorCode(state) ==
    CASE state = "cli_missing"     -> "cli_not_found"
      [] state = "unauthenticated" -> "authentication_required"
      [] OTHER                     -> state

failureRow(state, retryable, action) ==
    [state |-> state, source |-> "none", data |-> noData, success |-> FALSE,
     error |-> [code |-> errorCode(state), retryable |-> retryable], action |-> action]

(* provider_status_from_result *)
actionOf(result) ==
    IF result.state = "cli_missing" \/ (result.state = "unauthenticated" /\ ~result.login)
    THEN "view_installation"
    ELSE IF result.state = "unauthenticated" THEN "login" ELSE "retry"

statusOf(result) ==
    IF result.state = "ready" THEN readyRow("live", result.data)
    ELSE {failureRow(result.state, result.retryable, actionOf(result))}

(* collect_one: a result that makes no row is a provider error. *)
liveRows(result) ==
    IF statusOf(result) = {} THEN {failureRow("provider_error", FALSE, "retry")}
    ELSE statusOf(result)

(* BUG: a rejected authentication counts as temporary. *)
Mutant_is_temporary_failure(row) ==
    \/ row.state \in {"network_error", "rate_limited", "unauthenticated"}
    \/ row.state = "provider_error" /\ row.error.retryable

is_temporary_failure(row) ==
    \/ row.state \in {"network_error", "rate_limited"}
    \/ row.state \in {"provider_error", "unauthenticated"} /\ row.error.retryable

retain_as_stale(row, error) ==
    IF row.success /\ row.state \in {"ready", "stale"} THEN staleRow(row.data, error)
    ELSE {}

apply_stale_retention(live, prior) ==
    IF is_temporary_failure(live) /\ \E row \in prior : row.state \in {"ready", "stale"}
    THEN UNION {retain_as_stale(row, live.error) : row \in prior}
    ELSE {live}

for_cache_hit(row) ==
    IF row.state # "ready" THEN {row}
    ELSE IF row.success THEN readyRow("cache", row.data) ELSE {}

(* validate_state_shape: what a cache file and an envelope must satisfy. *)
validShape(row) ==
    /\ row.state = "ready" => row.source # "none" /\ row.success
                                /\ row.error = noError /\ row.action = "none"
    /\ row.state = "stale" => row.source = "cache" /\ row.success
                                /\ row.error # noError /\ row.action = "retry"
    /\ row.state \notin {"ready", "stale"} =>
          /\ row.source = "none" /\ row.data.windows = <<>> /\ ~row.success
          /\ row.error # noError /\ row.action # "none"
    /\ uniqueIds(row.data.windows)

(* validate_semantics, of one row *)
accepted(row) ==
    /\ validShape(row)
    /\ \A i \in DOMAIN row.data.windows :
          LET w == row.data.windows[i] IN
          {w.used, w.remaining} \subseteq 0..100 /\ w.used + w.remaining = 100

-----------------------------------------------------------------------------
RowInit ==
    /\ provider \in Provider
    /\ cached = {} /\ served = {} /\ answered = {}
    /\ refused = FALSE

(* The envelope is built with the row, or not at all. *)
Report(rows) ==
    LET sound == {row \in rows : accepted(row)} IN
    /\ served' = sound
    /\ refused' = (refused \/ sound = {})

(* CacheStore.load: a document with an invalid row is put aside. *)
loaded == {row \in cached : validShape(row)}

(* A live collection: retention, the cache, the envelope.                   *)
Collect(result) ==
    \E live \in liveRows(result) :
       LET rows == apply_stale_retention(live, loaded) IN
       /\ cached' = IF rows = {} THEN loaded ELSE rows
       /\ Report(rows)

Answers(payload) ==
    LET result == results[provider][payload] IN
    /\ Collect(result)
    /\ answered' = IF \E row \in liveRows(result) : row.state = "ready"
                   THEN {payload} ELSE answered
    /\ UNCHANGED provider

Fails(result) ==
    /\ Collect(result)
    /\ UNCHANGED <<provider, answered>>

(* A request answered from a fresh entry of the cache. *)
Hit ==
    /\ loaded # {}
    /\ Report(UNION {for_cache_hit(row) : row \in loaded})
    /\ UNCHANGED <<provider, cached, answered>>

(* The cache file is removed, by a purge or by the user. *)
Removed ==
    /\ cached # {}
    /\ cached' = {}
    /\ UNCHANGED <<provider, served, refused, answered>>

RowNext ==
    \/ \E payload \in Payload[provider] : Answers(payload)
    \/ \E result \in refusals(provider) : Fails(result)
    \/ Hit
    \/ Removed

RowSpec == RowInit /\ [][RowNext]_rowVars

-----------------------------------------------------------------------------
actionsOf(state) ==
    CASE state = "cli_missing"     -> {"view_installation"}
      [] state = "unauthenticated" -> {"login", "view_installation"}
      [] OTHER                     -> {"retry"}

(* JSON-001 to JSON-006, the truth table of the states: whatever answers,   *)
(* retentions and cache hits before it, a row in the cache or in an         *)
(* envelope has the provenance, the error and the action of its state, and  *)
(* a stale one a cause that can be retried.                                *)
FollowsTheTable(row) ==
    /\ row.state \in {"ready", "stale"} \cup FailureState
    /\ row.success <=> row.state \in {"ready", "stale"}
    /\ CASE row.state = "ready" -> /\ row.source \in {"live", "cache"}
                                   /\ row.error = noError /\ row.action = "none"
         [] row.state = "stale" -> /\ row.source = "cache" /\ row.action = "retry"
                                   /\ row.error.retryable
         [] OTHER -> /\ row.source = "none" /\ row.data.windows = <<>>
                     /\ row.error.code = errorCode(row.state)
                     /\ row.action \in actionsOf(row.state)
    /\ uniqueIds(row.data.windows)

RowsFollowTheTable == \A row \in cached \cup served : FollowsTheTable(row)

(* A ready or stale row carries the plan, the account, the windows and the  *)
(* count of resets of the last payload that could be used, however many     *)
(* failures, cache hits and requests ago.                                  *)
KeepsTheAnswer ==
    \A row \in cached : row.state \in {"ready", "stale"} =>
        \E payload \in answered : row.data = results[provider][payload].data

(* The quotas Claude reports, whichever fields report them. *)
grouped(doc, kind) ==
    \E i \in DOMAIN doc.limits : doc.limits[i].kind = kind /\ value(doc.limits[i]) # <<>>
models(doc) ==
    {sanitized(modelOf(limit), "model") : limit \in
        {l \in ToSet(doc.limits) : isScoped(l) /\ l.display # <<"">>}}
    \cup (IF doc.seven_day_opus # <<>> THEN {"opus"} ELSE {})
    \cup (IF doc.seven_day_sonnet # <<>> THEN {"sonnet"} ELSE {})
claudeQuotas(doc) ==
    (IF doc.five_hour # <<>> \/ grouped(doc, "session") THEN {session} ELSE {})
    \cup (IF \/ doc.seven_day # <<>> \/ doc.seven_day_oauth_apps # <<>>
             \/ grouped(doc, "weekly_all")
          THEN {weekly} ELSE {})
    \cup {<<"weekly-model", name>> : name \in models(doc)}

(* What an id says of its quota: the ordinal of a model's window is no part. *)
quotaOf(id) == SubSeq(id, 1, IF Len(id) < 2 THEN Len(id) ELSE 2)

(* The places of the entries that say something of a model. *)
modelEntries(doc) ==
    {i \in DOMAIN doc.limits : isScoped(doc.limits[i]) /\ doc.limits[i].display # <<"">>}
nameOf(doc, i) == sanitized(modelOf(doc.limits[i]), "model")

(* The second entry of a model, if it has the name of the first. *)
twins(doc) ==
    {i \in modelEntries(doc) : \E j \in modelEntries(doc) :
        /\ j < i /\ nameOf(doc, j) = nameOf(doc, i)
        /\ \A k \in 1..i - 1 : isScoped(doc.limits[k]) => k = j}

(* Each of the entries has a window of its own, of its model and with its   *)
(* percentage.                                                             *)
shownApart(doc, entries, windows) ==
    \E at \in [entries -> DOMAIN windows] :
        /\ IsInjective(at)
        /\ \A i \in entries :
              /\ quotaOf(windows[at[i]].id) = <<"weekly-model", nameOf(doc, i)>>
              /\ windows[at[i]].used = clamp(value(doc.limits[i])[1])

(* The slots of Codex's buckets: those by id, and the root's in the place   *)
(* of the one that it is.                                                  *)
slots(key, bucket) ==
    {<<key, s>> : s \in {s \in {"primary", "secondary"} : bucket[s] # <<>>}}
codexSlots(read) ==
    LET rootKey == IF rootIsUsed(read) THEN orElse(read.root[1].limit_id, <<"codex">>) ELSE <<>>
    IN  (IF rootKey = <<>> THEN {} ELSE slots(rootKey, read.root[1]))
        \cup UNION {slots(<<e.key>>, e.bucket) :
                       e \in {e \in ToSet(read.byId) : <<e.key>> # rootKey}}
distinctKeys(read) ==
    \A i, j \in DOMAIN read.byId :
        sanitized(read.byId[i].key, "bucket") = sanitized(read.byId[j].key, "bucket") => i = j

(* What a row shows of its answer.  For Claude, the quotas it reports in one  *)
(* field or the other and no others, a model's by its sanitized name; and   *)
(* each entry of a model has a window of its own with its percentage,       *)
(* except a twin, which has the id of the first entry and is dropped, though *)
(* a third of that name is not (push_window_unique; see CollisionsAreKept). *)
(* For Codex, each slot of each bucket once, unless the names of two        *)
(* buckets differ in case or signs only.  Of Amp, Grok and session logs it  *)
(* says no more than KeepsTheAnswer.                                       *)
showsAll(payload, windows) ==
    CASE provider = "claude" ->
            /\ {quotaOf(w.id) : w \in ToSet(windows)} = claudeQuotas(payload)
            /\ shownApart(payload, modelEntries(payload) \ twins(payload), windows)
      [] provider = "codex" /\ payload.from = "server" /\ distinctKeys(payload.read) ->
            Cardinality({w \in ToSet(windows) : w.id # <<"workspace-limit">>})
               = Cardinality(codexSlots(payload.read))
      [] OTHER -> TRUE

(* No request is ever refused for a row, which would take the siblings with *)
(* it (JSON-022), and a ready or stale row shows what the last good answer  *)
(* reported (JSON-002, JSON-006), as far as showsAll says.                 *)
AnswersAreShown ==
    /\ ~refused
    /\ KeepsTheAnswer
    /\ \A row \in cached : row.state \in {"ready", "stale"} =>
          \A payload \in answered : showsAll(payload, row.data.windows)

(* 02-target-architecture.md:235-237, of models with one id: "collisions     *)
(* receive the deterministic source-order suffix :2, :3, and so on".  The   *)
(* code does not keep it: the ordinals 0 and 1 have no suffix, so a twin is *)
(* dropped.  No run has it.                                                *)
CollisionsAreKept ==
    provider = "claude" =>
        \A row \in cached : row.state \in {"ready", "stale"} =>
            \A payload \in answered :
                shownApart(payload, modelEntries(payload), row.data.windows)

(* The elements of a list that are in S, in their order. *)
only(list1, S) ==
    FlattenSeq([i \in DOMAIN list1 |-> IF list1[i] \in S THEN <<list1[i]>> ELSE <<>>])

scopedIn(limits) == {limit \in ToSet(limits) : isScoped(limit)}
ofModels(windows) == {w \in ToSet(windows) : w.id[1] = "weekly-model"}

saysOfModels(doc) ==
    <<only(doc.limits, scopedIn(doc.limits)), doc.seven_day_opus, doc.seven_day_sonnet>>
modelWindows(row) == only(row.data.windows, ofModels(row.data.windows))

(* JSON-020 and v2_map.rs: "ids must not shift when the API reorders or     *)
(* prepends grouped entries": two answers in a row that say the same of the *)
(* models show the same windows of models.                                 *)
ModelIdsAreStable ==
    [][provider = "claude" =>
         \A old \in cached, new \in cached', before \in answered, after \in answered' :
            /\ old.state = "ready" /\ new.state = "ready"
            /\ saysOfModels(before) = saysOfModels(after)
            => modelWindows(old) = modelWindows(new)]_rowVars
=============================================================================
