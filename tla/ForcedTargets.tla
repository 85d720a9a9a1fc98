--------------------------- MODULE ForcedTargets ---------------------------
(***************************************************************************)
(* The pending forced-refresh set of Service.qml and the helper command it *)
(* turns into (CoreService.js).  A pending set is {all, ids}: `all` wins   *)
(* over ids, and a union with `all` forgets the ids.                       *)
(***************************************************************************)
CONSTANTS
    Provider,   \* CLOSED_PROVIDERS
    Enabled,    \* the providers settings.json enables, in the helper's eyes
    All         \* the "all" request target

ASSUME ProviderAssumption == Provider # {}
ASSUME EnabledAssumption == Enabled \subseteq Provider
ASSUME AllAssumption     == All \notin Provider

Pending == [all : BOOLEAN, ids : SUBSET Provider]

emptyPending == [all |-> FALSE, ids |-> {}]

pendingIsEmpty(pending) == ~pending.all /\ pending.ids = {}

(* BUG: a provider request replaces the providers already waiting. *)
Mutant_unionForced(pending, target) ==
    IF target = All \/ pending.all
    THEN [all |-> TRUE, ids |-> {}]
    ELSE [all |-> FALSE, ids |-> {target}]

(* Union one request into the pending set; a target outside the closed set *)
(* never reaches this point (refreshProvider returns first).               *)
unionForced(pending, target) ==
    IF target = All \/ pending.all
    THEN [all |-> TRUE, ids |-> {}]
    ELSE [all |-> FALSE, ids |-> pending.ids \cup {target}]

(* The status command: the cache mode, and the provider clause ({} when the *)
(* command names no provider).  The clause is written for exactly one id.   *)
statusArgv(captured) ==
    [cache    |-> IF pendingIsEmpty(captured) THEN "use" ELSE "bypass",
     provider |-> IF /\ ~captured.all
                     /\ \E id \in captured.ids : captured.ids = {id}
                  THEN captured.ids
                  ELSE {}]

Argv == [cache : {"use", "bypass"}, provider : SUBSET Provider]

(* The providers a helper run with this command collects and reports:     *)
(* the named one, or every enabled one (src/status/collect.rs).            *)
Collected(argv) == IF argv.provider = {} THEN Enabled ELSE argv.provider

(* What a pending set asks for. *)
Targets(pending) == IF pending.all THEN Provider ELSE pending.ids
=============================================================================
