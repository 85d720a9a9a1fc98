------------------------- MODULE ProviderCollection -------------------------
(***************************************************************************)
(* One provider's collection: what an adapter does between collect_one and  *)
(* the status row it returns (providers/adapters.rs, retry.rs, http.rs,     *)
(* process.rs, codex_app_server.rs, codex_session_log.rs).                 *)
(*                                                                         *)
(* Claude and Grok ask over HTTP, Amp runs a command, Codex talks to an app *)
(* server over its pipes and falls back to a session log.  Time passes only *)
(* while the adapter waits, and never past a timer that is due: the event   *)
(* loop has nothing else to do.  The provider's side may stay silent        *)
(* forever, and answers each request it was sent at most once, in any       *)
(* order.  Payloads are what the control distinguishes of them.            *)
(***************************************************************************)
EXTENDS Integers

CONSTANTS
    Provider,   \* the providers collected, of "claude", "grok", "codex", "amp"
    Timeout,    \* descriptor.timeout (and the HTTP client's), in clock ticks
    RetryDelay, \* RETRY_DELAY, in clock ticks
    Grace       \* how long rate limits wait for the account, in clock ticks

ASSUME CollectionAssumption ==
    /\ Provider \subseteq {"claude", "grok", "codex", "amp"} /\ Provider # {}
    /\ Timeout \in Nat \ {0} /\ RetryDelay \in Nat /\ Grace \in Nat

VARIABLES
    provider, exe,  \* whose collection, and whether its executable was found
    now,            \* time since the collection began
    phase, attempt,
    due,            \* when the timeout or delay of this phase ends
    talk,           \* the conversation with the app server
    child,          \* the child process and the pipe it writes to
    said,           \* history: what this attempt has heard of the provider
    result

vars == <<provider, exe, now, phase, attempt, due, talk, child, said, result>>

-----------------------------------------------------------------------------
Phase == {"prepare", "http", "command", "server", "delay", "log", "done"}

(* ProviderResult: its state, ProviderError.retryable, and where the data   *)
(* of a ready row was read.                                                *)
Row == [state : {"none", "ready", "cli_missing", "unauthenticated",
                 "rate_limited", "network_error", "provider_error"},
        retryable : BOOLEAN,
        from : {"none", "provider", "log"}]
row(state, retryable) == [state |-> state, retryable |-> retryable, from |-> "none"]
noRow       == row("none", FALSE)
ready(from) == [state |-> "ready", retryable |-> FALSE, from |-> from]

(* account_plan has arrived; rate_limits: none, or with or without windows; *)
(* asked: the ids whose answers are outstanding; grace, once armed.        *)
unarmed == -1
Limits  == {"none", "bare", "windows"}
Talk    == [asked : SUBSET (0..2), account : BOOLEAN, limits : Limits,
            grace : Nat \cup {unarmed}]
newTalk == [asked |-> {0}, account |-> FALSE, limits |-> "none", grace |-> unarmed]

(* A command's pipe may be held open by a process it left behind. *)
Child   == [state : {"none", "running", "exited", "killed"}, open : BOOLEAN]
noChild == [state |-> "none", open |-> FALSE]
started == [state |-> "running", open |-> TRUE]
killed  == [state |-> "killed", open |-> FALSE]

TypeOK ==
    /\ provider \in Provider /\ exe \in BOOLEAN
    /\ now \in Nat /\ due \in Nat
    /\ phase \in Phase /\ attempt \in 0..2
    /\ talk \in Talk /\ child \in Child
    /\ said \in {"nothing", "useless", "answer"}
    /\ result \in Row

Init ==
    /\ provider \in Provider /\ exe \in BOOLEAN
    /\ now = 0 /\ due = 0
    /\ phase = "prepare" /\ attempt = 0
    /\ talk = newTalk /\ child = noChild
    /\ said = "nothing"
    /\ result = noRow

returns(r) == phase' = "done" /\ result' = r

-----------------------------------------------------------------------------
(* Before anything is sent *)

(* Credentials that are absent or have expired, an invalid home. *)
refusals(p) ==
    CASE p = "claude" -> {row("unauthenticated", FALSE), row("unauthenticated", TRUE)}
      [] p = "grok"   -> {row("provider_error", FALSE), row("unauthenticated", FALSE)}
      [] p = "codex"  -> {row("provider_error", FALSE)}
      [] OTHER        -> {}

Refuse ==
    /\ phase = "prepare"
    /\ \/ \E r \in refusals(provider) : returns(r)
       \/ provider = "amp" /\ ~exe /\ returns(row("cli_missing", FALSE))
    /\ UNCHANGED <<provider, exe, now, attempt, due, talk, child, said>>

(* An attempt gets the whole timeout and, of the app server, a new child. *)
attempts(n, kind) ==
    /\ phase' = kind
    /\ attempt' = n
    /\ due' = now + Timeout
    /\ talk' = newTalk
    /\ said' = "nothing"

Ask ==
    /\ phase = "prepare" /\ provider \in {"claude", "grok"}
    /\ attempts(1, "http")
    /\ UNCHANGED <<provider, exe, now, child, result>>

-----------------------------------------------------------------------------
(* HTTP *)

(* What a response can be told apart by: a usable payload, 401 or 403, 429, *)
(* 5xx, an expired session in the body, and all other refusals (other       *)
(* statuses, a redirect, a body too large, a malformed payload).           *)
Response == {"ok", "auth", "limited", "server_error", "expired", "refused"}

claudeRow(response) ==
    CASE response = "ok"      -> ready("provider")
      [] response = "auth"    -> row("unauthenticated", FALSE)
      [] response = "limited" -> row("rate_limited", TRUE)
      [] response = "expired" -> row("unauthenticated", TRUE)
      [] OTHER                -> row("provider_error", FALSE)
grokRow(response) ==
    CASE response = "ok"           -> ready("provider")
      [] response = "auth"         -> row("unauthenticated", FALSE)
      [] response = "server_error" -> row("provider_error", TRUE)
      [] OTHER                     -> row("provider_error", FALSE)

(* http_get_with_retry: one more attempt, after the delay. *)
retriesOr(r) ==
    IF attempt = 1
    THEN phase' = "delay" /\ due' = now + RetryDelay /\ result' = result
    ELSE returns(r) /\ due' = due

(* Any response ends the loop: only network errors retry. *)
Responds(response) ==
    /\ phase = "http"
    /\ said' = "answer"
    /\ returns(IF provider = "claude" THEN claudeRow(response) ELSE grokRow(response))
    /\ UNCHANGED <<provider, exe, now, attempt, due, talk, child>>

(* A connection that fails or breaks while the body streams, or the         *)
(* client's own timeout.                                                   *)
NetworkFails ==
    /\ phase = "http"
    /\ retriesOr(row("network_error", TRUE))
    /\ UNCHANGED <<provider, exe, now, attempt, talk, child, said>>

(* The pause before the second attempt, HTTP and app server. *)
DelayElapses ==
    /\ phase = "delay" /\ now = due
    /\ \/ /\ attempts(2, IF provider = "codex" THEN "server" ELSE "http")
          /\ child' = IF provider = "codex" THEN started ELSE child
       \/ /\ provider = "codex"                 \* it cannot be spawned now
          /\ phase' = "log"
          /\ UNCHANGED <<attempt, due, talk, child, said>>
    /\ UNCHANGED <<provider, exe, now, result>>

-----------------------------------------------------------------------------
(* Amp: run_process *)

RunCommand ==
    /\ phase = "prepare" /\ provider = "amp" /\ exe
    /\ \/ attempts(1, "command") /\ child' = started /\ result' = result
       \/ /\ returns(row("network_error", TRUE))
          /\ UNCHANGED <<attempt, due, talk, said, child>>
    /\ UNCHANGED <<provider, exe, now>>

(* The child exits; its pipe reaches its end then, or when whoever else has *)
(* it open closes it.                                                      *)
ChildExits(stillOpen) ==
    /\ phase = "command" /\ child.state = "running"
    /\ child' = [state |-> "exited", open |-> stillOpen]
    /\ UNCHANGED <<provider, exe, now, phase, attempt, due, talk, said, result>>
PipeCloses ==
    /\ phase = "command" /\ child.open
    /\ child' = [child EXCEPT !.open = FALSE]
    /\ UNCHANGED <<provider, exe, now, phase, attempt, due, talk, said, result>>

commandDone == child.state = "exited" /\ ~child.open

(* Exit code 0 with any text is usage; otherwise the text says whether the  *)
(* user is signed out (classify_amp_failure).                              *)
CommandEnds ==
    /\ phase = "command" /\ commandDone
    /\ said' = "answer"
    /\ \E r \in {ready("provider"), row("unauthenticated", FALSE),
                 row("provider_error", FALSE)} : returns(r)
    /\ UNCHANGED <<provider, exe, now, attempt, due, talk, child>>

(* BUG: after the kill the pipe is read to its end. *)
Mutant_CommandTimesOut ==
    /\ phase = "command" /\ now = due /\ ~commandDone
    /\ child' = [child EXCEPT !.state = "exited"]
    /\ UNCHANGED <<provider, exe, now, phase, attempt, due, talk, said, result>>

(* The timeout covers the exit and the end of both pipes. *)
CommandTimesOut ==
    /\ phase = "command" /\ now = due /\ ~commandDone
    /\ child' = killed
    /\ returns(row("network_error", TRUE))
    /\ UNCHANGED <<provider, exe, now, attempt, due, talk, said>>

(* A pipe that cannot be read or a child that cannot be awaited ends the run *)
(* at once; the child is killed as its handle is dropped.                   *)
CommandBreaks ==
    /\ phase = "command"
    /\ child' = killed
    /\ returns(row("network_error", TRUE))
    /\ UNCHANGED <<provider, exe, now, attempt, due, talk, said>>

-----------------------------------------------------------------------------
(* Codex: the app server *)

SpawnServer ==
    /\ phase = "prepare" /\ provider = "codex" /\ exe
    /\ \/ attempts(1, "server") /\ child' = started
       \/ phase' = "log" /\ UNCHANGED <<attempt, due, talk, said, child>>
    /\ UNCHANGED <<provider, exe, now, result>>
NoServer ==
    /\ phase = "prepare" /\ provider = "codex" /\ ~exe
    /\ phase' = "log"
    /\ UNCHANGED <<provider, exe, now, attempt, due, talk, child, said, result>>

(* AppServerOutcome::Ok and ::Failed; the child is killed on every way out. *)
serverOk     == returns(ready("provider")) /\ child' = killed /\ due' = due
serverFailed == phase' = "log" /\ child' = killed /\ due' = due /\ result' = result
normalized(limits) == IF limits = "windows" THEN serverOk ELSE serverFailed
waits == UNCHANGED <<phase, result, child, due>>

(* initialize: account and rate limits are asked for together. *)
Initialized(accepted) ==
    /\ phase = "server" /\ 0 \in talk.asked
    /\ IF accepted
       THEN talk' = [talk EXCEPT !.asked = {1, 2}] /\ waits /\ said' = said
       ELSE talk' = talk /\ serverFailed /\ said' = "answer"
    /\ UNCHANGED <<provider, exe, now, attempt>>

(* account/read: any answer will do, the plan is optional. *)
AccountRead ==
    /\ phase = "server" /\ 1 \in talk.asked
    /\ talk' = [talk EXCEPT !.asked = @ \ {1}, !.account = TRUE]
    /\ IF talk.limits = "none" THEN waits ELSE normalized(talk.limits)
    /\ UNCHANGED <<provider, exe, now, attempt, said>>

(* BUG: every answer gives the server its whole timeout again. *)
Mutant_LimitsRead(limits) ==
    /\ phase = "server" /\ 2 \in talk.asked
    /\ talk' = [talk EXCEPT !.asked = @ \ {2}, !.limits = limits]
    /\ said' = IF limits = "windows" THEN "answer" ELSE "useless"
    /\ IF talk.account /\ limits # "none" THEN normalized(limits)
       ELSE due' = now + Timeout /\ UNCHANGED <<phase, result, child>>
    /\ UNCHANGED <<provider, exe, now, attempt>>

(* account/rateLimits/read: limits end the conversation, or wait a moment   *)
(* for the account; an answer that holds none is passed over.              *)
LimitsRead(limits) ==
    /\ phase = "server" /\ 2 \in talk.asked
    /\ talk' = [talk EXCEPT !.asked = @ \ {2}, !.limits = limits,
                    !.grace = IF limits # "none" /\ ~talk.account
                              THEN now + Grace ELSE @]
    /\ said' = IF limits = "windows" THEN "answer" ELSE "useless"
    /\ IF talk.account /\ limits # "none" THEN normalized(limits) ELSE waits
    /\ UNCHANGED <<provider, exe, now, attempt>>
LimitsRefused ==
    /\ phase = "server" /\ 2 \in talk.asked
    /\ talk' = [talk EXCEPT !.asked = @ \ {2}]
    /\ said' = "answer"
    /\ serverFailed
    /\ UNCHANGED <<provider, exe, now, attempt>>

(* The server closes its output, or cannot be read or written. *)
ServerEnds ==
    /\ phase = "server" /\ child.state = "running"
    /\ child' = [state |-> "exited", open |-> FALSE]
    /\ phase' = "log"
    /\ UNCHANGED <<provider, exe, now, attempt, due, talk, said, result>>

GraceElapses ==
    /\ phase = "server" /\ talk.grace # unarmed /\ now >= talk.grace
    /\ normalized(talk.limits)
    /\ UNCHANGED <<provider, exe, now, attempt, talk, said>>

(* BUG: the timeout does not look at what has arrived. *)
Mutant_ServerTimesOut ==
    /\ phase = "server" /\ now = due
    /\ child' = killed
    /\ IF attempt = 1 THEN phase' = "delay" /\ due' = now + RetryDelay
       ELSE phase' = "log" /\ due' = due
    /\ UNCHANGED <<provider, exe, now, attempt, talk, said, result>>

(* The hard timeout prefers limits that have arrived; the first one is      *)
(* retried, the second leaves the log.                                     *)
ServerTimesOut ==
    /\ phase = "server" /\ now = due
    /\ IF talk.limits = "windows" THEN serverOk
       ELSE /\ child' = killed
            /\ result' = result
            /\ IF attempt = 1 THEN phase' = "delay" /\ due' = now + RetryDelay
               ELSE phase' = "log" /\ due' = due
    /\ UNCHANGED <<provider, exe, now, attempt, talk, said>>

(* The newest session log that holds a rate-limit event; what it holds may  *)
(* be malformed.                                                           *)
ReadLog ==
    /\ phase = "log"
    /\ \/ returns(ready("log"))
       \/ returns(row("provider_error", FALSE))
       \/ returns(IF exe THEN row("provider_error", TRUE) ELSE row("cli_missing", FALSE))
    /\ UNCHANGED <<provider, exe, now, attempt, due, talk, child, said>>

-----------------------------------------------------------------------------
timerDue ==
    \/ now = due
    \/ phase = "server" /\ talk.grace # unarmed /\ now >= talk.grace
    \/ phase = "command" /\ commandDone

Tick ==
    /\ phase \in {"http", "command", "server", "delay"} /\ ~timerDue
    /\ now' = now + 1
    /\ UNCHANGED <<provider, exe, phase, attempt, due, talk, child, said, result>>

(* The helper's own steps: it takes them whatever its provider does. *)
Helper ==
    \/ Refuse \/ Ask \/ RunCommand \/ SpawnServer \/ NoServer
    \/ now = due /\ NetworkFails
    \/ DelayElapses \/ CommandEnds \/ CommandTimesOut
    \/ GraceElapses \/ ServerTimesOut \/ ReadLog
    \/ Tick

Next ==
    \/ Helper
    \/ \E response \in Response : Responds(response)
    \/ NetworkFails
    \/ \E stillOpen \in BOOLEAN : ChildExits(stillOpen)
    \/ PipeCloses \/ CommandBreaks
    \/ \E accepted \in BOOLEAN : Initialized(accepted)
    \/ AccountRead
    \/ \E limits \in Limits : LimitsRead(limits)
    \/ LimitsRefused
    \/ ServerEnds

Spec == Init /\ [][Next]_vars
FairSpec == Spec /\ WF_vars(Helper)

-----------------------------------------------------------------------------
(* No answer, silence or trickle of a provider keeps a collection longer    *)
(* than its two timeouts and the delay between them; Amp's has one.        *)
EndsInTime ==
    now <= IF provider = "amp" THEN Timeout ELSE Timeout + RetryDelay + Timeout

(* And it does end, whatever the provider does or never does: every row of  *)
(* a status run is filled.                                                 *)
CollectionEnds == <>(phase = "done")

(* Rate limits that have arrived are shown: neither the timeout nor the     *)
(* missing account loses them, and no log replaces them.  Only a server     *)
(* that ends by itself in that moment does.                                *)
ReceivedLimitsAreShown ==
    [][phase = "server" /\ phase' # "server" /\ talk.limits = "windows"
         /\ child'.state # "exited" => result' = ready("provider")]_vars

(* A provider that has given an answer, good or bad, is not asked again:    *)
(* rejected credentials, rate limits and server errors are not hammered.   *)
AnsweredIsNotRetried ==
    [][attempt = 1 /\ attempt' = 2 => said # "answer"]_vars

-----------------------------------------------------------------------------
(* 02-target-architecture.md: "Authentication, rate-limit, malformed        *)
(* payload, missing source, and nonzero usage-command results are never     *)
(* retried."  A rate-limits answer that cannot be used is one of them.     *)
MalformedIsNotRetried ==
    [][attempt = 1 /\ attempt' = 2 => said = "nothing"]_vars
=============================================================================
