---------------------- MODULE ProviderCollection_proofs ----------------------
(***************************************************************************)
(* A collection keeps its time whatever its provider does, loses no rate    *)
(* limits it has received, and asks nobody twice who has answered: for any  *)
(* timeout, delay and grace.                                               *)
(***************************************************************************)
EXTENDS ProviderCollection, TLAPS

(* Who may be in which phase. *)
PhasesOfProvider ==
    /\ phase = "command" => provider = "amp"
    /\ phase = "http" => provider \in {"claude", "grok"}
    /\ phase = "server" => provider = "codex"
    /\ phase = "delay" => provider # "amp"

(* No timer has been passed over, and each was set within the budget of its *)
(* attempt.                                                                *)
DeadlinesHold ==
    /\ phase = "prepare" => now = 0
    /\ phase \in {"http", "server", "command", "delay"} => now <= due
    /\ phase \in {"http", "server", "command"} =>
         \/ attempt = 1 /\ due = Timeout
         \/ attempt = 2 /\ due <= Timeout + RetryDelay + Timeout /\ phase # "command"
    /\ phase = "delay" => attempt = 1 /\ due <= Timeout + RetryDelay

(* What an attempt that goes on has heard. *)
HeardSoFar ==
    /\ phase = "http" => said = "nothing"
    /\ phase = "server" /\ said = "answer" => talk.limits = "windows"
    /\ phase = "delay" => said # "answer"

IInv == TypeOK /\ PhasesOfProvider /\ DeadlinesHold /\ EndsInTime /\ HeardSoFar

(* The initial state keeps the invariant: no time has passed. *)
LEMMA InvInit == Init => IInv
BY CollectionAssumption
   DEF Init, IInv, TypeOK, PhasesOfProvider, DeadlinesHold, EndsInTime, HeardSoFar,
       Phase, Row, row, noRow, Talk, newTalk, Limits, unarmed, Child, noChild

(* The rows an adapter returns are rows. *)
LEMMA RowType ==
    /\ \A r \in refusals(provider) : r \in Row
    /\ \A response : claudeRow(response) \in Row /\ grokRow(response) \in Row
    /\ ready("provider") \in Row /\ ready("log") \in Row
    /\ \A b \in BOOLEAN : /\ row("network_error", b) \in Row
                          /\ row("provider_error", b) \in Row
                          /\ row("unauthenticated", b) \in Row
                          /\ row("cli_missing", b) \in Row
<1>1. /\ ready("provider") \in Row /\ ready("log") \in Row
      /\ \A b \in BOOLEAN : /\ row("network_error", b) \in Row
                            /\ row("provider_error", b) \in Row
                            /\ row("unauthenticated", b) \in Row
                            /\ row("rate_limited", b) \in Row
                            /\ row("cli_missing", b) \in Row
  BY DEF ready, row, Row
<1>2. \A r \in refusals(provider) : r \in Row
  BY <1>1 DEF refusals
<1>3. ASSUME NEW response PROVE claudeRow(response) \in Row /\ grokRow(response) \in Row
  BY <1>1 DEF claudeRow, grokRow
<1> QED BY <1>1, <1>2, <1>3

(* Every step keeps the invariant. *)
LEMMA InvStep == IInv /\ [Next]_vars => IInv'
<1> SUFFICES ASSUME IInv, [Next]_vars PROVE IInv'
  OBVIOUS
<1> USE CollectionAssumption
    DEF IInv, TypeOK, PhasesOfProvider, DeadlinesHold, EndsInTime, HeardSoFar
<1>a. newTalk \in Talk /\ started \in Child /\ killed \in Child
  BY DEF newTalk, Talk, Limits, unarmed, started, killed, Child
<1>b. row("network_error", TRUE) \in Row
  BY RowType
<1>1. CASE Refuse
  BY <1>1, RowType DEF Refuse, returns, Phase
<1>2. CASE Ask
  BY <1>2, <1>a DEF Ask, attempts, Phase
<1>3. CASE RunCommand
  <2>1. CASE attempts(1, "command") /\ child' = started /\ result' = result
    BY <1>3, <1>a, <2>1 DEF RunCommand, attempts, Phase
  <2>2. CASE /\ returns(row("network_error", TRUE))
             /\ UNCHANGED <<attempt, due, talk, said, child>>
    BY <1>3, <1>b, <2>2 DEF RunCommand, returns, Phase
  <2> QED BY <1>3, <2>1, <2>2 DEF RunCommand
<1>4. CASE SpawnServer
  BY <1>4, <1>a DEF SpawnServer, attempts, Phase
<1>5. CASE NoServer
  BY <1>5 DEF NoServer, Phase
<1>6. CASE NetworkFails
  <2>1. CASE attempt = 1
    BY <1>6, <2>1 DEF NetworkFails, retriesOr, Phase
  <2>2. CASE attempt # 1
    BY <1>6, <1>b, <2>2 DEF NetworkFails, retriesOr, returns, Phase
  <2> QED BY <2>1, <2>2
<1>7. CASE DelayElapses
  BY <1>7, <1>a DEF DelayElapses, attempts, Phase
<1>8. CASE CommandEnds
  BY <1>8, RowType DEF CommandEnds, returns, Phase
<1>9. CASE CommandTimesOut
  BY <1>9, <1>a, RowType DEF CommandTimesOut, returns, Phase
<1>10. CASE GraceElapses
  BY <1>10, <1>a, RowType DEF GraceElapses, normalized, serverOk, serverFailed, returns, Phase
<1>11. CASE ServerTimesOut
  BY <1>11, <1>a, RowType DEF ServerTimesOut, serverOk, returns, Phase
<1>12. CASE ReadLog
  BY <1>12, RowType DEF ReadLog, returns, Phase
<1>13. CASE Tick
  BY <1>13 DEF Tick, timerDue
<1>14. CASE \E response \in Response : Responds(response)
  BY <1>14, RowType DEF Responds, returns, Phase
<1>15. CASE \E stillOpen \in BOOLEAN : ChildExits(stillOpen)
  BY <1>15 DEF ChildExits, Child
<1>16. CASE PipeCloses
  BY <1>16 DEF PipeCloses, Child
<1>17. CASE \E accepted \in BOOLEAN : Initialized(accepted)
  BY <1>17, <1>a DEF Initialized, waits, serverFailed, Talk, Phase
<1>18. CASE AccountRead
  BY <1>18, <1>a, RowType
     DEF AccountRead, waits, normalized, serverOk, serverFailed, returns, Talk, Phase
<1>19. CASE \E limits \in Limits : LimitsRead(limits)
  <2> PICK limits \in Limits : LimitsRead(limits)
    BY <1>19
  <2>a. (IF limits # "none" /\ ~talk.account THEN now + Grace ELSE talk.grace)
          \in Nat \cup {unarmed}
    BY DEF Talk
  <2>b. talk.asked \ {2} \in SUBSET (0..2)
    BY DEF Talk
  <2>1. talk' \in Talk /\ talk'.limits = limits
    BY <2>a, <2>b DEF LimitsRead, Talk
  <2>2. said' = IF limits = "windows" THEN "answer" ELSE "useless"
    BY DEF LimitsRead
  <2>3. CASE phase' = "done"
    BY <1>a, <2>1, <2>2, <2>3, RowType
       DEF LimitsRead, waits, normalized, serverOk, serverFailed, returns, Phase
  <2>4. CASE phase' = "log"
    BY <1>a, <2>1, <2>2, <2>4
       DEF LimitsRead, waits, normalized, serverOk, serverFailed, returns, Phase
  <2>5. CASE UNCHANGED <<phase, result, child, due>>
    BY <2>1, <2>2, <2>5 DEF LimitsRead
  <2> QED
    BY <2>3, <2>4, <2>5
       DEF LimitsRead, waits, normalized, serverOk, serverFailed, returns
<1>20. CASE LimitsRefused
  BY <1>20, <1>a DEF LimitsRefused, serverFailed, Talk, Phase
<1>21. CASE ServerEnds
  BY <1>21 DEF ServerEnds, Child, Phase
<1>22. CASE CommandBreaks
  BY <1>22, <1>a, <1>b DEF CommandBreaks, returns, Phase
<1>23. CASE UNCHANGED vars
  BY <1>23 DEF vars
<1> QED
  BY <1>1, <1>2, <1>3, <1>4, <1>5, <1>6, <1>7, <1>8, <1>9, <1>10, <1>11, <1>12, <1>13,
     <1>14, <1>15, <1>16, <1>17, <1>18, <1>19, <1>20, <1>21, <1>22, <1>23
     DEF Next, Helper

LEMMA Invariance == Spec => []IInv
<1> QED BY InvInit, InvStep, PTL DEF Spec

(* The collection's state keeps its type. *)
THEOREM CollectionTypeCorrect == Spec => []TypeOK
<1>1. IInv => TypeOK
  BY DEF IInv
<1> QED BY <1>1, Invariance, PTL

(* Whatever the provider answers or withholds, no collection outlasts its   *)
(* timeouts and the delay between them.                                    *)
THEOREM CollectionKeepsTime == Spec => []EndsInTime
<1>1. IInv => EndsInTime
  BY DEF IInv
<1> QED BY <1>1, Invariance, PTL

(* Whatever the provider has answered, it is asked again only if it has not *)
(* answered: the second attempt begins after a delay, and no answer ends in *)
(* one.                                                                    *)
THEOREM AnswersEndTheAsking == Spec => AnsweredIsNotRetried
<1>1. IInv /\ [Next]_vars => [attempt = 1 /\ attempt' = 2 => said # "answer"]_vars
  <2> SUFFICES ASSUME IInv, Next, attempt = 1, attempt' = 2 PROVE said # "answer"
    OBVIOUS
  <2>1. DelayElapses
    BY DEF Next, Helper, Refuse, Ask, RunCommand, SpawnServer, NoServer, NetworkFails,
           CommandEnds, CommandTimesOut, GraceElapses, ServerTimesOut, ReadLog, Tick,
           Responds, ChildExits, PipeCloses, CommandBreaks, Initialized, AccountRead,
           LimitsRead, LimitsRefused, ServerEnds, attempts
  <2> QED BY <2>1 DEF DelayElapses, IInv, HeardSoFar
<1> QED BY <1>1, Invariance, PTL DEF Spec, AnsweredIsNotRetried

(* The handshake comes first, and once rate limits have arrived only the    *)
(* account is still waited for.                                            *)
TalkInOrder ==
    /\ 0 \in talk.asked => talk.asked = {0}
    /\ talk.limits # "none" => talk.asked \subseteq {1}

(* Nothing asks for rate limits twice within an attempt. *)
LEMMA LimitsComeOnce == Spec => []TalkInOrder
<1>1. Init => TalkInOrder
  BY DEF Init, newTalk, TalkInOrder
<1>2. IInv /\ TalkInOrder /\ [Next]_vars => TalkInOrder'
  <2> SUFFICES ASSUME talk \in Talk, TalkInOrder, [Next]_vars PROVE TalkInOrder'
    BY DEF IInv, TypeOK
  <2> USE DEF TalkInOrder
  <2>1. CASE talk' = talk
    BY <2>1
  <2>2. CASE talk' = newTalk
    BY <2>2 DEF newTalk
  <2>3. CASE \E accepted \in BOOLEAN : Initialized(accepted)
    <3>1. 0 \in talk.asked /\ talk.limits = "none"
      BY <2>3 DEF Initialized, Talk
    <3>2. talk' = talk \/ talk' = [talk EXCEPT !.asked = {1, 2}]
      BY <2>3 DEF Initialized
    <3> QED BY <3>1, <3>2 DEF Talk
  <2>4. CASE AccountRead \/ LimitsRefused
    <3>1. \E n \in {1, 2} : /\ n \in talk.asked
                            /\ talk'.asked = talk.asked \ {n}
                            /\ talk'.limits = talk.limits
      BY <2>4 DEF AccountRead, LimitsRefused, Talk
    <3> QED BY <3>1 DEF Talk
  <2>5. CASE \E limits \in Limits : LimitsRead(limits)
    <3>1. talk'.asked = talk.asked \ {2} /\ 2 \in talk.asked
      BY <2>5 DEF LimitsRead, Talk
    <3> QED BY <3>1 DEF Talk
  <2> QED
    BY <2>1, <2>2, <2>3, <2>4, <2>5
       DEF Next, Helper, Refuse, Ask, RunCommand, SpawnServer, NoServer, NetworkFails,
           DelayElapses, CommandEnds, CommandTimesOut, GraceElapses, ServerTimesOut,
           ReadLog, Tick, Responds, ChildExits, PipeCloses, CommandBreaks, ServerEnds,
           attempts, vars
<1> QED BY <1>1, <1>2, Invariance, PTL DEF Spec

(* Rate limits that have arrived are what the collection returns, whichever *)
(* of its timers or answers ends the conversation.                         *)
THEOREM ReceivedIsShown == Spec => ReceivedLimitsAreShown
<1>1. IInv /\ TalkInOrder /\ [Next]_vars =>
        [phase = "server" /\ phase' # "server" /\ talk.limits = "windows"
           /\ child'.state # "exited" => result' = ready("provider")]_vars
  <2> SUFFICES ASSUME talk \in Talk, TalkInOrder, Next,
                      phase = "server", phase' # "server",
                      talk.limits = "windows", child'.state # "exited"
               PROVE  result' = ready("provider")
    BY DEF IInv, TypeOK
  <2>1. talk.asked \subseteq {1}
    BY DEF TalkInOrder
  <2>2. 0 \notin talk.asked /\ 2 \notin talk.asked
    BY <2>1
  <2>3. AccountRead \/ GraceElapses \/ ServerTimesOut
    <3>1. /\ ~\E accepted \in BOOLEAN : Initialized(accepted)
          /\ ~\E limits \in Limits : LimitsRead(limits)
          /\ ~LimitsRefused
      BY <2>2 DEF Initialized, LimitsRead, LimitsRefused
    <3>2. ~ServerEnds /\ ~PipeCloses /\ ~Tick
      BY DEF ServerEnds, PipeCloses, Tick
    <3>3. /\ ~\E response \in Response : Responds(response)
          /\ ~\E stillOpen \in BOOLEAN : ChildExits(stillOpen)
          /\ ~NetworkFails /\ ~DelayElapses
      BY DEF Responds, ChildExits, NetworkFails, DelayElapses
    <3>4. /\ ~Refuse /\ ~Ask /\ ~RunCommand /\ ~SpawnServer /\ ~NoServer
          /\ ~CommandEnds /\ ~CommandTimesOut /\ ~CommandBreaks /\ ~ReadLog
      BY DEF Refuse, Ask, RunCommand, SpawnServer, NoServer, CommandEnds,
             CommandTimesOut, CommandBreaks, ReadLog
    <3> QED BY <3>1, <3>2, <3>3, <3>4 DEF Next, Helper
  <2>4. CASE AccountRead
    BY <2>4 DEF AccountRead, waits, normalized, serverOk, returns
  <2>5. CASE GraceElapses
    BY <2>5 DEF GraceElapses, normalized, serverOk, returns
  <2>6. CASE ServerTimesOut
    BY <2>6 DEF ServerTimesOut, serverOk, returns
  <2> QED BY <2>3, <2>4, <2>5, <2>6
<1> QED BY <1>1, Invariance, LimitsComeOnce, PTL DEF Spec, ReceivedLimitsAreShown
=============================================================================
