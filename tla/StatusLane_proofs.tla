-------------------------- MODULE StatusLane_proofs --------------------------
(***************************************************************************)
(* What StatusLane's runs check for three providers and three runs, proved  *)
(* for any set of providers and any number of runs.                        *)
(***************************************************************************)
EXTENDS StatusLane, TLAPS

-----------------------------------------------------------------------------
(* The pending set and the process object *)

(* unionForced stays in the closed set of pending sets. *)
LEMMA UnionForcedType ==
    ASSUME NEW pending \in Pending, NEW target \in Provider \cup {All}
    PROVE  unionForced(pending, target) \in Pending
BY AllAssumption DEF unionForced, Pending

(* unionForced adds what the request asks for and forgets nothing. *)
LEMMA UnionForcedTargets ==
    ASSUME NEW pending \in Pending, NEW target \in Provider \cup {All}
    PROVE  Targets(unionForced(pending, target)) =
               Targets(pending) \cup (IF target = All THEN Provider ELSE {target})
BY AllAssumption DEF unionForced, Pending, Targets

(* A pending set asks for providers, and for none exactly when it is empty. *)
LEMMA PendingTargets ==
    ASSUME NEW pending \in Pending
    PROVE  /\ Targets(pending) \subseteq Provider
           /\ pendingIsEmpty(pending) <=> Targets(pending) = {}
BY ProviderAssumption DEF Pending, Targets, pendingIsEmpty

LEMMA EmptyPendingType == emptyPending \in Pending /\ Targets(emptyPending) = {}
BY DEF emptyPending, Pending, Targets

(* The process object stays one, whatever the lane does to it. *)
LEMMA ProcessType ==
    ASSUME NEW Job, NEW p \in Process(Job), NEW job \in Job, NEW noJob \in Job
    PROVE  /\ NoProcess(noJob) \in Process(Job)
           /\ Started(p, job) \in Process(Job)
           /\ Stopped(p) \in Process(Job)
           /\ AfterExit(p, job, noJob) \subseteq Process(Job)
<1>1. NoProcess(noJob) \in Process(Job)
  BY DEF NoProcess, Process, OsState
<1>2. Started(p, job) \in Process(Job)
  BY DEF Started, Process, OsState
<1>3. Stopped(p) \in Process(Job)
  BY DEF Stopped, Process, OsState
<1>4. AfterExit(p, job, noJob) \subseteq Process(Job)
  <2>1. [os |-> "live", job |-> job, again |-> FALSE] \in Process(Job)
    BY DEF Process, OsState
  <2>2. QED
    BY <1>1, <2>1 DEF AfterExit
<1>5. QED
  BY <1>1, <1>2, <1>3, <1>4

LEMMA NoCommandType == noCommand \in Command
BY EmptyPendingType DEF noCommand, Command

(* The types of the variables a kick sets. *)
StatusTypeOK ==
    /\ statusBusy \in BOOLEAN
    /\ statusGeneration \in Nat
    /\ pendingForcedTargets \in Pending
    /\ statusCommand \in Command
    /\ statusProcess \in Process(Command)

LEMMA KickType ==
    ASSUME StatusTypeOK, NEW ready, NEW busy \in BOOLEAN, NEW pending \in Pending,
           NEW process \in Process(Command),
           kickStatus(ready, busy, pending, process)
    PROVE  StatusTypeOK'
<1> DEFINE command == [generation |-> statusGeneration + 1, forced |-> pending]
<1>1. command \in Command
  BY DEF StatusTypeOK, Command
<1>2. Started(process, command) \in Process(Command)
  BY <1>1, ProcessType, NoCommandType
<1>3. CASE ready /\ ~blocked /\ ~busy
  BY <1>1, <1>2, <1>3, EmptyPendingType DEF kickStatus, StatusTypeOK
<1>4. CASE ~(ready /\ ~blocked /\ ~busy)
  BY <1>4 DEF kickStatus, StatusTypeOK
<1>5. QED
  BY <1>3, <1>4

LEMMA ApplyType ==
    ASSUME StatusTypeOK, snapshot \in Snapshot, NEW ok \in BOOLEAN,
           NEW providers \in SUBSET Provider, NEW process \in Process(Command),
           applyStatusResult(ok, providers, process)
    PROVE  StatusTypeOK' /\ snapshot' \in Snapshot
<1>1. statusProcess.job.generation \in Nat
  BY DEF StatusTypeOK, Process, Command
<1>2. snapshot' \in Snapshot
  BY <1>1 DEF applyStatusResult, Snapshot
<1>3. CASE pendingIsEmpty(pendingForcedTargets)
  BY <1>2, <1>3 DEF applyStatusResult, StatusTypeOK
<1>4. CASE ~pendingIsEmpty(pendingForcedTargets)
  <2>1. kickStatus(versionReady, FALSE, pendingForcedTargets, process)
    BY <1>4 DEF applyStatusResult
  <2>2. QED
    BY <1>2, <2>1, KickType DEF StatusTypeOK
<1>5. QED
  BY <1>3, <1>4

LEMMA CollectedType ==
    ASSUME NEW forced \in Pending
    PROVE  Collected(statusArgv(forced)) \in SUBSET Provider
BY EnabledAssumption DEF Collected, statusArgv, Pending

-----------------------------------------------------------------------------
(* Type correctness *)

LEMMA InitType == Init => TypeOK
<1> SUFFICES ASSUME Init PROVE TypeOK
  OBVIOUS
<1>1. versionProcess \in Process({"version"}) /\ statusProcess \in Process(Command)
  BY NoCommandType DEF Init, NoProcess, Process, OsState
<1>2. statusCommand \in Command /\ pendingForcedTargets \in Pending
  BY NoCommandType, EmptyPendingType DEF Init
<1>3. snapshot \in Snapshot
  BY DEF Init, Snapshot, noSnapshot
<1>4. QED
  BY <1>1, <1>2, <1>3 DEF Init, TypeOK, VersionState

(* A kick at the end of a probe or delay handler. *)
LEMMA BeginType ==
    ASSUME TypeOK, NEW ready,
           kickStatus(ready, statusBusy, pendingForcedTargets, statusProcess)
    PROVE  StatusTypeOK'
BY KickType DEF TypeOK, StatusTypeOK

LEMMA NextType == TypeOK /\ [Next]_vars => TypeOK'
<1> SUFFICES ASSUME TypeOK, [Next]_vars PROVE TypeOK'
  OBVIOUS
<1> USE DEF TypeOK, versionVars, statusVars
<1>t. StatusTypeOK
  BY DEF StatusTypeOK
<1>v. /\ NoProcess("version") \in Process({"version"})
      /\ Started(versionProcess, "version") \in Process({"version"})
      /\ Stopped(versionProcess) \in Process({"version"})
      /\ AfterExit(versionProcess, "version", "version")
            \subseteq Process({"version"})
  BY ProcessType
<1>p. /\ NoProcess(noCommand) \in Process(Command)
      /\ Stopped(statusProcess) \in Process(Command)
      /\ AfterExit(statusProcess, statusCommand, noCommand)
            \subseteq Process(Command)
  BY ProcessType, NoCommandType
<1>1. CASE tryStartProduction
  BY <1>1, <1>v DEF tryStartProduction, VersionState
<1>2. CASE VersionExited
  <2>1. versionProcess' \in Process({"version"})
    BY <1>2, <1>v DEF VersionExited
  <2>2. UNCHANGED <<helperPath, snapshot, blocked>>
    BY <1>2 DEF VersionExited
  <2>3. CASE versionState = "running" /\ finishVersionProbeSuccess
    <3>1. versionState' = "ready" /\ collectionDelay' \in BOOLEAN
          /\ pollTimer' \in BOOLEAN
      BY <2>3 DEF finishVersionProbeSuccess
    <3>2. StatusTypeOK'
      BY <2>3, <1>t, BeginType DEF finishVersionProbeSuccess, StatusTypeOK
    <3>3. QED
      BY <2>1, <2>2, <3>1, <3>2 DEF StatusTypeOK, VersionState
  <2>4. CASE versionState = "running" /\ finishVersionProbeFailure
    BY <2>1, <2>2, <2>4 DEF finishVersionProbeFailure, VersionState
  <2>5. CASE versionState # "running"
    BY <1>2, <2>1, <2>2, <2>5 DEF VersionExited
  <2>6. QED
    BY <1>2, <2>3, <2>4, <2>5 DEF VersionExited
<1>3. CASE VersionTimeout
  BY <1>3, <1>v DEF VersionTimeout, finishVersionProbeFailure, VersionState
<1>4. CASE CollectionDelayElapsed
  <2>1. StatusTypeOK'
    BY <1>4, BeginType DEF CollectionDelayElapsed
  <2>2. QED
    BY <1>4, <2>1 DEF CollectionDelayElapsed, StatusTypeOK
<1>5. ASSUME NEW target \in Provider \cup {All}, Refresh(target) PROVE TypeOK'
  <2>1. StatusTypeOK'
    BY <1>5, <1>t, UnionForcedType, KickType DEF Refresh
  <2>2. QED
    BY <1>5, <2>1 DEF Refresh, StatusTypeOK
<1>6. CASE PollTick
  <2>1. StatusTypeOK'
    BY <1>6, BeginType DEF PollTick
  <2>2. QED
    BY <1>6, <2>1 DEF PollTick, StatusTypeOK
<1>7. ASSUME NEW ok \in BOOLEAN, StatusExited(ok) PROVE TypeOK'
  <2> DEFINE providers == Collected(statusArgv(statusProcess.job.forced))
  <2>1. PICK process \in Process(Command) : applyStatusResult(ok, providers, process)
    BY <1>7, <1>p DEF StatusExited
  <2>2. providers \in SUBSET Provider
    <3>1. statusProcess.job.forced \in Pending
      BY DEF Process, Command
    <3>2. QED
      BY <3>1, CollectedType
  <2>3. StatusTypeOK' /\ snapshot' \in Snapshot
    BY <1>t, <2>1, <2>2, ApplyType
  <2>4. QED
    BY <1>7, <2>3 DEF StatusExited, StatusTypeOK
<1>8. CASE StatusTimeout
  <2>1. StatusTypeOK' /\ snapshot' \in Snapshot
    BY <1>8, <1>t, <1>p, ApplyType DEF StatusTimeout
  <2>2. QED
    BY <1>8, <2>1 DEF StatusTimeout, StatusTypeOK
<1>9. CASE MaintenanceBegins
  BY <1>9 DEF MaintenanceBegins
<1>10. CASE MaintenanceEnds
  BY <1>10 DEF MaintenanceEnds, versionReady
<1>11. CASE UNCHANGED vars
  BY <1>11 DEF vars
<1>12. QED
  BY <1>1, <1>2, <1>3, <1>4, <1>5, <1>6, <1>7, <1>8, <1>9, <1>10, <1>11
     DEF Next, VersionNext, StatusNext

(* Every state of the lane has its type: no handler leaves a variable of    *)
(* Service.qml in a shape the next handler does not expect.                 *)
THEOREM TypeCorrect == Spec => []TypeOK
BY InitType, NextType, PTL DEF Spec

-----------------------------------------------------------------------------
(* Nothing is collected before the version probe has succeeded.  The        *)
(* invariant is inductive because a success is final: no later probe, exit  *)
(* or timeout takes `ready` back.                                          *)

LEMMA ReadyIsFinal == versionReady /\ [Next]_vars => versionReady'
<1> SUFFICES ASSUME versionReady, [Next]_vars PROVE versionReady'
  OBVIOUS
<1> USE DEF versionReady
<1>1. CASE VersionNext
  BY <1>1 DEF VersionNext, tryStartProduction, VersionExited, VersionTimeout,
              CollectionDelayElapsed, finishVersionProbeSuccess,
              finishVersionProbeFailure
<1>2. CASE StatusNext
  BY <1>2 DEF StatusNext, Refresh, PollTick, StatusExited, StatusTimeout,
              versionVars
<1>3. CASE MaintenanceBegins \/ MaintenanceEnds \/ UNCHANGED vars
  BY <1>3 DEF MaintenanceBegins, MaintenanceEnds, vars, versionVars
<1>4. QED
  BY <1>1, <1>2, <1>3 DEF Next

(* Without `ready` a kick only settles what the handler passes to it. *)
LEMMA UnreadyKick ==
    ASSUME NEW busy, NEW pending, NEW process, NEW ready, ~ready,
           kickStatus(ready, busy, pending, process)
    PROVE  statusBusy' = busy /\ statusProcess' = process
BY DEF kickStatus

LEMMA CollectsStep ==
    TypeOK /\ CollectsOnlyAfterVersion /\ [Next]_vars => CollectsOnlyAfterVersion'
<1> SUFFICES ASSUME TypeOK, CollectsOnlyAfterVersion, [Next]_vars, ~versionReady'
             PROVE  /\ ~statusBusy' /\ statusProcess'.os = "none"
                    /\ snapshot' = noSnapshot
  BY DEF CollectsOnlyAfterVersion, noSnapshot
<1>r. ~versionReady
  BY ReadyIsFinal
<1>q. ~statusBusy /\ statusProcess.os = "none" /\ snapshot = noSnapshot
  BY <1>r DEF CollectsOnlyAfterVersion
<1> USE <1>q DEF versionVars, statusVars
<1>1. CASE tryStartProduction
  BY <1>1 DEF tryStartProduction
<1>2. CASE VersionExited
  BY <1>2 DEF VersionExited, finishVersionProbeSuccess,
              finishVersionProbeFailure, versionReady
<1>3. CASE VersionTimeout
  BY <1>3 DEF VersionTimeout, finishVersionProbeFailure
<1>4. CASE CollectionDelayElapsed
  BY <1>4, <1>r, UnreadyKick DEF CollectionDelayElapsed
<1>5. ASSUME NEW target \in Provider \cup {All}, Refresh(target)
      PROVE  ~statusBusy' /\ statusProcess' = statusProcess /\ snapshot' = snapshot
  BY <1>5, <1>r, UnreadyKick DEF Refresh
<1>6. CASE PollTick
  BY <1>6, <1>r, UnreadyKick DEF PollTick
<1>7. ASSUME NEW ok \in BOOLEAN PROVE ~StatusExited(ok)
  BY DEF StatusExited
<1>8. ~StatusTimeout
  BY DEF StatusTimeout
<1>9. CASE MaintenanceBegins \/ MaintenanceEnds \/ UNCHANGED vars
  BY <1>9 DEF MaintenanceBegins, MaintenanceEnds, vars
<1>10. QED
  BY <1>1, <1>2, <1>3, <1>4, <1>5, <1>6, <1>7, <1>8, <1>9
     DEF Next, VersionNext, StatusNext

(* No helper that reaches providers runs, and no usage is shown, before the *)
(* private helper has answered `version`, whatever probes, manifest changes,*)
(* timeouts and forced requests do.                                        *)
THEOREM CollectsAfterVersion == Spec => []CollectsOnlyAfterVersion
<1>1. Init => CollectsOnlyAfterVersion
  BY DEF Init, CollectsOnlyAfterVersion, NoProcess
<1>2. QED
  BY <1>1, CollectsStep, TypeCorrect, PTL DEF Spec

-----------------------------------------------------------------------------
(* The lane implements RefreshPromise *)

(* A kick after a handler that leaves the lane busy as it was, with `extra` *)
(* added to what is pending, is an Ask, a Start or a stutter.               *)
LEMMA KickPromise ==
    ASSUME TypeOK, NEW ready \in BOOLEAN, NEW pending \in Pending,
           NEW extra \in SUBSET Provider,
           Targets(pending) = Targets(pendingForcedTargets) \cup extra,
           extra # {} => ~blocked,
           blocked' = blocked,
           kickStatus(ready, statusBusy, pending, statusProcess)
    PROVE  [Promise!Next]_(Promise!vars)
<1>1. CASE ready /\ ~blocked /\ ~statusBusy
  <2>1. /\ statusBusy' = TRUE
        /\ pendingForcedTargets' = emptyPending
        /\ statusCommand'.forced = pending
    BY <1>1 DEF kickStatus
  <2>2. Promise!Start(extra)
    BY <1>1, <2>1, EmptyPendingType DEF Promise!Start
  <2>3. QED
    BY <2>2 DEF Promise!Next
<1>2. CASE ~(ready /\ ~blocked /\ ~statusBusy)
  <2>1. /\ statusBusy' = statusBusy
        /\ pendingForcedTargets' = pending
        /\ statusCommand' = statusCommand
    BY <1>2 DEF kickStatus
  <2>2. CASE extra = {}
    BY <2>1, <2>2 DEF Promise!vars
  <2>3. CASE extra # {}
    <3>1. Promise!Ask(extra)
      BY <2>1, <2>3 DEF Promise!Ask
    <3>2. QED
      BY <3>1 DEF Promise!Next
  <2>4. QED
    BY <2>2, <2>3
<1>3. QED
  BY <1>1, <1>2

(* The end of a run, by an exit or by the timeout, is a Finish or a         *)
(* FinishAndFollowUp; the exit of a child nobody waits for may be a Start.  *)
LEMMA ApplyPromise ==
    ASSUME TypeOK, versionReady, blocked' = blocked, NEW ok, NEW providers,
           NEW process, applyStatusResult(ok, providers, process)
    PROVE  [Promise!Next]_(Promise!vars)
<1>0. pendingForcedTargets \in Pending
  BY DEF TypeOK
<1>1. CASE pendingIsEmpty(pendingForcedTargets)
  <2>1. statusBusy' = FALSE /\ UNCHANGED <<pendingForcedTargets, statusCommand>>
    BY <1>1 DEF applyStatusResult
  <2>2. Targets(pendingForcedTargets) = {}
    BY <1>0, <1>1, PendingTargets
  <2>3. CASE statusBusy
    BY <2>1, <2>2, <2>3 DEF Promise!Next, Promise!Finish, TypeOK
  <2>4. CASE ~statusBusy
    BY <2>1, <2>4 DEF Promise!vars, TypeOK
  <2>5. QED
    BY <2>3, <2>4
<1>2. CASE ~pendingIsEmpty(pendingForcedTargets) /\ ~blocked
  <2>1. /\ statusBusy' = TRUE
        /\ pendingForcedTargets' = emptyPending
        /\ statusCommand'.forced = pendingForcedTargets
    BY <1>2 DEF applyStatusResult, kickStatus
  <2>2. Targets(pendingForcedTargets) # {}
    BY <1>0, <1>2, PendingTargets
  <2>3. CASE statusBusy
    <3>1. Promise!FinishAndFollowUp
      BY <1>2, <2>1, <2>2, <2>3, EmptyPendingType DEF Promise!FinishAndFollowUp, TypeOK
    <3>2. QED
      BY <3>1 DEF Promise!Next
  <2>4. CASE ~statusBusy
    <3>1. Promise!Start({})
      BY <1>2, <2>1, <2>4, EmptyPendingType DEF Promise!Start, TypeOK
    <3>2. QED
      BY <3>1 DEF Promise!Next
  <2>5. QED
    BY <2>3, <2>4
<1>3. CASE ~pendingIsEmpty(pendingForcedTargets) /\ blocked
  <2>1. statusBusy' = FALSE /\ UNCHANGED <<pendingForcedTargets, statusCommand>>
    BY <1>3 DEF applyStatusResult, kickStatus
  <2>2. CASE statusBusy
    BY <1>3, <2>1, <2>2 DEF Promise!Next, Promise!Finish, TypeOK
  <2>3. CASE ~statusBusy
    BY <2>1, <2>3 DEF Promise!vars, TypeOK
  <2>4. QED
    BY <2>2, <2>3
<1>4. QED
  BY <1>1, <1>2, <1>3

LEMMA PromiseInit == Init => Promise!Init
BY EmptyPendingType DEF Init, Promise!Init

LEMMA PromiseStep ==
    TypeOK /\ CollectsOnlyAfterVersion /\ [Next]_vars
        => [Promise!Next]_(Promise!vars)
<1> SUFFICES ASSUME TypeOK, CollectsOnlyAfterVersion, [Next]_vars
             PROVE  [Promise!Next]_(Promise!vars)
  OBVIOUS
<1>p. pendingForcedTargets \in Pending /\ versionReady \in BOOLEAN
  BY DEF TypeOK, versionReady
<1>k. ASSUME NEW ready \in BOOLEAN, blocked' = blocked,
             kickStatus(ready, statusBusy, pendingForcedTargets, statusProcess)
      PROVE  [Promise!Next]_(Promise!vars)
  <2> DEFINE extra == {}
  <2>1. /\ extra \in SUBSET Provider
        /\ extra # {} => ~blocked
        /\ Targets(pendingForcedTargets) = Targets(pendingForcedTargets) \cup extra
    OBVIOUS
  <2> HIDE DEF extra
  <2>2. QED
    BY <1>p, <1>k, <2>1, KickPromise
<1>1. CASE tryStartProduction
  BY <1>1 DEF tryStartProduction, statusVars, Promise!vars
<1>2. CASE VersionExited
  <2>1. CASE versionState = "running" /\ finishVersionProbeSuccess
    <3>1. CASE UNCHANGED statusVars
      BY <1>2, <3>1 DEF VersionExited, statusVars, Promise!vars
    <3>2. CASE kickStatus(TRUE, statusBusy, pendingForcedTargets, statusProcess)
      BY <1>2, <1>k, <3>2 DEF VersionExited
    <3>3. QED
      BY <2>1, <3>1, <3>2 DEF finishVersionProbeSuccess
  <2>2. CASE UNCHANGED statusVars
    BY <1>2, <2>2 DEF VersionExited, statusVars, Promise!vars
  <2>3. QED
    BY <1>2, <2>1, <2>2 DEF VersionExited, finishVersionProbeFailure
<1>3. CASE VersionTimeout
  BY <1>3 DEF VersionTimeout, finishVersionProbeFailure, statusVars, Promise!vars
<1>4. CASE CollectionDelayElapsed
  BY <1>4, <1>p, <1>k DEF CollectionDelayElapsed
<1>5. ASSUME NEW target \in Provider \cup {All}, Refresh(target)
      PROVE  [Promise!Next]_(Promise!vars)
  <2> DEFINE extra == IF target = All THEN Provider ELSE {target}
             union == unionForced(pendingForcedTargets, target)
  <2>1. union \in Pending /\ Targets(union) = Targets(pendingForcedTargets) \cup extra
    BY <1>p, UnionForcedType, UnionForcedTargets
  <2>2. extra \in SUBSET Provider
    OBVIOUS
  <2>3. /\ ~blocked /\ blocked' = blocked
        /\ kickStatus(versionReady, statusBusy, union, statusProcess)
    BY <1>5 DEF Refresh
  <2> HIDE DEF extra, union
  <2>4. QED
    BY <1>p, <2>1, <2>2, <2>3, KickPromise
<1>6. CASE PollTick
  BY <1>6, <1>p, <1>k DEF PollTick
<1>7. ASSUME NEW ok \in BOOLEAN, StatusExited(ok)
      PROVE  [Promise!Next]_(Promise!vars)
  <2>1. versionReady /\ blocked' = blocked
    BY <1>7 DEF StatusExited, CollectsOnlyAfterVersion
  <2>2. PICK process : applyStatusResult(ok,
            Collected(statusArgv(statusProcess.job.forced)), process)
    BY <1>7 DEF StatusExited
  <2>3. QED
    BY <2>1, <2>2, ApplyPromise
<1>8. CASE StatusTimeout
  <2>1. versionReady /\ blocked' = blocked
    BY <1>8 DEF StatusTimeout, CollectsOnlyAfterVersion
  <2>2. applyStatusResult(FALSE, {}, Stopped(statusProcess))
    BY <1>8 DEF StatusTimeout
  <2>3. QED
    BY <2>1, <2>2, ApplyPromise
<1>9. CASE MaintenanceBegins
  BY <1>9 DEF MaintenanceBegins, statusVars, Promise!Next, Promise!Close
<1>10. CASE MaintenanceEnds
  BY <1>10 DEF MaintenanceEnds, statusVars, Promise!Next, Promise!Open
<1>11. CASE UNCHANGED vars
  BY <1>11 DEF vars, statusVars, Promise!vars
<1>12. QED
  BY <1>1, <1>2, <1>3, <1>4, <1>5, <1>6, <1>7, <1>8, <1>9, <1>10, <1>11
     DEF Next, VersionNext, StatusNext

(* The lane coalesces forced refreshes as RefreshPromise says: a request is *)
(* kept until a run takes it, one follow-up takes the whole union, and      *)
(* nothing but a run starting ever empties what is owed.                    *)
THEOREM Coalesces == Spec => CoalescesAsPromised
<1>1. Spec => Promise!Init /\ [][Promise!Next]_(Promise!vars)
  BY PromiseInit, PromiseStep, TypeCorrect, CollectsAfterVersion, PTL DEF Spec
<1>2. QED
  BY <1>1 DEF CoalescesAsPromised, Promise!Spec

-----------------------------------------------------------------------------
(* What the bar shows only advances.  A child's job is never of a run later *)
(* than the lane's counter nor earlier than what is already shown.          *)

Behind(process, shown) ==
    process.os # "none" =>
        /\ process.job.generation \in 1..statusGeneration
        /\ shown.generation =< process.job.generation

GenerationsOrdered ==
    /\ statusCommand.generation = statusGeneration
    /\ snapshot.generation =< statusGeneration
    /\ Behind(statusProcess, snapshot)

(* A kick keeps the order, whatever snapshot its handler has just set. *)
LEMMA KickOrdered ==
    ASSUME TypeOK, statusCommand.generation = statusGeneration,
           NEW ready \in BOOLEAN, NEW busy \in BOOLEAN, NEW pending \in Pending,
           NEW process \in Process(Command), NEW shown \in Snapshot,
           shown.generation =< statusGeneration, Behind(process, shown),
           snapshot' = shown, kickStatus(ready, busy, pending, process)
    PROVE  GenerationsOrdered'
<1>0. statusGeneration \in Nat /\ shown.generation \in Nat
  BY DEF TypeOK, Snapshot
<1>1. CASE ready /\ ~blocked /\ ~busy
  <2> DEFINE command == [generation |-> statusGeneration + 1, forced |-> pending]
  <2>1. /\ statusGeneration' = statusGeneration + 1
        /\ statusCommand' = command
        /\ statusProcess' = Started(process, command)
    BY <1>1 DEF kickStatus
  <2>2. CASE process.os = "none"
    BY <1>0, <2>1, <2>2 DEF Started, GenerationsOrdered, Behind
  <2>3. CASE process.os # "none"
    <3>1. statusProcess'.job = process.job
      BY <2>1, <2>3 DEF Started, Process
    <3>2. /\ process.job.generation \in 1..statusGeneration
          /\ shown.generation =< process.job.generation
      BY <2>3 DEF Behind
    <3>3. QED
      BY <1>0, <2>1, <3>1, <3>2 DEF GenerationsOrdered, Behind
  <2>4. QED
    BY <2>2, <2>3
<1>2. CASE ~(ready /\ ~blocked /\ ~busy)
  BY <1>2 DEF kickStatus, GenerationsOrdered, Behind
<1>3. QED
  BY <1>1, <1>2

(* A kick by a handler that has not touched snapshot or process. *)
LEMMA KickOrderedHere ==
    ASSUME TypeOK, GenerationsOrdered, NEW ready \in BOOLEAN,
           NEW pending \in Pending, snapshot' = snapshot,
           kickStatus(ready, statusBusy, pending, statusProcess)
    PROVE  GenerationsOrdered'
BY KickOrdered DEF TypeOK, GenerationsOrdered

(* The end of a run keeps the order and never takes the snapshot back. *)
LEMMA ApplyOrdered ==
    ASSUME TypeOK, GenerationsOrdered, NEW ok \in BOOLEAN,
           ok => statusProcess.os # "none",
           NEW providers \in SUBSET Provider, NEW process \in Process(Command),
           \A shown \in Snapshot :
               /\ shown.generation =< statusGeneration
               /\ Behind(statusProcess, shown)
               => Behind(process, shown),
           applyStatusResult(ok, providers, process)
    PROVE  /\ GenerationsOrdered'
           /\ snapshot # noSnapshot => snapshot' # noSnapshot
           /\ snapshot'.generation >= snapshot.generation
<1> DEFINE shown == IF ok THEN [generation |-> statusProcess.job.generation,
                                providers  |-> providers]
                          ELSE snapshot
<1>0. /\ statusGeneration \in Nat /\ snapshot \in Snapshot
      /\ snapshot.generation \in Nat /\ pendingForcedTargets \in Pending
      /\ versionReady \in BOOLEAN /\ statusProcess.job.generation \in Nat
  BY DEF TypeOK, Snapshot, versionReady, Process, Command
<1>1. snapshot' = shown
  BY DEF applyStatusResult
<1>2. /\ shown \in Snapshot
      /\ shown.generation =< statusGeneration
      /\ shown.generation >= snapshot.generation
      /\ Behind(statusProcess, shown)
  <2>1. CASE ok
    BY <1>0, <2>1 DEF GenerationsOrdered, Behind, Snapshot
  <2>2. CASE ~ok
    BY <1>0, <2>2 DEF GenerationsOrdered
  <2>3. QED
    BY <2>1, <2>2
<1>3. snapshot # noSnapshot => shown # noSnapshot
  <2>1. CASE ok
    <3>1. statusProcess.job.generation # 0
      BY <1>0, <2>1 DEF GenerationsOrdered, Behind
    <3>2. QED
      BY <2>1, <3>1 DEF noSnapshot
  <2>2. QED
    BY <2>1
<1> HIDE DEF shown
<1>4. Behind(process, shown)
  BY <1>2
<1>5. GenerationsOrdered'
  <2>1. CASE pendingIsEmpty(pendingForcedTargets)
    BY <1>1, <1>2, <1>4, <2>1 DEF applyStatusResult, GenerationsOrdered, Behind
  <2>2. CASE ~pendingIsEmpty(pendingForcedTargets)
    <3>1. kickStatus(versionReady, FALSE, pendingForcedTargets, process)
      BY <2>2 DEF applyStatusResult
    <3>2. statusCommand.generation = statusGeneration
      BY DEF GenerationsOrdered
    <3>3. QED
      BY <1>0, <1>1, <1>2, <1>4, <3>1, <3>2, KickOrdered
  <2>3. QED
    BY <2>1, <2>2
<1>6. QED
  BY <1>1, <1>2, <1>3, <1>5

LEMMA OrderedStep ==
    TypeOK /\ GenerationsOrdered /\ [Next]_vars =>
        /\ GenerationsOrdered'
        /\ snapshot # noSnapshot => snapshot' # noSnapshot
        /\ snapshot'.generation >= snapshot.generation
<1> SUFFICES ASSUME TypeOK, GenerationsOrdered, [Next]_vars
             PROVE  /\ GenerationsOrdered'
                    /\ snapshot # noSnapshot => snapshot' # noSnapshot
                    /\ snapshot'.generation >= snapshot.generation
  OBVIOUS
<1>0. /\ statusGeneration \in Nat /\ snapshot.generation \in Nat
      /\ pendingForcedTargets \in Pending /\ versionReady \in BOOLEAN
      /\ statusProcess \in Process(Command) /\ statusCommand \in Command
  BY DEF TypeOK, Snapshot, versionReady
<1>s. snapshot' = snapshot => snapshot'.generation >= snapshot.generation
  BY <1>0
<1>u. UNCHANGED <<statusVars, snapshot>> => GenerationsOrdered'
  BY DEF statusVars, GenerationsOrdered, Behind
<1>1. CASE tryStartProduction
  BY <1>1, <1>s, <1>u DEF tryStartProduction
<1>2. CASE VersionExited
  <2>1. snapshot' = snapshot
    BY <1>2 DEF VersionExited
  <2>2. CASE UNCHANGED statusVars
    BY <1>s, <1>u, <2>1, <2>2
  <2>3. CASE kickStatus(TRUE, statusBusy, pendingForcedTargets, statusProcess)
    BY <1>0, <1>s, <2>1, <2>3, KickOrderedHere
  <2>4. QED
    BY <1>2, <2>2, <2>3
       DEF VersionExited, finishVersionProbeSuccess, finishVersionProbeFailure
<1>3. CASE VersionTimeout
  BY <1>3, <1>s, <1>u DEF VersionTimeout, finishVersionProbeFailure
<1>4. CASE CollectionDelayElapsed
  BY <1>0, <1>4, <1>s, KickOrderedHere DEF CollectionDelayElapsed
<1>5. ASSUME NEW target \in Provider \cup {All}, Refresh(target)
      PROVE  GenerationsOrdered' /\ snapshot' = snapshot
  <2>1. unionForced(pendingForcedTargets, target) \in Pending
    BY <1>0, UnionForcedType
  <2>2. QED
    BY <1>0, <1>5, <2>1, KickOrderedHere DEF Refresh
<1>6. CASE PollTick
  BY <1>0, <1>6, <1>s, KickOrderedHere DEF PollTick
<1>7. ASSUME NEW ok \in BOOLEAN, StatusExited(ok)
      PROVE  /\ GenerationsOrdered'
             /\ snapshot # noSnapshot => snapshot' # noSnapshot
             /\ snapshot'.generation >= snapshot.generation
  <2> DEFINE providers == Collected(statusArgv(statusProcess.job.forced))
  <2>1. statusProcess.os # "none"
    BY <1>7 DEF StatusExited
  <2>2. PICK process \in {NoProcess(noCommand)}
                \cup AfterExit(statusProcess, statusCommand, noCommand) :
            applyStatusResult(ok, providers, process)
    BY <1>7 DEF StatusExited
  <2>3. process \in Process(Command)
    BY <1>0, <2>2, ProcessType, NoCommandType
  <2>4. providers \in SUBSET Provider
    <3>1. statusProcess.job.forced \in Pending
      BY <1>0 DEF Process, Command
    <3>2. QED
      BY <3>1, CollectedType
  <2>5. process.os # "none" => process.job = statusCommand
    BY <2>2 DEF AfterExit, NoProcess
  <2>6. ASSUME NEW shown \in Snapshot, shown.generation =< statusGeneration
        PROVE  Behind(process, shown)
    <3>1. statusGeneration \in 1..statusGeneration
      BY <1>0, <2>1 DEF GenerationsOrdered, Behind
    <3>2. QED
      BY <2>5, <2>6, <3>1 DEF GenerationsOrdered, Behind
  <2> HIDE DEF providers
  <2>7. QED
    BY <2>1, <2>2, <2>3, <2>4, <2>6, ApplyOrdered
<1>8. CASE StatusTimeout
  <2>1. Stopped(statusProcess) \in Process(Command)
    BY <1>0, ProcessType
  <2>2. /\ Stopped(statusProcess).os # "none" => statusProcess.os # "none"
        /\ Stopped(statusProcess).job = statusProcess.job
    BY <1>0 DEF Stopped, Process
  <2>3. \A shown \in Snapshot :
            Behind(statusProcess, shown) => Behind(Stopped(statusProcess), shown)
    BY <2>2 DEF Behind
  <2>4. applyStatusResult(FALSE, {}, Stopped(statusProcess))
    BY <1>8 DEF StatusTimeout
  <2>5. QED
    BY <2>1, <2>3, <2>4, ApplyOrdered
<1>9. CASE MaintenanceBegins \/ MaintenanceEnds
  BY <1>9, <1>s, <1>u DEF MaintenanceBegins, MaintenanceEnds
<1>10. CASE UNCHANGED vars
  BY <1>10, <1>s, <1>u DEF vars
<1>11. QED
  BY <1>1, <1>2, <1>3, <1>4, <1>5, <1>6, <1>7, <1>8, <1>9, <1>10, <1>s
     DEF Next, VersionNext, StatusNext

(* Late, failed, timed-out and restarted runs never empty the bar's model   *)
(* nor replace it by an older run's.                                       *)
THEOREM SnapshotAdvances == Spec => SnapshotOnlyAdvances
<1>1. Init => GenerationsOrdered
  BY DEF Init, GenerationsOrdered, Behind, noCommand, noSnapshot, NoProcess
<1>2. TypeOK /\ GenerationsOrdered /\ [Next]_vars
         => [/\ snapshot # noSnapshot => snapshot' # noSnapshot
             /\ snapshot'.generation >= snapshot.generation]_snapshot
  BY OrderedStep
<1>3. TypeOK /\ GenerationsOrdered /\ [Next]_vars => GenerationsOrdered'
  BY OrderedStep
<1>4. QED
  BY <1>1, <1>2, <1>3, TypeCorrect, PTL DEF Spec, SnapshotOnlyAdvances
=============================================================================
