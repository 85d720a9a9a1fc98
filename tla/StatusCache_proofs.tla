-------------------------- MODULE StatusCache_proofs --------------------------
(***************************************************************************)
(* What StatusCache's run checks for two helpers, one clock tick and one    *)
(* maintenance command, proved for any number of helpers, providers, ticks  *)
(* and commands: the two locks, the ages of the data and forced requests.   *)
(***************************************************************************)
EXTENDS StatusCache, FiniteSetTheorems, TLAPS

-----------------------------------------------------------------------------
(* The inductive invariant *)

(* Helpers in these phases hold the gate shared, each on the inode it opened.*)
Holding == {"load", "quarantine"} \cup Collecting

(* Who has status.lock is replacing the file, and knows what is in it: no   *)
(* one else writes a document, though the file may be removed.             *)
LockHolds ==
    /\ \A h \in Helper : helper[h].phase = "replace" <=> lock = h
    /\ \A h \in Helper : helper[h].phase = "replace" /\ file.state = "valid" =>
          file.doc = helper[h].doc

(* One provider at a time. *)
OneCurrent ==
    \A h \in Helper : helper[h].phase \in {"fetch", "merge", "lock", "replace"} =>
        \E p \in Provider : helper[h].current = {p}

(* The gate excludes by inode, and no inode is from the future. *)
GateHolds ==
    /\ maintenance.inode <= gatePath.inode
    /\ \A h \in Helper : helper[h].gate <= gatePath.inode
    /\ maintenance.phase \in {"exclusive", "purged"} =>
          \A h \in Helper :
             helper[h].phase \in Holding => helper[h].gate # maintenance.inode
    /\ maintenance.phase = "purged" /\ gatePath.inode = 0 => file = absent

(* An entry's times are from the past, and its data is as old as it says. *)
AgedAt(entry, time) ==
    /\ entry.started <= time /\ entry.completed <= time
    /\ entry.state = "ready" => entry.success <= entry.completed
    /\ entry.state = "stale" => entry.success <= entry.started
Aged(entry) == AgedAt(entry, now)

(* So is every entry in the file and in a helper's memory, and what a       *)
(* failure may keep of the prior is older than the collection.             *)
AgesHold ==
    /\ \A p \in Provider : Aged(file.doc[p])
    /\ \A h \in Helper : Aged(helper[h].entry) /\ \A p \in Provider : Aged(helper[h].doc[p])
    /\ \A h \in Helper : helper[h].phase = "fetch" =>
          \A p \in helper[h].current : helper[h].doc[p].state \in {"ready", "stale"} =>
             helper[h].doc[p].success <= helper[h].entry.started

(* A collection starts after its request, and a forced request takes no row *)
(* without one.                                                            *)
RequestsHold ==
    \A h \in Helper :
        /\ helper[h].requested <= now
        /\ helper[h].phase \in {"fetch", "merge", "lock", "replace"} =>
              helper[h].requested <= helper[h].entry.started
        /\ helper[h].mode = "bypass" => helper[h].outdated = {}

IInv ==
    /\ TypeOK /\ LockHolds /\ OneCurrent /\ GateHolds /\ AgesHold /\ RequestsHold

-----------------------------------------------------------------------------
(* Types *)

LEMMA EmptyIsDocument == empty \in Document /\ noEntry \in Entry
<1>1. 0 \in Time /\ noData \in Time \cup {noData}
  BY CacheBoundsAssumption DEF Time
<1>2. noEntry \in Entry
  BY <1>1 DEF noEntry, Entry, State
<1> QED  BY <1>2 DEF empty, Document

LEMMA NewbornIsLocal == newborn \in Local
<1>1. 0 \in Time /\ 0 \in Nat
  BY CacheBoundsAssumption DEF Time
<1> QED  BY <1>1, EmptyIsDocument DEF newborn, Local, Phase

(* What a read leaves in the memory of a helper. *)
LEMMA OnlyIsDocument ==
    ASSUME NEW providers, NEW doc \in Document
    PROVE  only(providers, doc) \in Document
BY EmptyIsDocument DEF only, Document

LEMMA MergedIsDocument ==
    ASSUME TypeOK, NEW h \in Helper
    PROVE  merged(h) \in Document
BY DEF TypeOK, Local, merged, Document

LEMMA GoesOnIsLocal ==
    ASSUME TypeOK, NEW h \in Helper, NEW doc \in Document, goesOnWith(h, doc)
    PROVE  helper' \in [Helper -> Local]
<1> DEFINE served == servedFrom(doc, helper[h].mode, helper[h].targets, helper[h].requested)
<1>1. helper[h] \in Local
  BY DEF TypeOK
<1>2. served \subseteq Provider
  BY <1>1 DEF servedFrom, Local
<1>3. only(helper[h].targets \ served, doc) \in Document
  BY OnlyIsDocument
<1> QED  BY <1>1, <1>2, <1>3 DEF goesOnWith, TypeOK, Local, Phase, Collecting

(* What the lock gives a helper. *)
LEMMA ReplacesIsLocal ==
    ASSUME NEW me \in Local, NEW doc \in Document
    PROVE  [me EXCEPT !.phase = "replace", !.doc = doc] \in Local
BY DEF Local, Phase, Collecting

LEMMA DeathIsTyped ==
    ASSUME TypeOK, NEW h \in Helper, dies(h)
    PROVE  helper' \in [Helper -> Local] /\ lock' \in Helper \cup {NoHelper}
<1>1. [newborn EXCEPT !.phase = "gone"] \in Local
  BY NewbornIsLocal DEF Local, Phase
<1> QED  BY <1>1 DEF dies, TypeOK

LEMMA InitTypeOK == Init => TypeOK
BY EmptyIsDocument, NewbornIsLocal, CacheBoundsAssumption
   DEF Init, TypeOK, File, absent, corrupt, Time

LEMMA StepTypeOK == TypeOK /\ [Next]_vars => TypeOK'
<1> SUFFICES ASSUME TypeOK, [Next]_vars PROVE TypeOK'
  OBVIOUS
<1>1. ASSUME NEW h \in Helper, NEW mode \in {"use", "bypass"},
             NEW targets \in SUBSET Provider, Start(h, mode, targets)
      PROVE  TypeOK'
  <2>1. [newborn EXCEPT !.phase = "gate", !.mode = mode, !.targets = targets,
                        !.requested = now, !.gate = gatePath.inode] \in Local
    BY NewbornIsLocal DEF Local, Phase, TypeOK
  <2> QED  BY <1>1, <2>1 DEF Start, TypeOK
<1>2. ASSUME NEW h \in Helper, TakeGate(h) PROVE TypeOK'
  <2>1. [helper[h] EXCEPT !.phase = "load"] \in Local
    BY DEF TypeOK, Local, Phase
  <2> QED  BY <1>2, <2>1 DEF TakeGate, TypeOK
<1>3. ASSUME NEW h \in Helper, Load(h) PROVE TypeOK'
  <2>1. helper' \in [Helper -> Local]
    <3>1. CASE file.state = "corrupt"
      BY <1>3, <3>1 DEF Load, TypeOK, Local, Phase
    <3>2. CASE file.state # "corrupt"
      BY <1>3, <3>2, GoesOnIsLocal DEF Load, TypeOK, File
    <3> QED  BY <3>1, <3>2
  <2> QED  BY <1>3, <2>1 DEF Load, TypeOK
<1>4. ASSUME NEW h \in Helper, Quarantine(h) PROVE TypeOK'
  <2>1. helper' \in [Helper -> Local]
    BY <1>4, GoesOnIsLocal, EmptyIsDocument DEF Quarantine
  <2> QED  BY <1>4, <2>1, EmptyIsDocument DEF Quarantine, TypeOK, File, absent
<1>5. ASSUME NEW h \in Helper, NEW p \in Provider, Begin(h, p) PROVE TypeOK'
  <2>1. [noEntry EXCEPT !.started = now] \in Entry
    BY EmptyIsDocument DEF Entry, TypeOK
  <2> QED  BY <1>5, <2>1 DEF Begin, TypeOK, Local, Phase, Collecting
<1>6. ASSUME NEW h \in Helper, NEW p \in Provider, NEW answer \in Answer,
             NEW read \in 0..now, Fetched(h, p, answer, read)
      PROVE  TypeOK'
  <2> DEFINE row == retained(answer, helper[h].doc[p], read)
  <2>0. helper[h] \in Local /\ helper[h].doc[p] \in Entry /\ now \in Time
    BY DEF TypeOK, Local, Document
  <2>1. read \in Time
    BY <2>0, CacheBoundsAssumption DEF Time
  <2>2. row.state \in State /\ row.success \in Time \cup {noData}
    BY <2>0, <2>1 DEF retained, State, Entry
  <2>3. [started |-> helper[h].entry.started, completed |-> now,
         state |-> row.state, success |-> row.success] \in Entry
    BY <2>0, <2>2 DEF Entry, Local
  <2> DEFINE me == [helper[h] EXCEPT !.phase = "merge",
                        !.entry = [started |-> @.started, completed |-> now,
                                   state |-> row.state, success |-> row.success]]
  <2>4. helper' = [helper EXCEPT ![h] = me]
    BY <1>6 DEF Fetched
  <2> HIDE DEF row
  <2>5. me \in Local
    BY <2>0, <2>3 DEF Local, Phase, Collecting
  <2> HIDE DEF me
  <2>6. helper' \in [Helper -> Local]
    BY <2>4, <2>5 DEF TypeOK
  <2>7. UNCHANGED <<now, file, lock, gatePath, maintenance, commands>>
    BY <1>6 DEF Fetched
  <2> QED  BY <2>6, <2>7 DEF TypeOK
<1>7. ASSUME NEW h \in Helper, TryGuard(h) PROVE TypeOK'
  BY <1>7, DeathIsTyped DEF TryGuard, TypeOK, Local, Phase, Collecting
<1>8. ASSUME NEW h \in Helper, LockAndLoad(h) PROVE TypeOK'
  <2>1. file' \in File
    BY <1>8, EmptyIsDocument DEF LockAndLoad, TypeOK, File, absent
  <2>2. file'.doc \in Document
    BY <2>1 DEF File
  <2> DEFINE me == [helper[h] EXCEPT !.phase = "replace", !.doc = file'.doc]
  <2>3. me \in Local
    <3>1. helper[h] \in Local
      BY DEF TypeOK
    <3> QED  BY <2>2, <3>1, ReplacesIsLocal
  <2>4. helper' = [helper EXCEPT ![h] = me] /\ lock' = h
        /\ UNCHANGED <<now, gatePath, maintenance, commands>>
    BY <1>8 DEF LockAndLoad
  <2> HIDE DEF me
  <2>5. helper' \in [Helper -> Local]
    BY <2>3, <2>4 DEF TypeOK
  <2> QED  BY <2>1, <2>4, <2>5 DEF TypeOK
<1>9. ASSUME NEW h \in Helper, Replace(h) PROVE TypeOK'
  <2>1. merged(h) \in Document
    BY MergedIsDocument
  <2>2. file' \in File
    BY <1>9, <2>1 DEF Replace, valid, File
  <2>3. only(helper[h].todo, merged(h)) \in Document
    BY <2>1, OnlyIsDocument
  <2> DEFINE late == {p \in helper[h].current : helper[h].entry.started < helper[h].requested}
             me == [helper[h] EXCEPT
                       !.phase = "next", !.doc = only(helper[h].todo, merged(h)), !.guard = 0,
                       !.entry = noEntry, !.current = {},
                       !.outdated = helper[h].outdated \cup late]
  <2>5. helper' = [helper EXCEPT ![h] = me]
    BY <1>9 DEF Replace
  <2>6. me \in Local
    <3>1. helper[h] \in Local
      BY DEF TypeOK
    <3>2. late \subseteq Provider
      BY <3>1 DEF Local
    <3> HIDE DEF late
    <3>3. helper[h].outdated \cup late \in SUBSET Provider /\ {} \in SUBSET Provider
      BY <3>1, <3>2 DEF Local
    <3> QED  BY <2>3, <3>1, <3>3, EmptyIsDocument DEF Local, Phase, Collecting
  <2> HIDE DEF me
  <2>4. helper' \in [Helper -> Local]
    BY <2>5, <2>6 DEF TypeOK
  <2> QED  BY <1>9, <2>2, <2>4 DEF Replace, TypeOK
<1>10. ASSUME NEW h \in Helper, ReplaceFails(h) \/ Finish(h) \/ Killed(h) PROVE TypeOK'
  BY <1>10, DeathIsTyped DEF ReplaceFails, Finish, Killed, TypeOK
<1>11. CASE MaintenanceNext
  <2>1. CASE MaintenanceStarts
    <3>1. commands + 1 \in 0..MaxMaintenance
      BY <2>1, CacheBoundsAssumption DEF MaintenanceStarts, TypeOK
    <3>2. [gatePath EXCEPT !.exists = TRUE] \in [exists : BOOLEAN, inode : Nat]
      BY DEF TypeOK
    <3> QED  BY <2>1, <3>1, <3>2 DEF MaintenanceStarts, TypeOK
  <2>2. CASE MaintenanceLocks
    BY <2>2 DEF MaintenanceLocks, TypeOK
  <2>3. CASE Purge
    BY <2>3, EmptyIsDocument DEF Purge, TypeOK, File, absent
  <2>4. CASE MaintenanceDrops
    BY <2>4 DEF MaintenanceDrops, TypeOK
  <2>5. CASE PurgeRemovesGate
    BY <2>5 DEF PurgeRemovesGate, TypeOK
  <2> QED  BY <1>11, <2>1, <2>2, <2>3, <2>4, <2>5 DEF MaintenanceNext
<1>12. CASE Tick
  BY <1>12, CacheBoundsAssumption DEF Tick, TypeOK, Time
<1>13. CASE UNCHANGED vars
  BY <1>13 DEF vars, TypeOK
<1>14. ASSUME NEW p \in Provider, NEW answer \in Answer,
              NEW read \in IF p \in LogBacked /\ answer = "ready" THEN 0..now ELSE {now}
       PROVE  read \in 0..now
  BY CacheBoundsAssumption DEF TypeOK, Time
<1> QED
  BY <1>1, <1>2, <1>3, <1>4, <1>5, <1>6, <1>7, <1>8, <1>9, <1>10, <1>11, <1>12, <1>13, <1>14
     DEF Next, CollectionStep

-----------------------------------------------------------------------------
(* Steps, one conjunct of the invariant at a time *)

(* What a step may be, with what a fetch may read. *)
LEMMA Steps ==
    ASSUME TypeOK, [Next]_vars
    PROVE  \/ \E h \in Helper :
                 \/ \E mode \in {"use", "bypass"}, targets \in SUBSET Provider :
                       Start(h, mode, targets)
                 \/ TakeGate(h) \/ Load(h) \/ Quarantine(h)
                 \/ \E p \in Provider : Begin(h, p)
                 \/ \E p \in Provider, answer \in Answer, read \in 0..now :
                       Fetched(h, p, answer, read)
                 \/ TryGuard(h) \/ LockAndLoad(h) \/ Replace(h)
                 \/ ReplaceFails(h) \/ Finish(h) \/ Killed(h)
           \/ MaintenanceStarts \/ MaintenanceLocks \/ Purge \/ MaintenanceDrops
           \/ PurgeRemovesGate \/ Tick \/ UNCHANGED vars
<1>1. ASSUME NEW p \in Provider, NEW answer \in Answer,
             NEW read \in IF p \in LogBacked /\ answer = "ready" THEN 0..now ELSE {now}
      PROVE  read \in 0..now
  BY CacheBoundsAssumption DEF TypeOK, Time
<1> QED  BY <1>1 DEF Next, CollectionStep, MaintenanceNext

(* What a read of the cache leaves of a helper. *)
LEMMA ReadsLeave ==
    ASSUME TypeOK, NEW h \in Helper, Load(h) \/ Quarantine(h)
    PROVE  /\ \A g \in Helper : g # h => helper'[g] = helper[g]
           /\ helper[h].phase \in {"load", "quarantine"}
           /\ helper'[h].phase \in {"quarantine", "next"}
           /\ helper'[h].gate = helper[h].gate /\ helper'[h].current = helper[h].current
           /\ helper'[h].mode = helper[h].mode /\ helper'[h].entry = helper[h].entry
           /\ helper'[h].requested = helper[h].requested
           /\ helper[h].mode = "bypass" => helper'[h].outdated \in {{}, helper[h].outdated}
           /\ \A p \in Provider :
                 helper'[h].doc[p] \in {noEntry, helper[h].doc[p], file.doc[p]}
           /\ file' = file \/ file' = absent
           /\ UNCHANGED <<now, lock, gatePath, maintenance>>
<1> DEFINE OK == /\ \A g \in Helper : g # h => helper'[g] = helper[g]
                 /\ helper'[h].phase \in {"quarantine", "next"}
                 /\ helper'[h].gate = helper[h].gate /\ helper'[h].current = helper[h].current
                 /\ helper'[h].mode = helper[h].mode /\ helper'[h].entry = helper[h].entry
                 /\ helper'[h].requested = helper[h].requested
                 /\ helper[h].mode = "bypass" =>
                       helper'[h].outdated \in {{}, helper[h].outdated}
<1>1. ASSUME NEW doc, goesOnWith(h, doc)
      PROVE  /\ OK
             /\ \A p \in Provider : helper'[h].doc[p] \in {noEntry, doc[p]}
  <2>1. PICK todo, late :
           helper' = [helper EXCEPT ![h] =
              [helper[h] EXCEPT !.phase = "next", !.todo = todo,
                                !.doc = only(todo, doc), !.outdated = late]]
    BY <1>1 DEF goesOnWith
  <2>2. helper[h].mode = "bypass" => helper'[h].outdated = {}
    BY <1>1 DEF goesOnWith, servedFrom, TypeOK, Local
  <2>3. OK
    BY <2>1, <2>2 DEF TypeOK, Local
  <2>4. helper'[h].doc = only(todo, doc)
    BY <2>1 DEF TypeOK, Local
  <2> QED  BY <2>3, <2>4 DEF only
<1>2. CASE Load(h) /\ file.state = "corrupt"
  <2>1. helper' = [helper EXCEPT ![h].phase = "quarantine"]
    BY <1>2 DEF Load
  <2>2. OK /\ helper'[h].doc = helper[h].doc
    BY <2>1 DEF TypeOK, Local
  <2> QED  BY <1>2, <2>2 DEF Load
<1>3. CASE Load(h) /\ file.state # "corrupt"
  <2>1. goesOnWith(h, file.doc)
    BY <1>3 DEF Load
  <2> QED  BY <1>1, <1>3, <2>1 DEF Load
<1>4. CASE Quarantine(h)
  <2>1. goesOnWith(h, empty)
    BY <1>4 DEF Quarantine
  <2> QED  BY <1>1, <1>4, <2>1 DEF Quarantine, empty
<1> QED  BY <1>2, <1>3, <1>4

(* What an end leaves of a helper, and what a guard that is not refused.    *)
LEMMA EndsLeave ==
    ASSUME TypeOK, NEW h \in Helper,
           TryGuard(h) \/ ReplaceFails(h) \/ Finish(h) \/ Killed(h)
    PROVE  /\ \A g \in Helper : g # h => helper'[g] = helper[g]
           /\ \/ /\ helper'[h].phase = "gone" /\ helper'[h].mode = "use"
                 /\ helper'[h].requested = 0 /\ helper'[h].gate = 0
                 /\ helper'[h].entry = noEntry /\ helper'[h].doc = empty
                 /\ lock' = IF lock = h THEN NoHelper ELSE lock
              \/ /\ helper[h].phase = "merge" /\ helper'[h].phase = "lock"
                 /\ helper'[h].mode = helper[h].mode
                 /\ helper'[h].requested = helper[h].requested
                 /\ helper'[h].gate = helper[h].gate
                 /\ helper'[h].current = helper[h].current
                 /\ helper'[h].entry = helper[h].entry /\ helper'[h].doc = helper[h].doc
                 /\ helper'[h].outdated = helper[h].outdated
                 /\ lock' = lock
           /\ UNCHANGED <<now, file, gatePath, maintenance>>
<1>1. ASSUME dies(h)
      PROVE  /\ \A g \in Helper : g # h => helper'[g] = helper[g]
             /\ helper'[h].phase = "gone" /\ helper'[h].mode = "use"
             /\ helper'[h].requested = 0 /\ helper'[h].gate = 0
             /\ helper'[h].entry = noEntry /\ helper'[h].doc = empty
             /\ lock' = IF lock = h THEN NoHelper ELSE lock
  <2>1. helper'[h] = [newborn EXCEPT !.phase = "gone"]
    BY <1>1 DEF dies, TypeOK
  <2>2. \A g \in Helper : g # h => helper'[g] = helper[g]
    BY <1>1 DEF dies, TypeOK
  <2> QED  BY <1>1, <2>1, <2>2 DEF dies, newborn
<1>2. CASE TryGuard(h) /\ gatePath.exists /\ ~exclusiveOn(gatePath.inode)
  <2>1. helper' = [helper EXCEPT ![h] = [helper[h] EXCEPT !.phase = "lock",
                                                          !.guard = gatePath.inode]]
    BY <1>2 DEF TryGuard
  <2> QED  BY <1>2, <2>1 DEF TryGuard, TypeOK, Local
<1>3. CASE TryGuard(h) /\ ~(gatePath.exists /\ ~exclusiveOn(gatePath.inode))
  BY <1>1, <1>3 DEF TryGuard
<1>4. CASE ReplaceFails(h) \/ Finish(h) \/ Killed(h)
  BY <1>1, <1>4 DEF ReplaceFails, Finish, Killed
<1> QED  BY <1>2, <1>3, <1>4

LEMMA StepLockHolds ==
    ASSUME TypeOK, LockHolds, [Next]_vars
    PROVE  LockHolds'
<1> USE NoHelperAssumption DEF TypeOK, LockHolds
<1>1. ASSUME NEW h \in Helper, NEW mode, NEW targets, Start(h, mode, targets)
      PROVE  LockHolds'
  BY <1>1 DEF Start, newborn
<1>2. ASSUME NEW h \in Helper, TakeGate(h) PROVE LockHolds'
  BY <1>2 DEF TakeGate
<1>3. ASSUME NEW h \in Helper, Load(h) \/ Quarantine(h) PROVE LockHolds'
  BY <1>3, ReadsLeave DEF absent
<1>5. ASSUME NEW h \in Helper, NEW p, Begin(h, p) PROVE LockHolds'
  BY <1>5 DEF Begin
<1>6. ASSUME NEW h \in Helper, NEW p, NEW answer, NEW read, Fetched(h, p, answer, read)
      PROVE  LockHolds'
  BY <1>6 DEF Fetched
<1>7. ASSUME NEW h \in Helper, TryGuard(h) \/ ReplaceFails(h) \/ Finish(h) \/ Killed(h)
      PROVE  LockHolds'
  BY <1>7, EndsLeave
<1>8. ASSUME NEW h \in Helper, LockAndLoad(h) PROVE LockHolds'
  BY <1>8 DEF LockAndLoad
<1>9. ASSUME NEW h \in Helper, Replace(h) PROVE LockHolds'
  BY <1>9 DEF Replace
<1>11. CASE Purge
  BY <1>11 DEF Purge, absent
<1>12. CASE MaintenanceStarts \/ MaintenanceLocks \/ MaintenanceDrops
             \/ PurgeRemovesGate \/ Tick \/ UNCHANGED vars
  BY <1>12 DEF MaintenanceStarts, MaintenanceLocks, MaintenanceDrops, PurgeRemovesGate,
               Tick, vars
<1> QED
  BY <1>1, <1>2, <1>3, <1>5, <1>6, <1>7, <1>8, <1>9, <1>11, <1>12, Steps

LEMMA StepOneCurrent ==
    ASSUME TypeOK, OneCurrent, [Next]_vars
    PROVE  OneCurrent'
<1> USE DEF TypeOK, OneCurrent
<1>1. ASSUME NEW h \in Helper, NEW mode, NEW targets, Start(h, mode, targets)
      PROVE  OneCurrent'
  BY <1>1 DEF Start, newborn
<1>2. ASSUME NEW h \in Helper, TakeGate(h) PROVE OneCurrent'
  BY <1>2 DEF TakeGate
<1>3. ASSUME NEW h \in Helper, Load(h) \/ Quarantine(h) PROVE OneCurrent'
  BY <1>3, ReadsLeave
<1>4. ASSUME NEW h \in Helper, NEW p \in Provider, Begin(h, p) PROVE OneCurrent'
  BY <1>4 DEF Begin, Local
<1>5. ASSUME NEW h \in Helper, NEW p, NEW answer, NEW read, Fetched(h, p, answer, read)
      PROVE  OneCurrent'
  BY <1>5 DEF Fetched
<1>6. ASSUME NEW h \in Helper, TryGuard(h) \/ ReplaceFails(h) \/ Finish(h) \/ Killed(h)
      PROVE  OneCurrent'
  BY <1>6, EndsLeave
<1>7. ASSUME NEW h \in Helper, LockAndLoad(h) PROVE OneCurrent'
  BY <1>7 DEF LockAndLoad
<1>8. ASSUME NEW h \in Helper, Replace(h) PROVE OneCurrent'
  BY <1>8 DEF Replace
<1>9. CASE helper' = helper
  BY <1>9
<1> QED
  BY <1>1, <1>2, <1>3, <1>4, <1>5, <1>6, <1>7, <1>8, <1>9, Steps
     DEF MaintenanceStarts, MaintenanceLocks, Purge, MaintenanceDrops, PurgeRemovesGate,
         Tick, vars

LEMMA StepGateHolds ==
    ASSUME TypeOK, GateHolds, [Next]_vars
    PROVE  GateHolds'
<1> USE DEF GateHolds, Holding, Collecting
<1>0. /\ gatePath.inode \in Nat /\ maintenance.inode \in Nat
      /\ helper = [h \in Helper |-> helper[h]] /\ \A h \in Helper : helper[h].gate \in Nat
      /\ maintenance = [phase |-> maintenance.phase, inode |-> maintenance.inode]
      /\ gatePath = [exists |-> gatePath.exists, inode |-> gatePath.inode]
  BY DEF TypeOK, Local
<1>1. ASSUME NEW h \in Helper, NEW mode, NEW targets, Start(h, mode, targets)
      PROVE  GateHolds'
  BY <1>0, <1>1 DEF Start, newborn
<1>2. ASSUME NEW h \in Helper, TakeGate(h) PROVE GateHolds'
  BY <1>0, <1>2 DEF TakeGate, exclusiveOn
<1>3. ASSUME NEW h \in Helper, Load(h) \/ Quarantine(h) PROVE GateHolds'
  BY <1>0, <1>3, ReadsLeave
<1>5. ASSUME NEW h \in Helper, NEW p, Begin(h, p) PROVE GateHolds'
  BY <1>0, <1>5 DEF Begin
<1>6. ASSUME NEW h \in Helper, NEW p, NEW answer, NEW read, Fetched(h, p, answer, read)
      PROVE  GateHolds'
  BY <1>0, <1>6 DEF Fetched
<1>7. ASSUME NEW h \in Helper, TryGuard(h) \/ ReplaceFails(h) \/ Finish(h) \/ Killed(h)
      PROVE  GateHolds'
  BY <1>0, <1>7, EndsLeave
<1>8. ASSUME NEW h \in Helper, LockAndLoad(h) PROVE GateHolds'
  BY <1>0, <1>8 DEF LockAndLoad, absent
<1>9. ASSUME NEW h \in Helper, Replace(h) PROVE GateHolds'
  BY <1>0, <1>9 DEF Replace
<1>11. CASE MaintenanceStarts
  BY <1>0, <1>11 DEF MaintenanceStarts
<1>12. CASE MaintenanceLocks
  BY <1>0, <1>12 DEF MaintenanceLocks, sharedOn
<1>13. CASE Purge
  BY <1>0, <1>13 DEF Purge
<1>14. CASE MaintenanceDrops
  BY <1>0, <1>14 DEF MaintenanceDrops
<1>15. CASE PurgeRemovesGate
  BY <1>0, <1>15 DEF PurgeRemovesGate
<1>16. CASE Tick \/ UNCHANGED vars
  BY <1>16 DEF Tick, vars
<1> QED
  BY <1>1, <1>2, <1>3, <1>5, <1>6, <1>7, <1>8, <1>9, <1>11, <1>12, <1>13,
     <1>14, <1>15, <1>16, Steps

LEMMA StepRequestsHold ==
    ASSUME TypeOK, RequestsHold, [Next]_vars
    PROVE  RequestsHold'
<1> USE DEF RequestsHold
<1>0. /\ now \in Nat
      /\ helper = [h \in Helper |-> helper[h]]
      /\ \A h \in Helper : helper[h].requested \in Nat /\ helper[h].entry.started \in Nat
  BY CacheBoundsAssumption DEF TypeOK, Local, Entry, Time
<1>1. ASSUME NEW h \in Helper, NEW mode, NEW targets, Start(h, mode, targets)
      PROVE  RequestsHold'
  BY <1>0, <1>1 DEF Start, newborn
<1>2. ASSUME NEW h \in Helper, TakeGate(h) PROVE RequestsHold'
  BY <1>0, <1>2 DEF TakeGate
<1>3. ASSUME NEW h \in Helper, Load(h) \/ Quarantine(h) PROVE RequestsHold'
  BY <1>0, <1>3, ReadsLeave
<1>4. ASSUME NEW h \in Helper, NEW p \in Provider, Begin(h, p) PROVE RequestsHold'
  BY <1>0, <1>4 DEF Begin, noEntry
<1>5. ASSUME NEW h \in Helper, NEW p, NEW answer, NEW read, Fetched(h, p, answer, read)
      PROVE  RequestsHold'
  BY <1>0, <1>5 DEF Fetched
<1>6. ASSUME NEW h \in Helper, TryGuard(h) \/ ReplaceFails(h) \/ Finish(h) \/ Killed(h)
      PROVE  RequestsHold'
  BY <1>0, <1>6, EndsLeave DEF noEntry
<1>7. ASSUME NEW h \in Helper, LockAndLoad(h) PROVE RequestsHold'
  BY <1>0, <1>7 DEF LockAndLoad
<1>8. ASSUME NEW h \in Helper, Replace(h) PROVE RequestsHold'
  <2>1. {p \in helper[h].current : helper[h].entry.started < helper[h].requested} = {}
    BY <1>0, <1>8 DEF Replace
  <2> QED  BY <1>0, <1>8, <2>1 DEF Replace
<1>9. CASE helper' = helper /\ now' \in {now, now + 1}
  BY <1>0, <1>9
<1> QED
  BY <1>1, <1>2, <1>3, <1>4, <1>5, <1>6, <1>7, <1>8, <1>9, Steps
     DEF MaintenanceStarts, MaintenanceLocks, Purge, MaintenanceDrops, PurgeRemovesGate,
         Tick, vars

-----------------------------------------------------------------------------
(* The age of what is kept *)

LEMMA EntryTimes ==
    \A entry \in Entry : /\ entry.started \in Nat /\ entry.completed \in Nat
                        /\ entry.success \in Nat
BY CacheBoundsAssumption DEF Entry, Time, noData

LEMMA StepAgesHold ==
    ASSUME TypeOK, AgesHold, OneCurrent, [Next]_vars
    PROVE  AgesHold'
<1> USE DEF AgesHold
<1>0. /\ now \in Nat
      /\ helper = [h \in Helper |-> helper[h]]
      /\ \A h \in Helper : helper[h].entry \in Entry
      /\ \A h \in Helper : \A p \in Provider : helper[h].doc[p] \in Entry
      /\ \A p \in Provider : file.doc[p] \in Entry
      /\ \A h \in Helper : helper[h].current \subseteq Provider
  BY CacheBoundsAssumption DEF TypeOK, Local, File, Document, Time
<1>a. Aged(noEntry)
  BY <1>0 DEF Aged, AgedAt, noEntry
<1>1. ASSUME NEW h \in Helper, NEW mode, NEW targets, Start(h, mode, targets)
      PROVE  AgesHold'
  BY <1>0, <1>a, <1>1 DEF Start, newborn, empty, Aged
<1>2. ASSUME NEW h \in Helper, TakeGate(h) PROVE AgesHold'
  BY <1>0, <1>2 DEF TakeGate, Aged
<1>3. ASSUME NEW h \in Helper, Load(h) \/ Quarantine(h) PROVE AgesHold'
  <2>1. \A p \in Provider : Aged(file'.doc[p])
    BY <1>a, <1>3, ReadsLeave DEF absent, empty
  <2>2. \A g \in Helper : \A p \in Provider : Aged(helper'[g].doc[p])
    BY <1>a, <1>3, ReadsLeave
  <2>3. \A g \in Helper : Aged(helper'[g].entry)
    BY <1>3, ReadsLeave
  <2>4. now' = now /\ ~(helper'[h].phase = "fetch")
        /\ \A g \in Helper : g # h => helper'[g] = helper[g]
    BY <1>3, ReadsLeave
  <2> QED  BY <2>1, <2>2, <2>3, <2>4 DEF Aged
<1>4. ASSUME NEW h \in Helper, NEW p \in Provider, Begin(h, p) PROVE AgesHold'
  <2>1. /\ helper'[h].phase = "fetch" /\ helper'[h].current = {p}
        /\ helper'[h].doc = helper[h].doc
        /\ helper'[h].entry = [noEntry EXCEPT !.started = now]
        /\ \A g \in Helper : g # h => helper'[g] = helper[g]
        /\ UNCHANGED <<now, file>>
    BY <1>4 DEF Begin, TypeOK, Local
  <2>2. Aged(helper'[h].entry) /\ helper'[h].entry.started = now
    BY <1>0, <2>1 DEF Aged, AgedAt, noEntry
  <2>3. helper[h].doc[p].state \in {"ready", "stale"} => helper[h].doc[p].success <= now
    BY <1>0, EntryTimes DEF Aged, AgedAt
  <2>4. \A q \in Provider : Aged(file'.doc[q])
    BY <2>1
  <2>5. \A g \in Helper : Aged(helper'[g].entry) /\ \A q \in Provider : Aged(helper'[g].doc[q])
    BY <2>1, <2>2
  <2>6. ASSUME NEW g \in Helper, helper'[g].phase = "fetch", NEW q \in helper'[g].current,
               helper'[g].doc[q].state \in {"ready", "stale"}
        PROVE  helper'[g].doc[q].success <= helper'[g].entry.started
    BY <2>1, <2>2, <2>3, <2>6
  <2>7. now' = now
    BY <2>1
  <2> QED  BY <2>4, <2>5, <2>6, <2>7 DEF Aged
<1>5. ASSUME NEW h \in Helper, NEW p \in Provider, NEW answer \in Answer,
             NEW read \in 0..now, Fetched(h, p, answer, read)
      PROVE  AgesHold'
  <2> DEFINE prior == helper[h].doc[p]
             row   == retained(answer, prior, read)
             entry == [started |-> helper[h].entry.started, completed |-> now,
                       state |-> row.state, success |-> row.success]
  <2>1. /\ helper[h].phase = "fetch" /\ p \in helper[h].current
        /\ helper'[h].entry = entry /\ helper'[h].doc = helper[h].doc
        /\ helper'[h].phase = "merge"
        /\ \A g \in Helper : g # h => helper'[g] = helper[g]
        /\ now' = now /\ file' = file
    BY <1>5 DEF Fetched, TypeOK, Local
  <2>2. /\ row.state = "ready" => row.success = read
        /\ row.state = "stale" =>
              prior.state \in {"ready", "stale"} /\ row.success = prior.success
    BY DEF retained
  <2>3. prior.state \in {"ready", "stale"} => prior.success <= helper[h].entry.started
    BY <2>1
  <2>4. read <= now
    BY <1>0
  <2>5. helper[h].entry.started <= now
    BY DEF Aged, AgedAt
  <2> HIDE DEF prior, row
  <2>6. Aged(entry)
    BY <1>0, <2>2, <2>3, <2>4, <2>5 DEF Aged, AgedAt
  <2> HIDE DEF entry
  <2>7. \A g \in Helper : Aged(helper'[g].entry) /\ \A q \in Provider : Aged(helper'[g].doc[q])
    BY <2>1, <2>6
  <2>8. ASSUME NEW g \in Helper, helper'[g].phase = "fetch", NEW q \in helper'[g].current,
               helper'[g].doc[q].state \in {"ready", "stale"}
        PROVE  helper'[g].doc[q].success <= helper'[g].entry.started
    BY <2>1, <2>8
  <2> QED  BY <2>1, <2>7, <2>8 DEF Aged
<1>6. ASSUME NEW h \in Helper, TryGuard(h) \/ ReplaceFails(h) \/ Finish(h) \/ Killed(h)
      PROVE  AgesHold'
  <2>1. /\ now' = now /\ file' = file /\ helper'[h].phase \in {"gone", "lock"}
        /\ \A g \in Helper : g # h => helper'[g] = helper[g]
    BY <1>6, EndsLeave
  <2>2. helper'[h].entry \in {noEntry, helper[h].entry} /\ helper'[h].doc \in {empty, helper[h].doc}
    BY <1>6, EndsLeave
  <2>3. \A q \in Provider : Aged(empty[q])
    BY <1>a DEF empty
  <2>4. \A g \in Helper : Aged(helper'[g].entry) /\ \A q \in Provider : Aged(helper'[g].doc[q])
    BY <1>a, <2>1, <2>2, <2>3
  <2> QED  BY <2>1, <2>4 DEF Aged
<1>7. ASSUME NEW h \in Helper, LockAndLoad(h) PROVE AgesHold'
  <2>1. /\ now' = now /\ file' \in {absent, file}
        /\ helper'[h].phase = "replace" /\ helper'[h].doc = file'.doc
        /\ helper'[h].entry = helper[h].entry
        /\ \A g \in Helper : g # h => helper'[g] = helper[g]
    BY <1>7 DEF LockAndLoad, TypeOK, Local
  <2>2. \A q \in Provider : Aged(file'.doc[q])
    BY <1>a, <2>1 DEF absent, empty
  <2>3. \A g \in Helper : Aged(helper'[g].entry) /\ \A q \in Provider : Aged(helper'[g].doc[q])
    BY <2>1, <2>2
  <2> QED  BY <2>1, <2>2, <2>3 DEF Aged
<1>8. ASSUME NEW h \in Helper, Replace(h) PROVE AgesHold'
  <2>1. /\ now' = now /\ file'.doc = merged(h)
        /\ helper'[h].phase = "next" /\ helper'[h].entry = noEntry
        /\ helper'[h].doc = only(helper[h].todo, merged(h))
        /\ \A g \in Helper : g # h => helper'[g] = helper[g]
    BY <1>8 DEF Replace, valid, TypeOK, Local
  <2>2. \A q \in Provider : Aged(merged(h)[q])
    BY DEF merged
  <2>3. \A q \in Provider : Aged(only(helper[h].todo, merged(h))[q])
    BY <1>a, <2>2 DEF only
  <2>4. \A g \in Helper : Aged(helper'[g].entry) /\ \A q \in Provider : Aged(helper'[g].doc[q])
    BY <1>a, <2>1, <2>3
  <2> QED  BY <2>1, <2>2, <2>4 DEF Aged
<1>9. CASE Purge
  <2>1. now' = now /\ helper' = helper /\ file' = absent
    BY <1>9 DEF Purge
  <2>2. \A q \in Provider : Aged(file'.doc[q])
    BY <1>a, <2>1 DEF absent, empty
  <2> QED  BY <2>1, <2>2 DEF Aged
<1>10. CASE helper' = helper /\ file' = file /\ now' \in {now, now + 1}
  <2>1. ASSUME NEW entry \in Entry, Aged(entry) PROVE Aged(entry)'
    BY <1>0, <1>10, <2>1, EntryTimes DEF Aged, AgedAt
  <2> QED  BY <1>0, <1>10, <2>1
<1> QED
  BY <1>1, <1>2, <1>3, <1>4, <1>5, <1>6, <1>7, <1>8, <1>9, <1>10, Steps
     DEF MaintenanceStarts, MaintenanceLocks, MaintenanceDrops, PurgeRemovesGate, Tick, vars

-----------------------------------------------------------------------------
(* The theorems *)

LEMMA InitIInv == Init => IInv
<1> SUFFICES ASSUME Init PROVE IInv
  OBVIOUS
<1>1. TypeOK
  BY InitTypeOK
<1>2. LockHolds /\ OneCurrent
  BY NoHelperAssumption DEF Init, LockHolds, OneCurrent, newborn
<1>3. GateHolds
  BY DEF Init, GateHolds, newborn
<1>4. Aged(noEntry)
  BY CacheBoundsAssumption DEF Init, Aged, AgedAt, noEntry
<1>5. AgesHold
  BY <1>4 DEF Init, AgesHold, newborn, absent, corrupt, empty
<1>6. RequestsHold
  BY DEF Init, RequestsHold, newborn
<1> QED  BY <1>1, <1>2, <1>3, <1>5, <1>6 DEF IInv

LEMMA StepIInv == IInv /\ [Next]_vars => IInv'
BY StepTypeOK, StepLockHolds, StepOneCurrent, StepGateHolds, StepAgesHold,
   StepRequestsHold DEF IInv

(* The file, the locks, the gate and every process stay what they are meant *)
(* to be, for any number of helpers, providers, ticks and purges.          *)
THEOREM CacheInvariant == Spec => []IInv
BY InitIInv, StepIInv, PTL DEF Spec

(* CACHE-010: a forced request is never answered by a collection that was   *)
(* active when it came (collect_with_mode, CacheCoordinator).              *)
THEOREM ForcedRequestsAreCollected == Spec => []ForcedIsCollected
<1>1. IInv => ForcedIsCollected
  BY DEF IInv, RequestsHold, ForcedIsCollected
<1> QED  BY CacheInvariant, <1>1, PTL

(* CACHE-024: lastSuccessAt is never later than the collection that kept the *)
(* data, however long the chain of failures (apply_stale_retention).        *)
THEOREM DataIsAsOldAsItSays == Spec => []DataKeepsItsAge
<1>1. IInv => DataKeepsItsAge
  BY DEF IInv, AgesHold, Aged, AgedAt, DataKeepsItsAge
<1> QED  BY CacheInvariant, <1>1, PTL

(* CACHE-019B: a maintenance command that has the gate has the cache to     *)
(* itself, until a purge has removed the gate's own file (lock_exclusive).  *)
THEOREM MaintenanceIsAlone == Spec => []MaintenanceExcludesHelpers
<1>1. ASSUME IInv PROVE MaintenanceExcludesHelpers
  <2> SUFFICES ASSUME gatePath.inode = 0, maintenance.phase \in {"exclusive", "purged"}
               PROVE  /\ \A h \in Helper : helper[h].phase \notin Holding
                      /\ maintenance.phase = "purged" => file = absent
    BY DEF MaintenanceExcludesHelpers, Holding
  <2>1. maintenance.inode = 0 /\ \A h \in Helper : helper[h].gate = 0
    BY <1>1 DEF IInv, TypeOK, GateHolds, Local
  <2> QED  BY <1>1, <2>1 DEF IInv, GateHolds
<1> QED  BY CacheInvariant, <1>1, PTL

(* CACHE-013: a merge changes the entry of the provider it collected and no *)
(* other, whatever the helpers around it merge (merge_provider).           *)
THEOREM SiblingsAreKept == Spec => MergesKeepSiblings
<1> DEFINE Keeps == file.state = "valid" /\ file'.state = "valid" =>
                       \A p \in Provider : file'.doc[p] # file.doc[p] =>
                          /\ lock # NoHelper
                          /\ helper[lock].current = {p}
<1>1. ASSUME IInv, [Next]_vars PROVE Keeps
  <2> SUFFICES ASSUME file.state = "valid", file'.state = "valid", file' # file
               PROVE  \A p \in Provider : file'.doc[p] # file.doc[p] =>
                         lock # NoHelper /\ helper[lock].current = {p}
    OBVIOUS
  <2>1. PICK h \in Helper : Replace(h)
    <3>1. absent.state # "valid"
      BY DEF absent
    <3>2. TypeOK
      BY <1>1 DEF IInv
    <3>3. ASSUME NEW h \in Helper, \/ Load(h) \/ Quarantine(h) \/ TryGuard(h)
                                   \/ ReplaceFails(h) \/ Finish(h) \/ Killed(h)
          PROVE  file' = file \/ file' = absent
      BY <3>2, <3>3, ReadsLeave, EndsLeave
    <3>4. ASSUME NEW h \in Helper, LockAndLoad(h) PROVE file' = file \/ file' = absent
      BY <3>4 DEF LockAndLoad
    <3>5. ASSUME NEW h \in Helper,
                 \/ \E mode \in {"use", "bypass"}, targets \in SUBSET Provider :
                       Start(h, mode, targets)
                 \/ TakeGate(h) \/ \E p \in Provider : Begin(h, p)
                 \/ \E p \in Provider, answer \in Answer, read \in 0..now :
                       Fetched(h, p, answer, read)
          PROVE  file' = file
      BY <3>5 DEF Start, TakeGate, Begin, Fetched
    <3>6. CASE \/ MaintenanceStarts \/ MaintenanceLocks \/ Purge \/ MaintenanceDrops
               \/ PurgeRemovesGate \/ Tick \/ UNCHANGED vars
      BY <3>1, <3>6 DEF MaintenanceStarts, MaintenanceLocks, Purge, MaintenanceDrops,
                        PurgeRemovesGate, Tick, vars
    <3> QED
      BY <1>1, <3>1, <3>2, <3>3, <3>4, <3>5, <3>6, Steps
  <2>2. lock = h /\ lock # NoHelper /\ file.doc = helper[h].doc
    BY <1>1, <2>1, NoHelperAssumption DEF Replace, IInv, LockHolds
  <2>3. PICK q \in Provider : helper[h].current = {q}
    BY <1>1, <2>1 DEF Replace, IInv, OneCurrent
  <2>4. \A p \in Provider : file'.doc[p] = IF p = q THEN helper[h].entry ELSE file.doc[p]
    BY <2>1, <2>2, <2>3 DEF Replace, valid, merged
  <2> QED  BY <2>2, <2>3, <2>4
<1>2. IInv /\ [Next]_vars => [Keeps]_file
  BY <1>1
<1> QED  BY CacheInvariant, <1>2, PTL DEF Spec, MergesKeepSiblings

-----------------------------------------------------------------------------
(* Why every collection ends.  Two facts carry it: whoever waits for a lock *)
(* waits, directly or through one other, for a process that waits for none; *)
(* and every step of a helper leaves it less to do.  (That the processes    *)
(* which can go on do go on is for fairness to say.)                       *)

Underway(h) == helper[h].phase \notin {"idle", "gone"}

(* The gate and status.lock are waited for; merge_provider's second look at *)
(* the gate is not (try_lock_shared).                                      *)
Waits(h) == \/ helper[h].phase = "gate" /\ exclusiveOn(helper[h].gate)
            \/ helper[h].phase = "lock" /\ lock # NoHelper

MaintenanceWaits == maintenance.phase = "gate" /\ sharedOn(maintenance.inode)

(* Never do all the processes that are underway wait for one another.       *)
SomeoneCanGoOn ==
    (\E h \in Helper : Underway(h)) \/ maintenance.phase # "none" =>
        \/ \E h \in Helper : Underway(h) /\ ~Waits(h)
        \/ maintenance.phase # "none" /\ ~MaintenanceWaits

(* The steps a helper can still take, at most: five for each target that is *)
(* left, and those to the first.                                           *)
Remaining(targets) == 5 * Cardinality(targets)
Work(me) ==
    CASE me.phase = "idle"       -> Remaining(Provider) + 5
      [] me.phase = "gate"       -> Remaining(Provider) + 4
      [] me.phase = "load"       -> Remaining(Provider) + 3
      [] me.phase = "quarantine" -> Remaining(Provider) + 2
      [] me.phase = "next"       -> Remaining(me.todo) + 1
      [] me.phase = "fetch"      -> Remaining(me.todo) + 5
      [] me.phase = "merge"      -> Remaining(me.todo) + 4
      [] me.phase = "lock"       -> Remaining(me.todo) + 3
      [] me.phase = "replace"    -> Remaining(me.todo) + 2
      [] OTHER                   -> 0

(* Whatever a helper does, and whatever is done to it, it has less left.    *)
EveryStepIsProgress ==
    [][\A h \in Helper :
         helper'[h] # helper[h] => Work(helper'[h]) < Work(helper[h])]_vars

(* Work counts. *)
LEMMA WorkCounts ==
    ASSUME NEW me \in Local
    PROVE  /\ IsFiniteSet(me.todo)
           /\ Remaining(me.todo) \in Nat /\ Remaining(Provider) \in Nat
           /\ Remaining(me.todo) <= Remaining(Provider)
           /\ \A p \in me.todo : Remaining(me.todo \ {p}) = Remaining(me.todo) - 5
<1>1. me.todo \in SUBSET Provider
  BY DEF Local
<1>2. /\ IsFiniteSet(me.todo) /\ Cardinality(me.todo) \in Nat
      /\ Cardinality(Provider) \in Nat /\ Cardinality(me.todo) <= Cardinality(Provider)
  BY <1>1, ProviderAssumption, FS_Subset, FS_CardinalityType
<1>3. \A p \in me.todo : Cardinality(me.todo \ {p}) = Cardinality(me.todo) - 1
  BY <1>2, FS_RemoveElement
<1> QED  BY <1>2, <1>3 DEF Remaining

(* It is a number, and only what is gone has none left. *)
LEMMA WorkIsNat ==
    ASSUME NEW me \in Local
    PROVE  Work(me) \in Nat /\ (me.phase # "gone" => Work(me) > 0)
<1> DEFINE n == Remaining(me.todo)
           all == Remaining(Provider)
<1>1. n \in Nat /\ all \in Nat
  BY WorkCounts
<1>2. me.phase \in Phase
  BY DEF Local
<1> QED  BY <1>1, <1>2 DEF Work, Phase, Collecting

(* What has been read, or replaced by nothing, is gone on from. *)
LEMMA GoesOnIsNext ==
    ASSUME TypeOK, NEW h \in Helper, NEW doc, goesOnWith(h, doc)
    PROVE  helper'[h].phase = "next"
<1>1. PICK todo, late :
         helper' = [helper EXCEPT ![h] =
            [helper[h] EXCEPT !.phase = "next", !.todo = todo,
                              !.doc = only(todo, doc), !.outdated = late]]
  BY DEF goesOnWith
<1> QED  BY <1>1 DEF TypeOK, Local

(* Taking the gate and reading the cache leave less to do. *)
LEMMA ReadsProgress ==
    ASSUME TypeOK, TypeOK', NEW h \in Helper, TakeGate(h) \/ Load(h) \/ Quarantine(h)
    PROVE  Work(helper'[h]) < Work(helper[h])
<1>1. helper[h] \in Local /\ helper'[h] \in Local
  BY DEF TypeOK
<1> DEFINE n == Remaining(helper'[h].todo)
           all == Remaining(Provider)
<1>2. n \in Nat /\ all \in Nat /\ n <= all
  BY <1>1, WorkCounts
<1>3. CASE TakeGate(h)
  <2>1. helper[h].phase = "gate" /\ helper'[h].phase = "load"
    BY <1>1, <1>3 DEF TakeGate, TypeOK, Local
  <2> QED  BY <1>2, <2>1 DEF Work
<1>4. CASE Load(h) \/ Quarantine(h)
  <2>1. \/ helper[h].phase = "load" /\ helper'[h].phase \in {"quarantine", "next"}
        \/ helper[h].phase = "quarantine" /\ helper'[h].phase = "next"
    <3>1. CASE Load(h)
      <4>1. helper[h].phase = "load"
        BY <3>1 DEF Load
      <4>2. helper'[h].phase \in {"quarantine", "next"}
        BY <3>1, ReadsLeave
      <4> QED  BY <4>1, <4>2
    <3>2. CASE Quarantine(h)
      <4>1. helper[h].phase = "quarantine" /\ goesOnWith(h, empty)
        BY <3>2 DEF Quarantine
      <4> QED  BY <4>1, GoesOnIsNext
    <3> QED  BY <1>4, <3>1, <3>2
  <2> QED  BY <1>2, <2>1 DEF Work
<1> QED  BY <1>3, <1>4

(* Beginning a provider takes it off the list and leaves less to do. *)
LEMMA BeginProgress ==
    ASSUME TypeOK, NEW h \in Helper, NEW p \in Provider, Begin(h, p)
    PROVE  Work(helper'[h]) < Work(helper[h])
<1>1. helper[h] \in Local
  BY DEF TypeOK
<1> DEFINE n == Remaining(helper[h].todo)
<1>2. n \in Nat /\ \A q \in helper[h].todo : Remaining(helper[h].todo \ {q}) = n - 5
  BY <1>1, WorkCounts
<1>3. helper[h].phase = "next" /\ p \in helper[h].todo
  BY DEF Begin
<1>4. helper'[h].phase = "fetch" /\ helper'[h].todo = helper[h].todo \ {p}
  BY DEF Begin, TypeOK, Local
<1>5. Remaining(helper'[h].todo) = n - 5
  BY <1>2, <1>3, <1>4
<1> QED  BY <1>2, <1>3, <1>4, <1>5 DEF Work

(* So does its answer, whatever it is. *)
LEMMA FetchedProgress ==
    ASSUME TypeOK, NEW h \in Helper, NEW p, NEW answer, NEW read,
           Fetched(h, p, answer, read)
    PROVE  Work(helper'[h]) < Work(helper[h])
<1>1. helper[h] \in Local
  BY DEF TypeOK
<1>2. Remaining(helper[h].todo) \in Nat
  BY <1>1, WorkCounts
<1>3. helper[h].phase = "fetch"
  BY DEF Fetched
<1>4. helper'[h].phase = "merge" /\ helper'[h].todo = helper[h].todo
  BY DEF Fetched, TypeOK, Local
<1> QED  BY <1>2, <1>3, <1>4 DEF Work

(* So do the two steps of a merge under status.lock. *)
LEMMA MergesProgress ==
    ASSUME TypeOK, NEW h \in Helper, LockAndLoad(h) \/ Replace(h)
    PROVE  Work(helper'[h]) < Work(helper[h])
<1>1. helper[h] \in Local /\ helper \in [Helper -> Local]
  BY DEF TypeOK
<1>2. Remaining(helper[h].todo) \in Nat
  BY <1>1, WorkCounts
<1>3. CASE LockAndLoad(h)
  <2>1. /\ helper[h].phase = "lock" /\ helper'[h].phase = "replace"
        /\ helper'[h].todo = helper[h].todo
    BY <1>1, <1>3 DEF LockAndLoad, Local
  <2> QED  BY <1>2, <2>1 DEF Work
<1>4. CASE Replace(h)
  <2>1. /\ helper[h].phase = "replace" /\ helper'[h].phase = "next"
        /\ helper'[h].todo = helper[h].todo
    BY <1>1, <1>4 DEF Replace, Local
  <2> QED  BY <1>2, <2>1 DEF Work
<1> QED  BY <1>3, <1>4

(* So does a merge's second look at the gate, and every death. *)
LEMMA EndsProgress ==
    ASSUME TypeOK, NEW h \in Helper,
           TryGuard(h) \/ ReplaceFails(h) \/ Finish(h) \/ Killed(h)
    PROVE  Work(helper'[h]) < Work(helper[h])
<1>1. helper[h] \in Local /\ helper \in [Helper -> Local]
  BY DEF TypeOK
<1>2. ASSUME dies(h), helper[h].phase # "gone"
      PROVE  Work(helper'[h]) < Work(helper[h])
  <2>1. helper'[h].phase = "gone"
    BY <1>1, <1>2 DEF dies, newborn
  <2>2. Work(helper'[h]) = 0
    BY <2>1 DEF Work
  <2> QED  BY <1>1, <1>2, <2>2, WorkIsNat
<1>3. CASE helper[h].phase = "merge" /\ helper'[h] = [helper[h] EXCEPT !.phase = "lock",
                                                          !.guard = gatePath.inode]
  <2>1. helper'[h].phase = "lock" /\ helper'[h].todo = helper[h].todo
    BY <1>1, <1>3 DEF Local
  <2>2. Remaining(helper[h].todo) \in Nat
    BY <1>1, WorkCounts
  <2> QED  BY <1>3, <2>1, <2>2 DEF Work
<1>4. \/ dies(h) /\ helper[h].phase # "gone"
      \/ helper[h].phase = "merge" /\ helper'[h] = [helper[h] EXCEPT !.phase = "lock",
                                                          !.guard = gatePath.inode]
  BY <1>1 DEF TryGuard, ReplaceFails, Finish, Killed
<1> QED  BY <1>2, <1>3, <1>4

(* A collection takes at most five steps for each target and five more,     *)
(* whatever other helpers, kills and maintenance do between them: it never  *)
(* retries, waits by looping, or collects a provider twice.                *)
THEOREM StepsAreProgress == Spec => EveryStepIsProgress
<1> DEFINE Progress == \A h \in Helper :
              helper'[h] # helper[h] => Work(helper'[h]) < Work(helper[h])
<1>1. ASSUME IInv, [Next]_vars PROVE Progress
  <2>1. TypeOK /\ TypeOK'
    BY <1>1, StepTypeOK DEF IInv
  <2>2. ASSUME NEW h \in Helper, Work(helper'[h]) < Work(helper[h]),
               \A g \in Helper : g # h => helper'[g] = helper[g]
        PROVE  Progress
    BY <2>2
  <2>3. ASSUME NEW h \in Helper, NEW mode \in {"use", "bypass"},
               NEW targets \in SUBSET Provider, Start(h, mode, targets)
        PROVE  Progress
    <3>1. /\ helper[h].phase = "idle" /\ helper'[h].phase = "gate"
          /\ \A g \in Helper : g # h => helper'[g] = helper[g]
      BY <2>1, <2>3 DEF Start, TypeOK, newborn
    <3>2. helper[h] \in Local
      BY <2>1 DEF TypeOK
    <3>3. Remaining(Provider) \in Nat
      BY <3>2, WorkCounts
    <3>4. Work(helper'[h]) < Work(helper[h])
      BY <3>1, <3>3 DEF Work
    <3> QED  BY <2>2, <3>1, <3>4
  <2>4. ASSUME NEW h \in Helper, TakeGate(h) \/ Load(h) \/ Quarantine(h)
        PROVE  Progress
    <3>1. \A g \in Helper : g # h => helper'[g] = helper[g]
      BY <2>1, <2>4, ReadsLeave DEF TakeGate, TypeOK
    <3>2. Work(helper'[h]) < Work(helper[h])
      BY <2>1, <2>4, ReadsProgress
    <3> QED  BY <2>2, <3>1, <3>2
  <2>5. ASSUME NEW h \in Helper,
               \/ \E p \in Provider : Begin(h, p)
               \/ \E p \in Provider, answer \in Answer, read \in 0..now :
                     Fetched(h, p, answer, read)
               \/ LockAndLoad(h) \/ Replace(h)
        PROVE  Progress
    <3>1. \A g \in Helper : g # h => helper'[g] = helper[g]
      <4>1. ASSUME NEW p \in Provider, Begin(h, p)
            PROVE  \A g \in Helper : g # h => helper'[g] = helper[g]
        BY <2>1, <4>1 DEF Begin, TypeOK
      <4>2. ASSUME NEW p \in Provider, NEW answer \in Answer, NEW read \in 0..now,
                   Fetched(h, p, answer, read)
            PROVE  \A g \in Helper : g # h => helper'[g] = helper[g]
        BY <2>1, <4>2 DEF Fetched, TypeOK
      <4>3. CASE LockAndLoad(h)
        BY <2>1, <4>3 DEF LockAndLoad, TypeOK
      <4>4. CASE Replace(h)
        BY <2>1, <4>4 DEF Replace, TypeOK
      <4> QED  BY <2>5, <4>1, <4>2, <4>3, <4>4
    <3>2. Work(helper'[h]) < Work(helper[h])
      BY <2>1, <2>5, BeginProgress, FetchedProgress, MergesProgress
    <3> QED  BY <2>2, <3>1, <3>2
  <2>6. ASSUME NEW h \in Helper, TryGuard(h) \/ ReplaceFails(h) \/ Finish(h) \/ Killed(h)
        PROVE  Progress
    BY <2>1, <2>2, <2>6, EndsProgress, EndsLeave
  <2>7. ASSUME UNCHANGED helper PROVE Progress
    BY <2>7
  <2>8. CASE \/ MaintenanceStarts \/ MaintenanceLocks \/ Purge \/ MaintenanceDrops
             \/ PurgeRemovesGate \/ Tick \/ UNCHANGED vars
    BY <2>7, <2>8 DEF MaintenanceStarts, MaintenanceLocks, Purge, MaintenanceDrops,
                      PurgeRemovesGate, Tick, vars
  <2> HIDE DEF Progress
  <2> QED  BY <1>1, <2>1, <2>3, <2>4, <2>5, <2>6, <2>8, Steps
<1>2. IInv /\ [Next]_vars => [Progress]_vars
  BY <1>1
<1> QED  BY CacheInvariant, <1>2, PTL DEF Spec, EveryStepIsProgress

(* No deadlock among helpers and maintenance, for any number of them and    *)
(* even after a purge has removed the gate others hold: a helper at the     *)
(* gate waits for a command that waits for nobody, one at status.lock for a *)
(* helper that replaces the file, and a command at the gate for helpers of  *)
(* which one can go on.                                                    *)
THEOREM WaitsAreNotCircular == Spec => []SomeoneCanGoOn
<1>1. ASSUME IInv PROVE SomeoneCanGoOn
  <2> SUFFICES ASSUME \A h \in Helper : Underway(h) => Waits(h),
                      maintenance.phase # "none" => MaintenanceWaits
               PROVE  maintenance.phase = "none" /\ \A h \in Helper : ~Underway(h)
    BY DEF SomeoneCanGoOn
  <2>1. lock = NoHelper
    <3> SUFFICES ASSUME lock # NoHelper PROVE FALSE
      OBVIOUS
    <3>1. lock \in Helper /\ helper[lock].phase = "replace"
      BY <1>1 DEF IInv, TypeOK, LockHolds
    <3> QED  BY <3>1 DEF Underway, Waits
  <2>2. maintenance.phase \notin {"exclusive", "purged"}
    BY DEF MaintenanceWaits
  <2>3. \A h \in Helper : ~Underway(h)
    BY <2>1, <2>2 DEF Waits, exclusiveOn
  <2>4. ~sharedOn(maintenance.inode)
    BY <2>3 DEF sharedOn, Underway, Collecting
  <2> QED  BY <2>3, <2>4 DEF MaintenanceWaits
<1> QED  BY CacheInvariant, <1>1, PTL
=============================================================================
