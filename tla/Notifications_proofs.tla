------------------------- MODULE Notifications_proofs -------------------------
(***************************************************************************)
(* Proofs about Notifications, for any windows, readings, helpers and       *)
(* bounds: its types, that the state file never records an alert nobody was *)
(* shown (RowsAreHeard) however evaluations overlap, fail or die, and what  *)
(* one that runs alone promises (OnlyOneUnrecorded, FollowsTheWindow).     *)
(*                                                                         *)
(* RowsAreHeard is not inductive: what is saved comes from the rows a helper *)
(* has read, and from the alert it has just sent.  RowsHeard says the same  *)
(* of every helper's rows, SentIsHeard of the alert to acknowledge.        *)
(***************************************************************************)
EXTENDS Notifications, FiniteSetTheorems, TLAPS

(* The row stands for one of these alerts. *)
StandsForAlert(row, alerts) ==
    row.level > 0 => \E alert \in alerts : /\ alert.at = row.notified
                                           /\ alert.level >= row.level

RowsHeard == \A h \in Helper, k \in Key : StandsForAlert(helper[h].rows[k], heard[k])

SentIsHeard ==
    \A h \in Helper : \A k \in helper[h].current :
        \E alert \in heard[k] : /\ alert.at = helper[h].at
                                /\ alert.level = helper[h].reads[k].level

OneAtAck == \A h \in Helper : helper[h].phase # "ack" => helper[h].current = {}

Inv == TypeOK /\ RowsAreHeard /\ RowsHeard /\ SentIsHeard /\ OneAtAck

-----------------------------------------------------------------------------
(* What an envelope says of each window is a reading. *)
LEMMA EnvelopeType ==
    ASSUME NEW reads \in Envelope
    PROVE  reads \in [Key -> Reading]
<1>1. \A k \in Key : Possible(k) \subseteq Reading
  BY ObservedAssumption DEF Possible, silent, shown, Reading, noReset, Level
<1> QED
  BY <1>1 DEF Envelope

(* Nothing read, nothing recorded. *)
LEMMA EmptyType ==
    /\ empty \in Rows
    /\ noEnvelope \in [Key -> Reading]
    /\ newborn \in Local
    /\ \A k \in Key : empty[k].level = 0
<1>1. noRow \in Row /\ noRow.level = 0
  BY NotificationBoundsAssumption DEF noRow, Row, Level, Time, noReset
<1>2. empty \in Rows /\ \A k \in Key : empty[k].level = 0
  BY <1>1 DEF empty, Rows
<1>3. noEnvelope \in [Key -> Reading]
  BY DEF noEnvelope, silent, Reading, Level, noReset
<1>4. 0 \in Time
  BY NotificationBoundsAssumption DEF Time
<1> QED
  BY <1>2, <1>3, <1>4 DEF newborn, Local

(* A row that is not emptied keeps its stamp, and its level never rises. *)
LEMMA RowTransition ==
    ASSUME NEW row \in Row, NEW read \in Reading, NEW at \in Time
    PROVE  LET new == silently(pruned(row, read, at), read, at) IN
           /\ new \in Row
           /\ new.level > 0 => new.notified = row.notified /\ row.level >= new.level
<1>1. noRow \in Row /\ noRow.level = 0
  BY NotificationBoundsAssumption DEF noRow, Row, Level, Time, noReset
<1> DEFINE base == pruned(row, read, at)
<1>2. base \in Row /\ (base = row \/ base = noRow)
  BY <1>1 DEF pruned
<1>3. ASSUME NEW b \in Row
      PROVE  /\ silently(b, read, at) \in Row
             /\ silently(b, read, at).level > 0 =>
                   /\ silently(b, read, at).notified = b.notified
                   /\ b.level >= silently(b, read, at).level
  <2>1. CASE read.kind \in {"unread", "gone"}
    BY <2>1 DEF silently, Row, Level
  <2>2. CASE read.kind \notin {"unread", "gone"} /\ read.level = 0
    BY <2>2, <1>1 DEF silently
  <2>3. CASE /\ read.kind \notin {"unread", "gone"} /\ read.level # 0
             /\ ~should_emit(b, read, at) /\ read.level < b.level
    <3>1. silently(b, read, at) = [b EXCEPT !.level = read.level, !.reset = read.reset]
      BY <2>3 DEF silently
    <3>2. /\ b.level \in 0..2 /\ read.level \in 0..2 /\ read.reset \in Nat
          /\ b.notified \in Time /\ b = [level |-> b.level, reset |-> b.reset,
                                         notified |-> b.notified]
      BY DEF Row, Reading, Level
    <3>3. silently(b, read, at) = [level |-> read.level, reset |-> read.reset,
                                   notified |-> b.notified]
      BY <3>1, <3>2 DEF Row
    <3>4. silently(b, read, at) \in Row
      BY <3>2, <3>3 DEF Row, Level
    <3>5. b.level >= read.level
      BY <3>2, <2>3
    <3> QED
      BY <3>3, <3>4, <3>5
  <2>4. CASE /\ read.kind \notin {"unread", "gone"} /\ read.level # 0
             /\ ~(~should_emit(b, read, at) /\ read.level < b.level)
    <3>1. silently(b, read, at) = b
      BY <2>4 DEF silently
    <3> QED
      BY <3>1 DEF Row, Level
  <2> QED
    BY <2>1, <2>2, <2>3, <2>4
<1>4. CASE base = row
  BY <1>3, <1>4
<1>5. CASE base = noRow
  <2>1. silently(noRow, read, at) \in Row /\ ~(silently(noRow, read, at).level > 0)
    BY <1>1, <1>3 DEF Row, Level
  <2> QED
    BY <1>5, <2>1
<1> QED
  BY <1>2, <1>4, <1>5

(* What evaluates leaves in a helper that read good rows. *)
LEMMA EvaluatesType ==
    ASSUME Inv, NEW h \in Helper, NEW rows \in Rows, NEW reads \in Envelope,
           \A k \in Key : StandsForAlert(rows[k], heard[k]),
           evaluates(h, rows, reads)
    PROVE  /\ helper' \in [Helper -> Local]
           /\ \A g \in Helper \ {h} : helper'[g] = helper[g]
           /\ \A k \in Key : StandsForAlert(helper'[h].rows[k], heard[k])
           /\ helper'[h].current = helper[h].current
<1> DEFINE at   == helper[h].at
           base == [k \in Key |-> pruned(rows[k], reads[k], at)]
           new  == [k \in Key |-> silently(base[k], reads[k], at)]
           due  == {k \in Key : should_emit(base[k], reads[k], at)}
<1>1. helper[h] \in Local /\ at \in Time /\ helper \in [Helper -> Local]
  BY DEF Inv, TypeOK, Local
<1>2. reads \in [Key -> Reading]
  BY EnvelopeType
<1>3. \A k \in Key : rows[k] \in Row /\ reads[k] \in Reading
  BY <1>2 DEF Rows
<1>4. \A k \in Key : new[k] = silently(pruned(rows[k], reads[k], at), reads[k], at)
  OBVIOUS
<1>5. \A k \in Key :
         /\ new[k] \in Row
         /\ new[k].level > 0 => /\ new[k].notified = rows[k].notified
                                /\ rows[k].level >= new[k].level
  <2> SUFFICES ASSUME NEW k \in Key
               PROVE  /\ new[k] \in Row
                      /\ new[k].level > 0 => /\ new[k].notified = rows[k].notified
                                             /\ rows[k].level >= new[k].level
    OBVIOUS
  <2> HIDE DEF new
  <2> QED
    BY <1>1, <1>3, <1>4, RowTransition
<1>6. new \in Rows
  BY <1>5 DEF Rows
<1>7. helper' = [helper EXCEPT ![h] = [@ EXCEPT !.phase = "save", !.reads = reads,
                                               !.rows = new, !.pending = due]]
  BY DEF evaluates
<1> HIDE DEF new, due
<1>8. due \subseteq Key
  BY DEF due
<1>9. helper'[h] = [helper[h] EXCEPT !.phase = "save", !.reads = reads,
                                     !.rows = new, !.pending = due]
  BY <1>1, <1>7
<1>10. /\ helper'[h] \in Local /\ helper'[h].rows = new
       /\ helper'[h].current = helper[h].current
  BY <1>1, <1>2, <1>6, <1>8, <1>9 DEF Local
<1>11. helper' \in [Helper -> Local] /\ \A g \in Helper \ {h} : helper'[g] = helper[g]
  BY <1>1, <1>7, <1>10
<1>12. ASSUME NEW k \in Key PROVE StandsForAlert(new[k], heard[k])
  <2>1. CASE new[k].level > 0
    <3>1. /\ new[k].notified = rows[k].notified /\ rows[k].level >= new[k].level
          /\ new[k].level \in 0..2 /\ rows[k].level \in 0..2
      BY <2>1, <1>3, <1>5 DEF Row, Level
    <3>2. PICK alert \in heard[k] : /\ alert.at = rows[k].notified
                                    /\ alert.level >= rows[k].level
      BY <3>1, <2>1 DEF StandsForAlert
    <3>3. alert.level \in 0..2
      BY DEF Inv, TypeOK, Level
    <3>4. alert.level >= new[k].level
      BY <3>1, <3>2, <3>3
    <3> QED
      BY <3>1, <3>2, <3>4 DEF StandsForAlert
  <2> QED
    BY <2>1 DEF StandsForAlert
<1> QED
  BY <1>10, <1>11, <1>12

-----------------------------------------------------------------------------
(* Each step keeps the invariant. *)

LEMMA InvInit == Init => Inv
<1> SUFFICES ASSUME Init PROVE Inv
  OBVIOUS
<1>1. TypeOK
  <2>1. file \in [state : {"absent", "corrupt", "valid"}, rows : Rows]
    BY EmptyType DEF Init, absent
  <2>2. heard \in [Key -> SUBSET [at : Time, level : Level]]
    BY DEF Init
  <2>3. now \in Time /\ begun \in 0..MaxEvaluations
    BY NotificationBoundsAssumption DEF Init, Time
  <2> QED
    BY <2>1, <2>2, <2>3, EmptyType DEF Init, TypeOK
<1>2. file.rows = empty
  BY DEF Init, absent
<1>3. RowsAreHeard
  BY <1>2, EmptyType DEF RowsAreHeard
<1>4. RowsHeard
  BY EmptyType DEF Init, RowsHeard, StandsForAlert, newborn
<1>5. SentIsHeard
  BY DEF Init, SentIsHeard, newborn
<1>6. OneAtAck
  BY DEF Init, OneAtAck, newborn
<1> QED
  BY <1>1, <1>3, <1>4, <1>5, <1>6 DEF Inv

(* Acknowledging an alert leaves a well-formed local state. *)
LEMMA AckIsLocal ==
    ASSUME NEW me \in Local, NEW rows \in Rows, {} \in SUBSET Key
    PROVE  LET new == [me EXCEPT !.phase = "send", !.current = {}, !.rows = rows]
           IN  new \in Local /\ new.rows = rows /\ new.current = {}
  BY DEF Local

(* A helper that only moves on keeps its type and what it has in hand. *)
LEMMA PhaseStep ==
    ASSUME NEW me \in Local, NEW phase \in {"quarantine", "send"}
    PROVE  /\ [me EXCEPT !.phase = phase] \in Local
           /\ [me EXCEPT !.phase = phase].rows = me.rows
           /\ [me EXCEPT !.phase = phase].current = me.current
           /\ me.rows \in Rows
BY DEF Local

(* One helper moves to a new local state whose rows stand for alerts. *)
LEMMA LocalStep ==
    ASSUME Inv, NEW h \in Helper, NEW new \in Local,
           helper' = [helper EXCEPT ![h] = new],
           \A k \in Key : heard[k] \subseteq heard'[k],
           \A k \in Key : StandsForAlert(new.rows[k], heard'[k]),
           new.phase # "ack" => new.current = {},
           \A k \in new.current :
              \E alert \in heard'[k] : /\ alert.at = new.at
                                       /\ alert.level = new.reads[k].level
    PROVE  /\ helper' \in [Helper -> Local]
           /\ RowsHeard' /\ SentIsHeard' /\ OneAtAck'
<1>1. /\ helper' \in [Helper -> Local] /\ helper'[h] = new
      /\ \A g \in Helper \ {h} : helper'[g] = helper[g]
  BY DEF Inv, TypeOK
<1>2. RowsHeard'
  BY <1>1 DEF Inv, RowsHeard, StandsForAlert
<1>3. SentIsHeard'
  <2> SUFFICES ASSUME NEW g \in Helper, NEW k \in helper'[g].current
               PROVE  \E alert \in heard'[k] : /\ alert.at = helper'[g].at
                                               /\ alert.level = helper'[g].reads[k].level
    BY DEF SentIsHeard
  <2>1. CASE g = h
    BY <1>1, <2>1
  <2>2. CASE g # h
    <3>1. helper'[g] = helper[g] /\ helper[g] \in Local /\ k \in Key
      BY <1>1, <2>2 DEF Inv, TypeOK, Local
    <3> QED
      BY <3>1 DEF Inv, SentIsHeard
  <2> QED
    BY <2>1, <2>2
<1>4. OneAtAck'
  BY <1>1 DEF Inv, OneAtAck
<1> QED
  BY <1>1, <1>2, <1>3, <1>4

(* A helper that ends forgets what it knew. *)
LEMMA EndsKeepsInv ==
    ASSUME Inv, NEW h \in Helper, ends(h),
           \A k \in Key : heard[k] \subseteq heard'[k],
           heard' \in [Key -> SUBSET [at : Time, level : Level]],
           UNCHANGED <<now, file, steady, overlapped, begun>>
    PROVE  Inv'
<1>1. /\ newborn \in Local /\ newborn.current = {}
      /\ \A k \in Key : StandsForAlert(newborn.rows[k], heard'[k])
  BY EmptyType DEF newborn, StandsForAlert
<1>2. helper' = [helper EXCEPT ![h] = newborn]
  BY DEF ends
<1>3. helper' \in [Helper -> Local] /\ RowsHeard' /\ SentIsHeard' /\ OneAtAck'
  BY <1>1, <1>2, LocalStep
<1>4. TypeOK' /\ RowsAreHeard'
  BY <1>3 DEF Inv, TypeOK, RowsAreHeard
<1> QED
  BY <1>3, <1>4 DEF Inv

LEMMA InvStep == Inv /\ [Next]_vars => Inv'
<1> SUFFICES ASSUME Inv, [Next]_vars PROVE Inv'
  OBVIOUS
<1>0. /\ helper \in [Helper -> Local]
      /\ heard \in [Key -> SUBSET [at : Time, level : Level]]
      /\ file \in [state : {"absent", "corrupt", "valid"}, rows : Rows]
      /\ steady \in Rows /\ now \in Time /\ overlapped \in BOOLEAN
      /\ begun \in 0..MaxEvaluations
      /\ RowsAreHeard /\ RowsHeard /\ SentIsHeard /\ OneAtAck
  BY DEF Inv, TypeOK
<1>1. ASSUME NEW h \in Helper, Start(h) PROVE Inv'
  <2> DEFINE started == [newborn EXCEPT !.phase = "load", !.at = now]
  <2>1. /\ started \in Local /\ started.rows = empty /\ started.current = {}
    BY <1>0, EmptyType DEF newborn, Local
  <2>2. helper' = [helper EXCEPT ![h] = started]
    BY <1>1 DEF Start
  <2> HIDE DEF started
  <2>3. begun' \in 0..MaxEvaluations /\ overlapped' \in BOOLEAN
    BY <1>0, <1>1, NotificationBoundsAssumption DEF Start
  <2>4. UNCHANGED <<now, file, heard, steady>>
    BY <1>1 DEF Start
  <2>5. \A k \in Key : StandsForAlert(started.rows[k], heard'[k])
    BY <2>1, EmptyType DEF StandsForAlert
  <2>6. helper' \in [Helper -> Local] /\ RowsHeard' /\ SentIsHeard' /\ OneAtAck'
    BY <2>1, <2>2, <2>4, <2>5, LocalStep
  <2>7. TypeOK'
    BY <1>0, <2>3, <2>4, <2>6 DEF TypeOK
  <2>8. RowsAreHeard'
    BY <1>0, <2>4 DEF RowsAreHeard
  <2> QED
    BY <2>6, <2>7, <2>8 DEF Inv
<1>2. ASSUME NEW h \in Helper, NEW rows \in Rows, NEW reads \in Envelope,
             \A k \in Key : StandsForAlert(rows[k], heard[k]),
             helper[h].phase # "ack",
             evaluates(h, rows, reads), UNCHANGED <<now, heard, overlapped, begun>>,
             \/ UNCHANGED <<file, steady>>
             \/ file' = absent /\ steady' = empty
      PROVE  Inv'
  <2>1. /\ helper' \in [Helper -> Local]
        /\ \A g \in Helper \ {h} : helper'[g] = helper[g]
        /\ \A k \in Key : StandsForAlert(helper'[h].rows[k], heard[k])
        /\ helper'[h].current = {}
    BY <1>0, <1>2, EvaluatesType DEF OneAtAck
  <2>2. file' \in [state : {"absent", "corrupt", "valid"}, rows : Rows] /\ steady' \in Rows
    BY <1>0, <1>2, EmptyType DEF absent
  <2>3. TypeOK'
    BY <1>0, <1>2, <2>1, <2>2 DEF TypeOK
  <2>4. RowsAreHeard'
    BY <1>0, <1>2, EmptyType DEF RowsAreHeard, absent
  <2>5. RowsHeard'
    BY <1>0, <1>2, <2>1 DEF RowsHeard, StandsForAlert
  <2>6. SentIsHeard'
    BY <1>0, <1>2, <2>1 DEF SentIsHeard
  <2>7. OneAtAck'
    BY <1>0, <2>1 DEF OneAtAck
  <2> QED
    BY <2>3, <2>4, <2>5, <2>6, <2>7 DEF Inv
<1>3. ASSUME NEW h \in Helper, NEW reads \in Envelope, Load(h, reads) PROVE Inv'
  <2>1. CASE file.state = "corrupt"
    <3> DEFINE new == [helper[h] EXCEPT !.phase = "quarantine"]
    <3>1. /\ new \in Local /\ new.rows = helper[h].rows /\ new.current = {}
      <4>1. helper[h] \in Local /\ helper[h].current = {}
        BY <1>0, <1>3 DEF Load, OneAtAck
      <4> QED
        BY <4>1, PhaseStep
    <3>2. helper' = [helper EXCEPT ![h] = new]
      BY <1>3, <2>1 DEF Load
    <3> HIDE DEF new
    <3>3. UNCHANGED <<now, file, heard, steady, overlapped, begun>>
      BY <1>3 DEF Load
    <3>4. \A k \in Key : StandsForAlert(new.rows[k], heard'[k])
      BY <1>0, <3>1, <3>3 DEF RowsHeard, StandsForAlert
    <3>5. helper' \in [Helper -> Local] /\ RowsHeard' /\ SentIsHeard' /\ OneAtAck'
      BY <3>1, <3>2, <3>3, <3>4, LocalStep
    <3>6. TypeOK' /\ RowsAreHeard'
      BY <1>0, <3>3, <3>5 DEF TypeOK, RowsAreHeard
    <3> QED
      BY <3>5, <3>6 DEF Inv
  <2>2. CASE file.state # "corrupt"
    <3>1. file.rows \in Rows /\ \A k \in Key : StandsForAlert(file.rows[k], heard[k])
      BY <1>0 DEF RowsAreHeard, StandsForAlert
    <3>2. /\ evaluates(h, file.rows, reads) /\ helper[h].phase # "ack"
          /\ UNCHANGED <<now, file, heard, steady, overlapped, begun>>
      BY <1>3, <2>2 DEF Load
    <3> QED
      BY <1>2, <3>1, <3>2
  <2> QED
    BY <2>1, <2>2
<1>4. ASSUME NEW h \in Helper, NEW reads \in Envelope, Quarantine(h, reads) PROVE Inv'
  <2>1. empty \in Rows /\ \A k \in Key : StandsForAlert(empty[k], heard[k])
    BY EmptyType DEF StandsForAlert
  <2>2. /\ evaluates(h, empty, reads) /\ helper[h].phase # "ack"
        /\ file' = absent /\ steady' = empty
        /\ UNCHANGED <<now, heard, overlapped, begun>>
    BY <1>4 DEF Quarantine
  <2> QED
    BY <1>2, <2>1, <2>2
<1>5. ASSUME NEW h \in Helper, SaveSilent(h) PROVE Inv'
  <2> DEFINE new == [helper[h] EXCEPT !.phase = "send"]
  <2>1. /\ new \in Local /\ new.rows = helper[h].rows /\ new.current = {}
        /\ helper[h].rows \in Rows
    <3>1. helper[h] \in Local /\ helper[h].current = {}
      BY <1>0, <1>5 DEF SaveSilent, OneAtAck
    <3> QED
      BY <3>1, PhaseStep
  <2>2. helper' = [helper EXCEPT ![h] = new]
    BY <1>5 DEF SaveSilent
  <2> HIDE DEF new
  <2>3. UNCHANGED <<now, heard, overlapped, begun>> /\ file' = valid(helper[h].rows)
    BY <1>5 DEF SaveSilent
  <2>4. steady' \in Rows
    <3>1. noRow \in Row
      BY NotificationBoundsAssumption DEF noRow, Row, Level, Time, noReset
    <3>2. \A k \in Key : steady[k] \in Row
      BY <1>0 DEF Rows
    <3> QED
      BY <1>5, <3>1, <3>2 DEF SaveSilent, Rows
  <2>5. \A k \in Key : StandsForAlert(new.rows[k], heard'[k])
    BY <1>0, <2>1, <2>3 DEF RowsHeard, StandsForAlert
  <2>6. helper' \in [Helper -> Local] /\ RowsHeard' /\ SentIsHeard' /\ OneAtAck'
    BY <2>1, <2>2, <2>3, <2>5, LocalStep
  <2>7. TypeOK'
    BY <1>0, <2>1, <2>3, <2>4, <2>6 DEF TypeOK, valid
  <2>8. RowsAreHeard'
    BY <1>0, <2>3 DEF RowsAreHeard, RowsHeard, StandsForAlert, valid
  <2> QED
    BY <2>6, <2>7, <2>8 DEF Inv
<1>6. ASSUME NEW h \in Helper, NEW k \in Key, Send(h, k) PROVE Inv'
  <2> DEFINE new == [helper[h] EXCEPT !.phase = "ack", !.pending = @ \ {k},
                                      !.current = {k}, !.told = @ \cup {k}]
             alert == [at |-> helper[h].at, level |-> helper[h].reads[k].level]
  <2>1. /\ new \in Local /\ new.rows = helper[h].rows /\ new.current = {k}
        /\ new.phase = "ack" /\ new.at = helper[h].at /\ new.reads = helper[h].reads
    BY <1>0 DEF Local
  <2>2. helper' = [helper EXCEPT ![h] = new]
    BY <1>6 DEF Send
  <2>3. /\ UNCHANGED <<now, file, steady, overlapped, begun>>
        /\ heard' = [heard EXCEPT ![k] = @ \cup {alert}]
    BY <1>6 DEF Send
  <2>4. alert \in [at : Time, level : Level]
    BY <1>0 DEF Local, Reading
  <2> HIDE DEF new
  <2>5. /\ heard' \in [Key -> SUBSET [at : Time, level : Level]]
        /\ \A l \in Key : heard[l] \subseteq heard'[l]
        /\ alert \in heard'[k]
    BY <1>0, <2>3, <2>4
  <2>6. \A l \in Key : StandsForAlert(new.rows[l], heard'[l])
    BY <1>0, <2>1, <2>5 DEF RowsHeard, StandsForAlert
  <2>7. \A l \in new.current :
           \E a \in heard'[l] : a.at = new.at /\ a.level = new.reads[l].level
    BY <2>1, <2>5
  <2>8. helper' \in [Helper -> Local] /\ RowsHeard' /\ SentIsHeard' /\ OneAtAck'
    BY <2>1, <2>2, <2>5, <2>6, <2>7, LocalStep
  <2>9. TypeOK'
    BY <1>0, <2>3, <2>5, <2>8 DEF TypeOK
  <2>10. RowsAreHeard'
    BY <1>0, <2>3, <2>5 DEF RowsAreHeard
  <2> QED
    BY <2>8, <2>9, <2>10 DEF Inv
<1>7. ASSUME NEW h \in Helper, NEW k \in Key, Acknowledge(h, k) PROVE Inv'
  <2> DEFINE row == spoken(h, k)
             rows == [helper[h].rows EXCEPT ![k] = row]
             new == [helper[h] EXCEPT !.phase = "send", !.current = {}, !.rows = rows]
  <2>1. row \in Row /\ helper[h].rows \in Rows
    BY <1>0 DEF Local, Reading, spoken, Row
  <2>2. rows \in Rows /\ rows[k] = row /\ \A l \in Key \ {k} : rows[l] = helper[h].rows[l]
    BY <2>1 DEF Rows
  <2>3. StandsForAlert(row, heard[k])
    <3>1. PICK alert \in heard[k] : /\ alert.at = helper[h].at
                                    /\ alert.level = helper[h].reads[k].level
      BY <1>0, <1>7 DEF SentIsHeard, Acknowledge
    <3>2. alert.at = row.notified /\ alert.level = row.level /\ row.level \in 0..2
      BY <2>1, <3>1 DEF spoken, Row, Level
    <3>3. alert.level >= row.level
      BY <3>2
    <3> QED
      BY <3>2, <3>3 DEF StandsForAlert
  <2>4. \A l \in Key : StandsForAlert(rows[l], heard[l])
    BY <1>0, <2>2, <2>3 DEF RowsHeard
  <2> HIDE DEF rows
  <2>5. /\ helper' = [helper EXCEPT ![h] = new]
        /\ file' = valid(rows)
        /\ steady' = [steady EXCEPT ![k] = row]
        /\ UNCHANGED <<now, heard, overlapped, begun>>
    BY <1>7 DEF Acknowledge, rows
  <2>6. new \in Local /\ new.rows = rows /\ new.current = {}
    <3>1. helper[h] \in Local /\ {} \in SUBSET Key
      BY <1>0
    <3> QED  BY <2>2, <3>1, AckIsLocal
  <2> HIDE DEF new, row
  <2>7. \A l \in Key : StandsForAlert(new.rows[l], heard'[l])
    BY <2>4, <2>5, <2>6 DEF StandsForAlert
  <2>8. helper' \in [Helper -> Local] /\ RowsHeard' /\ SentIsHeard' /\ OneAtAck'
    BY <2>5, <2>6, <2>7, LocalStep
  <2>9. TypeOK'
    <3>1. steady' \in Rows
      BY <1>0, <2>1, <2>5 DEF Rows
    <3> QED
      BY <1>0, <2>2, <2>5, <2>8, <3>1 DEF TypeOK, valid
  <2>10. RowsAreHeard'
    BY <2>4, <2>5 DEF RowsAreHeard, StandsForAlert, valid
  <2> QED
    BY <2>8, <2>9, <2>10 DEF Inv
<1>8. ASSUME NEW h \in Helper, NEW k \in Key, NEW wasShown \in BOOLEAN,
             SendFails(h, k, wasShown)
      PROVE  Inv'
  <2> DEFINE alert == [at |-> helper[h].at, level |-> helper[h].reads[k].level]
  <2>1. alert \in [at : Time, level : Level]
    BY <1>0 DEF Local, Reading
  <2>2. heard' = heard \/ heard' = [heard EXCEPT ![k] = @ \cup {alert}]
    BY <1>8 DEF SendFails
  <2>3. /\ heard' \in [Key -> SUBSET [at : Time, level : Level]]
        /\ \A l \in Key : heard[l] \subseteq heard'[l]
    BY <1>0, <2>1, <2>2
  <2>4. ends(h) /\ UNCHANGED <<now, file, steady, overlapped, begun>>
    BY <1>8 DEF SendFails
  <2> QED
    BY <2>3, <2>4, EndsKeepsInv
<1>9. ASSUME NEW h \in Helper, Finish(h) \/ Stops(h) PROVE Inv'
  BY <1>0, <1>9, EndsKeepsInv DEF Finish, Stops
<1>10. ASSUME Purge PROVE Inv'
  <2>1. TypeOK'
    BY <1>0, <1>10, EmptyType DEF Purge, TypeOK, absent
  <2>2. RowsAreHeard'
    BY <1>10, EmptyType DEF Purge, RowsAreHeard, absent
  <2>3. RowsHeard' /\ SentIsHeard' /\ OneAtAck'
    BY <1>0, <1>10 DEF Purge, RowsHeard, SentIsHeard, OneAtAck, StandsForAlert
  <2> QED
    BY <2>1, <2>2, <2>3 DEF Inv
<1>11. ASSUME Tick PROVE Inv'
  <2>1. now' \in Time
    BY <1>0, <1>11, NotificationBoundsAssumption DEF Tick, Time
  <2>2. UNCHANGED <<file, helper, heard, steady, overlapped, begun>>
    BY <1>11 DEF Tick
  <2> QED
    BY <1>0, <2>1, <2>2 DEF Inv, TypeOK, RowsAreHeard, RowsHeard, SentIsHeard,
                            OneAtAck, StandsForAlert
<1>12. CASE UNCHANGED vars
  BY <1>0, <1>12 DEF vars, Inv, TypeOK, RowsAreHeard, RowsHeard, SentIsHeard,
                     OneAtAck, StandsForAlert
<1> QED
  BY <1>1, <1>3, <1>4, <1>5, <1>6, <1>7, <1>8, <1>9, <1>10, <1>11, <1>12
     DEF Next, EvaluationStep

-----------------------------------------------------------------------------
(* Every state has the invariant. *)
LEMMA Invariance == Spec => []Inv
<1>1. Inv /\ [Next]_vars => Inv'
  BY InvStep
<1> QED
  BY <1>1, InvInit, PTL DEF Spec

(* The state file and what each evaluation knows keep their types. *)
THEOREM NotificationTypeCorrect == Spec => []TypeOK
<1>1. Inv => TypeOK
  BY DEF Inv
<1> QED
  BY <1>1, Invariance, PTL

(* No window is silenced by an alert nobody was shown, for any windows and  *)
(* readings, any number of overlapping evaluations and any failures.       *)
THEOREM NothingIsSilencedUnheard == Spec => []RowsAreHeard
<1>1. Inv => RowsAreHeard
  BY DEF Inv
<1> QED
  BY <1>1, Invariance, PTL

-----------------------------------------------------------------------------
(* While evaluations do not overlap, the one that runs knows the file: what *)
(* it has in hand is what it saved last, every alert it has sent is         *)
(* recorded but the one it is about to acknowledge, and every window that   *)
(* is not waiting for its alert is tracked at the level it has.             *)

Sending == {"send", "ack"}

Alone == \A g, h \in Helper :
            helper[g].phase # "idle" /\ helper[h].phase # "idle" => g = h

Tracks(local, rows) ==
    /\ local.phase \in Sending => rows = local.rows
    /\ local.phase \notin Sending => local.told = {}
    /\ \A k \in local.told \ local.current : local.rows[k].notified = local.at
    /\ \A j, k \in local.current : j = k
    /\ local.phase \in Sending \cup {"save"} =>
          \A k \in Key \ (local.pending \cup local.current) :
              local.reads[k].kind # "unread" =>
                  local.rows[k].level = local.reads[k].level

Tracked == ~overlapped => Alone /\ \A h \in Helper : Tracks(helper[h], file.rows)

(* A window whose alert is not due is tracked at its level. *)
LEMMA SilentlyFollows ==
    ASSUME NEW row \in Row, NEW read \in Reading, NEW at \in Time,
           read.kind # "unread", read.kind = "gone" => read.level = 0,
           ~should_emit(pruned(row, read, at), read, at)
    PROVE  silently(pruned(row, read, at), read, at).level = read.level
<1> DEFINE base == pruned(row, read, at)
<1>1. noRow \in Row /\ noRow.level = 0
  BY NotificationBoundsAssumption DEF noRow, Row, Level, Time, noReset
<1>2. base \in Row /\ base.level \in 0..2 /\ read.level \in 0..2
  BY <1>1 DEF pruned, Row, Reading, Level
<1>3. CASE read.kind = "gone"
  BY <1>1, <1>3 DEF pruned, silently
<1>4. CASE read.kind # "gone" /\ read.level = 0
  BY <1>1, <1>4 DEF silently
<1>5. CASE read.kind # "gone" /\ read.level # 0
  <2> HIDE DEF base
  <2>1. ~should_emit(base, read, at)
    BY DEF base
  <2>2. read.level <= base.level
    BY <1>2, <1>5, <2>1 DEF should_emit
  <2>3. CASE read.level < base.level
    <3>1. silently(base, read, at) = [base EXCEPT !.level = read.level,
                                                  !.reset = read.reset]
      BY <1>5, <2>1, <2>3 DEF silently
    <3>2. silently(base, read, at).level = read.level
      BY <1>2, <3>1 DEF Row
    <3> QED
      BY <3>2 DEF base
  <2>4. CASE read.level = base.level
    <3>1. silently(base, read, at) = base
      BY <1>2, <1>5, <2>4 DEF silently
    <3> QED
      BY <2>4, <3>1 DEF base
  <2> QED
    BY <1>2, <2>2, <2>3, <2>4
<1> QED
  BY <1>3, <1>4, <1>5

(* The helper that runs moves; the others are idle and know nothing. *)
LEMMA TrackedLocal ==
    ASSUME Inv, Tracked, NEW h \in Helper, helper[h].phase # "idle", NEW new \in Local,
           helper' = [helper EXCEPT ![h] = new], UNCHANGED overlapped,
           ~overlapped /\ Tracks(helper[h], file.rows) => Tracks(new, file'.rows)
    PROVE  Tracked'
<1> SUFFICES ASSUME ~overlapped
             PROVE  Alone' /\ \A g \in Helper : Tracks(helper'[g], file'.rows)
  BY DEF Tracked
<1>1. /\ helper'[h] = new /\ \A g \in Helper \ {h} : helper'[g] = helper[g]
      /\ Alone /\ \A g \in Helper : Tracks(helper[g], file.rows)
  BY DEF Inv, TypeOK, Tracked
<1>2. Alone'
  BY <1>1 DEF Alone
<1>3. ASSUME NEW g \in Helper PROVE Tracks(helper'[g], file'.rows)
  <2>1. CASE g = h
    BY <1>1, <2>1
  <2>2. CASE g # h
    <3>1. helper'[g] = helper[g] /\ helper[g].phase = "idle"
      BY <1>1, <2>2 DEF Alone
    <3> QED
      BY <1>1, <3>1 DEF Tracks, Sending
  <2> QED
    BY <2>1, <2>2
<1> QED
  BY <1>2, <1>3

LEMMA NewbornTracks == \A rows : Tracks(newborn, rows)
BY DEF Tracks, newborn, Sending

(* What an evaluation has decided tracks every window it does not speak of. *)
LEMMA EvaluatesTracks ==
    ASSUME Inv, NEW h \in Helper, NEW rows \in Rows, NEW reads \in Envelope,
           evaluates(h, rows, reads), helper[h].told = {}, helper[h].current = {}
    PROVE  \E new \in Local :
              /\ helper' = [helper EXCEPT ![h] = new]
              /\ \A saved : Tracks(new, saved)
<1> DEFINE at   == helper[h].at
           base == [k \in Key |-> pruned(rows[k], reads[k], at)]
           after == [k \in Key |-> silently(base[k], reads[k], at)]
           due  == {k \in Key : should_emit(base[k], reads[k], at)}
           new  == [helper[h] EXCEPT !.phase = "save", !.reads = reads,
                                     !.rows = after, !.pending = due]
<1>1. helper[h] \in Local /\ at \in Time /\ helper \in [Helper -> Local]
  BY DEF Inv, TypeOK, Local
<1>2. reads \in [Key -> Reading] /\ \A k \in Key : reads[k].kind = "gone" => reads[k].level = 0
  <2>1. \A k \in Key : reads[k] \in Possible(k)
    BY DEF Envelope
  <2> QED
    BY <2>1, EnvelopeType DEF Possible, silent, shown
<1>3. \A k \in Key : rows[k] \in Row /\ reads[k] \in Reading
  BY <1>2 DEF Rows
<1>4. \A k \in Key : after[k] = silently(pruned(rows[k], reads[k], at), reads[k], at)
  OBVIOUS
<1>5. \A k \in Key \ due : ~should_emit(pruned(rows[k], reads[k], at), reads[k], at)
  OBVIOUS
<1>6. helper' = [helper EXCEPT ![h] = new]
  BY <1>1 DEF evaluates
<1> HIDE DEF after, due
<1>7. after \in Rows
  <2>1. \A k \in Key : after[k] \in Row
    BY <1>1, <1>3, <1>4, RowTransition
  <2> QED
    BY <2>1 DEF Rows, after
<1>8. due \subseteq Key
  BY DEF due
<1>9. /\ new \in Local /\ new.phase = "save" /\ new.told = {} /\ new.current = {}
      /\ new.pending = due /\ new.rows = after /\ new.reads = reads
  BY <1>1, <1>2, <1>7, <1>8 DEF Local
<1>10. \A k \in Key \ due : reads[k].kind # "unread" => after[k].level = reads[k].level
  BY <1>1, <1>2, <1>3, <1>4, <1>5, SilentlyFollows
<1> HIDE DEF new
<1>11. \A saved : Tracks(new, saved)
  BY <1>9, <1>10 DEF Tracks, Sending
<1> QED
  BY <1>6, <1>9, <1>11

LEMMA TrackedInit == Init => Tracked
<1>1. newborn.phase = "idle"
  BY DEF newborn
<1>2. Init => \A h \in Helper : helper[h] = newborn
  BY DEF Init
<1> QED
  BY <1>1, <1>2, NewbornTracks DEF Tracked, Alone

(* Each step of an evaluation that runs alone keeps track. *)
LEMMA TrackedEvaluation ==
    ASSUME Inv, Tracked, NEW h \in Helper, EvaluationStep(h)
    PROVE  Tracked'
<1>0. /\ helper \in [Helper -> Local] /\ helper[h] \in Local /\ OneAtAck
      /\ file.rows \in Rows /\ UNCHANGED overlapped /\ helper[h].phase # "idle"
  BY DEF Inv, TypeOK, EvaluationStep, Load, Quarantine, SaveSilent, Send, Acknowledge,
         SendFails, Finish
<1> SUFFICES ASSUME ~overlapped PROVE Tracked'
  BY <1>0 DEF Tracked
<1>1. Tracks(helper[h], file.rows)
  BY DEF Tracked
<1>2. ASSUME NEW rows \in Rows, NEW reads \in Envelope, evaluates(h, rows, reads),
             helper[h].phase \notin Sending
      PROVE  Tracked'
  <2>1. helper[h].told = {} /\ helper[h].current = {}
    BY <1>0, <1>1, <1>2 DEF Tracks, OneAtAck, Sending
  <2>2. PICK new \in Local : /\ helper' = [helper EXCEPT ![h] = new]
                             /\ \A saved : Tracks(new, saved)
    BY <1>2, <2>1, EvaluatesTracks
  <2> QED
    BY <1>0, <2>2, TrackedLocal
<1>3. ASSUME NEW reads \in Envelope, Load(h, reads) PROVE Tracked'
  <2>1. CASE file.state = "corrupt"
    <3> DEFINE new == [helper[h] EXCEPT !.phase = "quarantine"]
    <3>1. /\ new \in Local /\ new.phase = "quarantine" /\ new.told = helper[h].told
          /\ new.current = helper[h].current /\ new.rows = helper[h].rows
          /\ helper[h].phase = "load"
      BY <1>0, <1>3 DEF Local, Load
    <3>2. helper' = [helper EXCEPT ![h] = new]
      BY <1>3, <2>1 DEF Load
    <3> HIDE DEF new
    <3>3. Tracks(new, file'.rows)
      BY <1>0, <1>1, <3>1 DEF Tracks, Sending, OneAtAck
    <3> QED
      BY <1>0, <3>1, <3>2, <3>3, TrackedLocal
  <2>2. CASE file.state # "corrupt"
    <3>1. evaluates(h, file.rows, reads) /\ helper[h].phase \notin Sending
      BY <1>3, <2>2 DEF Load, Sending
    <3> QED
      BY <1>0, <1>2, <3>1
  <2> QED
    BY <2>1, <2>2
<1>4. ASSUME NEW reads \in Envelope, Quarantine(h, reads) PROVE Tracked'
  <2>1. evaluates(h, empty, reads) /\ helper[h].phase \notin Sending
    BY <1>4 DEF Quarantine, Sending
  <2> QED
    BY <1>2, <2>1, EmptyType
<1>5. ASSUME SaveSilent(h) PROVE Tracked'
  <2> DEFINE new == [helper[h] EXCEPT !.phase = "send"]
  <2>1. /\ new \in Local /\ new.phase = "send" /\ new.told = helper[h].told
        /\ new.current = helper[h].current /\ new.rows = helper[h].rows
        /\ new.reads = helper[h].reads /\ new.pending = helper[h].pending
        /\ new.at = helper[h].at /\ helper[h].phase = "save"
    BY <1>0, <1>5 DEF Local, SaveSilent
  <2>2. helper' = [helper EXCEPT ![h] = new] /\ file'.rows = helper[h].rows
    BY <1>5 DEF SaveSilent, valid
  <2> HIDE DEF new
  <2>3. Tracks(new, file'.rows)
    BY <1>0, <1>1, <2>1, <2>2 DEF Tracks, Sending, OneAtAck
  <2> QED
    BY <1>0, <2>1, <2>2, <2>3, TrackedLocal
<1>6. ASSUME NEW k \in Key, Send(h, k) PROVE Tracked'
  <2> DEFINE new == [helper[h] EXCEPT !.phase = "ack", !.pending = @ \ {k},
                                      !.current = {k}, !.told = @ \cup {k}]
  <2>1. /\ new \in Local /\ new.phase = "ack" /\ new.told = helper[h].told \cup {k}
        /\ new.current = {k} /\ new.rows = helper[h].rows
        /\ new.reads = helper[h].reads /\ new.pending = helper[h].pending \ {k}
        /\ new.at = helper[h].at /\ helper[h].phase = "send" /\ helper[h].current = {}
    BY <1>0, <1>6 DEF Local, Send, OneAtAck
  <2>2. helper' = [helper EXCEPT ![h] = new] /\ file'.rows = file.rows
    BY <1>6 DEF Send
  <2> HIDE DEF new
  <2>3. Tracks(new, file'.rows)
    BY <1>0, <1>1, <2>1, <2>2 DEF Tracks, Sending
  <2> QED
    BY <1>0, <2>1, <2>2, <2>3, TrackedLocal
<1>7. ASSUME NEW k \in Key, Acknowledge(h, k) PROVE Tracked'
  <2> DEFINE row == spoken(h, k)
             rows == [helper[h].rows EXCEPT ![k] = row]
             new == [helper[h] EXCEPT !.phase = "send", !.current = {}, !.rows = rows]
  <2>1. /\ row \in Row /\ row.level = helper[h].reads[k].level
        /\ row.notified = helper[h].at /\ helper[h].rows \in Rows
    BY <1>0 DEF Local, Reading, spoken, Row
  <2> HIDE DEF row
  <2>2. rows \in Rows /\ rows[k] = row /\ \A l \in Key \ {k} : rows[l] = helper[h].rows[l]
    BY <2>1 DEF Rows
  <2> HIDE DEF rows
  <2>3. /\ new \in Local /\ new.phase = "send" /\ new.told = helper[h].told
        /\ new.current = {} /\ new.rows = rows
        /\ new.reads = helper[h].reads /\ new.pending = helper[h].pending
        /\ new.at = helper[h].at
    BY <1>0, <2>2 DEF Local
  <2>4. helper[h].phase = "ack" /\ helper[h].current = {k}
    BY <1>1, <1>7 DEF Acknowledge, Tracks
  <2>5. helper' = [helper EXCEPT ![h] = new] /\ file'.rows = rows
    BY <1>7 DEF Acknowledge, valid, rows, row
  <2> HIDE DEF new
  <2>6. \A l \in new.told \ new.current : new.rows[l].notified = new.at
    <3>1. helper[h].told \subseteq Key
      BY <1>0 DEF Local
    <3> QED
      BY <1>1, <2>1, <2>2, <2>3, <2>4, <3>1 DEF Tracks
  <2>7. \A l \in Key \ (new.pending \cup new.current) :
           new.reads[l].kind # "unread" => new.rows[l].level = new.reads[l].level
    BY <1>1, <2>1, <2>2, <2>3, <2>4 DEF Tracks, Sending
  <2>8. Tracks(new, file'.rows)
    BY <2>3, <2>5, <2>6, <2>7 DEF Tracks, Sending
  <2> QED
    BY <1>0, <2>3, <2>5, <2>8, TrackedLocal
<1>8. ASSUME ends(h) PROVE Tracked'
  BY <1>0, <1>8, EmptyType, NewbornTracks, TrackedLocal DEF ends
<1> QED
  BY <1>3, <1>4, <1>5, <1>6, <1>7, <1>8 DEF EvaluationStep, SendFails, Finish

LEMMA TrackedStep == Inv /\ Tracked /\ [Next]_vars => Tracked'
<1> SUFFICES ASSUME Inv, Tracked, [Next]_vars PROVE Tracked'
  OBVIOUS
<1>0. helper \in [Helper -> Local]
  BY DEF Inv, TypeOK
<1>1. ASSUME NEW h \in Helper, Start(h) PROVE Tracked'
  <2> DEFINE started == [newborn EXCEPT !.phase = "load", !.at = now]
  <2> SUFFICES ASSUME ~overlapped' PROVE Alone' /\ \A g \in Helper : Tracks(helper'[g], file'.rows)
    BY DEF Tracked
  <2>1. ~overlapped /\ \A g \in Helper \ {h} : helper[g].phase = "idle"
    BY <1>1 DEF Start
  <2>2. /\ helper'[h] = started /\ \A g \in Helper \ {h} : helper'[g] = helper[g]
        /\ file' = file
    BY <1>0, <1>1 DEF Start
  <2>3. started.phase = "load" /\ started.told = {} /\ started.current = {}
    BY DEF newborn
  <2> HIDE DEF started
  <2>4. Alone'
    BY <2>1, <2>2 DEF Alone
  <2>5. Tracks(started, file'.rows)
    BY <2>3 DEF Tracks, Sending
  <2>6. \A g \in Helper \ {h} : Tracks(helper'[g], file'.rows)
    BY <2>1, <2>2 DEF Tracked
  <2> QED
    BY <2>2, <2>4, <2>5, <2>6
<1>2. ASSUME NEW h \in Helper, Stops(h) PROVE Tracked'
  BY <1>2, EmptyType, NewbornTracks, TrackedLocal DEF Stops, ends
<1>3. ASSUME Purge PROVE Tracked'
  BY <1>3 DEF Purge, Tracked, Alone, Tracks, Sending
<1>4. ASSUME UNCHANGED <<file, helper, overlapped>> PROVE Tracked'
  BY <1>4 DEF Tracked, Alone
<1> QED
  BY <1>1, <1>2, <1>3, <1>4, TrackedEvaluation DEF Next, Tick, vars

LEMMA TrackedInvariance == Spec => []Tracked
BY Invariance, TrackedInit, TrackedStep, PTL DEF Spec

(* A kill between an alert and its row repeats at most that one alert: of   *)
(* those an evaluation that runs alone has sent, all but the last are in    *)
(* the file, for any number of windows (NOTIFY-012).                       *)
THEOREM OneUnrecorded == Spec => []OnlyOneUnrecorded
<1>1. Inv /\ Tracked => OnlyOneUnrecorded
  <2> SUFFICES ASSUME Inv, Tracked, ~overlapped, NEW h \in Helper
               PROVE  Cardinality({k \in helper[h].told :
                                      file.rows[k].notified # helper[h].at}) <= 1
    BY DEF OnlyOneUnrecorded
  <2> DEFINE unrecorded == {k \in helper[h].told : file.rows[k].notified # helper[h].at}
  <2>1. Tracks(helper[h], file.rows) /\ helper[h] \in Local
    BY DEF Tracked, Inv, TypeOK
  <2>2. \A j, k \in unrecorded : j = k
    BY <2>1 DEF Tracks, Local
  <2> HIDE DEF unrecorded
  <2>3. CASE unrecorded = {}
    BY <2>3, FS_EmptySet DEF unrecorded
  <2>4. CASE unrecorded # {}
    <3>1. PICK k : unrecorded = {k}
      BY <2>2, <2>4
    <3>2. Cardinality({k}) = 1
      BY FS_Singleton
    <3> QED
      BY <3>1, <3>2 DEF unrecorded
  <2> QED
    BY <2>3, <2>4
<1> QED
  BY <1>1, Invariance, TrackedInvariance, PTL

(* An evaluation that has sent what was due leaves every window it read     *)
(* tracked at the level the window has, for any readings and any rows it    *)
(* started from (NOTIFY-002, NOTIFY-005).                                  *)
THEOREM WindowsAreFollowed == Spec => FollowsTheWindow
<1>1. ASSUME Inv, Tracked, NEW h \in Helper, helper[h].phase = "send",
             helper[h].pending = {}, ~overlapped, NEW k \in Key,
             helper[h].reads[k].kind # "unread"
      PROVE  file.rows[k].level = helper[h].reads[k].level
  <2>1. Tracks(helper[h], file.rows) /\ helper[h].current = {}
    BY <1>1 DEF Tracked, Inv, OneAtAck
  <2> QED
    BY <1>1, <2>1 DEF Tracks, Sending
<1>2. Inv /\ Tracked => \A h \in Helper :
         helper[h].phase = "send" /\ helper[h].pending = {} /\ ~overlapped =>
            \A k \in Key : helper[h].reads[k].kind # "unread" =>
                file.rows[k].level = helper[h].reads[k].level
  BY <1>1
<1>3. Inv /\ Tracked /\ [Next]_vars => [\A h \in Helper :
         helper[h].phase = "send" /\ helper[h].pending = {} /\ ~overlapped =>
            \A k \in Key : helper[h].reads[k].kind # "unread" =>
                file.rows[k].level = helper[h].reads[k].level]_vars
  BY <1>2
<1> QED
  BY <1>3, Invariance, TrackedInvariance, PTL DEF Spec, FollowsTheWindow

-----------------------------------------------------------------------------
(* The reminder.  A window that stays as it was alerted about keeps the row *)
(* of that alert, until its reset passes; so what an evaluation that runs   *)
(* alone has decided to send is due by that alert.                         *)

Kept(was, row, t) == was.level > 0 => row = was \/ was.reset \in 1..t

MaySpeak(was, t) ==
    was.level > 0 => t >= was.notified + Reminder \/ was.reset \in 1..t

(* remainsSteady, of a row. *)
Remains(was, read) ==
    \/ read.kind = "unread"
    \/ /\ read.kind \in {"live", "replayed"}
       /\ read.level = was.level
       /\ same_window(was.reset, read.reset)

SpacedBy(local, was, rows, time) ==
    local.phase # "idle" =>
        /\ local.at <= time
        /\ \A k \in Key :
            /\ Kept(was[k], rows[k], local.at)
            /\ local.phase = "save" /\ Remains(was[k], local.reads[k]) =>
                  /\ Kept(was[k], local.rows[k], local.at)
                  /\ k \in local.pending => MaySpeak(was[k], local.at)
            /\ local.phase \in Sending /\ k \in local.pending =>
                  MaySpeak(was[k], local.at)
        /\ local.pending \cap local.current = {}

KeptNow(was, rows, time) == \A k \in Key : Kept(was[k], rows[k], time)

Spaced ==
    ~overlapped =>
        /\ KeptNow(steady, file.rows, now)
        /\ \A h \in Helper : SpacedBy(helper[h], steady, file.rows, now)

(* One row: what stays steady keeps its row, and is due only by it. *)
LEMMA SteadyRow ==
    ASSUME NEW was \in Row, NEW row \in Row, NEW read \in Reading, NEW at \in Time,
           read.kind = "unread" => read.level = 0,
           Kept(was, row, at), Remains(was, read)
    PROVE  /\ Kept(was, silently(pruned(row, read, at), read, at), at)
           /\ should_emit(pruned(row, read, at), read, at) => MaySpeak(was, at)
<1> SUFFICES ASSUME was.level > 0, was.reset \notin 1..at
             PROVE  /\ silently(pruned(row, read, at), read, at) = was
                    /\ should_emit(pruned(row, read, at), read, at) =>
                          at >= was.notified + Reminder
  BY DEF Kept, MaySpeak
<1>1. row = was
  BY DEF Kept
<1>2. /\ was.level \in 0..2 /\ read.level \in 0..2 /\ was.reset \in Nat
      /\ at \in Nat /\ was.notified \in Nat
  BY NotificationBoundsAssumption DEF Row, Reading, Level, Time
<1>3. ~(was.reset # noReset /\ was.reset <= at)
  BY <1>2 DEF noReset
<1>4. pruned(row, read, at) = was
  BY <1>1, <1>3 DEF pruned, Remains
<1>5. CASE read.kind = "unread"
  BY <1>4, <1>5, <1>2 DEF silently, should_emit
<1>6. CASE /\ read.kind \in {"live", "replayed"} /\ read.level = was.level
           /\ same_window(was.reset, read.reset)
  <2>1. silently(was, read, at) = was
    BY <1>2, <1>6 DEF silently
  <2>2. should_emit(was, read, at) => at >= was.notified + Reminder
    BY <1>2, <1>6 DEF should_emit
  <2> QED
    BY <1>4, <2>1, <2>2
<1> QED
  BY <1>5, <1>6 DEF Remains

(* What an evaluation decides from the rows that were kept. *)
LEMMA EvaluatesSpaced ==
    ASSUME Inv, NEW h \in Helper, NEW rows \in Rows, NEW reads \in Envelope,
           NEW was \in Rows, NEW saved, NEW time, helper[h].at <= time,
           \A k \in Key : Kept(was[k], rows[k], helper[h].at),
           \A k \in Key : Kept(was[k], saved[k], helper[h].at),
           evaluates(h, rows, reads), helper[h].current = {}
    PROVE  \E new \in Local :
              /\ helper' = [helper EXCEPT ![h] = new]
              /\ SpacedBy(new, was, saved, time)
<1> DEFINE at   == helper[h].at
           base == [k \in Key |-> pruned(rows[k], reads[k], at)]
           after == [k \in Key |-> silently(base[k], reads[k], at)]
           due  == {k \in Key : should_emit(base[k], reads[k], at)}
           new  == [helper[h] EXCEPT !.phase = "save", !.reads = reads,
                                     !.rows = after, !.pending = due]
<1>1. helper[h] \in Local /\ at \in Time /\ helper \in [Helper -> Local]
  BY DEF Inv, TypeOK, Local
<1>2. reads \in [Key -> Reading] /\ \A k \in Key : reads[k].kind = "unread" => reads[k].level = 0
  <2>1. \A k \in Key : reads[k] \in Possible(k)
    BY DEF Envelope
  <2> QED
    BY <2>1, EnvelopeType DEF Possible, silent, shown
<1>3. \A k \in Key : rows[k] \in Row /\ reads[k] \in Reading /\ was[k] \in Row
  BY <1>2 DEF Rows
<1>4. \A k \in Key : after[k] = silently(pruned(rows[k], reads[k], at), reads[k], at)
  OBVIOUS
<1>5. \A k \in due : k \in Key /\ should_emit(pruned(rows[k], reads[k], at), reads[k], at)
  OBVIOUS
<1>6. helper' = [helper EXCEPT ![h] = new]
  BY <1>1 DEF evaluates
<1> HIDE DEF after, due
<1>7. after \in Rows
  <2>1. \A k \in Key : after[k] \in Row
    BY <1>1, <1>3, <1>4, RowTransition
  <2> QED
    BY <2>1 DEF Rows, after
<1>8. due \subseteq Key
  BY DEF due
<1>9. /\ new \in Local /\ new.phase = "save" /\ new.at = at /\ new.current = {}
      /\ new.pending = due /\ new.rows = after /\ new.reads = reads
  BY <1>1, <1>2, <1>7, <1>8 DEF Local
<1>10. ASSUME NEW k \in Key, Remains(was[k], reads[k])
       PROVE  Kept(was[k], after[k], at) /\ (k \in due => MaySpeak(was[k], at))
  BY <1>1, <1>2, <1>3, <1>4, <1>5, <1>10, SteadyRow
<1> HIDE DEF new
<1>11. SpacedBy(new, was, saved, time)
  BY <1>9, <1>10 DEF SpacedBy, Sending
<1> QED
  BY <1>6, <1>9, <1>11

(* The helper that runs moves; the others are idle. *)
LEMMA SpacedLocal ==
    ASSUME Inv, Tracked, NEW h \in Helper, helper[h].phase # "idle", NEW new \in Local,
           helper' = [helper EXCEPT ![h] = new], UNCHANGED overlapped,
           ~overlapped => /\ KeptNow(steady', file'.rows, now')
                          /\ SpacedBy(new, steady', file'.rows, now')
    PROVE  Spaced'
<1> SUFFICES ASSUME ~overlapped
             PROVE  \A g \in Helper : SpacedBy(helper'[g], steady', file'.rows, now')
  BY DEF Spaced
<1>1. /\ helper'[h] = new /\ \A g \in Helper \ {h} : helper'[g] = helper[g] /\ Alone
  BY DEF Inv, TypeOK, Tracked
<1>2. \A g \in Helper \ {h} : helper'[g].phase = "idle"
  BY <1>1 DEF Alone, Inv, TypeOK, Tracked
<1> QED
  BY <1>1, <1>2 DEF SpacedBy

LEMMA KeptLater ==
    ASSUME NEW was \in Row, NEW row, NEW t \in Time, NEW u \in Time, t <= u,
           Kept(was, row, t)
    PROVE  Kept(was, row, u)
BY DEF Kept, Time, Row

LEMMA EmptyIsKept == \A row, t : \A k \in Key : Kept(empty[k], row, t)
BY EmptyType DEF Kept

LEMMA SpacedInit == Init => Spaced
<1>1. newborn.phase = "idle"
  BY DEF newborn
<1> QED
  BY <1>1, EmptyIsKept DEF Init, Spaced, KeptNow, SpacedBy

(* Each step of an evaluation that runs alone keeps its alerts spaced. *)
LEMMA SpacedEvaluation ==
    ASSUME Inv, Tracked, Spaced, NEW h \in Helper, EvaluationStep(h)
    PROVE  Spaced'
<1>0. /\ helper \in [Helper -> Local] /\ helper[h] \in Local /\ OneAtAck
      /\ file.rows \in Rows /\ UNCHANGED <<overlapped, now>> /\ helper[h].phase # "idle"
      /\ steady \in Rows /\ now \in Time /\ helper[h].at \in Time
  BY DEF Inv, TypeOK, EvaluationStep, Load, Quarantine, SaveSilent, Send, Acknowledge,
         SendFails, Finish, Local
<1> SUFFICES ASSUME ~overlapped PROVE Spaced'
  BY <1>0 DEF Spaced
<1>1. /\ Tracks(helper[h], file.rows)
      /\ SpacedBy(helper[h], steady, file.rows, now)
      /\ KeptNow(steady, file.rows, now)
  BY DEF Tracked, Spaced
<1>2. /\ helper[h].at <= now
      /\ \A k \in Key : Kept(steady[k], file.rows[k], helper[h].at)
  BY <1>0, <1>1 DEF SpacedBy
<1>3. ASSUME NEW reads \in Envelope, Load(h, reads) PROVE Spaced'
  <2>0. UNCHANGED <<file, steady>> /\ helper[h].phase = "load"
    BY <1>3 DEF Load
  <2>1. CASE file.state = "corrupt"
    <3> DEFINE new == [helper[h] EXCEPT !.phase = "quarantine"]
    <3>1. /\ new \in Local /\ new.phase = "quarantine" /\ new.at = helper[h].at
          /\ new.current = helper[h].current /\ new.pending = helper[h].pending
      BY <1>0 DEF Local
    <3>2. helper' = [helper EXCEPT ![h] = new]
      BY <1>3, <2>1 DEF Load
    <3> HIDE DEF new
    <3>3. SpacedBy(new, steady, file.rows, now)
      BY <1>0, <1>1, <3>1 DEF SpacedBy, Sending
    <3> QED
      BY <1>0, <1>1, <2>0, <3>1, <3>2, <3>3, SpacedLocal
  <2>2. CASE file.state # "corrupt"
    <3>1. evaluates(h, file.rows, reads) /\ helper[h].current = {}
      BY <1>0, <1>3, <2>0, <2>2 DEF Load, OneAtAck
    <3>2. PICK new \in Local : /\ helper' = [helper EXCEPT ![h] = new]
                               /\ SpacedBy(new, steady, file.rows, now)
      BY <1>0, <1>2, <3>1, EvaluatesSpaced
    <3> QED
      BY <1>0, <1>1, <2>0, <3>2, SpacedLocal
  <2> QED
    BY <2>1, <2>2
<1>4. ASSUME NEW reads \in Envelope, Quarantine(h, reads) PROVE Spaced'
  <2>1. /\ evaluates(h, empty, reads) /\ helper[h].current = {}
        /\ file'.rows = empty /\ steady' = empty
    BY <1>0, <1>4 DEF Quarantine, OneAtAck, absent
  <2>2. PICK new \in Local : /\ helper' = [helper EXCEPT ![h] = new]
                             /\ SpacedBy(new, empty, empty, now)
    BY <1>0, <1>2, <2>1, EvaluatesSpaced, EmptyIsKept, EmptyType
  <2>3. KeptNow(empty, empty, now)
    BY EmptyIsKept DEF KeptNow
  <2> QED
    BY <1>0, <2>1, <2>2, <2>3, SpacedLocal
<1>5. ASSUME SaveSilent(h) PROVE Spaced'
  <2> DEFINE new == [helper[h] EXCEPT !.phase = "send"]
  <2>1. /\ new \in Local /\ new.phase = "send" /\ new.at = helper[h].at
        /\ new.current = {} /\ new.rows = helper[h].rows
        /\ new.pending = helper[h].pending /\ helper[h].phase = "save"
        /\ helper[h].rows \in Rows
    BY <1>0, <1>5 DEF Local, SaveSilent, OneAtAck
  <2>2. /\ helper' = [helper EXCEPT ![h] = new] /\ file'.rows = helper[h].rows
        /\ \A k \in Key : steady'[k] = IF Remains(steady[k], helper[h].reads[k])
                                       THEN steady[k] ELSE noRow
    BY <1>5 DEF SaveSilent, valid, remainsSteady, Remains
  <2> HIDE DEF new
  <2>3. noRow \in Row /\ noRow.level = 0
    BY NotificationBoundsAssumption DEF noRow, Row, Level, Time, noReset
  <2>4. \A k \in Key :
           /\ Kept(steady'[k], helper[h].rows[k], new.at)
           /\ k \in new.pending => MaySpeak(steady'[k], new.at)
           /\ steady'[k] \in Row
    <3> SUFFICES ASSUME NEW k \in Key
                 PROVE  /\ Kept(steady'[k], helper[h].rows[k], new.at)
                        /\ k \in new.pending => MaySpeak(steady'[k], new.at)
                        /\ steady'[k] \in Row
      OBVIOUS
    <3>1. CASE Remains(steady[k], helper[h].reads[k])
      BY <1>0, <1>1, <2>1, <2>2, <3>1 DEF SpacedBy, Rows
    <3>2. CASE ~Remains(steady[k], helper[h].reads[k])
      <4>1. steady'[k] = noRow
        BY <2>2, <3>2
      <4> QED
        BY <2>3, <4>1 DEF Kept, MaySpeak
    <3> QED
      BY <3>1, <3>2
  <2>5. KeptNow(steady', file'.rows, now')
    BY <1>0, <1>2, <2>1, <2>2, <2>4, KeptLater DEF KeptNow
  <2>6. SpacedBy(new, steady', file'.rows, now')
    BY <1>0, <1>2, <2>1, <2>2, <2>4 DEF SpacedBy, Sending
  <2> QED
    BY <1>0, <2>1, <2>2, <2>5, <2>6, SpacedLocal
<1>6. ASSUME NEW k \in Key, Send(h, k) PROVE Spaced'
  <2> DEFINE new == [helper[h] EXCEPT !.phase = "ack", !.pending = @ \ {k},
                                      !.current = {k}, !.told = @ \cup {k}]
  <2>1. /\ new \in Local /\ new.phase = "ack" /\ new.at = helper[h].at
        /\ new.current = {k} /\ new.pending = helper[h].pending \ {k}
        /\ helper[h].phase = "send"
    BY <1>0, <1>6 DEF Local, Send
  <2>2. helper' = [helper EXCEPT ![h] = new] /\ UNCHANGED <<file, steady>>
    BY <1>6 DEF Send
  <2> HIDE DEF new
  <2>3. SpacedBy(new, steady, file.rows, now)
    BY <1>0, <1>1, <2>1 DEF SpacedBy, Sending
  <2> QED
    BY <1>0, <1>1, <2>1, <2>2, <2>3, SpacedLocal
<1>7. ASSUME NEW k \in Key, Acknowledge(h, k) PROVE Spaced'
  <2> DEFINE row == spoken(h, k)
             rows == [helper[h].rows EXCEPT ![k] = row]
             new == [helper[h] EXCEPT !.phase = "send", !.current = {}, !.rows = rows]
  <2>1. row \in Row /\ helper[h].rows \in Rows /\ helper[h].phase = "ack"
        /\ k \in helper[h].current
    BY <1>0, <1>7 DEF Local, Reading, spoken, Row, Acknowledge
  <2> HIDE DEF row
  <2>2. /\ rows \in Rows /\ rows[k] = row
        /\ \A l \in Key \ {k} : rows[l] = file.rows[l]
    BY <1>1, <2>1 DEF Rows, Tracks, Sending
  <2> HIDE DEF rows
  <2>3. /\ new \in Local /\ new.phase = "send" /\ new.at = helper[h].at
        /\ new.current = {} /\ new.pending = helper[h].pending
    BY <1>0, <2>2 DEF Local
  <2>4. /\ helper' = [helper EXCEPT ![h] = new] /\ file'.rows = rows
        /\ steady' = [steady EXCEPT ![k] = row]
    BY <1>7 DEF Acknowledge, valid, rows, row
  <2> HIDE DEF new
  <2>5. steady'[k] = row /\ \A l \in Key \ {k} : steady'[l] = steady[l]
    BY <1>0, <2>4 DEF Rows
  <2>6. k \notin new.pending
    BY <1>0, <1>1, <2>1, <2>3 DEF SpacedBy
  <2>7. KeptNow(steady', file'.rows, now')
    BY <1>0, <1>1, <2>2, <2>4, <2>5 DEF KeptNow, Kept
  <2>8. \A l \in Key : /\ Kept(steady'[l], file'.rows[l], new.at)
                       /\ l \in new.pending => MaySpeak(steady'[l], new.at)
    <3>1. Kept(row, row, new.at)
      BY DEF Kept
    <3> QED
      BY <1>0, <1>1, <1>2, <2>1, <2>2, <2>3, <2>4, <2>5, <2>6, <3>1 DEF SpacedBy, Sending
  <2>9. SpacedBy(new, steady', file'.rows, now')
    BY <1>0, <1>2, <2>3, <2>8 DEF SpacedBy
  <2> QED
    BY <1>0, <2>3, <2>4, <2>7, <2>9, SpacedLocal
<1>8. ASSUME ends(h), UNCHANGED <<file, steady>> PROVE Spaced'
  <2>1. SpacedBy(newborn, steady, file.rows, now)
    BY DEF SpacedBy, newborn
  <2> QED
    BY <1>0, <1>1, <1>8, <2>1, EmptyType, SpacedLocal DEF ends
<1> QED
  BY <1>3, <1>4, <1>5, <1>6, <1>7, <1>8 DEF EvaluationStep, SendFails, Finish

LEMMA SpacedStep == Inv /\ Tracked /\ Spaced /\ [Next]_vars => Spaced'
<1> SUFFICES ASSUME Inv, Tracked, Spaced, [Next]_vars PROVE Spaced'
  OBVIOUS
<1>0. /\ helper \in [Helper -> Local] /\ now \in Time /\ steady \in Rows
      /\ \A g \in Helper : helper[g].at \in Time
  BY DEF Inv, TypeOK, Local
<1>1. ASSUME NEW h \in Helper, Start(h) PROVE Spaced'
  <2> DEFINE started == [newborn EXCEPT !.phase = "load", !.at = now]
  <2> SUFFICES ASSUME ~overlapped'
               PROVE  /\ KeptNow(steady', file'.rows, now')
                      /\ \A g \in Helper : SpacedBy(helper'[g], steady', file'.rows, now')
    BY DEF Spaced
  <2>1. ~overlapped /\ \A g \in Helper \ {h} : helper[g].phase = "idle"
    BY <1>1 DEF Start
  <2>2. /\ helper'[h] = started /\ \A g \in Helper \ {h} : helper'[g] = helper[g]
        /\ UNCHANGED <<file, steady, now>>
    BY <1>0, <1>1 DEF Start
  <2>3. /\ started.phase = "load" /\ started.at = now
        /\ started.pending = {} /\ started.current = {}
    BY DEF newborn
  <2> HIDE DEF started
  <2>4. KeptNow(steady, file.rows, now)
    BY <2>1 DEF Spaced
  <2>5. SpacedBy(started, steady, file.rows, now)
    <3>1. now <= now
      BY <1>0 DEF Time
    <3> QED
      BY <2>3, <2>4, <3>1 DEF SpacedBy, KeptNow, Sending
  <2>6. \A g \in Helper \ {h} : SpacedBy(helper'[g], steady', file'.rows, now')
    BY <2>1, <2>2 DEF SpacedBy
  <2> QED
    BY <2>2, <2>4, <2>5, <2>6
<1>2. ASSUME NEW h \in Helper, Stops(h) PROVE Spaced'
  <2>1. \A was, rows, time : SpacedBy(newborn, was, rows, time)
    BY DEF SpacedBy, newborn
  <2> QED
    BY <1>2, <2>1, EmptyType, SpacedLocal DEF Stops, ends, Spaced
<1>3. ASSUME Purge PROVE Spaced'
  BY <1>3, EmptyIsKept DEF Purge, Spaced, KeptNow, SpacedBy, absent
<1>4. ASSUME Tick PROVE Spaced'
  <2>1. /\ now' \in Time /\ now <= now' /\ \A g \in Helper : helper[g].at <= now => helper[g].at <= now'
        /\ UNCHANGED <<file, helper, steady, overlapped>>
    BY <1>0, <1>4, NotificationBoundsAssumption DEF Tick, Time
  <2>2. ~overlapped => KeptNow(steady, file.rows, now')
    BY <1>0, <2>1, KeptLater DEF Spaced, KeptNow, Rows
  <2>3. ASSUME NEW g \in Helper, SpacedBy(helper[g], steady, file.rows, now)
        PROVE  SpacedBy(helper[g], steady, file.rows, now')
    BY <2>1, <2>3 DEF SpacedBy
  <2> QED
    BY <2>1, <2>2, <2>3 DEF Spaced
<1>5. CASE UNCHANGED vars
  BY <1>5 DEF vars, Spaced
<1> QED
  BY <1>1, <1>2, <1>3, <1>4, <1>5, SpacedEvaluation DEF Next

(* A window that stays as it was alerted about is not alerted about again   *)
(* before the reminder, unless its reset has passed: for any reminder, any  *)
(* readings and any kills of evaluations that do not overlap (NOTIFY-003). *)
THEOREM SteadyIsSpaced == Spec => SteadyWindowIsSpaced
<1>1. Inv /\ Spaced => \A h \in Helper, k \in Key :
         Sends(h, k) /\ ~overlapped /\ steady[k].level > 0 =>
            \/ helper[h].at >= steady[k].notified + Reminder
            \/ steady[k].reset \in 1..helper[h].at
  BY DEF Sends, Spaced, SpacedBy, MaySpeak, Sending
<1>2. Inv /\ Spaced /\ [Next]_vars => [\A h \in Helper, k \in Key :
         Sends(h, k) /\ ~overlapped /\ steady[k].level > 0 =>
            \/ helper[h].at >= steady[k].notified + Reminder
            \/ steady[k].reset \in 1..helper[h].at]_vars
  BY <1>1
<1>3. Spec => []Spaced
  BY Invariance, TrackedInvariance, SpacedInit, SpacedStep, PTL DEF Spec
<1> QED
  BY <1>2, <1>3, Invariance, PTL DEF Spec, SteadyWindowIsSpaced

-----------------------------------------------------------------------------
(* One alert, once.  What an evaluation has decided to send is due by the   *)
(* rows in its hand, to the end; while evaluations do not overlap those are *)
(* the recorded ones, so that the lock the documents speak of would add     *)
(* exactly the evaluations that overlap.                                   *)

Due(local) ==
    /\ local.pending \cap local.current = {}
    /\ \A k \in local.pending :
          should_emit(local.rows[k], local.reads[k], local.at)

AllDue == \A h \in Helper : Due(helper[h])

(* Alone, an evaluation sends only what is due by the state as recorded.    *)
AlertsAreDueAlone ==
    [][\A h \in Helper, k \in Key : Sends(h, k) /\ ~overlapped =>
         should_emit(file.rows[k], helper[h].reads[k], helper[h].at)]_vars

(* A row whose alert is due is not touched before the alert. *)
LEMMA DueIsUntouched ==
    ASSUME NEW row \in Row, NEW read \in Reading, NEW at \in Time,
           read.kind \in {"unread", "gone"} => read.level = 0,
           should_emit(pruned(row, read, at), read, at)
    PROVE  should_emit(silently(pruned(row, read, at), read, at), read, at)
<1> DEFINE base == pruned(row, read, at)
<1>1. read.level > 0 /\ read.level \in 0..2
  BY DEF should_emit, Reading, Level
<1>2. read.kind \notin {"unread", "gone"} /\ read.level # 0
  BY <1>1
<1>3. should_emit(base, read, at)
  OBVIOUS
<1> HIDE DEF base
<1>4. silently(base, read, at) = base
  BY <1>2, <1>3 DEF silently
<1> QED
  BY <1>3, <1>4 DEF base

(* What an evaluation decides to send is due. *)
LEMMA EvaluatesDue ==
    ASSUME Inv, NEW h \in Helper, NEW rows \in Rows, NEW reads \in Envelope,
           evaluates(h, rows, reads), helper[h].current = {}
    PROVE  AllDue => AllDue'
<1> DEFINE at   == helper[h].at
           base == [k \in Key |-> pruned(rows[k], reads[k], at)]
           after == [k \in Key |-> silently(base[k], reads[k], at)]
           due  == {k \in Key : should_emit(base[k], reads[k], at)}
           new  == [helper[h] EXCEPT !.phase = "save", !.reads = reads,
                                     !.rows = after, !.pending = due]
<1>1. helper[h] \in Local /\ at \in Time /\ helper \in [Helper -> Local]
  BY DEF Inv, TypeOK, Local
<1>2. /\ reads \in [Key -> Reading]
      /\ \A k \in Key : reads[k].kind \in {"unread", "gone"} => reads[k].level = 0
  <2>1. \A k \in Key : reads[k] \in Possible(k)
    BY DEF Envelope
  <2> QED
    BY <2>1, EnvelopeType DEF Possible, silent, shown
<1>3. \A k \in Key : rows[k] \in Row /\ reads[k] \in Reading
  BY <1>2 DEF Rows
<1>4. \A k \in Key : after[k] = silently(pruned(rows[k], reads[k], at), reads[k], at)
  OBVIOUS
<1>5. \A k \in due : k \in Key /\ should_emit(pruned(rows[k], reads[k], at), reads[k], at)
  OBVIOUS
<1>6. helper' = [helper EXCEPT ![h] = new]
  BY <1>1 DEF evaluates
<1> HIDE DEF after, due
<1>7. \A k \in due : should_emit(after[k], reads[k], at)
  BY <1>1, <1>2, <1>3, <1>4, <1>5, DueIsUntouched
<1>8. /\ new.pending = due /\ new.rows = after /\ new.reads = reads
      /\ new.at = at /\ new.current = {}
  BY <1>1 DEF Local
<1> HIDE DEF new, at
<1>9. Due(new)
  BY <1>7, <1>8 DEF Due
<1>10. helper'[h] = new /\ \A g \in Helper \ {h} : helper'[g] = helper[g]
  BY <1>1, <1>6
<1> QED
  BY <1>9, <1>10 DEF AllDue

(* A helper whose new local state is due leaves all due. *)
LEMMA DueLocal ==
    ASSUME Inv, AllDue, NEW h \in Helper, NEW new,
           helper' = [helper EXCEPT ![h] = new], Due(helper[h]) => Due(new)
    PROVE  AllDue'
<1>1. helper'[h] = new /\ \A g \in Helper \ {h} : helper'[g] = helper[g]
  BY DEF Inv, TypeOK
<1> QED
  BY <1>1 DEF AllDue

LEMMA DueStep == Inv /\ AllDue /\ [Next]_vars => AllDue'
<1> SUFFICES ASSUME Inv, AllDue, [Next]_vars PROVE AllDue'
  OBVIOUS
<1>0. /\ helper \in [Helper -> Local] /\ file.rows \in Rows /\ OneAtAck
      /\ \A h \in Helper : helper[h] \in Local
  BY DEF Inv, TypeOK
<1>1. Due(newborn)
  BY DEF Due, newborn
<1>2. ASSUME NEW h \in Helper, Start(h) PROVE AllDue'
  <2> DEFINE new == [newborn EXCEPT !.phase = "load", !.at = now]
  <2>1. Due(new)
    BY DEF Due, newborn
  <2>2. helper' = [helper EXCEPT ![h] = new]
    BY <1>2 DEF Start
  <2> HIDE DEF new
  <2> QED
    BY <2>1, <2>2, DueLocal
<1>3. ASSUME NEW h \in Helper, NEW reads \in Envelope, Load(h, reads) PROVE AllDue'
  <2>1. CASE file.state = "corrupt"
    <3> DEFINE new == [helper[h] EXCEPT !.phase = "quarantine"]
    <3>1. helper' = [helper EXCEPT ![h] = new]
      BY <1>3, <2>1 DEF Load
    <3>2. /\ new.pending = helper[h].pending /\ new.current = helper[h].current
          /\ new.rows = helper[h].rows /\ new.reads = helper[h].reads
          /\ new.at = helper[h].at
      BY <1>0 DEF Local
    <3> HIDE DEF new
    <3> QED
      BY <3>1, <3>2, DueLocal DEF Due
  <2>2. CASE file.state # "corrupt"
    BY <1>0, <1>3, <2>2, EvaluatesDue DEF Load, OneAtAck
  <2> QED
    BY <2>1, <2>2
<1>4. ASSUME NEW h \in Helper, NEW reads \in Envelope, Quarantine(h, reads) PROVE AllDue'
  BY <1>0, <1>4, EmptyType, EvaluatesDue DEF Quarantine, OneAtAck
<1>5. ASSUME NEW h \in Helper, SaveSilent(h) PROVE AllDue'
  <2> DEFINE new == [helper[h] EXCEPT !.phase = "send"]
  <2>1. helper' = [helper EXCEPT ![h] = new]
    BY <1>5 DEF SaveSilent
  <2>2. /\ new.pending = helper[h].pending /\ new.current = helper[h].current
        /\ new.rows = helper[h].rows /\ new.reads = helper[h].reads
        /\ new.at = helper[h].at
    BY <1>0 DEF Local
  <2> HIDE DEF new
  <2> QED
    BY <2>1, <2>2, DueLocal DEF Due
<1>6. ASSUME NEW h \in Helper, NEW k \in Key, Send(h, k) PROVE AllDue'
  <2> DEFINE new == [helper[h] EXCEPT !.phase = "ack", !.pending = @ \ {k},
                                      !.current = {k}, !.told = @ \cup {k}]
  <2>1. helper' = [helper EXCEPT ![h] = new]
    BY <1>6 DEF Send
  <2>2. /\ new.pending = helper[h].pending \ {k} /\ new.current = {k}
        /\ new.rows = helper[h].rows /\ new.reads = helper[h].reads
        /\ new.at = helper[h].at
    BY <1>0 DEF Local
  <2> HIDE DEF new
  <2> QED
    BY <2>1, <2>2, DueLocal DEF Due
<1>7. ASSUME NEW h \in Helper, NEW k \in Key, Acknowledge(h, k) PROVE AllDue'
  <2> DEFINE rows == [helper[h].rows EXCEPT ![k] = spoken(h, k)]
             new == [helper[h] EXCEPT !.phase = "send", !.current = {}, !.rows = rows]
  <2>1. helper' = [helper EXCEPT ![h] = new]
    BY <1>7 DEF Acknowledge
  <2>2. /\ new.pending = helper[h].pending /\ new.current = {} /\ new.rows = rows
        /\ new.reads = helper[h].reads /\ new.at = helper[h].at
    BY <1>0 DEF Local
  <2>3. k \in helper[h].current /\ helper[h].rows \in Rows
    BY <1>0, <1>7 DEF Acknowledge, Local
  <2>4. \A l \in Key \ {k} : rows[l] = helper[h].rows[l]
    BY <2>3 DEF Rows
  <2>5. helper[h].pending \subseteq Key
    BY <1>0 DEF Local
  <2> HIDE DEF new, rows
  <2>6. ASSUME Due(helper[h]) PROVE Due(new)
    <3>1. k \notin helper[h].pending
      BY <2>3, <2>6 DEF Due
    <3>2. \A l \in new.pending : l \in Key \ {k} /\ new.rows[l] = helper[h].rows[l]
      BY <2>2, <2>4, <2>5, <3>1
    <3> QED
      BY <2>2, <2>6, <3>2 DEF Due
  <2> QED
    BY <2>1, <2>6, DueLocal
<1>8. ASSUME NEW h \in Helper, ends(h) PROVE AllDue'
  BY <1>1, <1>8, DueLocal DEF ends
<1>9. ASSUME UNCHANGED helper PROVE AllDue'
  BY <1>9 DEF AllDue
<1>10. ASSUME NEW h \in Helper, EvaluationStep(h) PROVE AllDue'
  <2>1. CASE Finish(h) \/ \E k \in Key, wasShown \in BOOLEAN : SendFails(h, k, wasShown)
    BY <1>8, <2>1 DEF Finish, SendFails
  <2> QED
    BY <1>10, <1>3, <1>4, <1>5, <1>6, <1>7, <2>1 DEF EvaluationStep
<1> QED
  BY <1>2, <1>8, <1>9, <1>10 DEF Next, Stops, Purge, Tick, vars

(* Evaluations that do not overlap double no alert: what AlertsAreNotDoubled *)
(* states of all evaluations fails, for any windows, readings and kills,    *)
(* only where two processes have evaluated at once.                        *)
THEOREM AloneNothingIsDoubled == Spec => AlertsAreDueAlone
<1>1. Init => AllDue
  <2>1. Due(newborn)
    BY DEF Due, newborn
  <2>2. Init => \A h \in Helper : helper[h] = newborn
    BY DEF Init
  <2> QED
    BY <2>1, <2>2 DEF AllDue
<1>2. Spec => []AllDue
  BY <1>1, DueStep, Invariance, PTL DEF Spec
<1>3. Tracked /\ AllDue => \A h \in Helper, k \in Key : Sends(h, k) /\ ~overlapped =>
         should_emit(file.rows[k], helper[h].reads[k], helper[h].at)
  <2> SUFFICES ASSUME Tracked, AllDue, NEW h \in Helper, NEW k \in Key,
                      Sends(h, k), ~overlapped
               PROVE  should_emit(file.rows[k], helper[h].reads[k], helper[h].at)
    OBVIOUS
  <2>1. helper[h].phase = "send" /\ k \in helper[h].pending
    BY DEF Sends
  <2>2. file.rows = helper[h].rows
    BY <2>1 DEF Tracked, Tracks, Sending
  <2> QED
    BY <2>1, <2>2 DEF AllDue, Due
<1>4. Tracked /\ AllDue /\ [Next]_vars =>
         [\A h \in Helper, k \in Key : Sends(h, k) /\ ~overlapped =>
             should_emit(file.rows[k], helper[h].reads[k], helper[h].at)]_vars
  BY <1>3
<1> QED
  BY <1>2, <1>4, TrackedInvariance, PTL DEF Spec, AlertsAreDueAlone
=============================================================================
