---------------------------- MODULE Documents_proofs ----------------------------
(***************************************************************************)
(* Proofs about what is made of the documents that agent-bar is given: the  *)
(* settings of v9 (SettingsMigration) and the providers' payloads           *)
(* (StatusRow), for any documents and payloads.  Both are read in one pass  *)
(* that builds a list, a fold; the first lemmas are about those.           *)
(***************************************************************************)
EXTENDS SettingsMigration, StatusRow, FiniteSetTheorems, SequenceTheorems,
        WellFoundedInduction, TLAPS

-----------------------------------------------------------------------------
less == OpToRel(<, Nat)

(* The natural numbers are well-founded. *)
LEMMA LessWF == IsWellFoundedOn(less, Nat)
BY NatLessThanWellFounded DEF less

(* Less-than, as the relation of the library's well-founded induction. *)
LEMMA LessIs == \A m, n \in Nat : <<m, n>> \in less <=> m < n
BY DEF less, OpToRel

(* Induction on a set of numbers. *)
LEMMA SetInduction ==
  ASSUME NEW S, 0 \in S, \A n \in Nat : n \in S => n + 1 \in S
  PROVE Nat \subseteq S
<1> DEFINE T == Nat \ S
<1> SUFFICES ASSUME T # {} PROVE FALSE
  OBVIOUS
<1>1. PICK x \in T : \A y \in T : ~(<<y, x>> \in less)
  <2> HIDE DEF T
  <2>1. T \subseteq Nat
    BY DEF T
  <2> QED
   BY WFMin, LessWF, <2>1
<1>2. x \in Nat /\ x # 0
  OBVIOUS
<1>3. x - 1 \in Nat /\ x - 1 < x /\ x = (x-1)+1
  BY <1>2
<1>4. x - 1 \notin T
  BY <1>1, <1>3, <1>2, LessIs
<1> QED
  BY <1>2, <1>3, <1>4

(* Iteration over the prefixes *)
LEMMA MaxOfPrefix ==
  ASSUME NEW n \in Nat, NEW s \in SUBSET (1..n+1)
  PROVE  /\ n + 1 \in s => Max(s) = n + 1
         /\ n + 1 \notin s => s \in SUBSET (1..n)
<1>1. ASSUME n + 1 \in s PROVE Max(s) = n + 1
  <2>1. \A x \in s : n + 1 >= x  BY <1>1
  <2>2. \A x \in s : (\A y \in s : x >= y) => x = n + 1  BY <1>1
  <2> QED BY <1>1, <2>1, <2>2 DEF Max
<1> QED BY <1>1

(* The empty prefix has one subset. *)
LEMMA NoPrefix == \A s \in SUBSET (1..0) : s = {}
<1> SUFFICES ASSUME NEW s \in SUBSET (1..0), NEW x \in s PROVE FALSE
  OBVIOUS
<1>1. x \in 1..0  OBVIOUS
<1> QED BY <1>1

(* A set of indices has a greatest one. *)
LEMMA MaxIsIn ==
  ASSUME NEW n \in Nat, NEW s \in SUBSET (1..n), s # {}
  PROVE  Max(s) \in s
<1> DEFINE G == {m \in Nat : \A t \in SUBSET (1..m) : t # {} => Max(t) \in t}
<1>1. 0 \in G  BY NoPrefix
<1>2. \A m \in Nat : m \in G => m + 1 \in G
  BY MaxOfPrefix
<1>3. Nat \subseteq G
  <2> HIDE DEF G
  <2> QED BY <1>1, <1>2, SetInduction
<1> QED BY <1>3

(* An iteration over the subsets of 1..n, as a fold makes one: the steps of   *)
(* a subset's indices, from the least to the greatest.                      *)
Iterates(it, n, base, step) ==
    \A s \in SUBSET (1..n) :
        it[s] = IF s = {} THEN base ELSE step[Max(s)][it[s \ {Max(s)}]]

(* There is such an iteration, whatever the steps do. *)
LEMMA IterationExists ==
  ASSUME NEW S, NEW base \in S, NEW n \in Nat, NEW step \in [1..n -> [S -> S]]
  PROVE  \E it \in [SUBSET (1..n) -> S] : Iterates(it, n, base, step)
<1> DEFINE P(m, it) == \A s \in SUBSET (1..m) :
             it[s] = IF s = {} THEN base ELSE step[Max(s)][it[s \ {Max(s)}]]
           H(m) == \E it \in [SUBSET (1..m) -> S] : P(m, it)
           G == {m \in Nat : m <= n => H(m)}
<1>1. H(0)
  <2>1. [s \in SUBSET (1..0) |-> base] \in [SUBSET (1..0) -> S]  OBVIOUS
  <2> QED BY <2>1, NoPrefix
<1>2. ASSUME NEW m \in Nat, H(m), m + 1 <= n PROVE H(m + 1)
  <2>1. PICK old \in [SUBSET (1..m) -> S] : P(m, old)
    BY <1>2
  <2> DEFINE new == [s \in SUBSET (1..m+1) |->
                       IF m + 1 \in s THEN step[m + 1][old[s \ {m + 1}]] ELSE old[s]]
  <2>2. \A s \in SUBSET (1..m+1) :
           s \ {m + 1} \in SUBSET (1..m) /\ (m + 1 \notin s => s \in SUBSET (1..m))
    <3> SUFFICES ASSUME NEW s \in SUBSET (1..m+1)
                 PROVE  \A x \in s \ {m + 1} : x \in 1..m
      OBVIOUS
    <3>1. \A x \in 1..m+1 : x # m + 1 => x \in 1..m  OBVIOUS
    <3> QED BY <3>1
  <2>3. new \in [SUBSET (1..m+1) -> S]
    <3>1. step[m + 1] \in [S -> S]  BY <1>2
    <3> QED BY <2>2, <3>1
  <2>4. ASSUME NEW s \in SUBSET (1..m+1), m + 1 \in s
        PROVE  new[s] = step[Max(s)][new[s \ {Max(s)}]]
    <3>1. Max(s) = m + 1  BY <2>4, MaxOfPrefix
    <3>2. new[s \ {m + 1}] = old[s \ {m + 1}]
      BY <2>2, <2>4
    <3> QED BY <2>4, <3>1, <3>2
  <2>5. ASSUME NEW s \in SUBSET (1..m+1), m + 1 \notin s
        PROVE  new[s] = IF s = {} THEN base ELSE step[Max(s)][new[s \ {Max(s)}]]
    <3>1. s \in SUBSET (1..m) /\ new[s] = old[s]  BY <2>2, <2>5
    <3>2. new[s \ {Max(s)}] = old[s \ {Max(s)}]  BY <2>5
    <3> QED BY <2>1, <3>1, <3>2
  <2>6. P(m + 1, new)
    BY <2>4, <2>5
  <2> QED BY <2>3, <2>6
<1>3. H(n)
  <2> HIDE DEF H
  <2>1. 0 \in G /\ \A m \in Nat : m \in G => m + 1 \in G
    BY <1>1, <1>2
  <2>2. Nat \subseteq G
    <3> HIDE DEF G
    <3> QED BY <2>1, SetInduction
  <2> QED BY <2>2
<1> QED BY <1>3 DEF Iterates

(* The same, as far as the values stay in S, and as a function of the       *)
(* prefixes.                                                               *)
IteratesIn(S, it, n, base, step) ==
    \A s \in SUBSET (1..n) :
        IF s = {} THEN it[s] = base
        ELSE it[s \ {Max(s)}] \in S => it[s] = step[Max(s)][it[s \ {Max(s)}]]

ByPrefix(S, it, n, base, step) ==
    \E g \in [0..n -> S] :
        /\ g[0] = base
        /\ \A k \in 1..n : g[k] = step[k][g[k - 1]]
        /\ it[1..n] = g[n]

(* From the sets to the prefixes: what an iteration over the subsets of 1..n *)
(* is on the prefixes, step by step.                                        *)
LEMMA PrefixIteration ==
  ASSUME NEW S, NEW base \in S, NEW n \in Nat, NEW step \in [1..n -> [S -> S]], NEW it,
         IteratesIn(S, it, n, base, step)
  PROVE  ByPrefix(S, it, n, base, step)
<1> DEFINE g == [k \in 0..n |-> it[1..k]]
<1>1. g[0] = base
  <2>1. 1..0 = {} /\ {} \in SUBSET (1..n)
    OBVIOUS
  <2>2. it[1..0] = base
    BY <2>1 DEF IteratesIn
  <2> QED BY <2>2
<1>2. ASSUME NEW k \in 1..n, g[k - 1] \in S PROVE g[k] = step[k][g[k - 1]]
  <2>1. Max(1..k) = k
    BY MaxOfPrefix DEF Max
  <2>2. (1..k) \ {k} = 1..(k-1)
    OBVIOUS
  <2>3. 1..k # {} /\ 1..k \in SUBSET (1..n)
    <3>1. k \in 1..k /\ \A x \in 1..k : x \in 1..n
      OBVIOUS
    <3> QED BY <3>1
  <2>4. g[k] = it[1..k] /\ g[k-1] = it[1..(k-1)]
    OBVIOUS
  <2>5. (1..k) \ {Max(1..k)} = 1..(k-1) /\ it[1..(k-1)] \in S
    BY <1>2, <2>1, <2>2, <2>4
  <2> DEFINE p == 1..k
  <2>6. p # {} /\ p \in SUBSET (1..n) /\ it[p \ {Max(p)}] \in S
    BY <2>3, <2>5
  <2> HIDE DEF p
  <2>7. it[p] = step[Max(p)][it[p \ {Max(p)}]]
    BY <2>6 DEF IteratesIn
  <2> QED BY <2>1, <2>4, <2>5, <2>7 DEF p
<1>3. g = [k \in 0..n |-> g[k]] /\ g[n] = it[1..n]
  OBVIOUS
<1> HIDE DEF g
<1>4. \A k \in 0..n : g[k] \in S
  <2> DEFINE G == {k \in Nat : k <= n => g[k] \in S}
  <2>1. 0 \in G
    BY <1>1
  <2>2. ASSUME NEW k \in Nat, k \in G PROVE k + 1 \in G
    <3> SUFFICES ASSUME k + 1 <= n PROVE g[k + 1] \in S
      OBVIOUS
    <3>1. k + 1 \in 1..n /\ g[(k + 1) - 1] \in S
      BY <2>2
    <3>2. g[k + 1] = step[k + 1][g[(k + 1) - 1]]
      BY <1>2, <3>1
    <3> QED BY <3>1, <3>2
  <2>3. Nat \subseteq G
    <3> HIDE DEF G
    <3> QED BY <2>1, <2>2, SetInduction
  <2> QED BY <2>3
<1>5. \A k \in 1..n : g[k] = step[k][g[k - 1]]
  <2> SUFFICES ASSUME NEW k \in 1..n PROVE g[k] = step[k][g[k - 1]]
    OBVIOUS
  <2>1. k - 1 \in 0..n
    OBVIOUS
  <2> QED BY <1>2, <1>4, <2>1
<1> QED BY <1>1, <1>3, <1>4, <1>5 DEF ByPrefix

(* FlattenSeq *)
LEMMA FlattenIterates ==
  ASSUME NEW S, NEW seqs \in Seq(Seq(S))
  PROVE  \E g \in [0..Len(seqs) -> Seq(S)] :
           /\ g[0] = <<>>
           /\ \A k \in 1..Len(seqs) : g[k] = g[k - 1] \o seqs[k]
           /\ FlattenSeq(seqs) = g[Len(seqs)]
<1> DEFINE n == Len(seqs)
           D == Seq(S)
<1>0. n \in Nat /\ <<>> \in D /\ (n = 0 => seqs = <<>>) /\ \A k \in 1..n : seqs[k] \in Seq(S)
  OBVIOUS
<1>1. CASE n = 0
  <2>1. FlattenSeq(seqs) = <<>>
    BY <1>0, <1>1 DEF FlattenSeq
  <2> DEFINE g == [k \in 0..0 |-> <<>>]
  <2>2. g \in [0..0 -> D] /\ g[0] = <<>>
    BY <1>0
  <2>3. \A k \in 1..0 : FALSE
    OBVIOUS
  <2> HIDE DEF g
  <2> QED BY <1>1, <2>1, <2>2, <2>3
<1>2. CASE n # 0
  <2> DEFINE Eq(f) == f = [i \in 1..n |-> IF i = 1 THEN seqs[i] ELSE f[i-1] \o seqs[i]]
             flat == CHOOSE f : Eq(f)
             H(m) == \E f \in [1..m -> D] :
                        \A i \in 1..m : f[i] = IF i = 1 THEN seqs[i] ELSE f[i-1] \o seqs[i]
             G == {m \in Nat : m <= n => H(m)}
  <2>1. FlattenSeq(seqs) = flat[n]
    BY <1>2 DEF FlattenSeq
  <2>2. 0 \in G
    <3>1. [i \in 1..0 |-> <<>>] \in [1..0 -> D]
      OBVIOUS
    <3>2. \A i \in 1..0 : FALSE
      OBVIOUS
    <3>3. H(0)
      BY <3>1, <3>2
    <3> HIDE DEF H
    <3> QED BY <3>3
  <2>3. ASSUME NEW m \in Nat, m \in G PROVE m + 1 \in G
    <3> SUFFICES ASSUME m + 1 <= n PROVE H(m + 1)
      <4> HIDE DEF H
      <4> QED OBVIOUS
    <3>1. PICK f \in [1..m -> D] :
            \A i \in 1..m : f[i] = IF i = 1 THEN seqs[i] ELSE f[i-1] \o seqs[i]
      <4>1. H(m)
        <5> HIDE DEF H
        <5> QED BY <1>0, <2>3
      <4> QED BY <4>1
    <3> DEFINE last == IF m = 0 THEN seqs[1] ELSE f[m] \o seqs[m + 1]
               new == [i \in 1..m+1 |-> IF i = m + 1 THEN last ELSE f[i]]
    <3>2. last \in D
      <4>1. m # 0 => f[m] \in D /\ seqs[m + 1] \in D
        BY <3>1, <1>0
      <4> QED BY <4>1, <1>0, <1>2
    <3> HIDE DEF last
    <3>3. new \in [1..m+1 -> D]
      BY <3>1, <3>2
    <3>4. \A i \in 1..m : new[i] = f[i]
      OBVIOUS
    <3>5. new[m + 1] = last
      OBVIOUS
    <3> HIDE DEF new
    <3>6. ASSUME NEW i \in 1..m+1
          PROVE  new[i] = IF i = 1 THEN seqs[i] ELSE new[i-1] \o seqs[i]
      <4>1. CASE i \in 1..m
        <5>1. i # 1 => i - 1 \in 1..m
          BY <4>1
        <5> QED BY <3>1, <3>4, <4>1, <5>1
      <4>2. CASE i = m + 1
        <5>1. m # 0 => m \in 1..m
          OBVIOUS
        <5> QED BY <3>4, <3>5, <4>2, <5>1 DEF last
      <4> QED BY <4>1, <4>2
    <3> QED BY <3>3, <3>6
  <2>4. H(n)
    <3>1. Nat \subseteq G
      <4> HIDE DEF G
      <4> QED BY <2>2, <2>3, SetInduction
    <3> HIDE DEF H
    <3> QED BY <3>1, <1>0
  <2>5. \E f : Eq(f)
    BY <2>4
  <2>6. Eq(flat)
    <3> HIDE DEF Eq
    <3> QED BY <2>5
  <2> HIDE DEF flat
  <2>7. \A i \in 1..n : flat[i] = IF i = 1 THEN seqs[i] ELSE flat[i-1] \o seqs[i]
    <3> HIDE DEF n
    <3> QED BY <2>6
  <2> DEFINE g == [k \in 0..n |-> IF k = 0 THEN <<>> ELSE flat[k]]
             K == {k \in Nat : k <= n => g[k] \in D}
  <2>8. g[0] = <<>> /\ g[n] = flat[n] /\ g = [k \in 0..n |-> g[k]]
    BY <1>0, <1>2
  <2>9. \A k \in 1..n : k - 1 \in 0..n /\ g[k] = flat[k] /\ (k # 1 => g[k - 1] = flat[k - 1])
    <3> HIDE DEF n
    <3> QED BY <1>0
  <2> HIDE DEF g
  <2>10. ASSUME NEW k \in 1..n, g[k - 1] \in D PROVE g[k] = g[k - 1] \o seqs[k]
    <3>1. CASE k = 1
      <4>1. <<>> \o seqs[1] = seqs[1]
        <5>1. 1 \in 1..n /\ \A t \in Seq(S) : <<>> \o t = t
          BY <1>0, <1>2
        <5> QED BY <1>0, <5>1
      <4>2. 1 - 1 = 0 /\ 1 \in 1..n
        BY <3>1
      <4> HIDE DEF n
      <4>3. g[1] = flat[1] /\ flat[1] = seqs[1]
        BY <2>7, <2>9, <4>2
      <4> QED BY <2>8, <3>1, <4>1, <4>2, <4>3
    <3>2. CASE k # 1
      BY <2>7, <2>9, <3>2
    <3> QED BY <3>1, <3>2
  <2>11. 0 \in K
    BY <1>0, <2>8
  <2>12. ASSUME NEW k \in Nat, k \in K PROVE k + 1 \in K
    <3> SUFFICES ASSUME k + 1 <= n PROVE g[k + 1] \in D
      OBVIOUS
    <3>1. k + 1 \in 1..n /\ (k + 1) - 1 = k /\ g[k] \in D /\ seqs[k + 1] \in D
      BY <1>0, <2>12
    <3>2. g[k + 1] = g[k] \o seqs[k + 1]
      BY <2>10, <3>1
    <3> QED BY <3>1, <3>2
  <2>13. \A k \in 0..n : g[k] \in D
    <3>1. Nat \subseteq K
      <4> HIDE DEF K
      <4> QED BY <2>11, <2>12, SetInduction
    <3> QED BY <3>1, <1>0
  <2>14. \A k \in 1..n : g[k] = g[k - 1] \o seqs[k]
    BY <2>9, <2>10, <2>13
  <2> QED BY <2>1, <2>8, <2>13, <2>14
<1> QED BY <1>1, <1>2

(* What a flattened list holds is what its lists hold. *)
LEMMA RangeOfFlatten ==
  ASSUME NEW S, NEW seqs \in Seq(Seq(S))
  PROVE  /\ FlattenSeq(seqs) \in Seq(S)
         /\ Range(FlattenSeq(seqs)) = UNION {Range(seqs[i]) : i \in 1..Len(seqs)}
<1> DEFINE n == Len(seqs)
           U(k) == UNION {Range(seqs[i]) : i \in 1..k}
<1>0. n \in Nat /\ \A k \in 1..n : seqs[k] \in Seq(S)
  OBVIOUS
<1>1. PICK g \in [0..n -> Seq(S)] :
           /\ g[0] = <<>>
           /\ \A k \in 1..n : g[k] = g[k - 1] \o seqs[k]
           /\ FlattenSeq(seqs) = g[n]
  BY FlattenIterates
<1> HIDE DEF n
<1> DEFINE G == {k \in Nat : k <= n => Range(g[k]) = U(k)}
<1>2. 0 \in G
  <2>1. Range(<<>>) = {}
    BY DEF Range
  <2>2. U(0) = {}
    OBVIOUS
  <2> QED BY <1>1, <2>1, <2>2
<1>3. ASSUME NEW k \in Nat, k \in G PROVE k + 1 \in G
  <2> SUFFICES ASSUME k + 1 <= n PROVE Range(g[k + 1]) = U(k + 1)
    OBVIOUS
  <2>1. k + 1 \in 1..n /\ (k + 1) - 1 = k /\ k \in 0..n /\ k <= n
    BY <1>0
  <2>2. Range(g[k]) = U(k) /\ g[k] \in Seq(S) /\ seqs[k + 1] \in Seq(S)
    BY <1>0, <1>1, <1>3, <2>1
  <2>3. g[k + 1] = g[k] \o seqs[k + 1]
    BY <1>1, <2>1
  <2>4. Range(g[k + 1]) = Range(g[k]) \cup Range(seqs[k + 1])
    BY <2>2, <2>3, RangeConcatenation
  <2>5. U(k + 1) = U(k) \cup Range(seqs[k + 1])
    <3>1. \A i : i \in 1..k+1 <=> i \in 1..k \/ i = k + 1
      OBVIOUS
    <3> QED BY <3>1
  <2> QED BY <2>2, <2>4, <2>5
<1>4. Nat \subseteq G
  <2> HIDE DEF G
  <2> QED BY <1>2, <1>3, SetInduction
<1>5. Range(g[n]) = U(n)
  <2>1. n \in G
    BY <1>0, <1>4
  <2> QED BY <1>0, <2>1
<1> QED BY <1>0, <1>1, <1>5 DEF n

(* place makes a list of a list. *)
LEMMA PlaceIsSeq ==
  ASSUME NEW S, NEW ids \in Seq(S), NEW id \in S
  PROVE  place(ids, id) \in Seq(S)
BY DEF place

(* placed, as an iteration over the list it is given. *)
LEMMA PlacedIterates ==
  ASSUME NEW S, NEW seq \in Seq(S)
  PROVE  \E g \in [0..Len(seq) -> Seq(S)] :
           /\ g[0] = <<>>
           /\ \A k \in 1..Len(seq) : g[k] = place(g[k - 1], seq[k])
           /\ \A names : seq = names \o AllProviders => placed(names) = g[Len(seq)]
<1> DEFINE n == Len(seq)
           D == Seq(S)
           step == [k \in 1..n |-> [ids \in D |-> place(ids, seq[k])]]
           Eq(f) == f = [s \in SUBSET (DOMAIN seq) |->
             IF s = {} THEN <<>> ELSE place(f[s \ {Max(s)}], seq[Max(s)])]
           iter == CHOOSE f : Eq(f)
           base == <<>>
<1>0. n \in Nat /\ base \in D /\ DOMAIN seq = 1..n /\ \A k \in 1..n : seq[k] \in S
  OBVIOUS
<1>1. \A names : seq = names \o AllProviders => placed(names) = iter[DOMAIN seq]
  BY DEF placed, FoldLeft, MapThenFoldSet
<1>2. step \in [1..n -> [D -> D]]
  <2> SUFFICES ASSUME NEW k \in 1..n, NEW ids \in D PROVE place(ids, seq[k]) \in D
    OBVIOUS
  <2> QED BY PlaceIsSeq
<1>3. \A k \in 1..n, ids \in D : step[k][ids] = place(ids, seq[k])
  OBVIOUS
<1> HIDE DEF step, D, base
<1>4. PICK it \in [SUBSET (1..n) -> D] : Iterates(it, n, base, step)
  <2> HIDE DEF n
  <2> QED BY <1>0, <1>2, IterationExists
<1>5. Eq(it)
  <2>1. ASSUME NEW s \in SUBSET (1..n), s # {}
        PROVE  it[s] = place(it[s \ {Max(s)}], seq[Max(s)])
    <3> HIDE DEF n
    <3>1. Max(s) \in 1..n
      <4>1. Max(s) \in s
        BY <1>0, <2>1, MaxIsIn
      <4> QED BY <4>1
    <3>2. it[s] = step[Max(s)][it[s \ {Max(s)}]] /\ it[s \ {Max(s)}] \in D
      BY <1>4, <2>1 DEF Iterates
    <3> QED BY <1>3, <3>1, <3>2
  <2>2. it[{}] = <<>>
    BY <1>4 DEF Iterates, base
  <2> QED BY <2>1, <2>2, <1>0
<1>6. Eq(iter)
  <2> HIDE DEF Eq
  <2> QED BY <1>5
<1> HIDE DEF iter
<1>7. \A s \in SUBSET (1..n) : iter[s] =
         IF s = {} THEN base ELSE place(iter[s \ {Max(s)}], seq[Max(s)])
  BY <1>6, <1>0 DEF base
<1>8. IteratesIn(D, iter, n, base, step)
  <2> HIDE DEF n
  <2> SUFFICES ASSUME NEW s \in SUBSET (1..n), s # {}, iter[s \ {Max(s)}] \in D
               PROVE  iter[s] = step[Max(s)][iter[s \ {Max(s)}]]
    BY <1>7 DEF IteratesIn
  <2>1. Max(s) \in 1..n
    <3>1. Max(s) \in s
      BY <1>0, MaxIsIn
    <3> QED BY <3>1
  <2> QED BY <1>3, <1>7, <2>1
<1>9. PICK g \in [0..n -> D] :
           /\ g[0] = base
           /\ \A k \in 1..n : g[k] = step[k][g[k - 1]]
           /\ iter[1..n] = g[n]
  <2> HIDE DEF n
  <2>1. ByPrefix(D, iter, n, base, step)
    BY <1>0, <1>2, <1>8, PrefixIteration
  <2> QED BY <2>1 DEF ByPrefix
<1>10. \A k \in 1..n : g[k] = place(g[k - 1], seq[k])
  <2> SUFFICES ASSUME NEW k \in 1..n PROVE g[k] = place(g[k - 1], seq[k])
    OBVIOUS
  <2>1. k - 1 \in 0..n
    BY <1>0
  <2> QED BY <1>3, <1>9, <2>1
<1>11. \A names : seq = names \o AllProviders => placed(names) = g[n]
  BY <1>0, <1>1, <1>9
<1> QED BY <1>9, <1>10, <1>11 DEF D, base

-----------------------------------------------------------------------------
(* SettingsMigration: the inductive invariant *)

Shaped ==
    /\ phase \in [Setup -> Phase]
    /\ read = [s \in Setup |-> read[s]]
    /\ backup = [s \in Setup |-> backup[s]]

Held == {"locked", "shell", "backup", "store", "backupShell", "storeShell", "finish"}

(* A setup between lock and end holds the gate. *)
GateHolds ==
    /\ gate \in Setup \cup {NoSetup}
    /\ \A s \in Setup : phase[s] \in Held => gate = s

(* What it read is what is there, and its plan did not abort. *)
ReadHolds ==
    \A s \in Setup :
        phase[s] \in {"shell", "backup", "store"} => read[s].settings = settings

BackupHolds ==
    \A s \in Setup : phase[s] = "store" => backup[s].settings = settings

PlanHolds ==
    \A s \in Setup :
        phase[s] \in {"backup", "store"} => ~aborts(read[s].settings, read[s].shell)

WellFormed == settings.kind = "v10" => isV10(settings)

IInv ==
    /\ Shaped /\ GateHolds /\ ReadHolds /\ BackupHolds /\ PlanHolds /\ WellFormed
    /\ applies \in Nat

-----------------------------------------------------------------------------
(* The plan *)

(* An interval that fits is not cut. *)
LEMMA FittingIsKept == \A n \in 1..Word - 1 : n # 0 /\ asU32(n) = n
<1> SUFFICES ASSUME NEW n \in 1..Word - 1 PROVE n # 0 /\ asU32(n) = n
  OBVIOUS
<1>1. Word \in Nat
  BY IntervalAssumption
<1>2. \A w, m \in Nat : 0 < m /\ m < w => m % w = m
  BY SMT
<1> QED BY <1>1, <1>2 DEF asU32

(* A v10 document is planned as it is, whatever shell.json says. *)
LEMMA PlannedV10 ==
    ASSUME NEW doc, NEW sh, doc.kind = "v10", isV10(doc)
    PROVE  planned(doc, sh) = doc
BY IntervalAssumption DEF planned, hasInterval, migrated, isV10

(* A plan that did not abort is a v10 document. *)
LEMMA PlannedIsV10 ==
    ASSUME NEW doc, NEW sh, ~aborts(doc, sh), doc.kind = "v10" => isV10(doc)
    PROVE  isV10(planned(doc, sh))
<1>1. migrated(doc).interval \in Interval
  <2>1. CASE doc.kind = "v10"
    BY <2>1 DEF migrated, isV10
  <2>2. CASE doc.kind = "v9"
    <3> HIDE DEF asU32
    <3> QED BY <2>2, IntervalAssumption DEF migrated, fromV9, v10, aborts
  <2>3. CASE doc.kind \notin {"v9", "v10"}
    BY <2>3, IntervalAssumption DEF migrated, defaults, v10
  <2>4. QED
    BY <2>1, <2>2, <2>3
<1>2. sh.inline \in Interval \cup {0}
  BY DEF aborts
<1>3. QED
  BY <1>1, <1>2 DEF planned, isV10, v10

-----------------------------------------------------------------------------
(* The steps *)

(* The inductive invariant holds of any document at first. *)
LEMMA InitIInv == Init => IInv
<1> SUFFICES ASSUME Init PROVE IInv
  OBVIOUS
<1>1. Shaped /\ GateHolds /\ ReadHolds /\ BackupHolds /\ PlanHolds
  BY DEF Init, Shaped, Phase, GateHolds, ReadHolds, BackupHolds, PlanHolds, Held
<1>2. WellFormed
  BY DocumentsAssumption DEF Init, WellFormed
<1>3. QED
  BY <1>1, <1>2 DEF Init, IInv

(* Every step of the migration keeps it. *)
LEMMA StepIInv == IInv /\ [Next]_vars => IInv'
<1> SUFFICES ASSUME IInv, [Next]_vars PROVE IInv'
  OBVIOUS
<1> USE SetupAssumption
<1>1. ASSUME NEW s \in Setup, Starts(s) PROVE IInv'
  BY <1>1 DEF Starts, goes, IInv, Shaped, Phase, GateHolds, Held, ReadHolds, BackupHolds,
      PlanHolds, WellFormed
<1>2. ASSUME NEW s \in Setup, LocksGate(s) PROVE IInv'
  BY <1>2 DEF LocksGate, goes, IInv, Shaped, Phase, GateHolds, Held, ReadHolds, BackupHolds,
      PlanHolds, WellFormed
<1>3. ASSUME NEW s \in Setup, ReadsSettings(s) PROVE IInv'
  BY <1>3 DEF ReadsSettings, goes, IInv, Shaped, Phase, GateHolds, Held, ReadHolds, BackupHolds,
      PlanHolds, WellFormed
<1>4. ASSUME NEW s \in Setup, ReadsShell(s) PROVE IInv'
  BY <1>4 DEF ReadsShell, goes, IInv, Shaped, Phase, GateHolds, Held, ReadHolds, BackupHolds,
      PlanHolds, WellFormed
<1>5. ASSUME NEW s \in Setup, BacksUpSettings(s) PROVE IInv'
  BY <1>5 DEF BacksUpSettings, goes, IInv, Shaped, Phase, GateHolds, Held, ReadHolds, BackupHolds,
      PlanHolds, WellFormed
<1>6. ASSUME NEW s \in Setup, StoresSettings(s) PROVE IInv'
  BY <1>6, PlannedIsV10
  DEF StoresSettings, goes, IInv, Shaped, Phase, GateHolds, Held, ReadHolds, BackupHolds,
      PlanHolds, WellFormed
<1>7. ASSUME NEW s \in Setup, BacksUpShell(s) PROVE IInv'
  BY <1>7 DEF BacksUpShell, goes, IInv, Shaped, Phase, GateHolds, Held, ReadHolds, BackupHolds,
      PlanHolds, WellFormed
<1>8. ASSUME NEW s \in Setup, StoresShell(s) PROVE IInv'
  BY <1>8 DEF StoresShell, goes, IInv, Shaped, Phase, GateHolds, Held, ReadHolds, BackupHolds,
      PlanHolds, WellFormed
<1>9. ASSUME NEW s \in Setup, Finishes(s) PROVE IInv'
  BY <1>9 DEF Finishes, ends, goes, IInv, Shaped, Phase, GateHolds, Held, ReadHolds, BackupHolds,
      PlanHolds, WellFormed
<1>10. ASSUME NEW s \in Setup, Dies(s) PROVE IInv'
  BY <1>10 DEF Dies, ends, goes, IInv, Shaped, Phase, GateHolds, Held, ReadHolds, BackupHolds,
      PlanHolds, WellFormed
<1>11. ASSUME NEW doc \in Applied, ConfigApplies(doc) PROVE IInv'
  BY <1>11, DocumentsAssumption DEF ConfigApplies, IInv, Shaped, Phase, GateHolds, Held,
      ReadHolds, BackupHolds, PlanHolds, WellFormed
<1>12. CASE ShellEdited
  BY <1>12 DEF ShellEdited, IInv, Shaped, Phase, GateHolds, Held, ReadHolds, BackupHolds,
      PlanHolds, WellFormed
<1>13. CASE UNCHANGED vars
  BY <1>13 DEF vars, IInv, Shaped, Phase, GateHolds, Held, ReadHolds, BackupHolds, PlanHolds,
      WellFormed
<1>14. QED
  BY <1>1, <1>2, <1>3, <1>4, <1>5, <1>6, <1>7, <1>8, <1>9, <1>10, <1>11, <1>12, <1>13
     DEF Next, SetupNext

(* It holds always. *)
LEMMA AlwaysIInv == Spec => []IInv
BY InitIInv, StepIInv, PTL DEF Spec

-----------------------------------------------------------------------------
(* Which steps change the settings *)

(* Only a setup at its store and config apply do. *)
LEMMA SettingsChange ==
    ASSUME [Next]_vars, settings' # settings
    PROVE  \/ \E doc \in Applied : ConfigApplies(doc)
           \/ \E s \in Setup : StoresSettings(s)
BY DEF Next, SetupNext, Starts, LocksGate, ReadsSettings, ReadsShell, BacksUpSettings,
       BacksUpShell, StoresShell, Finishes, Dies, ShellEdited, vars

(* MIG-001: the settings a setup replaces are the ones it read and backed up *)
(* (apply_migration_plan under the exclusive gate of dispatch_setup).      *)
THEOREM ReplacesOnlyWhatItRead == Spec => ReplacesWhatItRead
<1> DEFINE Replaces(s) ==
        phase[s] = "store" /\ phase'[s] # "store" /\ settings' # settings =>
            settings = read[s].settings /\ backup[s].settings = settings
<1>1. IInv /\ [Next]_vars => \A s \in Setup : Replaces(s)
  BY DEF IInv, ReadHolds, BackupHolds
<1>2. IInv /\ [Next]_vars => [\A s \in Setup : Replaces(s)]_vars
  BY <1>1
<1>3. QED
  BY <1>2, AlwaysIInv, PTL DEF Spec, ReplacesWhatItRead

(* MIG-016: v10 settings are changed by config apply only: a setup that runs *)
(* again plans them as they are, an inline interval left behind included.  *)
THEOREM V10IsLeftAlone == Spec => MigratedIsLeftAlone
<1>1. ASSUME IInv, [Next]_vars, settings.kind = "v10", settings' # settings
      PROVE  applies' # applies
  <2>1. CASE \E doc \in Applied : ConfigApplies(doc)
    BY <2>1, <1>1 DEF ConfigApplies, IInv
  <2>2. ASSUME NEW s \in Setup, StoresSettings(s)
        PROVE  FALSE
    <3>1. read[s].settings = settings
      BY <2>2, <1>1 DEF StoresSettings, IInv, ReadHolds
    <3>2. settings' = settings
      BY <3>1, <2>2, <1>1, PlannedV10 DEF StoresSettings, IInv, WellFormed
    <3>3. QED
      BY <3>2, <1>1
  <2>3. QED
    BY <2>1, <2>2, <1>1, SettingsChange
<1>2. IInv /\ [Next]_vars =>
        [settings.kind = "v10" /\ settings' # settings => applies' # applies]_vars
  BY <1>1
<1>3. QED
  BY <1>2, AlwaysIInv, PTL DEF Spec, MigratedIsLeftAlone

-----------------------------------------------------------------------------
(* What `placed` returns *)

(* The first place of an id in a list *)
IsFirst(m, s, id) == m \in 1..Len(s) /\ s[m] = id /\ \A j \in 1..m-1 : s[j] # id

(* A set of numbers that is not empty has a least one. *)
LEMMA LeastExists ==
  ASSUME NEW I \in SUBSET Nat, I # {}
  PROVE  \E m \in I : \A j \in I : m <= j
<1>1. PICK m \in I : \A j \in I : ~(<<j, m>> \in less)
  BY WFMin, LessWF
<1>2. ASSUME NEW j \in I PROVE m <= j
  <2>1. j \in Nat /\ m \in Nat /\ ~(<<j, m>> \in less)
    BY <1>1
  <2>2. ~(j < m)
    BY <2>1, LessIs
  <2> QED BY <2>1, <2>2
<1> QED BY <1>2

(* FirstIn finds the first place of an id that a list contains. *)
LEMMA FirstInIsFirst ==
  ASSUME NEW S, NEW s \in Seq(S), NEW id, Contains(s, id)
  PROVE  IsFirst(FirstIn(s, id), s, id)
<1> DEFINE I == {i \in 1..Len(s) : s[i] = id}
<1>1. I \in SUBSET Nat /\ I # {} /\ I \subseteq 1..Len(s)
  BY DEF Contains
<1>2. FirstIn(s, id) = Min(I)
  BY <1>1 DEF FirstIn, SelectInSeq
<1>3. Min(I) \in I /\ \A j \in I : Min(I) <= j
  <2> HIDE DEF I
  <2>1. \E m \in I : \A j \in I : m <= j
    BY <1>1, LeastExists
  <2> QED BY <2>1 DEF Min
<1>4. Min(I) \in 1..Len(s) /\ s[Min(I)] = id
  BY <1>3
<1>5. ASSUME NEW j \in 1..Min(I)-1 PROVE s[j] # id
  <2>1. j \in 1..Len(s) /\ ~(Min(I) <= j)
    BY <1>4, <1>5
  <2> QED BY <1>3, <2>1
<1> HIDE DEF I
<1> QED BY <1>2, <1>4, <1>5 DEF IsFirst

(* There is one first place. *)
LEMMA FirstIsUnique ==
  ASSUME NEW S, NEW s \in Seq(S), NEW id, NEW m, NEW n, IsFirst(m, s, id), IsFirst(n, s, id)
  PROVE  m = n
BY DEF IsFirst

(* ranks are first places in the whole list *)
LEMMA RankIsFirst ==
  ASSUME NEW S, NEW names \in Seq(S), AllProviders \in Seq(S), NEW id, Contains(AllProviders, id)
  PROVE  IsFirst(Rank(id, names), names \o AllProviders, id)
<1> DEFINE seq == names \o AllProviders
<1>0. /\ seq \in Seq(S) /\ Len(seq) = Len(names) + Len(AllProviders)
      /\ \A i \in 1..Len(names) : seq[i] = names[i]
      /\ \A i \in 1..Len(AllProviders) : seq[Len(names) + i] = AllProviders[i]
      /\ \A i \in Len(names)+1..Len(seq) : seq[i] = AllProviders[i - Len(names)]
      /\ Len(names) \in Nat /\ Len(AllProviders) \in Nat
  OBVIOUS
<1>1. CASE Contains(names, id)
  <2>1. IsFirst(FirstIn(names, id), names, id)
    BY <1>1, FirstInIsFirst
  <2>2. Rank(id, names) = FirstIn(names, id)
    BY <1>1 DEF Rank
  <2> HIDE DEF seq
  <2>3. IsFirst(FirstIn(names, id), seq, id)
    BY <2>1, <1>0 DEF IsFirst
  <2> QED BY <2>2, <2>3 DEF seq
<1>2. CASE ~Contains(names, id)
  <2> DEFINE f == FirstIn(AllProviders, id)
  <2>1. IsFirst(f, AllProviders, id)
    BY FirstInIsFirst
  <2>2. Rank(id, names) = Len(names) + f
    BY <1>2 DEF Rank
  <2> HIDE DEF seq, f
  <2>3. Len(names) + f \in 1..Len(seq) /\ seq[Len(names) + f] = id
    BY <2>1, <1>0 DEF IsFirst
  <2>4. ASSUME NEW j \in 1..(Len(names) + f)-1 PROVE seq[j] # id
    <3>1. CASE j <= Len(names)
      BY <3>1, <1>0, <1>2 DEF Contains
    <3>2. CASE j > Len(names)
      <4>1. j - Len(names) \in 1..f-1 /\ j \in Len(names)+1..Len(seq)
        BY <3>2, <2>1, <1>0, <2>3 DEF IsFirst
      <4> QED BY <4>1, <2>1, <1>0 DEF IsFirst
    <3> QED BY <3>1, <3>2, <1>0, <2>1 DEF IsFirst
  <2>5. IsFirst(Len(names) + f, seq, id)
    BY <2>3, <2>4 DEF IsFirst
  <2> QED BY <2>2, <2>5 DEF seq
<1> QED BY <1>1, <1>2

(* and with nothing mentioned, in AllProviders twice over as well *)
LEMMA RankOfNone ==
  ASSUME NEW S, AllProviders \in Seq(S), NEW id, Contains(AllProviders, id)
  PROVE  /\ IsFirst(Rank(id, <<>>), AllProviders, id)
         /\ IsFirst(Rank(id, <<>>), AllProviders \o AllProviders, id)
<1>1. Rank(id, <<>>) = FirstIn(AllProviders, id)
  <2>1. ~Contains(<<>>, id) BY DEF Contains
  <2>2. IsFirst(FirstIn(AllProviders, id), AllProviders, id)
    BY FirstInIsFirst
  <2>3. FirstIn(AllProviders, id) \in Nat
    BY <2>2 DEF IsFirst
  <2>4. Len(<<>>) = 0 OBVIOUS
  <2> QED BY <2>1, <2>3, <2>4 DEF Rank
<1>2. IsFirst(FirstIn(AllProviders, id), AllProviders, id)
  BY FirstInIsFirst
<1>3. Rank(id, AllProviders) = FirstIn(AllProviders, id)
  BY DEF Rank
<1>4. IsFirst(Rank(id, AllProviders), AllProviders \o AllProviders, id)
  BY RankIsFirst
<1> QED BY <1>1, <1>2, <1>3, <1>4

Placing(k, seq, ids) ==
    /\ \A i \in 1..Len(ids) : Contains(AllProviders, ids[i])
    /\ \A i \in 1..Len(ids) : \E m \in 1..k : seq[m] = ids[i]
    /\ \A m \in 1..k : Contains(AllProviders, seq[m]) => Contains(ids, seq[m])
    /\ \A i, j \in 1..Len(ids) : i < j =>
         \E m \in 1..k : seq[m] = ids[i] /\ \A l \in 1..m : seq[l] # ids[j]

(* One more name placed. *)
LEMMA PlacingStep ==
  ASSUME NEW S, NEW seq \in Seq(S), NEW k \in Nat, k + 1 <= Len(seq), NEW ids \in Seq(S),
         Placing(k, seq, ids)
  PROVE  Placing(k + 1, seq, place(ids, seq[k + 1]))
<1> DEFINE id == seq[k + 1]
<1>0. /\ id \in S /\ k + 1 \in 1..k+1
      /\ \A m \in 1..k : m \in 1..k+1
      /\ \A m \in 1..k+1 : m = k + 1 \/ m \in 1..k
  OBVIOUS
<1>1. CASE Contains(AllProviders, id) /\ ~Contains(ids, id)
  <2> DEFINE new == Append(ids, id)
             n == Len(ids)
  <2>1. place(ids, id) = new
    BY <1>1 DEF place
  <2>2. /\ n \in Nat /\ Len(new) = n + 1 /\ new[n + 1] = id
        /\ \A i \in 1..n : new[i] = ids[i] /\ i \in 1..n+1
        /\ \A i \in 1..n+1 : i = n + 1 \/ i \in 1..n
        /\ n + 1 \in 1..n+1
    OBVIOUS
  <2> HIDE DEF new, id
  <2>3. \A i \in 1..Len(new) : Contains(AllProviders, new[i])
    BY <1>1, <2>2 DEF Placing, n
  <2>4. \A i \in 1..Len(new) : \E m \in 1..k+1 : seq[m] = new[i]
    <3>1. ASSUME NEW i \in 1..n PROVE \E m \in 1..k+1 : seq[m] = new[i]
      BY <2>2, <1>0 DEF Placing
    <3>2. \E m \in 1..k+1 : seq[m] = new[n + 1]
      BY <2>2, <1>0 DEF id
    <3> HIDE DEF n
    <3> QED BY <3>1, <3>2, <2>2
  <2>5. \A m \in 1..k+1 : Contains(AllProviders, seq[m]) => Contains(new, seq[m])
    <3>1. \A x : Contains(ids, x) => Contains(new, x)
      BY <2>2 DEF Contains
    <3>2. Contains(new, id)
      BY <2>2 DEF Contains
    <3> QED BY <3>1, <3>2, <1>0 DEF Placing, id
  <2>6. ASSUME NEW i \in 1..Len(new), NEW j \in 1..Len(new), i < j
        PROVE  \E m \in 1..k+1 : seq[m] = new[i] /\ \A l \in 1..m : seq[l] # new[j]
    <3>1. i \in 1..n /\ new[i] = ids[i]
      BY <2>2, <2>6
    <3>2. CASE j \in 1..n
      <4>1. new[j] = ids[j]
        BY <2>2, <3>2
      <4>2. PICK m \in 1..k : seq[m] = ids[i] /\ \A l \in 1..m : seq[l] # ids[j]
        BY <3>1, <3>2, <2>6 DEF Placing
      <4> QED BY <3>1, <4>1, <4>2, <1>0
    <3>3. CASE j = n + 1
      <4>1. PICK m \in 1..k : seq[m] = ids[i]
        BY <3>1 DEF Placing
      <4>2. ASSUME NEW l \in 1..m PROVE seq[l] # id
        <5>1. l \in 1..k OBVIOUS
        <5> QED BY <5>1, <1>1 DEF Placing
      <4> QED BY <4>1, <4>2, <3>1, <3>3, <2>2, <1>0
    <3> QED BY <3>2, <3>3, <2>2
  <2> QED BY <2>1, <2>3, <2>4, <2>5, <2>6 DEF Placing, id
<1>2. CASE ~(Contains(AllProviders, id) /\ ~Contains(ids, id))
  <2>1. place(ids, id) = ids
    BY <1>2 DEF place
  <2> HIDE DEF id
  <2>2. \A m \in 1..k+1 : Contains(AllProviders, seq[m]) => Contains(ids, seq[m])
    BY <1>0, <1>2 DEF Placing, id
  <2>3. \A i \in 1..Len(ids) : \E m \in 1..k+1 : seq[m] = ids[i]
    BY <1>0 DEF Placing
  <2>4. \A i, j \in 1..Len(ids) : i < j =>
         \E m \in 1..k+1 : seq[m] = ids[i] /\ \A l \in 1..m : seq[l] # ids[j]
    BY <1>0 DEF Placing
  <2> QED BY <2>1, <2>2, <2>3, <2>4 DEF Placing, id
<1> QED BY <1>1, <1>2

(* The whole list, one name after the other. *)
LEMMA PlacedIsPlacing ==
  ASSUME NEW S, NEW names \in Seq(S), AllProviders \in Seq(S)
  PROVE  /\ placed(names) \in Seq(S)
         /\ Placing(Len(names \o AllProviders), names \o AllProviders, placed(names))
<1> DEFINE seq == names \o AllProviders
           n == Len(seq)
<1>1. seq \in Seq(S) /\ n \in Nat
  OBVIOUS
<1>2. PICK g \in [0..n -> Seq(S)] :
        /\ g[0] = <<>>
        /\ \A k \in 1..n : g[k] = place(g[k - 1], seq[k])
        /\ placed(names) = g[n]
  <2>1. PICK g \in [0..Len(seq) -> Seq(S)] :
           /\ g[0] = <<>>
           /\ \A k \in 1..Len(seq) : g[k] = place(g[k - 1], seq[k])
           /\ \A other : seq = other \o AllProviders => placed(other) = g[Len(seq)]
    <3> HIDE DEF seq
    <3> QED BY <1>1, PlacedIterates
  <2>2. placed(names) = g[Len(seq)]
    BY <2>1
  <2> HIDE DEF seq
  <2> QED BY <2>1, <2>2
<1> HIDE DEF seq
<1>3. Placing(0, seq, g[0])
  BY <1>2 DEF Placing
<1> DEFINE G == {k \in Nat : k <= n => Placing(k, seq, g[k])}
<1>4. 0 \in G
  BY <1>3
<1>5. ASSUME NEW k \in Nat, k \in G PROVE k + 1 \in G
  <2> SUFFICES ASSUME k + 1 <= n PROVE Placing(k + 1, seq, g[k + 1])
    OBVIOUS
  <2>1. Placing(k, seq, g[k]) /\ k \in 0..n /\ k + 1 \in 1..n /\ g[k] \in Seq(S)
    BY <1>1, <1>5
  <2>2. g[k + 1] = place(g[k], seq[k + 1])
    BY <1>2, <2>1
  <2> QED BY <2>1, <2>2, <1>1, PlacingStep
<1>6. Nat \subseteq G
  <2> HIDE DEF G
  <2> QED BY <1>4, <1>5, SetInduction
<1>7. Placing(n, seq, g[n])
  BY <1>1, <1>6
<1> QED BY <1>1, <1>2, <1>7 DEF seq, n

(* What placed returns: every provider once, by rank *)
LEMMA PlacedIsRanking ==
  ASSUME NEW S, NEW names \in Seq(S), AllProviders \in Seq(S)
  PROVE  /\ placed(names) \in Seq(S)
         /\ Len(placed(names)) = Len(AllProviders)
         /\ Range(placed(names)) = Range(AllProviders)
         /\ \A i, j \in 1..Len(placed(names)) : i < j =>
              Rank(placed(names)[i], names) < Rank(placed(names)[j], names)
<1> DEFINE seq == names \o AllProviders
           p == placed(names)
           A == AllProviders
<1>0. /\ seq \in Seq(S) /\ Len(seq) = Len(names) + Len(A)
      /\ \A i \in 1..Len(A) : Len(names) + i \in 1..Len(seq) /\ seq[Len(names) + i] = A[i]
      /\ Len(A) \in Nat /\ DOMAIN A = 1..Len(A) /\ A \in [1..Len(A) -> Range(A)]
  BY DEF Range
<1>1. p \in Seq(S) /\ Placing(Len(seq), seq, p)
  BY PlacedIsPlacing
<1>2. Len(p) \in Nat /\ DOMAIN p = 1..Len(p)
  BY <1>1
<1> HIDE DEF p, seq
<1>3. Range(p) = Range(A)
  <2>1. ASSUME NEW x \in Range(p) PROVE x \in Range(A)
    BY <1>0, <1>1, <1>2, <2>1 DEF Range, Placing, Contains
  <2>2. ASSUME NEW x \in Range(A) PROVE x \in Range(p)
    <3>1. PICK i \in 1..Len(A) : A[i] = x
      BY <1>0, <2>2 DEF Range
    <3>2. Contains(A, x) /\ Len(names) + i \in 1..Len(seq) /\ seq[Len(names) + i] = x
      BY <1>0, <3>1 DEF Contains
    <3>3. Contains(p, x)
      BY <1>1, <3>2 DEF Placing
    <3> QED BY <3>3, <1>2 DEF Contains, Range
  <2> QED BY <2>1, <2>2
<1>4. ASSUME NEW i \in 1..Len(p), NEW j \in 1..Len(p), i < j
      PROVE  Rank(p[i], names) < Rank(p[j], names)
  <2>1. Contains(A, p[i]) /\ Contains(A, p[j])
    BY <1>1 DEF Placing
  <2>2. /\ IsFirst(Rank(p[i], names), seq, p[i])
        /\ IsFirst(Rank(p[j], names), seq, p[j])
    BY <2>1, RankIsFirst DEF seq
  <2>3. PICK m \in 1..Len(seq) : seq[m] = p[i] /\ \A l \in 1..m : seq[l] # p[j]
    BY <1>1, <1>4 DEF Placing
  <2> DEFINE r == Rank(p[i], names)
             t == Rank(p[j], names)
  <2> HIDE DEF r, t
  <2>4. r \in 1..Len(seq) /\ t \in 1..Len(seq) /\ seq[t] = p[j] /\ \A l \in 1..r-1 : seq[l] # p[i]
    BY <2>2 DEF IsFirst, r, t
  <2>5. r <= m
    BY <2>3, <2>4, <1>0
  <2>6. t > m
    BY <2>3, <2>4, <1>0
  <2>7. r < t
    BY <2>4, <2>5, <2>6, <1>0
  <2> QED BY <2>7 DEF r, t
<1>5. \A i, j \in 1..Len(p) : p[i] = p[j] => i = j
  <2>1. \A i \in 1..Len(p) : Rank(p[i], names) \in Nat
    BY <1>1, RankIsFirst DEF Placing, IsFirst
  <2> SUFFICES ASSUME NEW i \in 1..Len(p), NEW j \in 1..Len(p), i < j, p[i] = p[j] PROVE FALSE
    BY <1>2
  <2>2. Rank(p[i], names) < Rank(p[j], names)
    BY <1>4
  <2> QED BY <2>1, <2>2
<1>6. Len(p) = Len(A)
  <2>1. p \in Bijection(1..Len(p), Range(A))
    <3>1. p \in [1..Len(p) -> Range(A)]
      <4>1. \A i \in 1..Len(p) : p[i] \in Range(p)
        BY <1>2 DEF Range
      <4>2. p \in [1..Len(p) -> S]
        BY <1>1
      <4> QED BY <4>1, <4>2, <1>3
    <3>2. \A x \in Range(A) : \E i \in 1..Len(p) : p[i] = x
      BY <1>2, <1>3 DEF Range
    <3> QED BY <3>1, <3>2, <1>5 DEF Bijection, Injection, Surjection, IsInjective
  <2>2. A \in Bijection(1..Len(A), Range(A))
    <3>1. \A x \in Range(A) : \E i \in 1..Len(A) : A[i] = x
      BY <1>0 DEF Range
    <3>2. \A i, j \in 1..Len(A) : A[i] = A[j] => i = j
      BY <1>0, AllProvidersAssumption DEF IsInjective
    <3> QED BY <3>1, <3>2, <1>0 DEF Bijection, Injection, Surjection, IsInjective
  <2>3. \A n \in Nat : IsFiniteSet(1..n) /\ Cardinality(1..n) = n
    BY FS_Interval
  <2>4. Cardinality(Range(A)) = Len(p)
    BY <2>1, <2>3, <1>2, FS_Bijection DEF ExistsBijection
  <2>5. Cardinality(Range(A)) = Len(A)
    BY <2>2, <2>3, <1>0, FS_Bijection DEF ExistsBijection
  <2> QED BY <2>4, <2>5
<1> QED BY <1>1, <1>3, <1>4, <1>6 DEF p

(* What a migration makes of a document that is not v10 *)
Ranked(providers, doc) ==
    /\ Len(providers) = Len(AllProviders)
    /\ \A n \in 1 .. Len(providers) - 1 :
         Rank(providers[n].id, Mentioned(doc)) < Rank(providers[n + 1].id, Mentioned(doc))
    /\ \A n \in DOMAIN providers : providers[n].enabled = EnabledIn(doc, providers[n].id)

(* A migrated document shows the providers in the order of the ranks. *)
LEMMA MigratedIsRanked ==
  ASSUME NEW doc \in Settings0, doc.kind # "v10"
  PROVE  Ranked(migrated(doc).providers, doc)
<1> DEFINE A == AllProviders
<1>0. A \in Seq(Range(A)) /\ Len(A) \in Nat /\ DOMAIN A = 1..Len(A)
  BY AllProvidersAssumption
<1>1. CASE doc.kind # "v9"
  <2> DEFINE list1 == [n \in DOMAIN A |-> [id |-> A[n], enabled |-> TRUE]]
  <2>1. migrated(doc).providers = list1
    BY <1>1 DEF migrated, defaults, v10
  <2>2. list1 \in [1..Len(A) -> [id : Range(A), enabled : BOOLEAN]]
    BY <1>0
  <2>3. Len(list1) = Len(A)
    BY <1>0
  <2>4. \A n \in 1..Len(A) : Rank(A[n], <<>>) = n
    <3> SUFFICES ASSUME NEW n \in 1..Len(A) PROVE Rank(A[n], <<>>) = n
      OBVIOUS
    <3>1. Contains(A, A[n])
      BY DEF Contains
    <3>2. IsFirst(Rank(A[n], <<>>), A, A[n])
      BY <1>0, <3>1, RankOfNone
    <3>3. \A r \in 1..Len(A) : A[r] = A[n] => r = n
      BY <1>0, AllProvidersAssumption DEF IsInjective
    <3> QED BY <3>2, <3>3 DEF IsFirst
  <2>5. Mentioned(doc) = <<>>
    BY <1>1 DEF Mentioned
  <2>6. \A n \in 1..Len(A) : list1[n].id = A[n] /\ list1[n].enabled = TRUE
    BY <1>0
  <2>7. \A x : EnabledIn(doc, x) = TRUE
    BY <1>1 DEF EnabledIn
  <2>8. DOMAIN list1 = 1..Len(A)
    BY <1>0
  <2> HIDE DEF list1
  <2>9. \A n \in 1..Len(list1)-1 :
           Rank(list1[n].id, Mentioned(doc)) < Rank(list1[n + 1].id, Mentioned(doc))
    BY <1>0, <2>3, <2>4, <2>5, <2>6
  <2>10. \A n \in DOMAIN list1 : list1[n].enabled = EnabledIn(doc, list1[n].id)
    BY <2>6, <2>7, <2>8
  <2> QED BY <2>1, <2>3, <2>9, <2>10 DEF Ranked
<1>2. CASE doc.kind = "v9"
  <2> DEFINE enabledList == IF doc.enabled.given THEN doc.enabled.names ELSE AllProviders
             orderList   == IF doc.order.given THEN doc.order.names ELSE enabledList
             ids         == placed(orderList)
             anyEnabled  == \E n \in DOMAIN ids : Contains(enabledList, ids[n])
             list1 == [n \in DOMAIN ids |->
                [id |-> ids[n], enabled |-> Contains(enabledList, ids[n]) \/ ~anyEnabled]]
             S == Range(doc.enabled.names) \cup Range(doc.order.names) \cup Range(A)
  <2>1. migrated(doc).providers = list1
    BY <1>2 DEF migrated, fromV9, v10
  <2>2. A \in Seq(S) /\ doc.enabled.names \in Seq(S) /\ doc.order.names \in Seq(S)
    <3>1. doc.enabled.names \in Seq(Range(doc.enabled.names))
            /\ doc.order.names \in Seq(Range(doc.order.names))
      BY <1>2, DocumentsAssumption DEF isSeq
    <3>2. \A s, T, U : s \in Seq(T) /\ T \subseteq U => s \in Seq(U)
      OBVIOUS
    <3> QED BY <1>0, <3>1, <3>2
  <2>3. enabledList \in Seq(S) /\ orderList \in Seq(S)
    BY <2>2
  <2> HIDE DEF S, A
  <2>4. /\ ids \in Seq(S) /\ Len(ids) = Len(A) /\ Range(ids) = Range(A)
        /\ \A i, j \in 1..Len(ids) : i < j => Rank(ids[i], orderList) < Rank(ids[j], orderList)
    <3> HIDE DEF orderList
    <3> QED BY <2>2, <2>3, PlacedIsRanking DEF A
  <2>5. ASSUME NEW i \in 1..Len(ids)
        PROVE  Contains(A, ids[i]) /\ ids[i] \in Range(A)
    <3>1. ids[i] \in Range(ids)
      BY <2>4 DEF Range
    <3> QED BY <3>1, <2>4, <1>0 DEF Contains, Range
  <2>6. ASSUME NEW i \in 1..Len(ids)
        PROVE  Rank(ids[i], Mentioned(doc)) = Rank(ids[i], orderList)
    <3>1. CASE doc.order.given \/ doc.enabled.given
      BY <3>1, <1>2 DEF Mentioned
    <3>2. CASE ~doc.order.given /\ ~doc.enabled.given
      <4>1. Mentioned(doc) = <<>> /\ orderList = A
        BY <3>2, <1>2 DEF Mentioned, A
      <4>2. IsFirst(Rank(ids[i], <<>>), A \o A, ids[i])
        BY <2>2, <2>5, RankOfNone DEF A
      <4>3. IsFirst(Rank(ids[i], A), A \o A, ids[i])
        BY <2>2, <2>5, RankIsFirst DEF A
      <4>4. A \o A \in Seq(S)
        BY <2>2
      <4>5. Rank(ids[i], <<>>) = Rank(ids[i], A)
        <5> DEFINE s == A \o A
                   m == Rank(ids[i], <<>>)
                   n == Rank(ids[i], A)
                   id == ids[i]
        <5> HIDE DEF s, m, n, id
        <5>1. s \in Seq(S) /\ IsFirst(m, s, id) /\ IsFirst(n, s, id)
          BY <4>2, <4>3, <4>4 DEF s, m, n, id
        <5>2. m = n
          BY <5>1, FirstIsUnique
        <5> QED BY <5>2 DEF m, n
      <4> QED BY <4>1, <4>5
    <3> QED BY <3>1, <3>2
  <2>7. ASSUME NEW i \in 1..Len(ids)
        PROVE  (Contains(enabledList, ids[i]) \/ ~anyEnabled) = EnabledIn(doc, ids[i])
    <3>1. CASE ~doc.enabled.given
      BY <3>1, <2>5 DEF EnabledIn, A
    <3>2. CASE doc.enabled.given
      <4>1. enabledList = doc.enabled.names
        BY <3>2
      <4>2. DOMAIN ids = 1..Len(ids)
        BY <2>4
      <4>3. \A x : Contains(doc.enabled.names, x) <=> x \in Range(doc.enabled.names)
        <5>1. DOMAIN doc.enabled.names = 1..Len(doc.enabled.names)
          BY <2>2
        <5> QED BY <5>1 DEF Contains, Range
      <4>4. anyEnabled <=> Range(doc.enabled.names) \cap Range(ids) # {}
        <5> HIDE DEF ids, enabledList
        <5> QED BY <4>1, <4>3 DEF Range
      <4>5. Contains(doc.enabled.names, ids[i]) \in BOOLEAN
        BY DEF Contains
      <4> HIDE DEF ids, anyEnabled, enabledList
      <4>6. EnabledIn(doc, ids[i]) <=> Contains(doc.enabled.names, ids[i]) \/ ~anyEnabled
        BY <1>2, <3>2, <4>4, <2>4 DEF EnabledIn, A
      <4> QED BY <4>1, <4>5, <4>6 DEF EnabledIn, anyEnabled, Contains
    <3> QED BY <3>1, <3>2
  <2>8. Len(ids) \in Nat /\ DOMAIN ids = 1..Len(ids)
    BY <2>4
  <2> HIDE DEF ids, anyEnabled, enabledList, orderList
  <2>9. /\ DOMAIN list1 = 1..Len(ids) /\ Len(list1) = Len(ids)
        /\ \A n \in 1..Len(ids) :
             /\ list1[n].id = ids[n]
             /\ list1[n].enabled = (Contains(enabledList, ids[n]) \/ ~anyEnabled)
    BY <2>8
  <2> HIDE DEF list1
  <2>10. ASSUME NEW n \in 1 .. Len(list1) - 1
         PROVE  Rank(list1[n].id, Mentioned(doc)) < Rank(list1[n + 1].id, Mentioned(doc))
    <3>1. n \in 1..Len(ids) /\ n + 1 \in 1..Len(ids) /\ n < n + 1
      BY <2>8, <2>9
    <3>2. Rank(ids[n], orderList) < Rank(ids[n + 1], orderList)
      BY <2>4, <3>1
    <3> QED BY <3>1, <3>2, <2>6, <2>9
  <2>11. \A n \in DOMAIN list1 : list1[n].enabled = EnabledIn(doc, list1[n].id)
    BY <2>7, <2>9
  <2> QED BY <2>1, <2>4, <2>9, <2>10, <2>11 DEF Ranked, A
<1> QED BY <1>1, <1>2

-----------------------------------------------------------------------------
(* What a migration preserves *)

(* What MIG-009 and MIG-010 rest on: settings that are not v10 are those that *)
(* were found, with the inline interval that was found beside them; so v10   *)
(* settings that nobody configured are the plan of those two documents.      *)
OriginHolds ==
    /\ original.settings \in Settings0
    /\ settings.kind # "v10" =>
         settings = original.settings /\ shell.inline = original.shell.inline
    /\ \A s \in Setup :
         /\ phase[s] \in {"backup", "store"} /\ settings.kind # "v10" =>
              read[s].shell.inline = original.shell.inline
         /\ phase[s] \in {"backupShell", "storeShell"} => settings.kind = "v10"
    /\ settings.kind = "v10" /\ original.settings.kind # "v10" /\ applies = 0 =>
         settings = planned(original.settings, original.shell)

(* The origin is the document itself at first. *)
LEMMA InitOriginHolds == Init => OriginHolds
BY DEF Init, OriginHolds

(* What is planned for an inline document is its migration. *)
LEMMA PlannedByInline ==
    ASSUME NEW doc, NEW sh, NEW other, sh.inline = other.inline
    PROVE  planned(doc, sh) = planned(doc, other) /\ planned(doc, sh).kind = "v10"
BY DEF planned, v10

(* Every step of the migration keeps the origin. *)
LEMMA StepOriginHolds == IInv /\ OriginHolds /\ [Next]_vars => OriginHolds'
<1> SUFFICES ASSUME IInv, OriginHolds, [Next]_vars PROVE OriginHolds'
  OBVIOUS
<1> USE SetupAssumption
<1>1. ASSUME NEW s \in Setup, Starts(s) PROVE OriginHolds'
  BY <1>1 DEF Starts, goes, OriginHolds, IInv, Shaped
<1>2. ASSUME NEW s \in Setup, LocksGate(s) PROVE OriginHolds'
  BY <1>2 DEF LocksGate, goes, OriginHolds, IInv, Shaped
<1>3. ASSUME NEW s \in Setup, ReadsSettings(s) PROVE OriginHolds'
  BY <1>3 DEF ReadsSettings, goes, OriginHolds, IInv, Shaped
<1>4. ASSUME NEW s \in Setup, ReadsShell(s) PROVE OriginHolds'
  BY <1>4 DEF ReadsShell, goes, OriginHolds, IInv, Shaped
<1>5. ASSUME NEW s \in Setup, BacksUpSettings(s) PROVE OriginHolds'
  BY <1>5 DEF BacksUpSettings, goes, OriginHolds, IInv, Shaped
<1>6. ASSUME NEW s \in Setup, StoresSettings(s) PROVE OriginHolds'
  <2>1. read[s].settings = settings /\ settings' = planned(settings, read[s].shell)
    BY <1>6 DEF StoresSettings, IInv, ReadHolds
  <2>2. settings'.kind = "v10"
    BY <2>1, PlannedByInline
  <2>3. CASE settings.kind = "v10"
    <3>1. settings' = settings
      BY <2>1, <2>3, PlannedV10 DEF IInv, WellFormed
    <3> QED BY <1>6, <2>2, <3>1 DEF StoresSettings, goes, OriginHolds, IInv, Shaped
  <2>4. CASE settings.kind # "v10"
    <3>1. settings' = planned(original.settings, original.shell)
      BY <1>6, <2>1, <2>4, PlannedByInline DEF StoresSettings, OriginHolds
    <3> QED BY <1>6, <2>2, <3>1 DEF StoresSettings, goes, OriginHolds, IInv, Shaped
  <2> QED BY <2>3, <2>4
<1>7. ASSUME NEW s \in Setup, BacksUpShell(s) PROVE OriginHolds'
  BY <1>7 DEF BacksUpShell, goes, OriginHolds, IInv, Shaped
<1>8. ASSUME NEW s \in Setup, StoresShell(s) PROVE OriginHolds'
  BY <1>8 DEF StoresShell, goes, OriginHolds, IInv, Shaped
<1>9. ASSUME NEW s \in Setup, Finishes(s) PROVE OriginHolds'
  BY <1>9 DEF Finishes, ends, goes, OriginHolds, IInv, Shaped
<1>10. ASSUME NEW s \in Setup, Dies(s) PROVE OriginHolds'
  BY <1>10 DEF Dies, ends, goes, OriginHolds, IInv, Shaped
<1>11. ASSUME NEW doc \in Applied, ConfigApplies(doc) PROVE OriginHolds'
  <2>1. settings'.kind = "v10" /\ applies' # 0
    BY <1>11, DocumentsAssumption DEF ConfigApplies, IInv, isV10, v10
  <2> QED BY <1>11, <2>1 DEF ConfigApplies, OriginHolds
<1>12. CASE ShellEdited
  <2>1. shell'.inline = shell.inline
    BY <1>12 DEF ShellEdited
  <2> QED BY <1>12, <2>1 DEF ShellEdited, OriginHolds
<1>13. CASE UNCHANGED vars
  BY <1>13 DEF vars, OriginHolds
<1>14. QED
  BY <1>1, <1>2, <1>3, <1>4, <1>5, <1>6, <1>7, <1>8, <1>9, <1>10, <1>11, <1>12, <1>13
     DEF Next, SetupNext

(* What is on disk is the origin or its migration, always. *)
LEMMA AlwaysOriginHolds == Spec => []OriginHolds
<1>1. IInv /\ IInv' /\ OriginHolds /\ [Next]_vars => OriginHolds'
  BY StepOriginHolds
<1> QED BY <1>1, InitOriginHolds, AlwaysIInv, PTL DEF Spec

(* The interval of what is planned for a document that can be converted. *)
LEMMA PlannedInterval ==
    ASSUME NEW doc, NEW sh, Convertible(doc)
    PROVE  planned(doc, sh).interval =
             IF IntervalOf(doc) # 0 THEN IntervalOf(doc)
             ELSE IF sh.inline # 0 THEN sh.inline ELSE DefaultInterval
<1>1. CASE doc.kind = "v9"
  <2>1. doc.interval # 0 => asU32(doc.interval) = doc.interval
    BY <1>1, FittingIsKept, IntervalAssumption DEF Convertible
  <2> HIDE DEF asU32
  <2> QED BY <1>1, <2>1 DEF planned, hasInterval, migrated, fromV9, v10, IntervalOf
<1>2. CASE doc.kind # "v9"
  BY <1>2 DEF Convertible, planned, hasInterval, migrated, defaults, v10, IntervalOf
<1> QED BY <1>1, <1>2

(* What MIG-015 rests on: while nobody configures, no setup of documents that  *)
(* are refused goes further than its reading, so both files stay.            *)
RefusedHolds ==
    applies = 0 /\ Refused(original.settings, original.shell) =>
        /\ settings = original.settings
        /\ shell.inline = original.shell.inline /\ shell.state = original.shell.state
        /\ \A s \in Setup : phase[s] \in {"idle", "gate", "locked", "shell", "done", "gone"}

(* The plan of refused documents aborts. *)
LEMMA RefusedAborts ==
    ASSUME NEW doc, NEW sh, NEW other, Refused(doc, other),
           sh.inline = other.inline, sh.state = other.state
    PROVE  aborts(doc, sh)
<1>1. ASSUME doc.kind = "v9", doc.interval \in (1..Word - 1) \ Interval
      PROVE  doc.interval # 0 /\ asU32(doc.interval) \notin Interval
  BY <1>1, FittingIsKept
<1> HIDE DEF asU32
<1> QED BY <1>1 DEF Refused, aborts

(* Refused documents are where they were found at first. *)
LEMMA InitRefusedHolds == Init => RefusedHolds
BY DEF Init, RefusedHolds

(* Every step leaves refused documents where they are. *)
LEMMA StepRefusedHolds == IInv /\ RefusedHolds /\ [Next]_vars => RefusedHolds'
<1> SUFFICES ASSUME IInv, RefusedHolds, [Next]_vars PROVE RefusedHolds'
  OBVIOUS
<1> HIDE DEF Refused
<1>0. phase \in [Setup -> Phase]
  BY DEF IInv, Shaped
<1>1. ASSUME NEW s \in Setup, Starts(s) \/ LocksGate(s) \/ ReadsSettings(s) PROVE RefusedHolds'
  BY <1>0, <1>1 DEF Starts, LocksGate, ReadsSettings, goes, RefusedHolds
<1>2. ASSUME NEW s \in Setup, ReadsShell(s) PROVE RefusedHolds'
  <2>1. read[s].settings = settings
    BY <1>2 DEF ReadsShell, IInv, ReadHolds
  <2>2. ASSUME applies = 0, Refused(original.settings, original.shell)
        PROVE  aborts(read[s].settings, shell)
    BY <2>1, <2>2, RefusedAborts DEF RefusedHolds
  <2>3. ASSUME applies = 0, Refused(original.settings, original.shell)
        PROVE  phase' = [phase EXCEPT ![s] = "gone"]
    <3> HIDE DEF aborts
    <3> QED BY <1>2, <2>2, <2>3 DEF ReadsShell, goes
  <2>4. UNCHANGED <<settings, shell, original, applies>>
    BY <1>2 DEF ReadsShell
  <2> QED BY <1>0, <2>3, <2>4 DEF RefusedHolds
<1>3. ASSUME NEW s \in Setup,
             BacksUpSettings(s) \/ StoresSettings(s) \/ BacksUpShell(s) \/ StoresShell(s)
      PROVE  RefusedHolds'
  <2>1. phase[s] \in {"backup", "store", "backupShell", "storeShell"}
    BY <1>3 DEF BacksUpSettings, StoresSettings, BacksUpShell, StoresShell
  <2>2. ~(applies = 0 /\ Refused(original.settings, original.shell))
    BY <2>1 DEF RefusedHolds
  <2>3. UNCHANGED <<original, applies>>
    BY <1>3 DEF BacksUpSettings, StoresSettings, BacksUpShell, StoresShell
  <2> QED BY <2>2, <2>3 DEF RefusedHolds
<1>4. ASSUME NEW s \in Setup, Finishes(s) \/ Dies(s) PROVE RefusedHolds'
  BY <1>0, <1>4 DEF Finishes, Dies, ends, goes, RefusedHolds
<1>5. ASSUME NEW doc \in Applied, ConfigApplies(doc) PROVE RefusedHolds'
  BY <1>5 DEF ConfigApplies, RefusedHolds, IInv
<1>6. CASE ShellEdited
  <2>1. shell'.inline = shell.inline /\ shell'.state = shell.state
    BY <1>6 DEF ShellEdited
  <2> QED BY <1>6, <2>1 DEF ShellEdited, RefusedHolds
<1>7. CASE UNCHANGED vars
  BY <1>7 DEF vars, RefusedHolds
<1> QED
  BY <1>1, <1>2, <1>3, <1>4, <1>5, <1>6, <1>7 DEF Next, SetupNext

(* Refused documents stay, always, until somebody configures. *)
LEMMA AlwaysRefusedHolds == Spec => []RefusedHolds
<1>1. IInv /\ RefusedHolds /\ [Next]_vars => RefusedHolds'
  BY StepRefusedHolds
<1> QED BY <1>1, InitRefusedHolds, AlwaysIInv, PTL DEF Spec

(* A convertible document becomes, for any interval, any lists and any inline  *)
(* interval, one with its interval and with its providers in the order it had *)
(* them; one that is refused stays, until somebody configures; and the inline *)
(* interval is only dropped once the document has it (MigrationPlan::from_v9). *)
THEOREM SettingsArePreserved == Spec => []PreservesSettings
<1>1. ASSUME OriginHolds, RefusedHolds PROVE PreservesSettings
  <2>1. original.shell.inline # shell.inline => settings.kind = "v10"
    BY <1>1 DEF OriginHolds
  <2>2. applies = 0 /\ Refused(original.settings, original.shell) =>
           settings = original.settings /\ shell.inline = original.shell.inline
    BY <1>1 DEF RefusedHolds
  <2>3. ASSUME applies = 0, settings.kind = "v10", Convertible(original.settings)
        PROVE  /\ settings.interval = IF IntervalOf(original.settings) # 0
                   THEN IntervalOf(original.settings)
                   ELSE IF original.shell.inline # 0 THEN original.shell.inline ELSE DefaultInterval
               /\ Ranked(settings.providers, original.settings)
    <3>0. original.settings.kind # "v10"
      BY <2>3 DEF Convertible
    <3>1. settings = planned(original.settings, original.shell) /\ original.settings \in Settings0
      BY <1>1, <2>3, <3>0 DEF OriginHolds
    <3>2. settings.providers = migrated(original.settings).providers
      BY <3>1 DEF planned, v10
    <3> QED BY <2>3, <3>0, <3>1, <3>2, PlannedInterval, MigratedIsRanked
  <2> QED BY <2>1, <2>2, <2>3 DEF PreservesSettings, Ranked
<1> QED BY <1>1, AlwaysOriginHolds, AlwaysRefusedHolds, PTL

-----------------------------------------------------------------------------
(* WindowMapping: lists of windows *)
(* push_window_unique *)
LEMMA PushIsSeq ==
  ASSUME NEW S, NEW windows \in Seq(S), NEW window \in S
  PROVE  push_window_unique(windows, window) \in Seq(S)
BY DEF push_window_unique

(* pushedOnto, as an iteration over the windows that are pushed. *)
LEMMA PushedIterates ==
  ASSUME NEW S, NEW windows \in Seq(S), NEW seq \in Seq(S)
  PROVE  \E g \in [0..Len(seq) -> Seq(S)] :
           /\ g[0] = windows
           /\ \A k \in 1..Len(seq) : g[k] = push_window_unique(g[k - 1], seq[k])
           /\ pushedOnto(windows, seq) = g[Len(seq)]
<1> DEFINE n == Len(seq)
           D == Seq(S)
           step == [k \in 1..n |-> [ws \in D |-> push_window_unique(ws, seq[k])]]
           Eq(f) == f = [s \in SUBSET (DOMAIN seq) |->
             IF s = {} THEN windows ELSE push_window_unique(f[s \ {Max(s)}], seq[Max(s)])]
           iter == CHOOSE f : Eq(f)
<1>0. n \in Nat /\ windows \in D /\ DOMAIN seq = 1..n /\ \A k \in 1..n : seq[k] \in S
  OBVIOUS
<1>1. pushedOnto(windows, seq) = iter[DOMAIN seq]
  BY DEF pushedOnto, FoldLeft, MapThenFoldSet
<1>2. step \in [1..n -> [D -> D]]
  <2> SUFFICES ASSUME NEW k \in 1..n, NEW ws \in D PROVE push_window_unique(ws, seq[k]) \in D
    OBVIOUS
  <2> QED BY PushIsSeq
<1>3. \A k \in 1..n, ws \in D : step[k][ws] = push_window_unique(ws, seq[k])
  OBVIOUS
<1> HIDE DEF step, D
<1>4. PICK it \in [SUBSET (1..n) -> D] : Iterates(it, n, windows, step)
  <2> HIDE DEF n
  <2> QED BY <1>0, <1>2, IterationExists
<1>5. Eq(it)
  <2>1. ASSUME NEW s \in SUBSET (1..n), s # {}
        PROVE  it[s] = push_window_unique(it[s \ {Max(s)}], seq[Max(s)])
    <3> HIDE DEF n
    <3>1. Max(s) \in 1..n
      <4>1. Max(s) \in s
        BY <1>0, <2>1, MaxIsIn
      <4> QED BY <4>1
    <3>2. it[s] = step[Max(s)][it[s \ {Max(s)}]] /\ it[s \ {Max(s)}] \in D
      BY <1>4, <2>1 DEF Iterates
    <3> QED BY <1>3, <3>1, <3>2
  <2>2. it[{}] = windows
    BY <1>4 DEF Iterates
  <2> QED BY <2>1, <2>2, <1>0
<1>6. Eq(iter)
  <2> HIDE DEF Eq
  <2> QED BY <1>5
<1> HIDE DEF iter
<1>7. \A s \in SUBSET (1..n) : iter[s] =
         IF s = {} THEN windows ELSE push_window_unique(iter[s \ {Max(s)}], seq[Max(s)])
  BY <1>6, <1>0
<1>8. IteratesIn(D, iter, n, windows, step)
  <2> HIDE DEF n
  <2> SUFFICES ASSUME NEW s \in SUBSET (1..n), s # {}, iter[s \ {Max(s)}] \in D
               PROVE  iter[s] = step[Max(s)][iter[s \ {Max(s)}]]
    BY <1>7 DEF IteratesIn
  <2>1. Max(s) \in 1..n
    <3>1. Max(s) \in s
      BY <1>0, MaxIsIn
    <3> QED BY <3>1
  <2> QED BY <1>3, <1>7, <2>1
<1>9. PICK g \in [0..n -> D] :
           /\ g[0] = windows
           /\ \A k \in 1..n : g[k] = step[k][g[k - 1]]
           /\ iter[1..n] = g[n]
  <2> HIDE DEF n
  <2>1. ByPrefix(D, iter, n, windows, step)
    BY <1>0, <1>2, <1>8, PrefixIteration
  <2> QED BY <2>1 DEF ByPrefix
<1>10. \A k \in 1..n : g[k] = push_window_unique(g[k - 1], seq[k])
  <2> SUFFICES ASSUME NEW k \in 1..n PROVE g[k] = push_window_unique(g[k - 1], seq[k])
    OBVIOUS
  <2>1. k - 1 \in 0..n
    BY <1>0
  <2> QED BY <1>3, <1>9, <2>1
<1> QED BY <1>0, <1>1, <1>9, <1>10 DEF D

(* The ids of a list of windows. *)
Ids(windows) == {w.id : w \in Range(windows)}

(* What pushing windows keeps: the first ones in their place, every id,     *)
(* and no id twice.                                                         *)
LEMMA PushedOntoKeeps ==
  ASSUME NEW S, NEW windows \in Seq(S), NEW seq \in Seq(S)
  PROVE  LET all == pushedOnto(windows, seq) IN
         /\ all \in Seq(S)
         /\ Range(all) \subseteq Range(windows) \cup Range(seq)
         /\ Ids(all) = Ids(windows) \cup Ids(seq)
         /\ uniqueIds(windows) => uniqueIds(all)
         /\ Len(windows) <= Len(all)
         /\ \A i \in 1..Len(windows) : all[i] = windows[i]
<1> DEFINE n == Len(seq)
           Up(k) == {seq[i] : i \in 1..k}
           P(k, ws) == /\ Range(ws) \subseteq Range(windows) \cup Up(k)
                       /\ Ids(ws) = Ids(windows) \cup {w.id : w \in Up(k)}
                       /\ uniqueIds(windows) => uniqueIds(ws)
                       /\ Len(windows) <= Len(ws)
                       /\ \A i \in 1..Len(windows) : ws[i] = windows[i]
<1>0. n \in Nat /\ DOMAIN seq = 1..n /\ \A k \in 1..n : seq[k] \in S
  OBVIOUS
<1>1. PICK g \in [0..n -> Seq(S)] :
           /\ g[0] = windows
           /\ \A k \in 1..n : g[k] = push_window_unique(g[k - 1], seq[k])
           /\ pushedOnto(windows, seq) = g[n]
  BY PushedIterates
<1> HIDE DEF n
<1> DEFINE G == {k \in Nat : k <= n => P(k, g[k])}
<1>2. 0 \in G
  <2>1. Up(0) = {}
    OBVIOUS
  <2> HIDE DEF Up
  <2>2. P(0, windows)
    BY <2>1
  <2> HIDE DEF P
  <2> QED BY <1>1, <2>2
<1>3. ASSUME NEW k \in Nat, k \in G PROVE k + 1 \in G
  <2> SUFFICES ASSUME k + 1 <= n PROVE P(k + 1, g[k + 1])
    <3> HIDE DEF P
    <3> QED OBVIOUS
  <2>1. k + 1 \in 1..n /\ (k + 1) - 1 = k /\ k \in 0..n /\ k <= n
    BY <1>0
  <2>2. P(k, g[k])
    <3> HIDE DEF P
    <3> QED BY <1>3, <2>1
  <2>3. g[k] \in Seq(S) /\ seq[k + 1] \in S
    BY <1>0, <1>1, <2>1
  <2>4. g[k + 1] = push_window_unique(g[k], seq[k + 1])
    BY <1>1, <2>1
  <2>5. Up(k + 1) = Up(k) \cup {seq[k + 1]}
    <3>1. \A i : i \in 1..k+1 <=> i \in 1..k \/ i = k + 1
      OBVIOUS
    <3> QED BY <3>1
  <2> DEFINE old == g[k]
             w == seq[k + 1]
  <2>6. old \in Seq(S) /\ w \in S /\ g[k + 1] = push_window_unique(old, w)
    BY <2>3, <2>4
  <2> HIDE DEF Up, old, w
  <2>7. CASE \E i \in DOMAIN old : old[i].id = w.id
    <3>1. g[k + 1] = old
      BY <2>6, <2>7 DEF push_window_unique
    <3>2. w.id \in Ids(old)
      BY <2>7 DEF Ids, Range
    <3>3. {v.id : v \in Up(k + 1)} = {v.id : v \in Up(k)} \cup {w.id}
      BY <2>5 DEF w
    <3>4. Range(old) \subseteq Range(windows) \cup Up(k + 1)
      BY <2>2, <2>5 DEF old
    <3>5. Ids(old) = Ids(windows) \cup {v.id : v \in Up(k)}
      BY <2>2 DEF old
    <3> QED BY <2>2, <3>1, <3>2, <3>3, <3>4, <3>5 DEF old
  <2>8. CASE ~\E i \in DOMAIN old : old[i].id = w.id
    <3>1. g[k + 1] = Append(old, w)
      BY <2>6, <2>8 DEF push_window_unique
    <3> DEFINE new == Append(old, w)
               m == Len(old)
    <3>2. /\ m \in Nat /\ DOMAIN old = 1..m /\ DOMAIN new = 1..m+1 /\ new[m + 1] = w
          /\ \A i \in 1..m : new[i] = old[i] /\ i \in 1..m+1
          /\ \A i \in 1..m+1 : i \in 1..m \/ i = m + 1
      BY <2>6
    <3> HIDE DEF new, m
    <3>3. Range(new) = Range(old) \cup {w}
      <4>1. m + 1 \in 1..m+1
        BY <3>2
      <4> QED BY <3>2, <4>1 DEF Range
    <3>4. Ids(new) = Ids(old) \cup {w.id}
      BY <3>3 DEF Ids
    <3>5. uniqueIds(old) => uniqueIds(new)
      BY <3>2, <2>8 DEF uniqueIds
    <3>6. {v.id : v \in Up(k + 1)} = {v.id : v \in Up(k)} \cup {w.id}
      BY <2>5 DEF w
    <3>7. Range(new) \subseteq Range(windows) \cup Up(k + 1)
      BY <2>2, <2>5, <3>3 DEF old, w
    <3>8. Ids(old) = Ids(windows) \cup {v.id : v \in Up(k)}
      BY <2>2 DEF old
    <3>9. uniqueIds(windows) => uniqueIds(old)
      BY <2>2 DEF old
    <3>10. g[k + 1] = new
      BY <3>1 DEF new
    <3>11. Len(windows) <= Len(new) /\ \A i \in 1..Len(windows) : new[i] = windows[i]
      <4>1. /\ Len(windows) \in Nat /\ Len(windows) <= Len(old)
            /\ \A i \in 1..Len(windows) : old[i] = windows[i]
        BY <2>2 DEF old
      <4>2. Len(new) = m + 1 /\ Len(old) = m
        BY <2>6 DEF new, m
      <4> QED BY <3>2, <4>1, <4>2
    <3> QED BY <3>4, <3>5, <3>6, <3>7, <3>8, <3>9, <3>10, <3>11
  <2> QED BY <2>7, <2>8
<1>4. P(n, g[n])
  <2> HIDE DEF P
  <2>1. Nat \subseteq G
    <3> HIDE DEF G
    <3> QED BY <1>2, <1>3, SetInduction
  <2> QED BY <1>0, <2>1
<1>5. Up(n) = Range(seq)
  BY <1>0 DEF Range
<1>8. Len(windows) <= Len(g[n]) /\ \A i \in 1..Len(windows) : g[n][i] = windows[i]
  BY <1>4
<1> HIDE DEF Up
<1>6. Ids(seq) = {w.id : w \in Up(n)}
  BY <1>5 DEF Ids
<1>7. g[n] \in Seq(S)
  BY <1>0, <1>1
<1> QED BY <1>1, <1>4, <1>5, <1>6, <1>7, <1>8

(* A window, and a list of windows, whose percentages add up. *)
Sound(w) == {w.used, w.remaining} \subseteq 0..100 /\ w.used + w.remaining = 100

SoundList(windows) ==
    /\ windows \in Seq(Range(windows))
    /\ \A w \in Range(windows) : Sound(w)

(* No windows. *)
LEMMA EmptyIsSound == SoundList(<<>>) /\ Range(<<>>) = {} /\ Ids(<<>>) = {}
BY DEF SoundList, Range, Ids

(* One window. *)
LEMMA SingletonIsSound ==
  ASSUME NEW w
  PROVE  /\ Range(<<w>>) = {w} /\ Ids(<<w>>) = {w.id}
         /\ <<w>> \in Seq(Range(<<w>>))
         /\ Sound(w) => SoundList(<<w>>)
<1>1. <<w>> \in Seq({w}) /\ DOMAIN <<w>> = 1..1 /\ <<w>>[1] = w
  OBVIOUS
<1>2. Range(<<w>>) = {w}
  BY <1>1 DEF Range
<1> QED BY <1>1, <1>2 DEF SoundList, Ids

(* Two lists, one after the other. *)
LEMMA ConcatIsSound ==
  ASSUME NEW s, NEW t, SoundList(s), SoundList(t)
  PROVE  /\ SoundList(s \o t)
         /\ Range(s \o t) = Range(s) \cup Range(t)
         /\ Ids(s \o t) = Ids(s) \cup Ids(t)
<1> DEFINE S == Range(s) \cup Range(t)
<1>1. s \in Seq(S) /\ t \in Seq(S)
  BY DEF SoundList
<1>2. s \o t \in Seq(S)
  BY <1>1
<1>3. Range(s \o t) = Range(s) \cup Range(t)
  BY <1>1, RangeConcatenation
<1>4. SoundList(s \o t)
  BY <1>2, <1>3 DEF SoundList
<1> QED BY <1>3, <1>4 DEF Ids

(* A list of lists. *)
LEMMA FlattenIsSound ==
  ASSUME NEW n \in Nat, NEW seqs, seqs = [i \in 1..n |-> seqs[i]],
         \A i \in 1..n : SoundList(seqs[i])
  PROVE  /\ SoundList(FlattenSeq(seqs))
         /\ Range(FlattenSeq(seqs)) = UNION {Range(seqs[i]) : i \in 1..n}
         /\ Ids(FlattenSeq(seqs)) = UNION {Ids(seqs[i]) : i \in 1..n}
<1> DEFINE S == UNION {Range(seqs[i]) : i \in 1..n}
<1>1. \A i \in 1..n : seqs[i] \in Seq(S)
  <2> SUFFICES ASSUME NEW i \in 1..n PROVE seqs[i] \in Seq(S)
    OBVIOUS
  <2>1. seqs[i] \in Seq(Range(seqs[i])) /\ Range(seqs[i]) \subseteq S
    BY DEF SoundList
  <2> QED BY <2>1
<1>2. seqs \in Seq(Seq(S)) /\ Len(seqs) = n
  <2> HIDE DEF S
  <2>1. seqs \in [1..n -> Seq(S)]
    BY <1>1
  <2> QED BY <2>1
<1>3. FlattenSeq(seqs) \in Seq(S) /\ Range(FlattenSeq(seqs)) = S
  <2> HIDE DEF S
  <2>1. /\ FlattenSeq(seqs) \in Seq(S)
        /\ Range(FlattenSeq(seqs)) = UNION {Range(seqs[i]) : i \in 1..Len(seqs)}
    BY <1>2, RangeOfFlatten
  <2> QED BY <1>2, <2>1 DEF S
<1>4. SoundList(FlattenSeq(seqs))
  BY <1>3 DEF SoundList
<1>5. Ids(FlattenSeq(seqs)) = UNION {Ids(seqs[i]) : i \in 1..n}
  <2> HIDE DEF S
  <2>1. Ids(FlattenSeq(seqs)) = {w.id : w \in S}
    BY <1>3 DEF Ids
  <2>2. {w.id : w \in S} = UNION {{w.id : w \in Range(seqs[i])} : i \in 1..n}
    BY DEF S
  <2> QED BY <2>1, <2>2 DEF Ids
<1> QED BY <1>3, <1>4, <1>5

(* One list pushed onto another. *)
LEMMA PushedIsSound ==
  ASSUME NEW s, NEW t, SoundList(s), SoundList(t)
  PROVE  /\ SoundList(pushedOnto(s, t))
         /\ Ids(pushedOnto(s, t)) = Ids(s) \cup Ids(t)
         /\ uniqueIds(s) => uniqueIds(pushedOnto(s, t))
         /\ Len(s) <= Len(pushedOnto(s, t))
         /\ \A i \in 1..Len(s) : pushedOnto(s, t)[i] = s[i]
<1> DEFINE S == Range(s) \cup Range(t)
           all == pushedOnto(s, t)
<1>1. s \in Seq(S) /\ t \in Seq(S)
  BY DEF SoundList
<1>2. /\ all \in Seq(S) /\ Range(all) \subseteq S
      /\ Ids(all) = Ids(s) \cup Ids(t)
      /\ uniqueIds(s) => uniqueIds(all)
      /\ Len(s) <= Len(all) /\ \A i \in 1..Len(s) : all[i] = s[i]
  <2> HIDE DEF S
  <2>1. LET ws == pushedOnto(s, t) IN
         /\ ws \in Seq(S)
         /\ Range(ws) \subseteq Range(s) \cup Range(t)
         /\ Ids(ws) = Ids(s) \cup Ids(t)
         /\ uniqueIds(s) => uniqueIds(ws)
         /\ Len(s) <= Len(ws)
         /\ \A i \in 1..Len(s) : ws[i] = s[i]
    BY <1>1, PushedOntoKeeps
  <2> QED BY <2>1 DEF S
<1> HIDE DEF all
<1>3. all \in Seq(Range(all))
  <2> HIDE DEF S
  <2> QED BY <1>2, SeqOfRange
<1>4. SoundList(all)
  BY <1>2, <1>3 DEF SoundList
<1> QED BY <1>2, <1>4 DEF all

(* Windows, one by one *)
LEMMA TryNewIsSound ==
  ASSUME NEW id, NEW labelled, NEW used, NEW remaining
  PROVE  /\ SoundList(tryNew(id, labelled, used, remaining))
         /\ Ids(tryNew(id, labelled, used, remaining)) \subseteq {id}
<1> DEFINE w == [id |-> id, used |-> used, remaining |-> remaining]
           fits == labelled /\ {used, remaining} \subseteq 0..100 /\ used + remaining = 100
<1>1. CASE fits
  <2>1. tryNew(id, labelled, used, remaining) = <<w>>
    BY <1>1 DEF tryNew
  <2>2. Sound(w) /\ w.id = id
    BY <1>1 DEF Sound
  <2> HIDE DEF w
  <2> QED BY <2>1, <2>2, SingletonIsSound
<1>2. CASE ~fits
  <2>1. tryNew(id, labelled, used, remaining) = <<>>
    BY <1>2 DEF tryNew
  <2> QED BY <2>1, EmptyIsSound
<1> QED BY <1>1, <1>2

(* The id, if there is a percentage to show under it. *)
OneId(id, percent) == IF percent # <<>> THEN {id} ELSE {}

(* A used percentage, whatever it is, makes at most one sound window. *)
LEMMA UsedWindowIsSound ==
  ASSUME NEW id, NEW labelled, NEW percent
  PROVE  SoundList(usedWindow(id, labelled, percent))
           /\ Ids(usedWindow(id, labelled, percent)) \subseteq {id}
<1>1. CASE percent = <<>>
  BY <1>1, EmptyIsSound DEF usedWindow
<1>2. CASE percent # <<>>
  BY <1>2, TryNewIsSound DEF usedWindow
<1> QED BY <1>1, <1>2

(* With a label, a percentage is always shown. *)
LEMMA LabelledIds ==
  ASSUME NEW id, NEW labelled, labelled, NEW percent, optional(percent, Int)
  PROVE  Ids(usedWindow(id, labelled, percent)) = OneId(id, percent)
<1>1. CASE percent # <<>>
  <2> DEFINE used == clamp(percent[1])
             w == [id |-> id, used |-> used, remaining |-> 100 - used]
  <2>1. used \in 0..100 /\ 100 - used \in 0..100 /\ used + (100 - used) = 100
    <3>1. percent[1] \in Int
      BY <1>1 DEF optional
    <3> QED BY <3>1 DEF clamp
  <2> HIDE DEF used
  <2>2. tryNew(id, labelled, used, 100 - used) = <<w>>
    BY <2>1 DEF tryNew
  <2>3. usedWindow(id, labelled, percent) = <<w>>
    BY <1>1, <2>2 DEF usedWindow, used
  <2>4. w.id = id
    OBVIOUS
  <2> HIDE DEF w
  <2> QED BY <1>1, <2>3, <2>4, SingletonIsSound DEF OneId
<1>2. CASE percent = <<>>
  BY <1>2, EmptyIsSound DEF usedWindow, OneId
<1> QED BY <1>1, <1>2

(* Without a label it never is. *)
LEMMA UnlabelledIds ==
  ASSUME NEW id, NEW labelled, ~labelled, NEW percent
  PROVE  Ids(usedWindow(id, labelled, percent)) = {}
<1>1. usedWindow(id, labelled, percent) = <<>>
  BY DEF usedWindow, tryNew
<1> QED BY <1>1, EmptyIsSound

(* the windows of a field that has a label of its own *)
LEMMA FieldWindowIsSound ==
  ASSUME NEW id, NEW percent
  PROVE  /\ SoundList(usedWindow(id, TRUE, percent))
         /\ Ids(usedWindow(id, TRUE, percent)) \subseteq {id}
         /\ optional(percent, Int) => Ids(usedWindow(id, TRUE, percent)) = OneId(id, percent)
<1> DEFINE labelled == TRUE
<1>1. labelled
  OBVIOUS
<1> HIDE DEF labelled
<1>2. /\ SoundList(usedWindow(id, labelled, percent))
      /\ Ids(usedWindow(id, labelled, percent)) \subseteq {id}
  BY UsedWindowIsSound
<1>3. ASSUME optional(percent, Int)
      PROVE  Ids(usedWindow(id, labelled, percent)) = OneId(id, percent)
  BY <1>1, <1>3, LabelledIds
<1> QED BY <1>2, <1>3 DEF labelled

(* A remaining percentage likewise. *)
LEMMA RemainingWindowIsSound ==
  ASSUME NEW id, NEW percent
  PROVE  /\ SoundList(remainingWindow(id, percent))
         /\ Ids(remainingWindow(id, percent)) \subseteq {id}
<1>1. CASE percent = <<>>
  BY <1>1, EmptyIsSound DEF remainingWindow
<1>2. CASE percent # <<>>
  <2> DEFINE used == 100 - clamp(percent[1])
             remaining == clamp(percent[1])
             labelled == TRUE
  <2>1. remainingWindow(id, percent) = tryNew(id, labelled, used, remaining)
    BY <1>2 DEF remainingWindow
  <2> HIDE DEF used, remaining, labelled
  <2> QED BY <2>1, TryNewIsSound
<1> QED BY <1>1, <1>2

-----------------------------------------------------------------------------
(* Claude *)
LimitIds(limits, i) ==
    LET l == limits[i] IN
    IF l.kind \in legacyKinds \/ value(l) = <<>> THEN {}
    ELSE IF l.kind \in DOMAIN groupedId THEN {groupedId[l.kind]}
    ELSE IF l.display = <<"">> THEN {}
    ELSE {weekly_model_id(modelOf(l), scopedBefore(limits, i))}

(* An entry of the limits list is shown under the id of its kind or of      *)
(* its model.                                                               *)
LEMMA LimitWindowIsSound ==
  ASSUME NEW limits, NEW i, optional(limits[i].utilization, Int), optional(limits[i].percent, Int)
  PROVE  /\ SoundList(limitWindow(limits, i))
         /\ Ids(limitWindow(limits, i)) = LimitIds(limits, i)
<1> DEFINE l == limits[i]
<1>0. optional(value(l), Int)
  BY DEF value, orElse
<1>1. CASE l.kind \in legacyKinds
  BY <1>1, EmptyIsSound DEF limitWindow, LimitIds
<1>2. CASE l.kind \notin legacyKinds /\ l.kind \in DOMAIN groupedId
  <2> DEFINE id == groupedId[l.kind]
             percent == value(l)
  <2>1. limitWindow(limits, i) = usedWindow(id, TRUE, percent)
    BY <1>2 DEF limitWindow
  <2>2. LimitIds(limits, i) = OneId(id, percent)
    BY <1>2 DEF LimitIds, OneId
  <2>3. optional(percent, Int)
    BY <1>0
  <2> HIDE DEF id, percent
  <2>4. /\ SoundList(usedWindow(id, TRUE, percent))
        /\ Ids(usedWindow(id, TRUE, percent)) = OneId(id, percent)
    BY <2>3, FieldWindowIsSound
  <2> QED BY <2>1, <2>2, <2>4
<1>3. CASE l.kind \notin legacyKinds /\ l.kind \notin DOMAIN groupedId
  <2> DEFINE id == weekly_model_id(modelOf(l), scopedBefore(limits, i))
             percent == value(l)
             labelled == l.display # <<"">>
  <2>1. limitWindow(limits, i) = usedWindow(id, labelled, percent)
    BY <1>3 DEF limitWindow
  <2>2. LimitIds(limits, i) = IF labelled THEN OneId(id, percent) ELSE {}
    BY <1>3 DEF LimitIds, OneId
  <2>3. optional(percent, Int)
    BY <1>0
  <2> HIDE DEF id, percent, labelled
  <2>4. SoundList(usedWindow(id, labelled, percent))
    BY UsedWindowIsSound
  <2>5. CASE labelled
    <3>1. Ids(usedWindow(id, labelled, percent)) = OneId(id, percent)
      BY <2>3, <2>5, LabelledIds
    <3> QED BY <2>1, <2>2, <2>4, <2>5, <3>1
  <2>6. CASE ~labelled
    <3>1. Ids(usedWindow(id, labelled, percent)) = {}
      BY <2>6, UnlabelledIds
    <3> QED BY <2>1, <2>2, <2>4, <2>6, <3>1
  <2> QED BY <2>5, <2>6
<1> QED BY <1>1, <1>2, <1>3

(* Claude's windows are those of the fields and of the entries, and no id   *)
(* comes twice.                                                             *)
LEMMA ClaudeWindowsAreSound ==
  ASSUME NEW doc, isClaudeDoc(doc)
  PROVE  /\ SoundList(claudeWindows(doc))
         /\ uniqueIds(claudeWindows(doc))
         /\ Ids(claudeWindows(doc)) =
              OneId(session, doc.five_hour)
              \cup OneId(weekly, orElse(doc.seven_day_oauth_apps, doc.seven_day))
              \cup (UNION {LimitIds(doc.limits, i) : i \in 1..Len(doc.limits)})
              \cup OneId(weekly_model_id("opus", 0), doc.seven_day_opus)
              \cup OneId(weekly_model_id("sonnet", 0), doc.seven_day_sonnet)
<1> DEFINE limits == doc.limits
           n == Len(limits)
           seqs == [i \in 1..n |-> limitWindow(limits, i)]
           A == usedWindow(session, TRUE, doc.five_hour)
           B == usedWindow(weekly, TRUE, orElse(doc.seven_day_oauth_apps, doc.seven_day))
           F == FlattenSeq(seqs)
           C == usedWindow(weekly_model_id("opus", 0), TRUE, doc.seven_day_opus)
           D == usedWindow(weekly_model_id("sonnet", 0), TRUE, doc.seven_day_sonnet)
<1>1. n \in Nat /\ DOMAIN limits = 1..n
  BY DEF isClaudeDoc
<1>2. \A i \in 1..n : optional(limits[i].utilization, Int) /\ optional(limits[i].percent, Int)
  BY <1>1 DEF isClaudeDoc, ToSet
<1>3. \A i \in 1..n : seqs[i] = limitWindow(limits, i)
  OBVIOUS
<1>4. \A i \in 1..n : SoundList(seqs[i]) /\ Ids(seqs[i]) = LimitIds(limits, i)
  <2> HIDE DEF limits, n, seqs
  <2> QED BY <1>2, <1>3, LimitWindowIsSound
<1>5. seqs = [i \in 1..n |-> seqs[i]]
  OBVIOUS
<1>6. SoundList(F) /\ Ids(F) = UNION {LimitIds(limits, i) : i \in 1..n}
  <2> HIDE DEF seqs, limits, n
  <2>1. SoundList(F) /\ Ids(F) = UNION {Ids(seqs[i]) : i \in 1..n}
    BY <1>1, <1>4, <1>5, FlattenIsSound
  <2> QED BY <1>4, <2>1
<1>7. SoundList(A) /\ Ids(A) = OneId(session, doc.five_hour)
  BY FieldWindowIsSound DEF isClaudeDoc
<1>8. SoundList(B) /\ Ids(B) = OneId(weekly, orElse(doc.seven_day_oauth_apps, doc.seven_day))
  <2>1. optional(orElse(doc.seven_day_oauth_apps, doc.seven_day), Int)
    BY DEF isClaudeDoc, orElse
  <2> QED BY <2>1, FieldWindowIsSound
<1>9. SoundList(C) /\ Ids(C) = OneId(weekly_model_id("opus", 0), doc.seven_day_opus)
  BY FieldWindowIsSound DEF isClaudeDoc
<1>10. SoundList(D) /\ Ids(D) = OneId(weekly_model_id("sonnet", 0), doc.seven_day_sonnet)
  BY FieldWindowIsSound DEF isClaudeDoc
<1>11. claudeWindows(doc) = pushedOnto(<<>>, A \o B \o F \o C \o D)
  BY <1>1 DEF claudeWindows
<1> HIDE DEF A, B, F, C, D
<1>12. SoundList(A \o B) /\ Ids(A \o B) = Ids(A) \cup Ids(B)
  BY <1>7, <1>8, ConcatIsSound
<1>13. SoundList(A \o B \o F) /\ Ids(A \o B \o F) = Ids(A) \cup Ids(B) \cup Ids(F)
  BY <1>6, <1>12, ConcatIsSound
<1>14. SoundList(A \o B \o F \o C)
         /\ Ids(A \o B \o F \o C) = Ids(A) \cup Ids(B) \cup Ids(F) \cup Ids(C)
  BY <1>9, <1>13, ConcatIsSound
<1> DEFINE all == A \o B \o F \o C \o D
<1>15. SoundList(all) /\ Ids(all) = Ids(A) \cup Ids(B) \cup Ids(F) \cup Ids(C) \cup Ids(D)
  BY <1>10, <1>14, ConcatIsSound
<1> HIDE DEF all
<1>16. uniqueIds(<<>>)
  BY DEF uniqueIds
<1>17. /\ SoundList(pushedOnto(<<>>, all)) /\ Ids(pushedOnto(<<>>, all)) = Ids(all)
       /\ uniqueIds(pushedOnto(<<>>, all))
  BY <1>15, <1>16, EmptyIsSound, PushedIsSound
<1>18. claudeWindows(doc) = pushedOnto(<<>>, all)
  BY <1>11 DEF all
<1>19. Ids(claudeWindows(doc)) = Ids(A) \cup Ids(B) \cup Ids(F) \cup Ids(C) \cup Ids(D)
  BY <1>15, <1>17, <1>18
<1>20. SoundList(claudeWindows(doc)) /\ uniqueIds(claudeWindows(doc))
  BY <1>17, <1>18
<1> QED BY <1>6, <1>7, <1>8, <1>9, <1>10, <1>19, <1>20

(* A model's ordinal is no part of its quota. *)
LEMMA Quotas ==
  /\ quotaOf(session) = session /\ quotaOf(weekly) = weekly
  /\ \A raw, ordinal : quotaOf(weekly_model_id(raw, ordinal)) =
                         <<"weekly-model", sanitized(raw, "model")>>
<1>1. quotaOf(session) = session /\ quotaOf(weekly) = weekly
  <2>1. ASSUME NEW x PROVE quotaOf(<<x>>) = <<x>>
    <3>1. <<x>> \in Seq({x}) /\ Len(<<x>>) = 1
      OBVIOUS
    <3>2. SubSeq(<<x>>, 1, Len(<<x>>)) = <<x>>
      BY <3>1, SubSeqFull
    <3> QED BY <3>1, <3>2 DEF quotaOf
  <2> QED BY <2>1 DEF session, weekly
<1>2. ASSUME NEW raw, NEW ordinal
      PROVE  quotaOf(weekly_model_id(raw, ordinal)) = <<"weekly-model", sanitized(raw, "model")>>
  <2> DEFINE y == sanitized(raw, "model")
  <2> HIDE DEF y
  <2> DEFINE two == <<"weekly-model", y>>
             three == <<"weekly-model", y, ordinal>>
             S == {"weekly-model", y, ordinal}
  <2>0. /\ two \in Seq(S) /\ Len(two) = 2 /\ three \in Seq(S) /\ Len(three) = 3
        /\ two[1] = three[1] /\ two[2] = three[2] /\ three[3] = ordinal /\ ordinal \in S
        /\ (\A i \in 1..2 : i = 1 \/ i = 2) /\ 2 + 1 = 3
        /\ \A i \in 1..3 : i \in 1..2 \/ i = 3
    OBVIOUS
  <2>2. Append(two, ordinal) = three
    <3> HIDE DEF two, three, S
    <3>1. /\ Append(two, ordinal) \in Seq(S) /\ Len(Append(two, ordinal)) = 3
          /\ (\A i \in 1..2 : Append(two, ordinal)[i] = two[i])
          /\ Append(two, ordinal)[3] = ordinal
      BY <2>0
    <3>2. \A i \in 1..3 : Append(two, ordinal)[i] = three[i]
      BY <2>0, <3>1
    <3> QED BY <2>0, <3>1, <3>2, SeqEqual
  <2> HIDE DEF two, three, S
  <2>1. SubSeq(two, 1, 2) = two
    BY <2>0, SubSeqFull
  <2>3. SubSeq(three, 1, 2) = two
    <3> DEFINE t == SubSeq(three, 1, 2)
    <3>1. \A i \in 1..2 : three[i] \in S
      BY <2>0
    <3>2. /\ t \in Seq(S) /\ Len(t) = 2
          /\ \A i \in 1..2 : t[i] = three[i]
      <4>1. /\ SubSeq(three, 1, 2) \in Seq(S)
            /\ Len(SubSeq(three, 1, 2)) = IF 1 <= 2 THEN 2 - 1 + 1 ELSE 0
            /\ \A i \in 1 .. 2 - 1 + 1 : SubSeq(three, 1, 2)[i] = three[1 + i - 1]
        BY <3>1, SubSeqProperties
      <4>2. 2 - 1 + 1 = 2 /\ \A i \in 1..2 : 1 + i - 1 = i
        OBVIOUS
      <4> HIDE DEF t
      <4> QED BY <4>1, <4>2 DEF t
    <3> HIDE DEF t
    <3>3. t = two
      BY <2>0, <3>2, SeqEqual
    <3> QED BY <3>3 DEF t
  <2>4. quotaOf(two) = two /\ quotaOf(three) = two
    BY <2>0, <2>1, <2>3 DEF quotaOf
  <2>5. weekly_model_id(raw, ordinal) \in {two, three}
    BY <2>2 DEF weekly_model_id, y, two
  <2>6. two = <<"weekly-model", sanitized(raw, "model")>>
    BY DEF two, y
  <2> QED BY <2>4, <2>5, <2>6
<1> QED BY <1>1, <1>2

(* The quotas that are shown are those that are reported, by the field or   *)
(* the list.                                                                *)
LEMMA ClaudeShowsQuotas ==
  ASSUME NEW doc, isClaudeDoc(doc)
  PROVE  {quotaOf(id) : id \in Ids(claudeWindows(doc))} = claudeQuotas(doc)
<1> DEFINE limits == doc.limits
           n == Len(limits)
           fromLimits == UNION {LimitIds(limits, i) : i \in 1..n}
           opus == <<"weekly-model", "opus">>
           sonnet == <<"weekly-model", "sonnet">>
           all == claudeQuotas(doc)
<1>1. n \in Nat /\ DOMAIN limits = 1..n /\ ToSet(limits) = {limits[i] : i \in 1..n}
  BY DEF isClaudeDoc, ToSet
<1>2. quotaOf(weekly_model_id("opus", 0)) = opus /\ quotaOf(weekly_model_id("sonnet", 0)) = sonnet
  BY Quotas, SanitizeAssumption DEF sanitized
<1>3. {quotaOf(id) : id \in Ids(claudeWindows(doc))} =
        OneId(session, doc.five_hour)
        \cup OneId(weekly, orElse(doc.seven_day_oauth_apps, doc.seven_day))
        \cup {quotaOf(id) : id \in fromLimits}
        \cup OneId(opus, doc.seven_day_opus)
        \cup OneId(sonnet, doc.seven_day_sonnet)
  BY <1>2, Quotas, ClaudeWindowsAreSound DEF OneId
<1>4. ASSUME NEW i \in 1..n, NEW id \in LimitIds(limits, i) PROVE quotaOf(id) \in all
  <2> DEFINE l == limits[i]
  <2>1. l.kind \notin legacyKinds /\ value(l) # <<>>
    BY <1>4 DEF LimitIds
  <2>2. CASE l.kind \in DOMAIN groupedId
    <3>1. id = groupedId[l.kind] /\ l.kind \in {"session", "weekly_all"}
      BY <1>4, <2>1, <2>2 DEF LimitIds, groupedId
    <3>2. grouped(doc, l.kind)
      BY <1>1, <2>1 DEF grouped
    <3>3. CASE l.kind = "session"
      BY <3>1, <3>2, <3>3, Quotas DEF groupedId, claudeQuotas
    <3>4. CASE l.kind = "weekly_all"
      BY <3>1, <3>2, <3>4, Quotas DEF groupedId, claudeQuotas
    <3> QED BY <3>1, <3>3, <3>4
  <2>3. CASE l.kind \notin DOMAIN groupedId
    <3>1. l.display # <<"">> /\ id = weekly_model_id(modelOf(l), scopedBefore(limits, i))
      BY <1>4, <2>1, <2>3 DEF LimitIds
    <3>2. isScoped(l)
      BY <2>1, <2>3 DEF isScoped
    <3>3. l \in ToSet(limits)
      BY <1>1
    <3>4. sanitized(modelOf(l), "model") \in models(doc)
      BY <3>1, <3>2, <3>3 DEF models
    <3>5. quotaOf(id) = <<"weekly-model", sanitized(modelOf(l), "model")>>
      BY <3>1, Quotas
    <3> QED BY <3>4, <3>5 DEF claudeQuotas
  <2> QED BY <2>2, <2>3
<1>5. ASSUME NEW x \in all
      PROVE  x \in {quotaOf(id) : id \in Ids(claudeWindows(doc))}
  <2>1. ASSUME NEW kind \in {"session", "weekly_all"}, grouped(doc, kind)
        PROVE  groupedId[kind] \in {quotaOf(id) : id \in fromLimits}
    <3>1. PICK i \in 1..n : limits[i].kind = kind /\ value(limits[i]) # <<>>
      BY <1>1, <2>1 DEF grouped
    <3>2. groupedId[kind] \in LimitIds(limits, i)
      BY <3>1 DEF LimitIds, groupedId, legacyKinds
    <3>3. quotaOf(groupedId[kind]) = groupedId[kind]
      BY Quotas DEF groupedId
    <3> QED BY <3>2, <3>3
  <2>2. CASE x = session
    BY <1>3, <1>5, <2>1, <2>2 DEF claudeQuotas, OneId, session, weekly, groupedId
  <2>3. CASE x = weekly
    BY <1>3, <1>5, <2>1, <2>3 DEF claudeQuotas, OneId, session, weekly, groupedId, orElse
  <2>4. ASSUME NEW name \in models(doc), x = <<"weekly-model", name>>
        PROVE  x \in {quotaOf(id) : id \in Ids(claudeWindows(doc))}
    <3>1. ASSUME NEW l \in ToSet(limits), isScoped(l), l.display # <<"">>,
                 name = sanitized(modelOf(l), "model")
          PROVE  x \in {quotaOf(id) : id \in fromLimits}
      <4>1. PICK i \in 1..n : l = limits[i]
        BY <1>1, <3>1
      <4> DEFINE id == weekly_model_id(modelOf(l), scopedBefore(limits, i))
      <4>2. id \in LimitIds(limits, i)
        BY <3>1, <4>1 DEF LimitIds, isScoped
      <4>3. quotaOf(id) = x
        BY <2>4, <3>1, Quotas
      <4> QED BY <4>2, <4>3
    <3>2. CASE doc.seven_day_opus # <<>> /\ name = "opus"
      BY <1>3, <2>4, <3>2 DEF OneId
    <3>3. CASE doc.seven_day_sonnet # <<>> /\ name = "sonnet"
      BY <1>3, <2>4, <3>3 DEF OneId
    <3> QED BY <1>3, <3>1, <3>2, <3>3, <2>4 DEF models
  <2>5. x = session \/ x = weekly \/ \E name \in models(doc) : x = <<"weekly-model", name>>
    BY <1>5 DEF claudeQuotas
  <2> QED BY <2>2, <2>3, <2>4, <2>5
<1>6. ASSUME NEW x \in {quotaOf(id) : id \in Ids(claudeWindows(doc))}
      PROVE  x \in all
  <2>1. CASE x \in OneId(session, doc.five_hour)
    BY <2>1 DEF OneId, claudeQuotas
  <2>2. CASE x \in OneId(weekly, orElse(doc.seven_day_oauth_apps, doc.seven_day))
    BY <2>2 DEF OneId, claudeQuotas, orElse
  <2>3. CASE x \in {quotaOf(id) : id \in fromLimits}
    BY <1>4, <2>3
  <2>4. CASE x \in OneId(opus, doc.seven_day_opus)
    BY <2>4 DEF OneId, claudeQuotas, models
  <2>5. CASE x \in OneId(sonnet, doc.seven_day_sonnet)
    BY <2>5 DEF OneId, claudeQuotas, models
  <2> QED BY <1>3, <1>6, <2>1, <2>2, <2>3, <2>4, <2>5
<1> QED BY <1>5, <1>6

-----------------------------------------------------------------------------
(* The windows of a slot and of a bucket *)
LEMMA OneUsedWindow ==
  ASSUME NEW id, NEW used \in Int
  PROVE  \E w : w.id = id /\ usedWindow(id, TRUE, <<used>>) = <<w>>
<1> DEFINE part == clamp(used)
           w == [id |-> id, used |-> part, remaining |-> 100 - part]
<1>1. part \in 0..100 /\ 100 - part \in 0..100 /\ part + (100 - part) = 100
  BY DEF clamp
<1> HIDE DEF part
<1>2. tryNew(id, TRUE, part, 100 - part) = <<w>>
  BY <1>1 DEF tryNew
<1>3. <<used>> # <<>> /\ <<used>>[1] = used
  OBVIOUS
<1>4. usedWindow(id, TRUE, <<used>>) = <<w>>
  BY <1>2, <1>3 DEF usedWindow, part
<1>5. w.id = id
  OBVIOUS
<1> QED BY <1>4, <1>5

SlotId(raw, ordinal) == codex_window_identity(raw[1].minutes, ordinal)

(* A raw window is shown under the id it is given. *)
LEMMA CodexWindowIsSound ==
  ASSUME NEW id, NEW raw
  PROVE  /\ SoundList(codexWindow(id, raw))
         /\ raw = <<>> => codexWindow(id, raw) = <<>> /\ Ids(codexWindow(id, raw)) = {}
         /\ raw # <<>> /\ raw[1].used \in Int =>
              /\ \E w : w.id = id /\ codexWindow(id, raw) = <<w>>
              /\ Ids(codexWindow(id, raw)) = {id}
<1>1. CASE raw = <<>>
  BY <1>1, EmptyIsSound DEF codexWindow
<1>2. CASE raw # <<>>
  <2>1. codexWindow(id, raw) = usedWindow(id, TRUE, <<raw[1].used>>)
    BY <1>2 DEF codexWindow
  <2>2. SoundList(codexWindow(id, raw))
    <3> DEFINE percent == <<raw[1].used>>
    <3> HIDE DEF percent
    <3>1. SoundList(usedWindow(id, TRUE, percent))
      BY FieldWindowIsSound
    <3> QED BY <2>1, <3>1 DEF percent
  <2>3. ASSUME raw[1].used \in Int
        PROVE  /\ \E w : w.id = id /\ codexWindow(id, raw) = <<w>>
               /\ Ids(codexWindow(id, raw)) = {id}
    <3>1. PICK w : w.id = id /\ usedWindow(id, TRUE, <<raw[1].used>>) = <<w>>
      BY <2>3, OneUsedWindow
    <3> QED BY <2>1, <3>1, SingletonIsSound
  <2> QED BY <1>2, <2>2, <2>3
<1> QED BY <1>1, <1>2

(* A slot of the preferred bucket, under the id of its duration. *)
LEMMA SlotWindowIsSound ==
  ASSUME NEW raw, NEW ordinal
  PROVE  /\ SoundList(slotWindow(raw, ordinal))
         /\ raw = <<>> => slotWindow(raw, ordinal) = <<>> /\ Ids(slotWindow(raw, ordinal)) = {}
         /\ raw # <<>> /\ raw[1].used \in Int =>
              /\ \E w : w.id = SlotId(raw, ordinal) /\ slotWindow(raw, ordinal) = <<w>>
              /\ Ids(slotWindow(raw, ordinal)) = {SlotId(raw, ordinal)}
<1> DEFINE id == SlotId(raw, ordinal)
<1>1. CASE raw = <<>>
  BY <1>1, EmptyIsSound DEF slotWindow
<1>2. CASE raw # <<>>
  <2>1. slotWindow(raw, ordinal) = codexWindow(id, raw)
    BY <1>2 DEF slotWindow, SlotId
  <2> HIDE DEF id
  <2>2. /\ SoundList(codexWindow(id, raw))
        /\ raw # <<>> /\ raw[1].used \in Int =>
              /\ \E w : w.id = id /\ codexWindow(id, raw) = <<w>>
              /\ Ids(codexWindow(id, raw)) = {id}
    BY CodexWindowIsSound
  <2> QED BY <1>2, <2>1, <2>2 DEF id
<1> QED BY <1>1, <1>2

bucketId(name) == <<"codex", sanitized(name, "bucket")>>
usedIsInt(raw) == raw # <<>> => raw[1].used \in Int
BucketIds(bucket) ==
    (IF bucket.primary # <<>> THEN {bucketId(bucket.limitId)} ELSE {})
    \cup (IF bucket.secondary # <<>> THEN {Append(bucketId(bucket.limitId), 2)} ELSE {})

(* The windows of another bucket, under its sanitized name. *)
LEMMA BucketWindowsAreSound ==
  ASSUME NEW bucket
  PROVE  /\ SoundList(bucketWindows(bucket))
         /\ usedIsInt(bucket.primary) /\ usedIsInt(bucket.secondary) =>
              Ids(bucketWindows(bucket)) = BucketIds(bucket)
<1> DEFINE name == bucketId(bucket.limitId)
           first == bucket.primary
           second == bucket.secondary
           A == codexWindow(name, first)
           B == codexWindow(Append(name, 2), second)
<1>1. bucketWindows(bucket) = A \o B
  BY DEF bucketWindows, bucketId
<1>2. SoundList(A) /\ (usedIsInt(first) => Ids(A) = IF first # <<>> THEN {name} ELSE {})
  <2> HIDE DEF first, name
  <2> QED BY CodexWindowIsSound DEF usedIsInt
<1>3. SoundList(B)
      /\ (usedIsInt(second) => Ids(B) = IF second # <<>> THEN {Append(name, 2)} ELSE {})
  <2> DEFINE id == Append(name, 2)
  <2> HIDE DEF second, name, id
  <2>1. /\ SoundList(codexWindow(id, second))
        /\ usedIsInt(second) =>
             Ids(codexWindow(id, second)) = IF second # <<>> THEN {id} ELSE {}
    BY CodexWindowIsSound DEF usedIsInt
  <2> QED BY <2>1 DEF id
<1> HIDE DEF A, B
<1>4. SoundList(A \o B) /\ Ids(A \o B) = Ids(A) \cup Ids(B)
  BY <1>2, <1>3, ConcatIsSound
<1> QED BY <1>1, <1>2, <1>3, <1>4 DEF BucketIds

(* A document's windows: those of the slots, then those of the other        *)
(* buckets, then the workspace's.                                          *)
Slotted(doc) == slotWindow(doc.primary, 1) \o slotWindow(doc.secondary, 2)
Others(doc)  == FlattenSeq([i \in DOMAIN doc.extra |-> bucketWindows(doc.extra[i])])
Workspace(doc) == remainingWindow(<<"workspace-limit">>, doc.individual)

(* The three parts, each of them sound. *)
LEMMA CodexPartsAreSound ==
  ASSUME NEW doc, doc.extra \in Seq(ToSet(doc.extra))
  PROVE  /\ codexWindows(doc) = pushedOnto(Slotted(doc), Others(doc)) \o Workspace(doc)
         /\ SoundList(Slotted(doc)) /\ SoundList(Others(doc)) /\ SoundList(Workspace(doc))
         /\ Ids(Workspace(doc)) \subseteq {<<"workspace-limit">>}
         /\ Ids(Slotted(doc)) = Ids(slotWindow(doc.primary, 1))
                                  \cup Ids(slotWindow(doc.secondary, 2))
         /\ Ids(Others(doc)) = UNION {Ids(bucketWindows(b)) : b \in ToSet(doc.extra)}
<1>1. codexWindows(doc) = pushedOnto(Slotted(doc), Others(doc)) \o Workspace(doc)
  BY DEF codexWindows, Slotted, Others, Workspace
<1>2. SoundList(Workspace(doc)) /\ Ids(Workspace(doc)) \subseteq {<<"workspace-limit">>}
  <2> DEFINE id == <<"workspace-limit">>
  <2> HIDE DEF id
  <2>1. /\ SoundList(remainingWindow(id, doc.individual))
        /\ Ids(remainingWindow(id, doc.individual)) \subseteq {id}
    BY RemainingWindowIsSound
  <2> QED BY <2>1 DEF id, Workspace
<1>3. /\ SoundList(Slotted(doc))
      /\ Ids(Slotted(doc)) = Ids(slotWindow(doc.primary, 1)) \cup Ids(slotWindow(doc.secondary, 2))
  <2> DEFINE A == slotWindow(doc.primary, 1)
             B == slotWindow(doc.secondary, 2)
  <2>1. SoundList(A) /\ SoundList(B)
    BY SlotWindowIsSound
  <2> HIDE DEF A, B
  <2>2. SoundList(A \o B) /\ Ids(A \o B) = Ids(A) \cup Ids(B)
    BY <2>1, ConcatIsSound
  <2> QED BY <2>2 DEF A, B, Slotted
<1>4. /\ SoundList(Others(doc))
      /\ Ids(Others(doc)) = UNION {Ids(bucketWindows(b)) : b \in ToSet(doc.extra)}
  <2> DEFINE extra == doc.extra
             n == Len(extra)
             seqs == [i \in 1..n |-> bucketWindows(extra[i])]
  <2>1. n \in Nat /\ DOMAIN extra = 1..n /\ ToSet(extra) = {extra[i] : i \in 1..n}
    BY DEF ToSet
  <2>2. Others(doc) = FlattenSeq(seqs)
    BY <2>1 DEF Others
  <2>3. seqs = [i \in 1..n |-> seqs[i]] /\ \A i \in 1..n : seqs[i] = bucketWindows(extra[i])
    OBVIOUS
  <2> HIDE DEF seqs, n, extra
  <2>4. \A i \in 1..n : SoundList(seqs[i])
    BY <2>3, BucketWindowsAreSound
  <2>5. SoundList(FlattenSeq(seqs)) /\ Ids(FlattenSeq(seqs)) = UNION {Ids(seqs[i]) : i \in 1..n}
    BY <2>1, <2>3, <2>4, FlattenIsSound
  <2>6. UNION {Ids(seqs[i]) : i \in 1..n} = UNION {Ids(bucketWindows(b)) : b \in ToSet(extra)}
    BY <2>1, <2>3
  <2> QED BY <2>2, <2>5, <2>6 DEF extra
<1> QED BY <1>1, <1>2, <1>3, <1>4

(* Codex's windows are sound, from the server or from a log. *)
LEMMA CodexWindowsAreSound ==
  ASSUME NEW doc, doc.extra \in Seq(ToSet(doc.extra))
  PROVE  SoundList(codexWindows(doc))
<1> DEFINE A == Slotted(doc)
           B == Others(doc)
           C == Workspace(doc)
<1>1. /\ codexWindows(doc) = pushedOnto(A, B) \o C
      /\ SoundList(A) /\ SoundList(B) /\ SoundList(C)
  BY CodexPartsAreSound
<1> HIDE DEF A, B, C
<1>2. SoundList(pushedOnto(A, B))
  BY <1>1, PushedIsSound
<1>3. SoundList(pushedOnto(A, B) \o C)
  BY <1>1, <1>2, ConcatIsSound
<1> QED BY <1>1, <1>3

(* The preferred bucket is the root's or that of one entry, with its key. *)
LEMMA PreferredIs ==
  ASSUME NEW answer, isRead(answer), preferredBucket(answer) # <<>>
  PROVE  /\ rootIsUsed(answer) =>
              /\ preferredBucket(answer) = answer.root
              /\ preferredKey(answer) = orElse(answer.root[1].limit_id, <<"codex">>)
         /\ ~rootIsUsed(answer) =>
              \E i \in DOMAIN answer.byId :
                 /\ preferredKey(answer) = <<answer.byId[i].key>>
                 /\ preferredBucket(answer) = <<answer.byId[i].bucket>>
<1>1. ASSUME rootIsUsed(answer)
      PROVE  /\ preferredBucket(answer) = answer.root
             /\ preferredKey(answer) = orElse(answer.root[1].limit_id, <<"codex">>)
  BY <1>1 DEF preferredBucket, preferredKey
<1>2. ASSUME ~rootIsUsed(answer)
      PROVE  \E i \in DOMAIN answer.byId :
                 /\ preferredKey(answer) = <<answer.byId[i].key>>
                 /\ preferredBucket(answer) = <<answer.byId[i].bucket>>
  <2> DEFINE key == preferredKey(answer)
             seq == answer.byId
             I == {i \in 1..Len(seq) : <<seq[i].key>> = key}
             found == IF I # {} THEN Min(I) ELSE 0
  <2>1. preferredBucket(answer) = IF found = 0 THEN <<>> ELSE <<seq[found].bucket>>
    BY <1>2 DEF preferredBucket, SelectInSeq
  <2>2. found # 0
    BY <2>1
  <2>3. I # {} /\ found = Min(I)
    BY <2>2
  <2>4. Min(I) \in I
    <3>1. I \in SUBSET Nat
      OBVIOUS
    <3> HIDE DEF I
    <3>2. \E m \in I : \A j \in I : m <= j
      BY <2>3, <3>1, LeastExists
    <3> QED BY <3>2 DEF Min
  <2>5. found \in 1..Len(seq) /\ <<seq[found].key>> = key
    <3> HIDE DEF found
    <3> QED BY <2>3, <2>4
  <2>6. DOMAIN seq = 1..Len(seq)
    BY DEF isRead
  <2> HIDE DEF found
  <2> QED BY <2>1, <2>2, <2>5, <2>6
<1> QED BY <1>1, <1>2

(* The slots: the preferred bucket's and those of the others that have a    *)
(* window.                                                                 *)
LEMMA CodexSlotsAre ==
  ASSUME NEW answer, isRead(answer), distinctKeys(answer), preferredBucket(answer) # <<>>
  PROVE  codexSlots(answer) =
           slots(preferredKey(answer), preferredBucket(answer)[1])
           \cup UNION {slots(<<e.key>>, e.bucket) :
                         e \in {e \in ToSet(answer.byId) : isExtra(answer, e)}}
<1> DEFINE key == preferredKey(answer)
           entries == ToSet(answer.byId)
           rootKey == IF rootIsUsed(answer)
                      THEN orElse(answer.root[1].limit_id, <<"codex">>) ELSE <<>>
           named == {e \in entries : <<e.key>> # rootKey}
           extra == {e \in entries : isExtra(answer, e)}
           mine == slots(key, preferredBucket(answer)[1])
           rooted == IF rootKey = <<>> THEN {} ELSE slots(rootKey, answer.root[1])
           of(e) == slots(<<e.key>>, e.bucket)
<1>1. codexSlots(answer) = (UNION {of(e) : e \in named}) \cup rooted
  BY DEF codexSlots
<1>2. \A e \in entries : ~hasWindows(e.bucket) => of(e) = {}
  BY DEF hasWindows, slots
<1>3. \A e : isExtra(answer, e) <=> hasWindows(e.bucket) /\ <<e.key>> # key
  BY DEF isExtra
<1>4. \A x : <<x>> # <<>>
  OBVIOUS
<1>5. CASE rootIsUsed(answer)
  <2>1. rootKey = key /\ preferredBucket(answer) = answer.root
    BY <1>5, PreferredIs
  <2>2. rootKey # <<>>
    BY <1>4, <1>5 DEF orElse
  <2>3. rooted = mine
    BY <2>1, <2>2
  <2> HIDE DEF rooted, mine, of, rootKey, key, entries
  <2>4. UNION {of(e) : e \in named} = UNION {of(e) : e \in extra}
    BY <1>2, <1>3, <2>1
  <2> QED BY <1>1, <2>3, <2>4 DEF mine, of, key, entries
<1>6. CASE ~rootIsUsed(answer)
  <2>1. PICK i \in DOMAIN answer.byId :
            key = <<answer.byId[i].key>> /\ preferredBucket(answer) = <<answer.byId[i].bucket>>
    BY <1>6, PreferredIs
  <2> DEFINE mineEntry == answer.byId[i]
  <2>2. mineEntry \in entries /\ of(mineEntry) = mine
    BY <2>1 DEF ToSet
  <2>3. \A e \in entries : <<e.key>> = key => e = mineEntry
    <3> SUFFICES ASSUME NEW j \in DOMAIN answer.byId, <<answer.byId[j].key>> = key
                 PROVE  answer.byId[j] = mineEntry
      BY DEF ToSet
    <3>1. answer.byId[j].key = answer.byId[i].key
      BY <2>1
    <3>2. i = j
      BY <3>1 DEF distinctKeys
    <3> QED BY <3>2
  <2>4. rooted = {} /\ named = entries
    BY <1>4, <1>6
  <2>5. UNION {of(e) : e \in entries} = mine \cup UNION {of(e) : e \in extra}
    <3> HIDE DEF mineEntry, of, mine, entries, key
    <3>1. \A e \in entries : e = mineEntry \/ e \in extra \/ of(e) = {}
      BY <1>2, <1>3, <2>3
    <3>2. \A e \in extra : e \in entries
      OBVIOUS
    <3> HIDE DEF extra
    <3> QED BY <2>2, <3>1, <3>2
  <2> QED BY <1>1, <2>4, <2>5
<1> QED BY <1>5, <1>6

(* The document has the buckets that are extra, and those only. *)
LEMMA ExtraBucketsAre ==
  ASSUME NEW answer, isRead(answer)
  PROVE  /\ extraBuckets(answer) \in Seq(ToSet(extraBuckets(answer)))
         /\ ToSet(extraBuckets(answer)) =
              {extraBucket(e) : e \in {e \in ToSet(answer.byId) : isExtra(answer, e)}}
<1> DEFINE entries == answer.byId
           n == Len(entries)
           one(i) == IF isExtra(answer, entries[i]) THEN <<extraBucket(entries[i])>> ELSE <<>>
           seqs == [i \in 1..n |-> one(i)]
           S == {extraBucket(e) : e \in ToSet(entries)}
           all == extraBuckets(answer)
<1>1. n \in Nat /\ DOMAIN entries = 1..n /\ ToSet(entries) = {entries[i] : i \in 1..n}
  BY DEF isRead, ToSet
<1>2. all = FlattenSeq(seqs)
  BY <1>1 DEF extraBuckets
<1>3. \A i \in 1..n : one(i) \in Seq(S)
  <2> SUFFICES ASSUME NEW i \in 1..n PROVE one(i) \in Seq(S)
    OBVIOUS
  <2>1. extraBucket(entries[i]) \in S
    BY <1>1
  <2> HIDE DEF S
  <2> QED BY <2>1
<1>4. \A i \in 1..n : Range(one(i)) =
                        IF isExtra(answer, entries[i]) THEN {extraBucket(entries[i])} ELSE {}
  <2>1. \A x : Range(<<x>>) = {x}
    BY SingletonIsSound
  <2> QED BY <2>1, EmptyIsSound
<1>5. seqs \in Seq(Seq(S)) /\ Len(seqs) = n /\ \A i \in 1..n : seqs[i] = one(i)
  <2> HIDE DEF S, one
  <2>1. seqs \in [1..n -> Seq(S)]
    BY <1>3
  <2> QED BY <1>1, <2>1
<1> HIDE DEF seqs, one, S, all
<1>6. all \in Seq(S) /\ Range(all) = UNION {Range(seqs[i]) : i \in 1..n}
  BY <1>2, <1>5, RangeOfFlatten
<1>7. Range(all) =
        UNION {IF isExtra(answer, entries[i]) THEN {extraBucket(entries[i])} ELSE {} : i \in 1..n}
  BY <1>4, <1>5, <1>6
<1>8. Range(all) = {extraBucket(e) : e \in {e \in ToSet(entries) : isExtra(answer, e)}}
  BY <1>1, <1>7
<1>9. ToSet(all) = Range(all)
  BY DEF ToSet, Range
<1>10. all \in Seq(Range(all))
  BY <1>6, SeqOfRange
<1> QED BY <1>8, <1>9, <1>10 DEF all

(* A duration that is filled in changes nothing else. *)
LEMMA TimedIs ==
  ASSUME NEW raw, optional(raw, [used : Int, minutes : Seq(Int)]), NEW m
  PROVE  /\ timed(raw, m) = <<>> <=> raw = <<>>
         /\ usedIsInt(timed(raw, m))
<1>1. CASE raw = <<>>
  BY <1>1 DEF timed, usedIsInt
<1>2. CASE raw # <<>>
  <2> DEFINE slot == raw[1]
             new == [slot EXCEPT !.minutes = orElse(@, <<m>>)]
  <2>1. slot \in [used : Int, minutes : Seq(Int)]
    BY <1>2 DEF optional
  <2>2. new.used = slot.used
    <3> HIDE DEF slot
    <3> QED BY <2>1
  <2>3. timed(raw, m) = <<new>>
    BY <1>2 DEF timed
  <2>4. new.used \in Int
    BY <2>1, <2>2
  <2> HIDE DEF new
  <2>5. <<new>> # <<>> /\ <<new>>[1] = new
    OBVIOUS
  <2> QED BY <1>2, <2>3, <2>4, <2>5 DEF usedIsInt
<1> QED BY <1>1, <1>2

(* The first word of an id says what it is of. *)
LEMMA IdsAreApart ==
  /\ \A minutes, ordinal : codex_window_identity(minutes, ordinal)[1]
                              \in {"session", "weekly", "other"}
  /\ \A name : bucketId(name)[1] = "codex" /\ Append(bucketId(name), 2)[1] = "codex"
  /\ \A name, other : bucketId(name) # Append(bucketId(other), 2)
  /\ \A name, other : \/ bucketId(name) = bucketId(other)
                      \/ Append(bucketId(name), 2) = Append(bucketId(other), 2)
                      => sanitized(name, "bucket") = sanitized(other, "bucket")
<1>1. \A minutes, ordinal : codex_window_identity(minutes, ordinal)[1]
                              \in {"session", "weekly", "other"}
  BY DEF codex_window_identity, session, weekly
<1>2. ASSUME NEW name
      PROVE  LET two == bucketId(name)
                 three == Append(bucketId(name), 2) IN
             /\ two[1] = "codex" /\ two[2] = sanitized(name, "bucket") /\ Len(two) = 2
             /\ three[1] = "codex" /\ three[2] = sanitized(name, "bucket") /\ Len(three) = 3
  <2> DEFINE y == sanitized(name, "bucket")
             two == bucketId(name)
             ordinal == 2
             three == Append(two, ordinal)
             S == {"codex", y, ordinal}
  <2> HIDE DEF y, ordinal
  <2>0. two[1] = "codex" /\ two[2] = y
    BY DEF bucketId, y
  <2>1. two \in Seq(S) /\ Len(two) = 2 /\ ordinal \in S
    BY DEF bucketId, y
  <2> HIDE DEF two, S
  <2>2. /\ Len(three) = Len(two) + 1
        /\ \A i \in 1..Len(two) : three[i] = two[i]
    <3>1. two \in Seq(S) /\ ordinal \in S
      BY <2>1
    <3> QED BY <3>1, AppendProperties
  <2>3. Len(three) = 3 /\ 1 \in 1..Len(two) /\ 2 \in 1..Len(two)
    BY <2>1, <2>2
  <2> QED BY <2>0, <2>1, <2>2, <2>3 DEF two, y, ordinal
<1> QED BY <1>1, <1>2

(* The id under which a slot is shown. *)
slotId(answer, x) ==
    LET bucket == preferredBucket(answer)[1] IN
    IF x[1] = preferredKey(answer)
    THEN IF x[2] = "primary" THEN SlotId(timed(bucket.primary, 300), 1)
         ELSE SlotId(timed(bucket.secondary, 10080), 2)
    ELSE IF x[2] = "primary" THEN bucketId(x[1][1]) ELSE Append(bucketId(x[1][1]), 2)

(* The preferred bucket is one that was read. *)
LEMMA PreferredIsBucket ==
  ASSUME NEW answer, isRead(answer), preferredBucket(answer) # <<>>
  PROVE  isBucket(preferredBucket(answer)[1])
<1>1. CASE rootIsUsed(answer)
  BY <1>1, PreferredIs DEF isRead, rootIsUsed
<1>2. CASE ~rootIsUsed(answer)
  <2>1. PICK i \in DOMAIN answer.byId : preferredBucket(answer) = <<answer.byId[i].bucket>>
    BY <1>2, PreferredIs
  <2>2. answer.byId[i] \in ToSet(answer.byId)
    BY DEF ToSet
  <2>3. isBucket(answer.byId[i].bucket)
    BY <2>2 DEF isRead
  <2>4. preferredBucket(answer)[1] = answer.byId[i].bucket
    BY <2>1
  <2> QED BY <2>3, <2>4
<1> QED BY <1>1, <1>2

(* The ids of the slots of a bucket, in the place of the preferred one. *)
LEMMA SlottedIds ==
  ASSUME NEW doc, NEW bucket, isBucket(bucket),
         doc.primary = timed(bucket.primary, 300), doc.secondary = timed(bucket.secondary, 10080),
         doc.extra \in Seq(ToSet(doc.extra))
  PROVE  Ids(Slotted(doc)) =
           (IF bucket.primary # <<>> THEN {SlotId(timed(bucket.primary, 300), 1)} ELSE {})
           \cup (IF bucket.secondary # <<>>
                 THEN {SlotId(timed(bucket.secondary, 10080), 2)} ELSE {})
<1> DEFINE first == timed(bucket.primary, 300)
           second == timed(bucket.secondary, 10080)
<1>1. /\ first = <<>> <=> bucket.primary = <<>>
      /\ second = <<>> <=> bucket.secondary = <<>>
      /\ usedIsInt(first) /\ usedIsInt(second)
  BY TimedIs DEF isBucket
<1>2. Ids(Slotted(doc)) = Ids(slotWindow(doc.primary, 1)) \cup Ids(slotWindow(doc.secondary, 2))
  BY CodexPartsAreSound
<1> HIDE DEF first, second
<1>3. Ids(slotWindow(first, 1)) = IF first # <<>> THEN {SlotId(first, 1)} ELSE {}
  BY <1>1, SlotWindowIsSound DEF usedIsInt
<1>4. Ids(slotWindow(second, 2)) = IF second # <<>> THEN {SlotId(second, 2)} ELSE {}
  BY <1>1, SlotWindowIsSound DEF usedIsInt
<1> QED BY <1>1, <1>2, <1>3, <1>4 DEF first, second

(* The ids of the other buckets. *)
LEMMA OthersIds ==
  ASSUME NEW answer, isRead(answer), NEW doc, doc.extra = extraBuckets(answer)
  PROVE  Ids(Others(doc)) =
           UNION {BucketIds(extraBucket(e)) : e \in {e \in ToSet(answer.byId) : isExtra(answer, e)}}
<1> DEFINE extras == {e \in ToSet(answer.byId) : isExtra(answer, e)}
<1>1. doc.extra \in Seq(ToSet(doc.extra))
      /\ ToSet(doc.extra) = {extraBucket(e) : e \in extras}
  BY ExtraBucketsAre
<1>2. Ids(Others(doc)) = UNION {Ids(bucketWindows(b)) : b \in ToSet(doc.extra)}
  BY <1>1, CodexPartsAreSound
<1>3. ASSUME NEW e \in extras
      PROVE  Ids(bucketWindows(extraBucket(e))) = BucketIds(extraBucket(e))
  <2> DEFINE b == extraBucket(e)
  <2>1. isBucket(e.bucket)
    BY <1>3 DEF isRead
  <2>2. b.primary = timed(e.bucket.primary, 300) /\ b.secondary = timed(e.bucket.secondary, 10080)
    BY DEF extraBucket
  <2> HIDE DEF b
  <2>3. usedIsInt(b.primary) /\ usedIsInt(b.secondary)
    BY <2>1, <2>2, TimedIs DEF isBucket
  <2>4. Ids(bucketWindows(b)) = BucketIds(b)
    BY <2>3, BucketWindowsAreSound
  <2> QED BY <2>4 DEF b
<1> HIDE DEF extras
<1>4. UNION {Ids(bucketWindows(b)) : b \in ToSet(doc.extra)} =
        UNION {Ids(bucketWindows(extraBucket(e))) : e \in extras}
  BY <1>1
<1> QED BY <1>2, <1>3, <1>4 DEF extras

(* A bucket has two slots at most. *)
LEMMA SlotsAre ==
  ASSUME NEW key, NEW bucket
  PROVE  slots(key, bucket) =
           (IF bucket.primary # <<>> THEN {<<key, "primary">>} ELSE {})
           \cup (IF bucket.secondary # <<>> THEN {<<key, "secondary">>} ELSE {})
BY DEF slots

(* The ids that are shown are those of the slots. *)
LEMMA CodexIds ==
  ASSUME NEW answer, isRead(answer), distinctKeys(answer), preferredBucket(answer) # <<>>, NEW doc,
         doc = normalize_to_rate_limits_json(answer)[1]
  PROVE  Ids(Slotted(doc)) \cup Ids(Others(doc)) = {slotId(answer, x) : x \in codexSlots(answer)}
<1> DEFINE key == preferredKey(answer)
           bucket == preferredBucket(answer)[1]
           extras == {e \in ToSet(answer.byId) : isExtra(answer, e)}
           of(e) == slots(<<e.key>>, e.bucket)
<1>1. /\ doc.primary = timed(bucket.primary, 300)
      /\ doc.secondary = timed(bucket.secondary, 10080)
      /\ doc.extra = extraBuckets(answer)
  BY DEF normalize_to_rate_limits_json
<1>2. codexSlots(answer) = slots(key, bucket) \cup UNION {of(e) : e \in extras}
  BY CodexSlotsAre
<1>3. Ids(Slotted(doc)) = {slotId(answer, x) : x \in slots(key, bucket)}
  <2>1. \A s : <<key, s>>[1] = key /\ <<key, s>>[2] = s
    OBVIOUS
  <2>2. /\ slotId(answer, <<key, "primary">>) = SlotId(timed(bucket.primary, 300), 1)
        /\ slotId(answer, <<key, "secondary">>) = SlotId(timed(bucket.secondary, 10080), 2)
    BY DEF slotId
  <2>3. doc.extra \in Seq(ToSet(doc.extra)) /\ isBucket(bucket)
    BY <1>1, ExtraBucketsAre, PreferredIsBucket
  <2> HIDE DEF key, bucket
  <2>4. Ids(Slotted(doc)) =
           (IF bucket.primary # <<>> THEN {SlotId(timed(bucket.primary, 300), 1)} ELSE {})
           \cup (IF bucket.secondary # <<>>
                 THEN {SlotId(timed(bucket.secondary, 10080), 2)} ELSE {})
    BY <1>1, <2>3, SlottedIds
  <2>5. slots(key, bucket) =
           (IF bucket.primary # <<>> THEN {<<key, "primary">>} ELSE {})
           \cup (IF bucket.secondary # <<>> THEN {<<key, "secondary">>} ELSE {})
    BY SlotsAre
  <2> QED BY <2>2, <2>4, <2>5
<1>4. ASSUME NEW e \in extras
      PROVE  BucketIds(extraBucket(e)) = {slotId(answer, x) : x \in of(e)}
  <2> DEFINE b == e.bucket
             k == <<e.key>>
  <2>1. isBucket(b) /\ k # key
    BY <1>4 DEF isRead, isExtra
  <2>2. /\ extraBucket(e).limitId = e.key
        /\ extraBucket(e).primary = timed(b.primary, 300)
        /\ extraBucket(e).secondary = timed(b.secondary, 10080)
    BY DEF extraBucket
  <2>3. /\ timed(b.primary, 300) = <<>> <=> b.primary = <<>>
        /\ timed(b.secondary, 10080) = <<>> <=> b.secondary = <<>>
    BY <2>1, TimedIs DEF isBucket
  <2>4. /\ slotId(answer, <<k, "primary">>) = bucketId(e.key)
        /\ slotId(answer, <<k, "secondary">>) = Append(bucketId(e.key), 2)
    BY <2>1 DEF slotId
  <2> HIDE DEF b, k
  <2>5. slots(k, b) = (IF b.primary # <<>> THEN {<<k, "primary">>} ELSE {})
                       \cup (IF b.secondary # <<>> THEN {<<k, "secondary">>} ELSE {})
    BY SlotsAre
  <2>6. BucketIds(extraBucket(e)) =
          (IF b.primary # <<>> THEN {bucketId(e.key)} ELSE {})
          \cup (IF b.secondary # <<>> THEN {Append(bucketId(e.key), 2)} ELSE {})
    BY <2>2, <2>3 DEF BucketIds
  <2>7. of(e) = slots(k, b)
    BY DEF k, b
  <2> QED BY <2>4, <2>5, <2>6, <2>7
<1>5. Ids(Others(doc)) = UNION {BucketIds(extraBucket(e)) : e \in extras}
  BY <1>1, OthersIds
<1> HIDE DEF extras, of
<1>6. Ids(Others(doc)) = UNION {{slotId(answer, x) : x \in of(e)} : e \in extras}
  BY <1>4, <1>5
<1>7. {slotId(answer, x) : x \in UNION {of(e) : e \in extras}} =
        UNION {{slotId(answer, x) : x \in of(e)} : e \in extras}
  OBVIOUS
<1>8. {slotId(answer, x) : x \in codexSlots(answer)} =
        {slotId(answer, x) : x \in slots(key, bucket)}
        \cup {slotId(answer, x) : x \in UNION {of(e) : e \in extras}}
  BY <1>2
<1> QED BY <1>3, <1>6, <1>7, <1>8

(* A list of two. *)
LEMMA TwoOfConcat ==
  ASSUME NEW v, NEW w
  PROVE  LET both == <<v>> \o <<w>> IN
         /\ 1 \in DOMAIN both /\ 2 \in DOMAIN both /\ both[1] = v /\ both[2] = w
<1> DEFINE S == {v, w}
<1>1. <<v>> \in Seq(S) /\ <<w>> \in Seq(S) /\ Len(<<v>>) = 1 /\ Len(<<w>>) = 1
      /\ <<v>>[1] = v /\ <<w>>[1] = w
  OBVIOUS
<1> QED BY <1>1

(* Two slots of the preferred bucket that are both shown have different     *)
(* ids.                                                                     *)
LEMMA SlottedDiffer ==
  ASSUME NEW doc, uniqueIds(Slotted(doc)), doc.primary # <<>>, doc.secondary # <<>>,
         usedIsInt(doc.primary), usedIsInt(doc.secondary)
  PROVE  SlotId(doc.primary, 1) # SlotId(doc.secondary, 2)
<1>1. PICK v : v.id = SlotId(doc.primary, 1) /\ slotWindow(doc.primary, 1) = <<v>>
  BY SlotWindowIsSound DEF usedIsInt
<1>2. PICK w : w.id = SlotId(doc.secondary, 2) /\ slotWindow(doc.secondary, 2) = <<w>>
  BY SlotWindowIsSound DEF usedIsInt
<1>3. Slotted(doc) = <<v>> \o <<w>>
  BY <1>1, <1>2 DEF Slotted
<1> DEFINE both == <<v>> \o <<w>>
<1>4. 1 \in DOMAIN both /\ 2 \in DOMAIN both /\ both[1] = v /\ both[2] = w
  BY TwoOfConcat
<1> HIDE DEF both
<1>5. uniqueIds(both)
  BY <1>3 DEF both
<1>6. both[1].id # both[2].id
  BY <1>4, <1>5 DEF uniqueIds
<1> QED BY <1>1, <1>2, <1>4, <1>6

(* A value chosen by a test among ids that are apart tells the test and the key. *)
LEMMA ChoiceTells ==
  ASSUME NEW X \in BOOLEAN, NEW Y \in BOOLEAN,
         NEW be, NEW bf, NEW ae, NEW af, NEW se, NEW sf,
         (IF X THEN be ELSE ae) = (IF Y THEN bf ELSE af),
         be # af, bf # ae, be = bf \/ ae = af => se = sf
  PROVE  se = sf /\ (X <=> Y)
<1>1. CASE X /\ Y
  BY <1>1
<1>2. CASE X /\ ~Y
  BY <1>2
<1>3. CASE ~X /\ Y
  BY <1>3
<1>4. CASE ~X /\ ~Y
  BY <1>4
<1> QED BY <1>1, <1>2, <1>3, <1>4

(* Two slots of extra buckets with one id are of one key and one role. *)
LEMMA ExtraSlotTells ==
  ASSUME NEW x, NEW y, NEW k, NEW l,
         (IF x = <<<<k>>, "primary">> THEN bucketId(k) ELSE Append(bucketId(k), 2)) =
         (IF y = <<<<l>>, "primary">> THEN bucketId(l) ELSE Append(bucketId(l), 2))
  PROVE  /\ sanitized(k, "bucket") = sanitized(l, "bucket")
         /\ (x = <<<<k>>, "primary">>) <=> (y = <<<<l>>, "primary">>)
<1> DEFINE X == x = <<<<k>>, "primary">>
           Y == y = <<<<l>>, "primary">>
           be == bucketId(k)
           bf == bucketId(l)
           ae == Append(bucketId(k), 2)
           af == Append(bucketId(l), 2)
           se == sanitized(k, "bucket")
           sf == sanitized(l, "bucket")
<1>1. be # af /\ bf # ae /\ (be = bf \/ ae = af => se = sf)
  BY IdsAreApart
<1>2. X \in BOOLEAN /\ Y \in BOOLEAN
  OBVIOUS
<1>3. (IF X THEN be ELSE ae) = (IF Y THEN bf ELSE af)
  OBVIOUS
<1>4. se = sf /\ (X <=> Y)
  <2> HIDE DEF X, Y, be, bf, ae, af, se, sf
  <2> QED BY <1>1, <1>2, <1>3, ChoiceTells
<1> QED BY <1>4

(* A bucket is preferred, and its two windows have two ids. *)
preferredIdsDiffer(answer) ==
  /\ preferredBucket(answer) # <<>>
  /\ LET bucket == preferredBucket(answer)[1] IN
        bucket.primary # <<>> /\ bucket.secondary # <<>> =>
          SlotId(timed(bucket.primary, 300), 1) # SlotId(timed(bucket.secondary, 10080), 2)

(* Two slots that are not one have two ids. *)
LEMMA SlotIdsDiffer ==
  ASSUME NEW answer, isRead(answer), distinctKeys(answer), preferredIdsDiffer(answer),
         NEW x \in codexSlots(answer), NEW y \in codexSlots(answer),
         slotId(answer, x) = slotId(answer, y)
  PROVE  x = y
<1> DEFINE key == preferredKey(answer)
           bucket == preferredBucket(answer)[1]
           extras == {e \in ToSet(answer.byId) : isExtra(answer, e)}
           Mine(z) == \/ z = <<key, "primary">> /\ bucket.primary # <<>>
                      \/ z = <<key, "secondary">> /\ bucket.secondary # <<>>
           Other(z) == \E e \in extras :
                          z = <<<<e.key>>, "primary">> \/ z = <<<<e.key>>, "secondary">>
<1>1. ASSUME NEW z \in codexSlots(answer) PROVE Mine(z) \/ Other(z)
  <2> DEFINE of(e) == slots(<<e.key>>, e.bucket)
             mine == slots(key, bucket)
  <2>1. codexSlots(answer) = mine \cup UNION {of(e) : e \in extras}
    BY CodexSlotsAre DEF preferredIdsDiffer
  <2> HIDE DEF key, bucket, extras
  <2>2. ASSUME z \in mine PROVE Mine(z)
    BY <2>2, SlotsAre
  <2>3. ASSUME NEW e \in extras, z \in of(e) PROVE Other(z)
    BY <2>3, SlotsAre
  <2> HIDE DEF Mine, Other, of, mine
  <2>4. z \in mine \/ \E e \in extras : z \in of(e)
    BY <1>1, <2>1
  <2> QED BY <2>2, <2>3, <2>4
<1>2. ASSUME NEW z, Mine(z)
      PROVE  /\ slotId(answer, z)[1] # "codex"
             /\ slotId(answer, z) = IF z = <<key, "primary">>
                                  THEN SlotId(timed(bucket.primary, 300), 1)
                                  ELSE SlotId(timed(bucket.secondary, 10080), 2)
  <2>1. slotId(answer, z) = IF z = <<key, "primary">>
                          THEN SlotId(timed(bucket.primary, 300), 1)
                          ELSE SlotId(timed(bucket.secondary, 10080), 2)
    BY <1>2 DEF slotId
  <2> QED BY <2>1, IdsAreApart DEF SlotId
<1>3. ASSUME NEW z, NEW e \in extras,
             z = <<<<e.key>>, "primary">> \/ z = <<<<e.key>>, "secondary">>
      PROVE  /\ slotId(answer, z) = IF z = <<<<e.key>>, "primary">> THEN bucketId(e.key)
                                  ELSE Append(bucketId(e.key), 2)
             /\ slotId(answer, z)[1] = "codex"
  <2>1. <<e.key>> # key
    BY <1>3 DEF isExtra
  <2>2. z[1] = <<e.key>> /\ z[1][1] = e.key
    BY <1>3
  <2>3. slotId(answer, z) = IF z[2] = "primary" THEN bucketId(e.key) ELSE Append(bucketId(e.key), 2)
    BY <2>1, <2>2 DEF slotId
  <2>4. (z[2] = "primary") <=> (z = <<<<e.key>>, "primary">>)
    BY <1>3
  <2>5. bucketId(e.key)[1] = "codex" /\ Append(bucketId(e.key), 2)[1] = "codex"
    BY IdsAreApart
  <2>6. slotId(answer, z) = IF z = <<<<e.key>>, "primary">> THEN bucketId(e.key)
                          ELSE Append(bucketId(e.key), 2)
    BY <2>3, <2>4
  <2> QED
    <3> DEFINE first == bucketId(e.key)
               second == Append(bucketId(e.key), 2)
               isFirst == z = <<<<e.key>>, "primary">>
    <3> HIDE DEF first, second, isFirst
    <3>1. slotId(answer, z) = IF isFirst THEN first ELSE second
      BY <2>6 DEF first, second, isFirst
    <3>2. slotId(answer, z)[1] = "codex"
      BY <2>5, <3>1 DEF first, second
    <3> QED BY <2>6, <3>2
<1>4. CASE Mine(x) /\ Mine(y)
  BY <1>2, <1>4 DEF preferredIdsDiffer
<1>5. CASE Other(x) /\ Other(y)
  <2>1. PICK e \in extras : x = <<<<e.key>>, "primary">> \/ x = <<<<e.key>>, "secondary">>
    BY <1>5
  <2>2. PICK f \in extras : y = <<<<f.key>>, "primary">> \/ y = <<<<f.key>>, "secondary">>
    BY <1>5
  <2> HIDE DEF extras
  <2>3. slotId(answer, x) = IF x = <<<<e.key>>, "primary">> THEN bucketId(e.key)
                          ELSE Append(bucketId(e.key), 2)
    BY <1>3, <2>1
  <2>4. slotId(answer, y) = IF y = <<<<f.key>>, "primary">> THEN bucketId(f.key)
                          ELSE Append(bucketId(f.key), 2)
    BY <1>3, <2>2
  <2>5. /\ sanitized(e.key, "bucket") = sanitized(f.key, "bucket")
        /\ (x = <<<<e.key>>, "primary">>) <=> (y = <<<<f.key>>, "primary">>)
    <3>1. (IF x = <<<<e.key>>, "primary">> THEN bucketId(e.key)
           ELSE Append(bucketId(e.key), 2)) =
          (IF y = <<<<f.key>>, "primary">> THEN bucketId(f.key)
           ELSE Append(bucketId(f.key), 2))
      BY <2>3, <2>4
    <3> QED BY <3>1, ExtraSlotTells
  <2>6. e.key = f.key
    <3>1. PICK i \in DOMAIN answer.byId : e = answer.byId[i]
      BY DEF extras, ToSet
    <3>2. PICK j \in DOMAIN answer.byId : f = answer.byId[j]
      BY DEF extras, ToSet
    <3> QED BY <2>5, <3>1, <3>2 DEF distinctKeys
  <2> QED BY <2>1, <2>2, <2>5, <2>6
<1>6. ASSUME NEW z, Other(z) PROVE slotId(answer, z)[1] = "codex"
  BY <1>3, <1>6
<1> QED
  <2> HIDE DEF Mine, Other
  <2> QED BY <1>1, <1>2, <1>4, <1>5, <1>6

(* A one-to-one map onto a finite set keeps the size. *)
LEMMA SameSize ==
  ASSUME NEW S, NEW T, IsFiniteSet(T), NEW f \in [S -> T],
         \A x, y \in S : f[x] = f[y] => x = y, \A z \in T : \E x \in S : f[x] = z
  PROVE  IsFiniteSet(S) /\ Cardinality(S) = Cardinality(T)
<1>1. f \in Injection(S, T)
  BY DEF Injection, IsInjective
<1>2. f \in Surjection(S, T)
  BY DEF Surjection
<1> QED BY <1>1, <1>2, FS_Injection

(* What a list holds is finite. *)
LEMMA RangeIsFinite ==
  ASSUME NEW seq, seq \in Seq(Range(seq))
  PROVE  IsFiniteSet(Range(seq))
<1> DEFINE S == Range(seq)
           n == Len(seq)
<1>1. n \in Nat /\ seq \in [1..n -> S] /\ DOMAIN seq = 1..n
  OBVIOUS
<1>2. \A x \in S : \E i \in 1..n : seq[i] = x
  BY <1>1 DEF Range
<1> HIDE DEF S, n
<1>3. seq \in Surjection(1..n, S)
  BY <1>1, <1>2 DEF Surjection
<1>4. IsFiniteSet(1..n)
  BY <1>1, FS_Interval
<1>5. IsFiniteSet(S)
  BY <1>3, <1>4, FS_Surjection
<1> QED BY <1>5 DEF S

(* The windows, apart from the workspace's, are as many as the slots.       *)
LEMMA CodexSlotsAreShown ==
  ASSUME NEW answer, isRead(answer), distinctKeys(answer), preferredBucket(answer) # <<>>,
         NEW doc, doc = normalize_to_rate_limits_json(answer)[1],
         NEW windows, windows = codexWindows(doc), uniqueIds(windows)
  PROVE  Cardinality({w \in ToSet(windows) : w.id # <<"workspace-limit">>})
           = Cardinality(codexSlots(answer))
<1> DEFINE bucket == preferredBucket(answer)[1]
           A == Slotted(doc)
           B == Others(doc)
           C == Workspace(doc)
           P == pushedOnto(A, B)
           shown == {w \in ToSet(windows) : w.id # <<"workspace-limit">>}
<1>1. /\ doc.primary = timed(bucket.primary, 300)
      /\ doc.secondary = timed(bucket.secondary, 10080)
      /\ doc.extra = extraBuckets(answer)
  BY DEF normalize_to_rate_limits_json
<1>2. doc.extra \in Seq(ToSet(doc.extra)) /\ isBucket(bucket)
  BY <1>1, ExtraBucketsAre, PreferredIsBucket
<1>3. /\ windows = P \o C
      /\ SoundList(A) /\ SoundList(B) /\ SoundList(C)
      /\ Ids(C) \subseteq {<<"workspace-limit">>}
  BY <1>2, CodexPartsAreSound
<1>4. Ids(A) \cup Ids(B) = {slotId(answer, x) : x \in codexSlots(answer)}
  BY CodexIds
<1> HIDE DEF A, B, C
<1>5. /\ SoundList(P) /\ Ids(P) = Ids(A) \cup Ids(B)
      /\ Len(A) <= Len(P) /\ \A i \in 1..Len(A) : P[i] = A[i]
  BY <1>3, PushedIsSound
<1> HIDE DEF P
<1>6. ToSet(windows) = Range(P) \cup Range(C) /\ SoundList(windows)
  <2>1. Range(P \o C) = Range(P) \cup Range(C) /\ SoundList(P \o C)
    BY <1>3, <1>5, ConcatIsSound
  <2> QED BY <1>3, <2>1 DEF ToSet, Range
<1>7. \A id \in Ids(P) : id # <<"workspace-limit">>
  <2>1. \A x : slotId(answer, x)[1] # "workspace-limit"
    BY IdsAreApart DEF slotId, SlotId
  <2>2. \A id \in Ids(P) : id[1] # "workspace-limit"
    BY <1>4, <1>5, <2>1
  <2> QED BY <2>2
<1>8. shown = Range(P)
  <2>1. \A w \in Range(P) : w.id # <<"workspace-limit">>
    BY <1>7 DEF Ids
  <2>2. \A w \in Range(C) : w.id = <<"workspace-limit">>
    BY <1>3 DEF Ids
  <2> QED BY <1>6, <2>1, <2>2
<1>9. uniqueIds(A)
  <2>1. /\ P \in Seq(Range(P)) /\ A \in Seq(Range(A)) /\ C \in Seq(Range(C))
    BY <1>3, <1>5 DEF SoundList
  <2>2. \A i \in DOMAIN A : i \in DOMAIN P /\ P[i] = A[i]
    BY <1>5, <2>1
  <2>3. \A i \in DOMAIN P : i \in DOMAIN windows /\ windows[i] = P[i]
    <3> DEFINE S == Range(P) \cup Range(C)
    <3>1. P \in Seq(S) /\ C \in Seq(S)
      BY <2>1
    <3> HIDE DEF S
    <3>2. \A i \in DOMAIN P : i \in DOMAIN (P \o C) /\ (P \o C)[i] = P[i]
      BY <3>1
    <3> QED BY <1>3, <3>2
  <2> QED BY <2>2, <2>3 DEF uniqueIds
<1>10. bucket.primary # <<>> /\ bucket.secondary # <<>> =>
          SlotId(timed(bucket.primary, 300), 1) # SlotId(timed(bucket.secondary, 10080), 2)
  <2> SUFFICES ASSUME bucket.primary # <<>>, bucket.secondary # <<>>
               PROVE  SlotId(doc.primary, 1) # SlotId(doc.secondary, 2)
    BY <1>1
  <2>1. /\ doc.primary # <<>> /\ doc.secondary # <<>>
        /\ usedIsInt(doc.primary) /\ usedIsInt(doc.secondary)
    BY <1>1, <1>2, TimedIs DEF isBucket
  <2>2. uniqueIds(Slotted(doc))
    BY <1>9 DEF A
  <2> QED BY <2>1, <2>2, SlottedDiffer
<1>11. \A x, y \in codexSlots(answer) : slotId(answer, x) = slotId(answer, y) => x = y
  <2> SUFFICES ASSUME NEW x \in codexSlots(answer), NEW y \in codexSlots(answer),
                      slotId(answer, x) = slotId(answer, y)
               PROVE  x = y
    OBVIOUS
  <2>1. preferredIdsDiffer(answer)
    BY <1>10 DEF preferredIdsDiffer
  <2> QED BY <2>1, SlotIdsDiffer
<1>12. IsFiniteSet(Range(windows))
  BY <1>6, RangeIsFinite DEF SoundList
<1>13. IsFiniteSet(shown)
  <2>1. shown \subseteq Range(windows)
    BY DEF ToSet, Range
  <2> HIDE DEF shown
  <2> QED BY <1>12, <2>1, FS_Subset
<1> DEFINE ids == Ids(P)
           theSlots == codexSlots(answer)
           toId == [w \in shown |-> w.id]
           ofSlot == [x \in theSlots |-> slotId(answer, x)]
<1>14. ids = {w.id : w \in shown}
  BY <1>8 DEF Ids
<1>15. \A v, w \in shown : v.id = w.id => v = w
  <2> SUFFICES ASSUME NEW v \in shown, NEW w \in shown, v.id = w.id PROVE v = w
    OBVIOUS
  <2>1. PICK i \in DOMAIN windows : v = windows[i]
    BY DEF ToSet
  <2>2. PICK j \in DOMAIN windows : w = windows[j]
    BY DEF ToSet
  <2> QED BY <2>1, <2>2 DEF uniqueIds
<1>16. IsFiniteSet(ids) /\ Cardinality(shown) = Cardinality(ids)
  <2> HIDE DEF shown, ids
  <2>1. toId \in [shown -> ids]
    BY <1>14
  <2>2. \A v \in shown : toId[v] = v.id
    OBVIOUS
  <2> HIDE DEF toId
  <2>3. toId \in Injection(shown, ids)
    BY <1>15, <2>1, <2>2 DEF Injection, IsInjective
  <2>4. toId \in Surjection(shown, ids)
    BY <1>14, <2>1, <2>2 DEF Surjection
  <2> QED BY <1>13, <2>3, <2>4, FS_Surjection
<1>17. Cardinality(theSlots) = Cardinality(ids)
  <2>1. ids = {slotId(answer, x) : x \in theSlots}
    BY <1>4, <1>5
  <2>2. \A x, y \in theSlots : slotId(answer, x) = slotId(answer, y) => x = y
    BY <1>11
  <2> HIDE DEF ids, theSlots
  <2>3. ofSlot \in [theSlots -> ids] /\ \A x \in theSlots : ofSlot[x] = slotId(answer, x)
    BY <2>1
  <2> HIDE DEF ofSlot
  <2>4. \A x, y \in theSlots : ofSlot[x] = ofSlot[y] => x = y
    BY <2>2, <2>3
  <2>5. \A z \in ids : \E x \in theSlots : ofSlot[x] = z
    BY <2>1, <2>3
  <2>6. IsFiniteSet(ids)
    BY <1>16
  <2> HIDE DEF shown, toId
  <2>7. IsFiniteSet(theSlots) /\ Cardinality(theSlots) = Cardinality(ids)
    BY <2>3, <2>4, <2>5, <2>6, SameSize
  <2> QED BY <2>7
<1> QED BY <1>16, <1>17

-----------------------------------------------------------------------------
(* WindowMapping: Amp and Grok *)
LEMMA AmpWindowsAreSound ==
  ASSUME NEW text
  PROVE  SoundList(ampWindows(text))
<1> DEFINE A == freeWindow(text)
           two == remainingWindow(<<"plan-other">>, text.subscription[1].other)
                  \o remainingWindow(<<"plan-orb">>, text.subscription[1].orb)
           B == IF text.subscription = <<>> THEN <<>> ELSE two
<1>1. SoundList(A)
  <2>1. CASE free(text) = <<>>
    BY <2>1, EmptyIsSound DEF freeWindow
  <2>2. CASE free(text) # <<>>
    <3> DEFINE id == <<"daily">>
               labelled == TRUE
               used == clamp(100 - free(text)[1])
               remaining == free(text)[1]
    <3>1. A = tryNew(id, labelled, used, remaining)
      BY <2>2 DEF freeWindow
    <3> HIDE DEF id, labelled, used, remaining
    <3> QED BY <3>1, TryNewIsSound
  <2> QED BY <2>1, <2>2
<1>2. SoundList(two)
  <2> DEFINE other == remainingWindow(<<"plan-other">>, text.subscription[1].other)
             orb == remainingWindow(<<"plan-orb">>, text.subscription[1].orb)
  <2>1. SoundList(other) /\ SoundList(orb)
    BY RemainingWindowIsSound
  <2> HIDE DEF other, orb
  <2>2. SoundList(other \o orb)
    BY <2>1, ConcatIsSound
  <2> QED BY <2>2 DEF other, orb
<1>3. ampWindows(text) = A \o B
  BY DEF ampWindows
<1> HIDE DEF two
<1>4. SoundList(B)
  BY <1>2, EmptyIsSound
<1> HIDE DEF A, B
<1> QED BY <1>1, <1>3, <1>4, ConcatIsSound

(* Grok's one window. *)
LEMMA GrokWindowsAreSound ==
  ASSUME NEW doc
  PROVE  SoundList(grokWindows(doc))
<1> DEFINE id == grok_window_identity(doc.period)
           percent == doc.creditUsagePercent
<1>1. grokWindows(doc) = usedWindow(id, TRUE, percent)
  BY DEF grokWindows
<1> HIDE DEF id, percent
<1>2. SoundList(usedWindow(id, TRUE, percent))
  BY FieldWindowIsSound
<1> QED BY <1>1, <1>2


-----------------------------------------------------------------------------
(* StatusRow *)

(* What a collection may return. *)
SoundResult(result) ==
    /\ result.state \in {"ready"} \cup FailureState
    /\ result.retryable \in BOOLEAN /\ result.login \in BOOLEAN
    /\ result.state \in {"network_error", "rate_limited"} => result.retryable

RowInv ==
    /\ provider \in Provider
    /\ RowsFollowTheTable
    /\ KeepsTheAnswer

(* Every payload makes a result of the known states. *)
LEMMA PayloadsAreSound ==
    ASSUME NEW p \in Provider, NEW payload \in Payload[p]
    PROVE  SoundResult(results[p][payload])
<1>1. results[p][payload] = resultOf(p, payload)
  BY DEF results
<1>2. p \in {"claude", "codex", "amp", "grok"}
  BY RowAssumption
<1>3. ASSUME NEW data PROVE SoundResult(readyResult(data))
  BY DEF SoundResult, readyResult
<1>4. SoundResult(failure("provider_error", TRUE, FALSE))
  BY DEF SoundResult, failure, FailureState
<1>5. CASE p = "claude"
  BY <1>1, <1>3, <1>5 DEF resultOf, claudeResult
<1>6. CASE p = "codex"
  BY <1>1, <1>3, <1>4, <1>6 DEF resultOf, codexResult, codexReady
<1>7. CASE p = "amp"
  BY <1>1, <1>3, <1>7 DEF resultOf, ampResult
<1>8. CASE p = "grok"
  BY <1>1, <1>3, <1>8 DEF resultOf, grokResult
<1> QED  BY <1>2, <1>5, <1>6, <1>7, <1>8

(* So does every refusal, and none of them is ready. *)
LEMMA RefusalsAreSound ==
    ASSUME NEW p \in Provider, NEW result \in refusals(p)
    PROVE  SoundResult(result) /\ result.state # "ready"
<1>1. p \in {"claude", "codex", "amp", "grok"}
  BY RowAssumption
<1>2. \E state \in FailureState, r \in BOOLEAN, l \in BOOLEAN :
         /\ result = failure(state, r, l)
         /\ state \in {"network_error", "rate_limited"} => r
  <2>1. CASE p = "claude"  BY <2>1 DEF refusals, FailureState
  <2>2. CASE p = "codex"   BY <2>2 DEF refusals, FailureState
  <2>3. CASE p = "amp"     BY <2>3 DEF refusals, FailureState
  <2>4. CASE p = "grok"    BY <2>4 DEF refusals, FailureState
  <2> QED  BY <1>1, <2>1, <2>2, <2>3, <2>4
<1> QED  BY <1>2 DEF failure, SoundResult, FailureState

(* Without windows no id comes twice. *)
LEMMA NoDataIsUnique == uniqueIds(noData.windows)
  BY DEF noData, uniqueIds

(* What a failure says, whichever it is. *)
LEMMA FailureRowIsInTheTable ==
    ASSUME NEW state \in FailureState, NEW retryable \in BOOLEAN,
           NEW action \in actionsOf(state)
    PROVE  FollowsTheTable(failureRow(state, retryable, action))
  BY NoDataIsUnique DEF FollowsTheTable, failureRow, FailureState, noData

(* What a live row is, whatever was collected. *)
LEMMA LiveRowsAreSound ==
    ASSUME NEW result, SoundResult(result), NEW live \in liveRows(result)
    PROVE  /\ FollowsTheTable(live)
           /\ live.state # "stale"
           /\ live.state = "ready" => live.data = result.data
           /\ is_temporary_failure(live) => live.error.retryable /\ live.state # "ready"
<1>1. CASE result.state = "ready" /\ uniqueIds(result.data.windows)
  <2>1. readyRow("live", result.data) # {}
    BY <1>1 DEF readyRow
  <2>2. live \in readyRow("live", result.data)
    BY <1>1, <2>1 DEF liveRows, statusOf
  <2>3. /\ live.state = "ready" /\ live.source = "live" /\ live.success = TRUE
        /\ live.data = result.data /\ live.error = noError /\ live.action = "none"
    BY <1>1, <2>2 DEF readyRow
  <2>4. FollowsTheTable(live)
    BY <1>1, <2>3 DEF FollowsTheTable
  <2> QED  BY <2>3, <2>4 DEF is_temporary_failure
<1>2. CASE result.state = "ready" /\ ~uniqueIds(result.data.windows)
  <2>1. live = failureRow("provider_error", FALSE, "retry")
    BY <1>2 DEF liveRows, statusOf, readyRow
  <2>2. FollowsTheTable(live)
    BY <2>1, FailureRowIsInTheTable DEF FailureState, actionsOf
  <2> QED  BY <2>1, <2>2 DEF failureRow, is_temporary_failure
<1>3. CASE result.state # "ready"
  <2>1. live = failureRow(result.state, result.retryable, actionOf(result))
    BY <1>3 DEF liveRows, statusOf
  <2>2. actionOf(result) \in actionsOf(result.state)
    BY <1>3 DEF actionOf, actionsOf
  <2>3. FollowsTheTable(live)
    BY <1>3, <2>1, <2>2, FailureRowIsInTheTable DEF SoundResult
  <2> QED  BY <1>3, <2>1, <2>3 DEF failureRow, is_temporary_failure, SoundResult, FailureState
<1> QED  BY <1>1, <1>2, <1>3

(* Retention gives back the live row, or the prior's data with its cause. *)
LEMMA RetentionIsSound ==
    ASSUME NEW live, NEW prior, NEW row \in apply_stale_retention(live, prior)
    PROVE  \/ row = live
           \/ /\ is_temporary_failure(live)
              /\ row.state = "stale" /\ row.source = "cache" /\ row.action = "retry"
              /\ row.success = TRUE /\ row.error = live.error
              /\ uniqueIds(row.data.windows)
              /\ \E old \in prior : old.state \in {"ready", "stale"} /\ row.data = old.data
  BY DEF apply_stale_retention, retain_as_stale, staleRow

(* A retained row is the live one or holds the data of a prior row that had some. *)
LEMMA RetentionKeepsData ==
    \A live, prior : \A row \in apply_stale_retention(live, prior) :
        \/ row = live
        \/ \E old \in prior : old.state \in {"ready", "stale"} /\ row.data = old.data
  BY RetentionIsSound

(* A collection keeps the truth table and the answer. *)
LEMMA CollectKeepsRowInv ==
    ASSUME RowInv, NEW result, SoundResult(result), Collect(result),
           provider' = provider,
           \/ answered' = answered /\ result.state # "ready"
           \/ \E payload \in Payload[provider] :
                 /\ result = results[provider][payload]
                 /\ answered' = IF \E row \in liveRows(result) : row.state = "ready"
                                THEN {payload} ELSE answered
    PROVE  RowInv'
<1> USE DEF RowInv
<1>1. PICK live \in liveRows(result) :
         /\ cached' = IF apply_stale_retention(live, loaded) = {} THEN loaded
                      ELSE apply_stale_retention(live, loaded)
         /\ Report(apply_stale_retention(live, loaded))
  BY DEF Collect
<1> DEFINE rows == apply_stale_retention(live, loaded)
<1>2. \A row \in loaded : row \in cached
  BY DEF loaded
<1>3. \A row \in rows : FollowsTheTable(row)
  <2> SUFFICES ASSUME NEW row \in rows PROVE FollowsTheTable(row)
    OBVIOUS
  <2>1. CASE row = live
    BY <2>1, LiveRowsAreSound
  <2>2. CASE row # live
    <3> HIDE DEF rows
    <3>0. row \in apply_stale_retention(live, loaded)
      BY DEF rows
    <3>1. /\ is_temporary_failure(live)
          /\ row.state = "stale" /\ row.source = "cache" /\ row.action = "retry"
          /\ row.success = TRUE /\ row.error = live.error
          /\ uniqueIds(row.data.windows)
      <4>1. \/ row = live
            \/ /\ is_temporary_failure(live)
               /\ row.state = "stale" /\ row.source = "cache" /\ row.action = "retry"
               /\ row.success = TRUE /\ row.error = live.error
               /\ uniqueIds(row.data.windows)
               /\ \E old \in loaded : old.state \in {"ready", "stale"} /\ row.data = old.data
        BY <3>0, RetentionIsSound
      <4> QED  BY <2>2, <4>1
    <3>2. live.error.retryable
      BY <3>1, LiveRowsAreSound
    <3> QED  BY <3>1, <3>2 DEF FollowsTheTable
  <2> QED  BY <2>1, <2>2
<1>4. RowsFollowTheTable'
  <2>1. \A row \in cached' : FollowsTheTable(row)
    BY <1>1, <1>2, <1>3 DEF RowsFollowTheTable
  <2>2. \A row \in served' : FollowsTheTable(row)
    BY <1>1, <1>3 DEF Report
  <2> QED  BY <2>1, <2>2 DEF RowsFollowTheTable
<1>5. KeepsTheAnswer'
  <2>1. CASE live.state = "ready"
    <3>1. rows = {live} /\ cached' = {live}
      BY <1>1, <2>1, LiveRowsAreSound DEF apply_stale_retention
    <3>2. live.data = result.data
      BY <2>1, LiveRowsAreSound
    <3>3. result.state = "ready"
      BY <2>1, <1>1 DEF liveRows, statusOf, failureRow
    <3>4. PICK payload \in Payload[provider] :
             result = results[provider][payload] /\ answered' = {payload}
      BY <1>1, <2>1, <3>3
    <3> QED  BY <3>1, <3>2, <3>4 DEF KeepsTheAnswer
  <2>2. CASE live.state # "ready"
    <3>1. answered' = answered
      <4>1. \A row \in liveRows(result) : row.state # "ready"
        BY <1>1, <2>2 DEF liveRows, statusOf, readyRow, failureRow
      <4> QED  BY <4>1
    <3>2. \A row \in cached' : row.state \in {"ready", "stale"} =>
             \E old \in cached : old.state \in {"ready", "stale"} /\ row.data = old.data
      <4> SUFFICES ASSUME NEW row \in cached', row.state \in {"ready", "stale"}
                   PROVE  \E old \in cached :
                             old.state \in {"ready", "stale"} /\ row.data = old.data
        OBVIOUS
      <4>1. CASE rows = {}
        BY <1>1, <1>2, <4>1
      <4>2. CASE rows # {}
        <5>1. row \in rows
          BY <1>1, <4>2
        <5>2. row # live
          BY <2>2, LiveRowsAreSound
        <5>3. row \in apply_stale_retention(live, loaded)
          BY <5>1
        <5>4. \/ row = live
              \/ \E old \in loaded :
                    old.state \in {"ready", "stale"} /\ row.data = old.data
          BY <5>3, RetentionKeepsData, Zenon
        <5>5. \E old \in loaded :
                 old.state \in {"ready", "stale"} /\ row.data = old.data
          BY <5>2, <5>4
        <5> QED  BY <5>5, <1>2
      <4> QED  BY <4>1, <4>2
    <3> QED  BY <3>1, <3>2 DEF KeepsTheAnswer
  <2> QED  BY <2>1, <2>2
<1> QED  BY <1>4, <1>5

(* There is no row at first. *)
LEMMA InitRowInv == RowInit => RowInv
  BY DEF RowInit, RowInv, RowsFollowTheTable, KeepsTheAnswer

(* Every step keeps the truth table and the answer. *)
LEMMA StepRowInv == RowInv /\ [RowNext]_rowVars => RowInv'
<1> SUFFICES ASSUME RowInv, [RowNext]_rowVars PROVE RowInv'
  OBVIOUS
<1>1. ASSUME NEW payload \in Payload[provider], Answers(payload)
      PROVE  RowInv'
  <2>1. SoundResult(results[provider][payload])
    BY PayloadsAreSound DEF RowInv
  <2> QED  BY <1>1, <2>1, CollectKeepsRowInv DEF Answers
<1>2. ASSUME NEW result \in refusals(provider), Fails(result)
      PROVE  RowInv'
  <2>1. SoundResult(result) /\ result.state # "ready"
    BY RefusalsAreSound DEF RowInv
  <2> QED  BY <1>2, <2>1, CollectKeepsRowInv DEF Fails
<1>3. CASE Hit
  <2>1. ASSUME NEW row \in cached, NEW hit \in for_cache_hit(row)
        PROVE  FollowsTheTable(hit)
    <3>1. FollowsTheTable(row)
      BY DEF RowInv, RowsFollowTheTable
    <3>2. CASE row.state # "ready"
      BY <3>1, <3>2 DEF for_cache_hit
    <3>3. CASE row.state = "ready"
      BY <3>3 DEF for_cache_hit, readyRow, FollowsTheTable
    <3> QED  BY <3>2, <3>3
  <2>2. \A row \in served' : FollowsTheTable(row)
    BY <1>3, <2>1 DEF Hit, Report, loaded
  <2> QED  BY <1>3, <2>2 DEF Hit, RowInv, RowsFollowTheTable, KeepsTheAnswer
<1>4. CASE Removed
  BY <1>4 DEF Removed, RowInv, RowsFollowTheTable, KeepsTheAnswer
<1>5. CASE UNCHANGED rowVars
  BY <1>5 DEF rowVars, RowInv, RowsFollowTheTable, KeepsTheAnswer
<1> QED  BY <1>1, <1>2, <1>3, <1>4, <1>5 DEF RowNext


(* Every window of every result has percentages that add up. *)
LEMMA ResultsAreSound ==
  ASSUME NEW p \in Provider, NEW payload \in Payload[p]
  PROVE  SoundList(results[p][payload].data.windows)
<1> DEFINE result == resultOf(p, payload)
<1>1. results[p][payload] = result
  BY DEF results
<1>2. isPayload(p, payload)
  BY PayloadAssumption
<1>3. \A plan, account, windows : dataOf(plan, account, windows).windows = windows
  BY DEF dataOf, noData
<1>4. SoundList(noData.windows)
  BY EmptyIsSound DEF noData
<1>5. p \in {"claude", "codex", "amp", "grok"}
  BY RowAssumption
<1>6. CASE p = "claude"
  <2>1. result.data.windows = claudeWindows(payload)
    BY <1>3, <1>6 DEF resultOf, claudeResult, readyResult
  <2>2. isClaudeDoc(payload)
    BY <1>2, <1>6 DEF isPayload
  <2> QED BY <1>1, <2>1, <2>2, ClaudeWindowsAreSound
<1>7. CASE p = "codex"
  <2> DEFINE found == IF payload.from = "log" THEN <<payload.doc>>
                      ELSE normalize_to_rate_limits_json(payload.read)
             doc == found[1]
  <2>1. result = IF found = <<>> THEN failure("provider_error", TRUE, FALSE) ELSE codexReady(doc)
    BY <1>7 DEF resultOf, codexResult
  <2>2. CASE found = <<>>
    BY <1>1, <1>4, <2>1, <2>2 DEF failure
  <2>3. CASE found # <<>>
    <3>1. result.data.windows = codexWindows(doc)
      <4>1. result.data = [dataOf(doc.plan, <<>>, codexWindows(doc)) EXCEPT !.resets = doc.resets]
        BY <2>1, <2>3 DEF codexReady, readyResult
      <4>2. \A plan, account, windows, resets :
              [dataOf(plan, account, windows) EXCEPT !.resets = resets].windows = windows
        BY DEF dataOf, noData
      <4> HIDE DEF doc, result
      <4> QED BY <4>1, <4>2
    <3>2. doc.extra \in Seq(ToSet(doc.extra))
      <4>1. CASE payload.from = "log"
        BY <1>2, <1>7, <4>1 DEF isPayload
      <4>2. CASE payload.from # "log"
        <5>1. isRead(payload.read)
          BY <1>2, <1>7, <4>2 DEF isPayload
        <5>2. doc.extra = extraBuckets(payload.read)
          BY <2>3, <4>2 DEF normalize_to_rate_limits_json
        <5> QED BY <5>1, <5>2, ExtraBucketsAre
      <4> QED BY <4>1, <4>2
    <3> HIDE DEF doc
    <3>3. SoundList(codexWindows(doc))
      BY <3>2, CodexWindowsAreSound
    <3> QED BY <1>1, <3>1, <3>3
  <2> QED BY <2>2, <2>3
<1>8. CASE p = "amp"
  <2>1. result.data.windows = ampWindows(payload)
    BY <1>3, <1>8 DEF resultOf, ampResult, readyResult
  <2> QED BY <1>1, <2>1, AmpWindowsAreSound
<1>9. CASE p = "grok"
  <2>1. result.data.windows = grokWindows(payload)
    BY <1>3, <1>9 DEF resultOf, grokResult, readyResult
  <2> QED BY <1>1, <2>1, GrokWindowsAreSound
<1> QED BY <1>5, <1>6, <1>7, <1>8, <1>9

-----------------------------------------------------------------------------
(* StatusRow: the windows of models, as a selection of lists *)

(* Induction on lists, as a statement about a set of them. *)
LEMMA ListInduction ==
  ASSUME NEW S, NEW G, <<>> \in G,
         \A s \in Seq(S), x \in S : s \in G => Append(s, x) \in G
  PROVE  Seq(S) \subseteq G
<1> DEFINE H == {n \in Nat : \A s \in Seq(S) : Len(s) = n => s \in G}
<1>1. 0 \in H
  <2>1. \A s \in Seq(S) : Len(s) = 0 => s = <<>>
    OBVIOUS
  <2> QED BY <2>1
<1>2. ASSUME NEW n \in Nat, n \in H PROVE n + 1 \in H
  <2> SUFFICES ASSUME NEW s \in Seq(S), Len(s) = n + 1 PROVE s \in G
    OBVIOUS
  <2>1. PICK t \in Seq(S), x \in S : s = Append(t, x)
    <3>1. s # <<>>
      OBVIOUS
    <3> QED BY <3>1, SequenceEmptyOrAppend
  <2>2. Len(t) = n
    BY <2>1
  <2> QED BY <1>2, <2>1, <2>2
<1>3. Nat \subseteq H
  <2> HIDE DEF H
  <2> QED BY <1>1, <1>2, SetInduction
<1>4. \A s \in Seq(S) : Len(s) \in Nat
  OBVIOUS
<1> QED BY <1>3, <1>4

(* One more list at the end of a list of lists. *)
LEMMA FlattenOfAppend ==
  ASSUME NEW S, NEW seqs \in Seq(Seq(S)), NEW last \in Seq(S)
  PROVE  FlattenSeq(Append(seqs, last)) = FlattenSeq(seqs) \o last
<1> DEFINE n == Len(seqs)
           more == Append(seqs, last)
<1>1. /\ n \in Nat /\ more \in Seq(Seq(S)) /\ Len(more) = n + 1
      /\ \A k \in 1..n : more[k] = seqs[k]
      /\ more[n + 1] = last
  <2> DEFINE D == Seq(S)
  <2>1. seqs \in Seq(D) /\ last \in D
    OBVIOUS
  <2> HIDE DEF D
  <2>2. /\ Append(seqs, last) \in Seq(D) /\ Len(Append(seqs, last)) = Len(seqs) + 1
        /\ \A i \in 1..Len(seqs) : Append(seqs, last)[i] = seqs[i]
        /\ Append(seqs, last)[Len(seqs) + 1] = last /\ Len(seqs) \in Nat
    BY <2>1
  <2> QED BY <2>2 DEF D
<1>2. PICK g \in [0..n -> Seq(S)] :
         /\ g[0] = <<>> /\ \A k \in 1..n : g[k] = g[k - 1] \o seqs[k]
         /\ FlattenSeq(seqs) = g[n]
  BY FlattenIterates
<1>3. PICK h \in [0..n+1 -> Seq(S)] :
         /\ h[0] = <<>> /\ \A k \in 1..n+1 : h[k] = h[k - 1] \o more[k]
         /\ FlattenSeq(more) = h[n + 1]
  <2> HIDE DEF more
  <2> QED BY <1>1, FlattenIterates
<1> HIDE DEF more, n
<1>4. n \in Nat
  BY <1>1
<1> DEFINE G == {k \in Nat : k <= n => h[k] = g[k]}
<1>5. 0 \in G
  BY <1>2, <1>3
<1>6. ASSUME NEW k \in Nat, k \in G PROVE k + 1 \in G
  <2> SUFFICES ASSUME k + 1 <= n PROVE h[k + 1] = g[k + 1]
    OBVIOUS
  <2>1. k + 1 \in 1..n /\ k + 1 \in 1..n+1 /\ (k + 1) - 1 = k
    BY <1>4
  <2>2. h[k] = g[k]
    <3>1. k <= n
      BY <1>4
    <3> QED BY <1>6, <3>1
  <2> QED BY <1>1, <1>2, <1>3, <2>1, <2>2
<1>7. h[n] = g[n]
  <2>1. Nat \subseteq G
    <3> HIDE DEF G
    <3> QED BY <1>5, <1>6, SetInduction
  <2> QED BY <1>1, <2>1
<1>8. h[n + 1] = h[n] \o last
  <2>1. n + 1 \in 1..n+1 /\ (n + 1) - 1 = n
    BY <1>4
  <2> QED BY <1>1, <1>3, <2>1
<1> QED BY <1>2, <1>3, <1>7, <1>8 DEF more

(* No lists. *)
LEMMA FlattenOfNone == FlattenSeq(<<>>) = <<>>
BY DEF FlattenSeq

(* Nothing is selected of nothing. *)
LEMMA OnlyOfNone == ASSUME NEW S PROVE only(<<>>, S) = <<>>
<1>1. [i \in DOMAIN <<>> |-> IF <<>>[i] \in S THEN <<<<>>[i]>> ELSE <<>>] = <<>>
  OBVIOUS
<1> QED BY <1>1, FlattenOfNone DEF only

(* What is selected of a list and one more element. *)
LEMMA OnlyOfAppend ==
  ASSUME NEW T, NEW S, NEW s \in Seq(T), NEW x \in T
  PROVE  /\ only(s, S) \in Seq(T)
         /\ only(Append(s, x), S) = IF x \in S THEN Append(only(s, S), x) ELSE only(s, S)
<1> DEFINE pick(y) == IF y \in S THEN <<y>> ELSE <<>>
           D == Seq(T)
           seqs == [i \in 1..Len(s) |-> pick(s[i])]
<1>1. \A y \in T : pick(y) \in D
  OBVIOUS
<1>2. Len(s) \in Nat /\ DOMAIN s = 1..Len(s) /\ \A i \in 1..Len(s) : s[i] \in T
  OBVIOUS
<1>3. only(s, S) = FlattenSeq(seqs)
  BY <1>2 DEF only
<1>4. /\ DOMAIN Append(s, x) = 1..Len(s) + 1
      /\ \A i \in 1..Len(s) : Append(s, x)[i] = s[i]
      /\ Append(s, x)[Len(s) + 1] = x
  OBVIOUS
<1>5. only(Append(s, x), S) = FlattenSeq([i \in 1..Len(s) + 1 |-> pick(Append(s, x)[i])])
  BY <1>4 DEF only
<1> HIDE DEF pick
<1>6. seqs \in Seq(D) /\ Len(seqs) = Len(s) /\ pick(x) \in D
  <2> HIDE DEF D
  <2>1. seqs \in [1..Len(s) -> D]
    BY <1>1, <1>2
  <2> QED BY <1>1, <1>2, <2>1
<1>7. [i \in 1..Len(s) + 1 |-> pick(Append(s, x)[i])] = Append(seqs, pick(x))
  <2> DEFINE f == [i \in 1..Len(s) + 1 |-> pick(Append(s, x)[i])]
  <2> HIDE DEF D
  <2>1. /\ Append(seqs, pick(x)) \in Seq(D) /\ Len(Append(seqs, pick(x))) = Len(s) + 1
        /\ \A i \in 1..Len(s) : Append(seqs, pick(x))[i] = pick(s[i])
        /\ Append(seqs, pick(x))[Len(s) + 1] = pick(x)
    BY <1>6, <1>2
  <2>2. \A i \in 1..Len(s) + 1 : f[i] = Append(seqs, pick(x))[i]
    <3> SUFFICES ASSUME NEW i \in 1..Len(s) + 1 PROVE f[i] = Append(seqs, pick(x))[i]
      OBVIOUS
    <3>1. f[i] = pick(Append(s, x)[i])
      OBVIOUS
    <3> HIDE DEF f, seqs
    <3>2. CASE i = Len(s) + 1
      BY <1>4, <2>1, <3>1, <3>2
    <3>3. CASE i # Len(s) + 1
      <4>1. i \in 1..Len(s)
        BY <1>2, <3>3
      <4> QED BY <1>4, <2>1, <3>1, <4>1
    <3> QED BY <3>2, <3>3
  <2>3. f \in Seq(D) /\ Len(f) = Len(s) + 1
    <3>1. \A i \in 1..Len(s) + 1 : f[i] \in D
      BY <2>1, <2>2, <1>2
    <3>2. f \in [1..Len(s) + 1 -> D]
      <4>1. f = [i \in 1..Len(s) + 1 |-> f[i]]
        OBVIOUS
      <4> HIDE DEF f
      <4> QED BY <3>1, <4>1
    <3> HIDE DEF f
    <3>3. Len(s) + 1 \in Nat
      BY <1>2
    <3> QED BY <3>2, <3>3
  <2> HIDE DEF f, seqs
  <2>4. f = Append(seqs, pick(x))
    BY <2>1, <2>2, <2>3, SeqEqual
  <2> QED BY <2>4 DEF f
<1>8. FlattenSeq(seqs) \in Seq(T)
  <2> HIDE DEF seqs
  <2>1. seqs \in Seq(Seq(T))
    BY <1>6
  <2> QED BY <2>1, RangeOfFlatten
<1>9. only(Append(s, x), S) = only(s, S) \o pick(x)
  <2> HIDE DEF seqs
  <2> QED BY <1>3, <1>5, <1>6, <1>7, FlattenOfAppend
<1>10. CASE x \in S
  <2>1. pick(x) = <<x>>
    BY <1>10 DEF pick
  <2> QED BY <1>3, <1>8, <1>9, <1>10, <2>1, AppendIsConcat
<1>11. CASE x \notin S
  <2>1. pick(x) = <<>>
    BY <1>11 DEF pick
  <2> QED BY <1>3, <1>8, <1>9, <1>11, <2>1, ConcatEmptySeq
<1> QED BY <1>10, <1>11

(* Selecting depends on the members only. *)
LEMMA OnlyByMembers ==
  ASSUME NEW s, NEW S, NEW R, \A x \in ToSet(s) : x \in S <=> x \in R
  PROVE  only(s, S) = only(s, R)
BY DEF only, ToSet

(* The members that are selected. *)
LEMMA RangeOfOnly ==
  ASSUME NEW T, NEW S, NEW s \in Seq(T)
  PROVE  only(s, S) \in Seq(T) /\ Range(only(s, S)) = Range(s) \cap S
<1> DEFINE G == {t \in Seq(T) : only(t, S) \in Seq(T) /\ Range(only(t, S)) = Range(t) \cap S}
<1>0. \A t \in Seq(T), x \in T :
         Append(t, x) \in Seq(T) /\ Range(Append(t, x)) = Range(t) \cup {x}
  <2> SUFFICES ASSUME NEW t \in Seq(T), NEW x \in T
               PROVE  Append(t, x) \in Seq(T) /\ Range(Append(t, x)) = Range(t) \cup {x}
    OBVIOUS
  <2> DEFINE one == <<x>>
  <2>1. one \in Seq(T) /\ Append(t, x) = t \o one /\ Append(t, x) \in Seq(T)
    BY AppendIsConcat
  <2>2. Range(one) = {x}
    BY SingletonIsSound
  <2> HIDE DEF one
  <2>3. Range(t \o one) = Range(t) \cup Range(one)
    BY <2>1, RangeConcatenation
  <2> QED BY <2>1, <2>2, <2>3
<1>1. <<>> \in G
  <2>1. Range(<<>>) = {} /\ only(<<>>, S) = <<>> /\ <<>> \in Seq(T)
    BY EmptyIsSound, OnlyOfNone
  <2> QED BY <2>1
<1>2. ASSUME NEW t \in Seq(T), NEW x \in T, t \in G PROVE Append(t, x) \in G
  <2>1. /\ only(t, S) \in Seq(T) /\ Range(only(t, S)) = Range(t) \cap S
        /\ only(Append(t, x), S) = IF x \in S THEN Append(only(t, S), x) ELSE only(t, S)
    BY <1>2, OnlyOfAppend
  <2> DEFINE kept == only(t, S)
             more == only(Append(t, x), S)
  <2>2. /\ kept \in Seq(T) /\ Range(kept) = Range(t) \cap S
        /\ more = IF x \in S THEN Append(kept, x) ELSE kept
        /\ Append(t, x) \in Seq(T) /\ Range(Append(t, x)) = Range(t) \cup {x}
        /\ Append(kept, x) \in Seq(T) /\ Range(Append(kept, x)) = Range(kept) \cup {x}
    BY <1>0, <2>1
  <2> HIDE DEF kept
  <2>3. more \in Seq(T) /\ Range(more) = Range(Append(t, x)) \cap S
    <3> HIDE DEF more
    <3>1. CASE x \in S
      BY <2>2, <3>1
    <3>2. CASE x \notin S
      BY <2>2, <3>2
    <3> QED BY <3>1, <3>2
  <2> QED BY <2>2, <2>3
<1>3. Seq(T) \subseteq G
  <2> HIDE DEF G
  <2> QED BY <1>1, <1>2, ListInduction
<1> QED BY <1>3

(* Two lists, one after the other. *)
LEMMA OnlyOfConcat ==
  ASSUME NEW T, NEW S, NEW s \in Seq(T), NEW t \in Seq(T)
  PROVE  only(s \o t, S) = only(s, S) \o only(t, S)
<1> DEFINE G == {u \in Seq(T) : only(s \o u, S) = only(s, S) \o only(u, S)}
<1>0. \A u \in Seq(T) : only(u, S) \in Seq(T)
  BY RangeOfOnly
<1>1. <<>> \in G
  <2>1. s \o <<>> = s /\ only(s, S) \o <<>> = only(s, S) /\ <<>> \in Seq(T)
    BY <1>0, ConcatEmptySeq
  <2>2. only(<<>>, S) = <<>>
    BY OnlyOfNone
  <2>3. only(s \o <<>>, S) = only(s, S) \o only(<<>>, S)
    BY <2>1, <2>2
  <2> QED BY <2>1, <2>3
<1>2. ASSUME NEW u \in Seq(T), NEW x \in T, u \in G PROVE Append(u, x) \in G
  <2>1. Append(u, x) \in Seq(T) /\ s \o u \in Seq(T)
    OBVIOUS
  <2>2. \A a, b \in Seq(T) : a \o Append(b, x) = Append(a \o b, x)
    <3> SUFFICES ASSUME NEW a \in Seq(T), NEW b \in Seq(T)
                 PROVE  a \o Append(b, x) = Append(a \o b, x)
      OBVIOUS
    <3>1. <<x>> \in Seq(T) /\ a \o b \in Seq(T)
      OBVIOUS
    <3>2. Append(b, x) = b \o <<x>> /\ Append(a \o b, x) = (a \o b) \o <<x>>
      BY <3>1, AppendIsConcat
    <3> QED BY <3>1, <3>2, ConcatAssociative
  <2>3. only(s \o Append(u, x), S) = only(Append(s \o u, x), S)
    BY <2>2
  <2>4. only(Append(s \o u, x), S)
          = IF x \in S THEN Append(only(s \o u, S), x) ELSE only(s \o u, S)
    <3> DEFINE both == s \o u
    <3>1. both \in Seq(T)
      BY <2>1
    <3> HIDE DEF both
    <3>2. only(Append(both, x), S) = IF x \in S THEN Append(only(both, S), x) ELSE only(both, S)
      BY <3>1, OnlyOfAppend
    <3> QED BY <3>2 DEF both
  <2>5. only(Append(u, x), S) = IF x \in S THEN Append(only(u, S), x) ELSE only(u, S)
    BY OnlyOfAppend
  <2>6. only(s \o u, S) = only(s, S) \o only(u, S)
    BY <1>2
  <2>7. only(s \o Append(u, x), S) = only(s, S) \o only(Append(u, x), S)
    <3>1. CASE x \in S
      <4> DEFINE a == only(s, S)
                 b == only(u, S)
      <4>1. a \in Seq(T) /\ b \in Seq(T)
        BY <1>0
      <4>2. only(s \o Append(u, x), S) = Append(a \o b, x) /\ only(Append(u, x), S) = Append(b, x)
        BY <2>3, <2>4, <2>5, <2>6, <3>1
      <4> HIDE DEF a, b
      <4>3. a \o Append(b, x) = Append(a \o b, x)
        BY <2>2, <4>1
      <4> QED BY <4>2, <4>3 DEF a
    <3>2. CASE x \notin S
      BY <2>3, <2>4, <2>5, <2>6, <3>2
    <3> QED BY <3>1, <3>2
  <2> QED BY <2>1, <2>7
<1>3. Seq(T) \subseteq G
  <2> HIDE DEF G
  <2> QED BY <1>1, <1>2, ListInduction
<1> QED BY <1>3

(* One more window is pushed last. *)
LEMMA PushedOfAppend ==
  ASSUME NEW T, NEW windows \in Seq(T), NEW s \in Seq(T), NEW w \in T
  PROVE  /\ pushedOnto(windows, s) \in Seq(T)
         /\ pushedOnto(windows, Append(s, w)) = push_window_unique(pushedOnto(windows, s), w)
<1> DEFINE n == Len(s)
           more == Append(s, w)
<1>1. /\ n \in Nat /\ more \in Seq(T) /\ Len(more) = n + 1
      /\ \A k \in 1..n : more[k] = s[k]
      /\ more[n + 1] = w
  OBVIOUS
<1>2. \E f \in [0..Len(more) -> Seq(T)] :
         /\ f[0] = windows
         /\ \A k \in 1..Len(more) : f[k] = push_window_unique(f[k - 1], more[k])
         /\ pushedOnto(windows, more) = f[Len(more)]
  <2>1. more \in Seq(T)
    BY <1>1
  <2>2. \A seq \in Seq(T) : \E f \in [0..Len(seq) -> Seq(T)] :
           /\ f[0] = windows
           /\ \A k \in 1..Len(seq) : f[k] = push_window_unique(f[k - 1], seq[k])
           /\ pushedOnto(windows, seq) = f[Len(seq)]
    BY PushedIterates
  <2> HIDE DEF more, n
  <2> QED BY <2>1, <2>2, Zenon
<1>3. PICK g \in [0..n -> Seq(T)] :
         /\ g[0] = windows /\ \A k \in 1..n : g[k] = push_window_unique(g[k - 1], s[k])
         /\ pushedOnto(windows, s) = g[n]
  BY PushedIterates
<1>4. PICK h \in [0..n+1 -> Seq(T)] :
         /\ h[0] = windows /\ \A k \in 1..n+1 : h[k] = push_window_unique(h[k - 1], more[k])
         /\ pushedOnto(windows, more) = h[n + 1]
  BY <1>1, <1>2
<1> HIDE DEF more, n
<1>5. n \in Nat
  BY <1>1
<1> DEFINE G == {k \in Nat : k <= n => h[k] = g[k]}
<1>6. 0 \in G
  BY <1>3, <1>4
<1>7. ASSUME NEW k \in Nat, k \in G PROVE k + 1 \in G
  <2> SUFFICES ASSUME k + 1 <= n PROVE h[k + 1] = g[k + 1]
    OBVIOUS
  <2>1. k + 1 \in 1..n /\ k + 1 \in 1..n+1 /\ (k + 1) - 1 = k
    BY <1>5
  <2>2. h[k] = g[k]
    <3>1. k <= n
      BY <1>5
    <3> QED BY <1>7, <3>1
  <2> QED BY <1>1, <1>3, <1>4, <2>1, <2>2
<1>8. h[n] = g[n]
  <2>1. Nat \subseteq G
    <3> HIDE DEF G
    <3> QED BY <1>6, <1>7, SetInduction
  <2> QED BY <1>1, <2>1
<1>9. h[n + 1] = push_window_unique(h[n], w)
  <2>1. n + 1 \in 1..n+1 /\ (n + 1) - 1 = n
    BY <1>5
  <2> QED BY <1>1, <1>4, <2>1
<1>10. n \in 0..n
  BY <1>1
<1> QED BY <1>3, <1>4, <1>8, <1>9, <1>10 DEF more

(* Nothing is pushed. *)
LEMMA PushedOfNone ==
  ASSUME NEW T, NEW windows \in Seq(T)
  PROVE  pushedOnto(windows, <<>>) = windows
<1> DEFINE none == <<>>
<1>1. none \in Seq(T) /\ Len(none) = 0
  OBVIOUS
<1> HIDE DEF none
<1>2. \E g \in [0..Len(none) -> Seq(T)] :
         /\ g[0] = windows
         /\ \A k \in 1..Len(none) : g[k] = push_window_unique(g[k - 1], none[k])
         /\ pushedOnto(windows, none) = g[Len(none)]
  <2>1. none \in Seq(T)
    BY <1>1
  <2> QED BY <2>1, PushedIterates
<1>3. pushedOnto(windows, none) = windows
  BY <1>1, <1>2
<1> QED BY <1>3 DEF none

(* Where an id tells whether a window is selected, selecting before or after *)
(* pushing is the same.                                                    *)
LEMMA OnlyOfPushed ==
  ASSUME NEW T, NEW S, \A v, w \in T : v.id = w.id => (v \in S <=> w \in S),
         NEW windows \in Seq(T), NEW s \in Seq(T)
  PROVE  only(pushedOnto(windows, s), S) = pushedOnto(only(windows, S), only(s, S))
<1> DEFINE kept == only(windows, S)
           G == {t \in Seq(T) :
                   only(pushedOnto(windows, t), S) = pushedOnto(kept, only(t, S))}
<1>0. kept \in Seq(T) /\ \A t \in Seq(T) : only(t, S) \in Seq(T)
  BY RangeOfOnly
<1>1. <<>> \in G
  <2>1. pushedOnto(windows, <<>>) = windows /\ pushedOnto(kept, <<>>) = kept
    <3> HIDE DEF kept
    <3> QED BY <1>0, PushedOfNone
  <2> QED BY <2>1, OnlyOfNone
<1> HIDE DEF kept
<1>2. ASSUME NEW t \in Seq(T), NEW x \in T, t \in G PROVE Append(t, x) \in G
  <2> DEFINE P == pushedOnto(windows, t)
             Q == pushedOnto(kept, only(t, S))
  <2>1. P \in Seq(T) /\ pushedOnto(windows, Append(t, x)) = push_window_unique(P, x)
    BY PushedOfAppend
  <2>2. only(t, S) \in Seq(T)
    BY <1>0
  <2>3. Q \in Seq(T) /\ pushedOnto(kept, Append(only(t, S), x)) = push_window_unique(Q, x)
    BY <1>0, <2>2, PushedOfAppend
  <2>4. only(Append(t, x), S) = IF x \in S THEN Append(only(t, S), x) ELSE only(t, S)
    BY OnlyOfAppend
  <2>5. only(P, S) = Q
    BY <1>2
  <2> HIDE DEF P, Q
  <2>6. Range(Q) = Range(P) \cap S
    BY <2>1, <2>5, RangeOfOnly
  <2>7. /\ \A i \in DOMAIN P : P[i] \in Range(P) /\ P[i] \in T
        /\ \A v \in Range(Q) : \E i \in DOMAIN Q : Q[i] = v
        /\ \A i \in DOMAIN Q : Q[i] \in Range(P)
    <3>1. \A i \in DOMAIN P : P[i] \in T
      BY <2>1
    <3>2. \A i \in DOMAIN P : P[i] \in Range(P)
      BY DEF Range
    <3>3. \A v \in Range(Q) : \E i \in DOMAIN Q : Q[i] = v
      BY DEF Range
    <3>4. \A i \in DOMAIN Q : Q[i] \in Range(Q)
      BY DEF Range
    <3> QED BY <2>6, <3>1, <3>2, <3>3, <3>4
  <2>8. only(push_window_unique(P, x), S) = IF x \in S THEN push_window_unique(Q, x) ELSE Q
    <3>1. CASE \E i \in DOMAIN P : P[i].id = x.id
      <4>1. push_window_unique(P, x) = P
        BY <3>1 DEF push_window_unique
      <4>2. x \in S => push_window_unique(Q, x) = Q
        <5> SUFFICES ASSUME x \in S PROVE \E i \in DOMAIN Q : Q[i].id = x.id
          BY DEF push_window_unique
        <5>1. PICK i \in DOMAIN P : P[i].id = x.id
          BY <3>1
        <5>2. P[i] \in S /\ P[i] \in Range(Q)
          BY <2>6, <2>7, <5>1
        <5> QED BY <2>7, <5>1, <5>2
      <4> QED BY <2>5, <4>1, <4>2
    <3>2. CASE ~ \E i \in DOMAIN P : P[i].id = x.id
      <4>1. push_window_unique(P, x) = Append(P, x)
        BY <3>2 DEF push_window_unique
      <4>2. ~ \E i \in DOMAIN Q : Q[i].id = x.id
        <5> SUFFICES ASSUME NEW i \in DOMAIN Q, Q[i].id = x.id PROVE FALSE
          OBVIOUS
        <5>1. PICK j \in DOMAIN P : P[j] = Q[i]
          BY <2>7 DEF Range
        <5> QED BY <3>2, <5>1
      <4>3. push_window_unique(Q, x) = Append(Q, x)
        BY <4>2 DEF push_window_unique
      <4>4. only(Append(P, x), S) = IF x \in S THEN Append(only(P, S), x) ELSE only(P, S)
        BY <2>1, OnlyOfAppend
      <4> QED BY <2>5, <4>1, <4>3, <4>4
    <3> QED BY <3>1, <3>2
  <2>9. pushedOnto(kept, only(Append(t, x), S)) = IF x \in S THEN push_window_unique(Q, x) ELSE Q
    BY <2>3, <2>4 DEF Q
  <2>10. Append(t, x) \in Seq(T)
    OBVIOUS
  <2> QED BY <2>1, <2>8, <2>9, <2>10
<1>3. Seq(T) \subseteq G
  <2> HIDE DEF G
  <2> QED BY <1>1, <1>2, ListInduction
<1> QED BY <1>3 DEF kept

(* All of a list is selected, or nothing of it. *)
LEMMA OnlyOfAll ==
  ASSUME NEW S, NEW s, s \in Seq(Range(s))
  PROVE  /\ Range(s) \subseteq S => only(s, S) = s
         /\ Range(s) \cap S = {} => only(s, S) = <<>>
<1> DEFINE T == Range(s)
<1>1. ASSUME T \subseteq S PROVE only(s, S) = s
  <2> DEFINE G == {t \in Seq(T) : only(t, S) = t}
  <2>1. <<>> \in G
    <3>1. only(<<>>, S) = <<>> /\ <<>> \in Seq(T)
      BY OnlyOfNone
    <3> QED BY <3>1
  <2>2. ASSUME NEW t \in Seq(T), NEW x \in T, t \in G PROVE Append(t, x) \in G
    <3> HIDE DEF T
    <3>1. only(Append(t, x), S) = IF x \in S THEN Append(only(t, S), x) ELSE only(t, S)
      BY OnlyOfAppend
    <3>2. x \in S /\ only(t, S) = t /\ Append(t, x) \in Seq(T)
      BY <1>1, <2>2
    <3> QED BY <3>1, <3>2
  <2>3. Seq(T) \subseteq G
    <3> HIDE DEF G
    <3> QED BY <2>1, <2>2, ListInduction
  <2> QED BY <2>3
<1>2. ASSUME T \cap S = {} PROVE only(s, S) = <<>>
  <2> DEFINE kept == only(s, S)
  <2>1. kept \in Seq(T) /\ Range(kept) = {}
    <3> HIDE DEF T
    <3>1. s \in Seq(T) /\ Range(s) = T
      BY DEF T
    <3>2. only(s, S) \in Seq(T) /\ Range(only(s, S)) = Range(s) \cap S
      BY <3>1, RangeOfOnly
    <3> QED BY <1>2, <3>1, <3>2
  <2> HIDE DEF kept, T
  <2>2. DOMAIN kept = {}
    BY <2>1 DEF Range
  <2>3. kept = <<>>
    BY <2>1, <2>2
  <2> QED BY <2>3 DEF kept
<1> QED BY <1>1, <1>2

(* The lists of a prefix, and one more. *)
LEMMA FlattenOfPrefix ==
  ASSUME NEW S, NEW n \in Nat, NEW e, \A i \in 1..n + 1 : e[i] \in Seq(S)
  PROVE  /\ FlattenSeq([i \in 1..n |-> e[i]]) \in Seq(S)
         /\ FlattenSeq([i \in 1..n + 1 |-> e[i]]) = FlattenSeq([i \in 1..n |-> e[i]]) \o e[n + 1]
<1> DEFINE D == Seq(S)
           few == [i \in 1..n |-> e[i]]
           more == [i \in 1..n + 1 |-> e[i]]
<1>1. \A i \in 1..n : few[i] = e[i]
  OBVIOUS
<1>2. \A i \in 1..n + 1 : more[i] = e[i]
  OBVIOUS
<1>3. n + 1 \in 1..n + 1 /\ \A i \in 1..n : i \in 1..n + 1
  OBVIOUS
<1>4. \A i \in 1..n + 1 : e[i] \in D
  OBVIOUS
<1> HIDE DEF D
<1>5. few \in [1..n -> D] /\ more \in [1..n + 1 -> D]
  BY <1>3, <1>4
<1> HIDE DEF few, more
<1>6. few \in Seq(D) /\ Len(few) = n
  BY <1>5
<1>7. more \in Seq(D) /\ Len(more) = n + 1
  <2>1. n + 1 \in Nat
    OBVIOUS
  <2> QED BY <1>5, <2>1
<1>8. e[n + 1] \in D
  BY <1>3, <1>4
<1> DEFINE last == e[n + 1]
<1>9. last \in D /\ more[n + 1] = last
  BY <1>2, <1>3, <1>8
<1> HIDE DEF last
<1>10. /\ Append(few, last) \in Seq(D) /\ Len(Append(few, last)) = n + 1
       /\ \A i \in 1..n : Append(few, last)[i] = few[i]
       /\ Append(few, last)[n + 1] = last
  BY <1>6, <1>9, AppendProperties
<1>11. \A i \in 1..n + 1 : more[i] = Append(few, last)[i]
  <2> SUFFICES ASSUME NEW i \in 1..n + 1 PROVE more[i] = Append(few, last)[i]
    OBVIOUS
  <2>1. CASE i = n + 1
    BY <1>9, <1>10, <2>1
  <2>2. CASE i # n + 1
    <3>1. i \in 1..n
      BY <2>2
    <3> QED BY <1>1, <1>2, <1>10, <3>1
  <2> QED BY <2>1, <2>2
<1>12. more = Append(few, last)
  <2> DEFINE longer == Append(few, last)
  <2>1. longer \in Seq(D) /\ Len(longer) = Len(more) /\ \A i \in 1..Len(more) : more[i] = longer[i]
    BY <1>7, <1>10, <1>11
  <2> HIDE DEF longer
  <2>2. more = longer
    BY <1>7, <2>1, SeqEqual
  <2> QED BY <2>2 DEF longer
<1>13. few \in Seq(Seq(S)) /\ last \in Seq(S)
  BY <1>6, <1>9 DEF D
<1>14. FlattenSeq(few) \in Seq(S)
  BY <1>13, RangeOfFlatten
<1>15. FlattenSeq(Append(few, last)) = FlattenSeq(few) \o last
  BY <1>13, FlattenOfAppend
<1> QED BY <1>12, <1>14, <1>15 DEF few, more, last

(* A prefix of a list is a prefix and one more element. *)
LEMMA PrefixOfList ==
  ASSUME NEW T, NEW s \in Seq(T), NEW k \in Nat, k + 1 <= Len(s)
  PROVE  /\ [i \in 1..k |-> s[i]] \in Seq(T)
         /\ [i \in 1..k + 1 |-> s[i]] = Append([i \in 1..k |-> s[i]], s[k + 1])
<1> DEFINE few == [i \in 1..k |-> s[i]]
           more == [i \in 1..k + 1 |-> s[i]]
<1>1. \A i \in 1..k + 1 : s[i] \in T
  OBVIOUS
<1>2. few \in [1..k -> T] /\ more \in [1..k + 1 -> T]
  BY <1>1
<1>3. \A i \in 1..k : few[i] = s[i]
  OBVIOUS
<1>4. \A i \in 1..k + 1 : more[i] = s[i]
  OBVIOUS
<1>5. k + 1 \in 1..k + 1 /\ k + 1 \in Nat
  OBVIOUS
<1> HIDE DEF few, more
<1>6. few \in Seq(T) /\ Len(few) = k /\ more \in Seq(T) /\ Len(more) = k + 1
  BY <1>2, <1>5
<1> DEFINE last == s[k + 1]
<1>7. last \in T /\ more[k + 1] = last
  BY <1>1, <1>4, <1>5
<1> HIDE DEF last
<1>8. /\ Append(few, last) \in Seq(T) /\ Len(Append(few, last)) = k + 1
      /\ \A i \in 1..k : Append(few, last)[i] = few[i]
      /\ Append(few, last)[k + 1] = last
  BY <1>6, <1>7, AppendProperties
<1>9. \A i \in 1..k + 1 : more[i] = Append(few, last)[i]
  <2> SUFFICES ASSUME NEW i \in 1..k + 1 PROVE more[i] = Append(few, last)[i]
    OBVIOUS
  <2>1. CASE i = k + 1
    BY <1>7, <1>8, <2>1
  <2>2. CASE i # k + 1
    <3>1. i \in 1..k
      BY <2>2
    <3> QED BY <1>3, <1>4, <1>8, <3>1
  <2> QED BY <2>1, <2>2
<1>10. more = Append(few, last)
  <2> DEFINE longer == Append(few, last)
  <2>1. longer \in Seq(T) /\ Len(longer) = Len(more) /\ \A i \in 1..Len(more) : more[i] = longer[i]
    BY <1>6, <1>8, <1>9
  <2> HIDE DEF longer
  <2>2. more = longer
    BY <1>6, <2>1, SeqEqual
  <2> QED BY <2>2 DEF longer
<1> QED BY <1>6, <1>10 DEF few, more, last

(* A window of a model, by its id. *)
IsOfModel(w) == w.id[1] = "weekly-model"

(* Ids tell the windows of models from the others. *)
LEMMA ModelIds ==
  /\ session[1] # "weekly-model" /\ weekly[1] # "weekly-model"
  /\ \A raw, ordinal : weekly_model_id(raw, ordinal)[1] = "weekly-model"
<1>1. session[1] # "weekly-model" /\ weekly[1] # "weekly-model"
  BY DEF session, weekly
<1>2. ASSUME NEW raw, NEW ordinal PROVE weekly_model_id(raw, ordinal)[1] = "weekly-model"
  <2> DEFINE name == sanitized(raw, "model")
             base == <<"weekly-model", name>>
  <2>1. weekly_model_id(raw, ordinal) = IF ordinal <= 1 THEN base ELSE Append(base, ordinal)
    BY DEF weekly_model_id
  <2> HIDE DEF name
  <2>2. base \in Seq({"weekly-model", name, ordinal}) /\ Len(base) = 2 /\ base[1] = "weekly-model"
    OBVIOUS
  <2> HIDE DEF base
  <2>3. Append(base, ordinal)[1] = "weekly-model"
    <3> DEFINE S == {"weekly-model", name, ordinal}
    <3>1. base \in Seq(S) /\ ordinal \in S
      BY <2>2
    <3> HIDE DEF S
    <3>2. \A i \in 1..Len(base) : Append(base, ordinal)[i] = base[i]
      BY <3>1, AppendProperties
    <3>3. 1 \in 1..Len(base)
      BY <2>2
    <3> QED BY <2>2, <3>2, <3>3
  <2> QED BY <2>1, <2>2, <2>3
<1> QED BY <1>1, <1>2

(* Of windows with one id, all are of models or none is. *)
LEMMA OnlyOfOneId ==
  ASSUME NEW M, NEW id, NEW windows, SoundList(windows), Ids(windows) \subseteq {id},
         \A w \in Range(windows) : w \in M <=> IsOfModel(w)
  PROVE  only(windows, M) = IF id[1] = "weekly-model" THEN windows ELSE <<>>
<1>1. windows \in Seq(Range(windows)) /\ \A w \in Range(windows) : w.id = id
  BY DEF SoundList, Ids
<1>2. \A w \in Range(windows) : w \in M <=> id[1] = "weekly-model"
  BY <1>1 DEF IsOfModel
<1>3. CASE id[1] = "weekly-model"
  <2>1. Range(windows) \subseteq M
    BY <1>2, <1>3
  <2> QED BY <1>1, <1>3, <2>1, OnlyOfAll
<1>4. CASE id[1] # "weekly-model"
  <2>1. Range(windows) \cap M = {}
    BY <1>2, <1>4
  <2> QED BY <1>1, <1>4, <2>1, OnlyOfAll
<1> QED BY <1>3, <1>4

(* The window of an entry that belongs to a model, by its place among those. *)
modelWindow(limit, ordinal) ==
    usedWindow(weekly_model_id(modelOf(limit), ordinal), limit.display # <<"">>, value(limit))

(* The windows of a list of such entries: no more is needed to know them.   *)
windowsOfModels(scoped) ==
    FlattenSeq([i \in 1..Len(scoped) |-> modelWindow(scoped[i], i - 1)])

(* What an entry of the limits list adds to the windows of models. *)
LEMMA LimitWindowOfModels ==
  ASSUME NEW M, NEW limits, NEW i,
         \A w \in Range(limitWindow(limits, i)) : w \in M <=> IsOfModel(w)
  PROVE  only(limitWindow(limits, i), M) =
           IF isScoped(limits[i]) THEN modelWindow(limits[i], scopedBefore(limits, i)) ELSE <<>>
<1> DEFINE l == limits[i]
           windows == limitWindow(limits, i)
<1>1. ASSUME windows = <<>>, ~isScoped(l) PROVE only(windows, M) = <<>>
  BY <1>1, OnlyOfNone
<1>2. CASE l.kind \in legacyKinds
  <2>1. windows = <<>> /\ ~isScoped(l)
    BY <1>2 DEF limitWindow, isScoped
  <2> QED BY <1>1, <2>1
<1>3. CASE l.kind \notin legacyKinds /\ l.kind \in DOMAIN groupedId
  <2> DEFINE id == groupedId[l.kind]
             labelled == TRUE
             percent == value(l)
  <2>1. windows = usedWindow(id, labelled, percent) /\ ~isScoped(l)
    BY <1>3 DEF limitWindow, isScoped
  <2>2. id[1] # "weekly-model"
    <3>1. DOMAIN groupedId = {"session", "weekly_all"}
      BY DEF groupedId
    <3>2. id = session \/ id = weekly
      BY <1>3, <3>1 DEF groupedId
    <3> QED BY <3>2, ModelIds
  <2> HIDE DEF id, labelled, percent
  <2>3. SoundList(windows) /\ Ids(windows) \subseteq {id}
    BY <2>1, UsedWindowIsSound
  <2> HIDE DEF windows
  <2>4. only(windows, M) = <<>>
    <3>1. \A w \in Range(windows) : w \in M <=> IsOfModel(w)
      BY DEF windows
    <3>2. only(windows, M) = IF id[1] = "weekly-model" THEN windows ELSE <<>>
      BY <2>3, <3>1, OnlyOfOneId
    <3> QED BY <2>2, <3>2
  <2> QED BY <2>1, <2>4 DEF windows
<1>4. CASE l.kind \notin legacyKinds /\ l.kind \notin DOMAIN groupedId
  <2> DEFINE ordinal == scopedBefore(limits, i)
             id == weekly_model_id(modelOf(l), ordinal)
             labelled == l.display # <<"">>
             percent == value(l)
  <2>1. windows = usedWindow(id, labelled, percent)
    BY <1>4 DEF limitWindow
  <2>2. modelWindow(l, ordinal) = usedWindow(id, labelled, percent)
    BY DEF modelWindow
  <2>3. id[1] = "weekly-model"
    BY ModelIds
  <2>4. isScoped(l) <=> percent # <<>>
    BY <1>4 DEF isScoped
  <2> HIDE DEF id, labelled, percent
  <2>5. SoundList(windows) /\ Ids(windows) \subseteq {id}
    BY <2>1, UsedWindowIsSound
  <2>6. percent = <<>> => windows = <<>>
    BY <2>1 DEF usedWindow
  <2> HIDE DEF windows, ordinal
  <2>7. only(windows, M) = windows
    <3>1. \A w \in Range(windows) : w \in M <=> IsOfModel(w)
      BY DEF windows
    <3>2. only(windows, M) = IF id[1] = "weekly-model" THEN windows ELSE <<>>
      BY <2>5, <3>1, OnlyOfOneId
    <3> QED BY <2>3, <3>2
  <2>8. only(windows, M) = IF isScoped(l) THEN modelWindow(l, ordinal) ELSE <<>>
    BY <2>1, <2>2, <2>4, <2>6, <2>7
  <2> QED BY <2>8 DEF windows, ordinal
<1> QED BY <1>2, <1>3, <1>4

(* One more entry of a model. *)
LEMMA WindowsOfAppend ==
  ASSUME NEW U, NEW scoped \in Seq(U), NEW limit \in U
  PROVE  windowsOfModels(Append(scoped, limit)) =
           windowsOfModels(scoped) \o modelWindow(limit, Len(scoped))
<1> DEFINE n == Len(scoped)
           longer == Append(scoped, limit)
           e == [i \in 1..n + 1 |-> modelWindow(longer[i], i - 1)]
           S == UNION {Range(modelWindow(longer[i], i - 1)) : i \in 1..n + 1}
<1>1. /\ n \in Nat /\ Len(longer) = n + 1
      /\ \A i \in 1..n : longer[i] = scoped[i]
      /\ longer[n + 1] = limit
  OBVIOUS
<1>2. \A i \in 1..n + 1 : e[i] = modelWindow(longer[i], i - 1)
  OBVIOUS
<1>3. \A i \in 1..n + 1 : e[i] \in Seq(S)
  <2> SUFFICES ASSUME NEW i \in 1..n + 1 PROVE modelWindow(longer[i], i - 1) \in Seq(S)
    BY <1>2
  <2> DEFINE windows == modelWindow(longer[i], i - 1)
  <2>1. SoundList(windows)
    BY UsedWindowIsSound DEF modelWindow
  <2>2. Range(windows) \subseteq S
    OBVIOUS
  <2> HIDE DEF windows, S
  <2>3. windows \in Seq(S)
    BY <2>1, <2>2 DEF SoundList
  <2> QED BY <2>3 DEF windows
<1>4. windowsOfModels(longer) = FlattenSeq([i \in 1..n + 1 |-> e[i]])
  BY <1>1 DEF windowsOfModels
<1>5. windowsOfModels(scoped) = FlattenSeq([i \in 1..n |-> e[i]])
  <2>1. \A i \in 1..n : e[i] = modelWindow(scoped[i], i - 1)
    <3> SUFFICES ASSUME NEW i \in 1..n PROVE e[i] = modelWindow(scoped[i], i - 1)
      OBVIOUS
    <3>1. i \in 1..n + 1 /\ longer[i] = scoped[i]
      BY <1>1
    <3> HIDE DEF longer, n, e
    <3> QED BY <1>2, <3>1
  <2> HIDE DEF e
  <2>2. [i \in 1..n |-> modelWindow(scoped[i], i - 1)] = [i \in 1..n |-> e[i]]
    BY <2>1
  <2> QED BY <2>2 DEF windowsOfModels
<1>6. e[n + 1] = modelWindow(limit, n)
  <2>1. n + 1 \in 1..n + 1 /\ (n + 1) - 1 = n
    BY <1>1
  <2> HIDE DEF e, n, longer
  <2> QED BY <1>1, <1>2, <2>1
<1> HIDE DEF e, S, n, longer
<1>7. FlattenSeq([i \in 1..n + 1 |-> e[i]]) = FlattenSeq([i \in 1..n |-> e[i]]) \o e[n + 1]
  BY <1>1, <1>3, FlattenOfPrefix
<1> QED BY <1>4, <1>5, <1>6, <1>7 DEF longer, n

(* What the limits list adds to the windows of models depends on its entries *)
(* of models only, wherever grouped entries stand between them.            *)
LEMMA ModelsOfLimits ==
  ASSUME NEW doc, isClaudeDoc(doc), NEW T, NEW M, \A w \in T : w \in M <=> IsOfModel(w),
         \A i \in 1..Len(doc.limits) : limitWindow(doc.limits, i) \in Seq(T)
  PROVE  /\ FlattenSeq([i \in 1..Len(doc.limits) |-> limitWindow(doc.limits, i)]) \in Seq(T)
         /\ only(FlattenSeq([i \in 1..Len(doc.limits) |-> limitWindow(doc.limits, i)]), M)
              = windowsOfModels(only(doc.limits, scopedIn(doc.limits)))
<1> DEFINE limits == doc.limits
           n == Len(limits)
           U == ToSet(limits)
           Sc == scopedIn(limits)
           e == [i \in 1..n |-> limitWindow(limits, i)]
           prefix(k) == [i \in 1..k |-> limits[i]]
           W(k) == FlattenSeq([i \in 1..k |-> e[i]])
           before(k) == {j \in 1..k : isScoped(limits[j])}
           Holds(k) == /\ W(k) \in Seq(T)
                       /\ only(W(k), M) = windowsOfModels(only(prefix(k), Sc))
                       /\ IsFiniteSet(before(k))
                       /\ Len(only(prefix(k), Sc)) = Cardinality(before(k))
           G == {k \in Nat : k <= n => Holds(k)}
<1>1. limits \in Seq(U) /\ n \in Nat /\ \A i \in 1..n : limits[i] \in U
  BY DEF isClaudeDoc
<1>2. \A l \in U : l \in Sc <=> isScoped(l)
  BY DEF scopedIn
<1>3. \A i \in 1..n : e[i] = limitWindow(limits, i)
  OBVIOUS
<1>4. \A i \in 1..n : e[i] \in Seq(T)
  BY <1>3
<1>5. Holds(0)
  <2>1. prefix(0) = <<>> /\ [i \in 1..0 |-> e[i]] = <<>> /\ before(0) = {}
    OBVIOUS
  <2>2. only(prefix(0), Sc) = <<>> /\ W(0) = <<>> /\ only(W(0), M) = <<>>
    BY <2>1, OnlyOfNone, FlattenOfNone
  <2>3. windowsOfModels(<<>>) = <<>>
    <3>1. [i \in 1..Len(<<>>) |-> modelWindow(<<>>[i], i - 1)] = <<>>
      OBVIOUS
    <3> QED BY <3>1, FlattenOfNone DEF windowsOfModels
  <2>4. <<>> \in Seq(T) /\ Len(<<>>) = 0
    OBVIOUS
  <2>5. IsFiniteSet({}) /\ Cardinality({}) = 0
    BY FS_EmptySet
  <2> HIDE DEF prefix, W, before
  <2> QED BY <2>1, <2>2, <2>3, <2>4, <2>5
<1>6. ASSUME NEW k \in Nat, k + 1 <= n, Holds(k) PROVE Holds(k + 1)
  <2> DEFINE m == k + 1
             l == limits[k + 1]
             scoped == only(prefix(k), Sc)
  <2>1. m \in 1..n /\ m = k + 1 /\ l \in U /\ limits[m] = l
    BY <1>1, <1>6
  <2>2. prefix(k) \in Seq(U) /\ prefix(m) = Append(prefix(k), l)
    <3> HIDE DEF limits, U
    <3> QED BY <1>1, <1>6, PrefixOfList
  <2>3. scoped \in Seq(U)
          /\ only(prefix(m), Sc) = IF isScoped(l) THEN Append(scoped, l) ELSE scoped
    <3> DEFINE p == prefix(k)
    <3>1. p \in Seq(U) /\ prefix(m) = Append(p, l)
      BY <2>2
    <3> HIDE DEF p, l, U, Sc
    <3>2. /\ only(p, Sc) \in Seq(U)
          /\ only(Append(p, l), Sc) = IF l \in Sc THEN Append(only(p, Sc), l) ELSE only(p, Sc)
      BY <2>1, <3>1, OnlyOfAppend
    <3> QED BY <1>2, <2>1, <3>1, <3>2 DEF p
  <2>4. W(m) \in Seq(T) /\ W(k) \in Seq(T) /\ W(m) = W(k) \o e[m]
    <3>1. \A i \in 1..k + 1 : e[i] \in Seq(T)
      BY <1>1, <1>4, <1>6
    <3> HIDE DEF e, n, l
    <3>2. /\ FlattenSeq([i \in 1..k |-> e[i]]) \in Seq(T)
          /\ FlattenSeq([i \in 1..k + 1 |-> e[i]]) = FlattenSeq([i \in 1..k |-> e[i]]) \o e[k + 1]
      BY <3>1, FlattenOfPrefix
    <3>3. W(k) \in Seq(T) /\ W(m) = W(k) \o e[m]
      BY <3>2
    <3>4. e[m] \in Seq(T)
      BY <1>4, <2>1
    <3>5. \A a, b \in Seq(T) : a \o b \in Seq(T)
      OBVIOUS
    <3> HIDE DEF W, m
    <3> QED BY <3>3, <3>4, <3>5
  <2>5. before(m) = IF isScoped(l) THEN before(k) \cup {m} ELSE before(k)
    <3>1. \A j : j \in 1..m <=> j \in 1..k \/ j = m
      OBVIOUS
    <3> QED BY <3>1, <2>1
  <2>6. m \notin before(k)
    OBVIOUS
  <2>7. scopedBefore(limits, m) = Cardinality(before(k))
    <3>1. m - 1 = k
      OBVIOUS
    <3> QED BY <3>1 DEF scopedBefore
  <2>8. only(e[m], M) = IF isScoped(l) THEN modelWindow(l, Len(scoped)) ELSE <<>>
    <3>1. \A w \in Range(limitWindow(limits, m)) : w \in M <=> IsOfModel(w)
      <4>1. e[m] \in Seq(T) /\ e[m] = limitWindow(limits, m)
        BY <1>3, <1>4, <2>1
      <4>2. \A w \in Range(e[m]) : w \in T
        BY <4>1 DEF Range
      <4> QED BY <4>1, <4>2
    <3>2. Cardinality(before(k)) = Len(scoped)
      BY <1>6
    <3> HIDE DEF e, scoped, before, m, n
    <3>3. only(limitWindow(limits, m), M) =
             IF isScoped(limits[m]) THEN modelWindow(limits[m], scopedBefore(limits, m)) ELSE <<>>
      BY <3>1, LimitWindowOfModels
    <3> QED BY <1>3, <2>1, <2>7, <3>2, <3>3
  <2>9. only(W(m), M) = only(W(k), M) \o only(e[m], M)
    <3>1. e[m] \in Seq(T)
      BY <1>4, <2>1
    <3> HIDE DEF e, W, m
    <3> QED BY <2>4, <3>1, OnlyOfConcat
  <2>10. only(W(m), M) = windowsOfModels(only(prefix(m), Sc))
    <3>1. only(W(k), M) = windowsOfModels(scoped) /\ only(W(k), M) \in Seq(T)
      <4> HIDE DEF W
      <4> QED BY <1>6, <2>4, RangeOfOnly
    <3>2. CASE isScoped(l)
      <4>1. windowsOfModels(Append(scoped, l)) =
              windowsOfModels(scoped) \o modelWindow(l, Len(scoped))
        <5> HIDE DEF scoped, l, U
        <5> QED BY <2>1, <2>3, WindowsOfAppend
      <4> HIDE DEF W, e, prefix, scoped
      <4> QED BY <2>3, <2>8, <2>9, <3>1, <3>2, <4>1
    <3>3. CASE ~isScoped(l)
      <4> HIDE DEF W, e, prefix, scoped
      <4> QED BY <2>3, <2>8, <2>9, <3>1, <3>3, ConcatEmptySeq
    <3> QED BY <3>2, <3>3
  <2>11. IsFiniteSet(before(m)) /\ Len(only(prefix(m), Sc)) = Cardinality(before(m))
    <3>1. IsFiniteSet(before(k)) /\ Len(scoped) = Cardinality(before(k))
      BY <1>6
    <3> HIDE DEF before, prefix, scoped, l, U
    <3>2. CASE isScoped(l)
      <4>1. IsFiniteSet(before(k) \cup {m}) /\ Cardinality(before(k) \cup {m}) = Cardinality(before(k)) + 1
        BY <2>6, <3>1, FS_AddElement
      <4>2. Len(Append(scoped, l)) = Len(scoped) + 1
        BY <2>1, <2>3
      <4> QED BY <2>3, <2>5, <3>1, <3>2, <4>1, <4>2
    <3>3. CASE ~isScoped(l)
      BY <2>3, <2>5, <3>1, <3>3
    <3> QED BY <3>2, <3>3
  <2> HIDE DEF W, before, prefix
  <2> QED BY <2>4, <2>10, <2>11
<1>7. Holds(n)
  <2> HIDE DEF Holds
  <2>1. 0 \in G /\ \A k \in Nat : k \in G => k + 1 \in G
    BY <1>1, <1>5, <1>6
  <2>2. Nat \subseteq G
    <3> HIDE DEF G
    <3> QED BY <2>1, SetInduction
  <2> QED BY <1>1, <2>2
<1>8. prefix(n) = limits
  BY <1>1
<1>9. W(n) = FlattenSeq([i \in 1..n |-> limitWindow(limits, i)])
  OBVIOUS
<1>10. W(n) \in Seq(T) /\ only(W(n), M) = windowsOfModels(only(limits, Sc))
  BY <1>7, <1>8
<1> QED BY <1>9, <1>10

(* Claude's windows of models, from what the answer says of models alone. *)
LEMMA ModelsOfClaude ==
  ASSUME NEW doc, isClaudeDoc(doc)
  PROVE  only(claudeWindows(doc), ofModels(claudeWindows(doc))) =
           pushedOnto(<<>>,
             windowsOfModels(only(doc.limits, scopedIn(doc.limits)))
             \o usedWindow(weekly_model_id("opus", 0), TRUE, doc.seven_day_opus)
             \o usedWindow(weekly_model_id("sonnet", 0), TRUE, doc.seven_day_sonnet))
<1> DEFINE limits == doc.limits
           n == Len(limits)
           seqs == [i \in 1..n |-> limitWindow(limits, i)]
           opusId == weekly_model_id("opus", 0)
           sonnetId == weekly_model_id("sonnet", 0)
           labelled == TRUE
           A == usedWindow(session, labelled, doc.five_hour)
           B == usedWindow(weekly, labelled, orElse(doc.seven_day_oauth_apps, doc.seven_day))
           F == FlattenSeq(seqs)
           C == usedWindow(opusId, labelled, doc.seven_day_opus)
           D == usedWindow(sonnetId, labelled, doc.seven_day_sonnet)
           all == A \o B \o F \o C \o D
           T == Range(all)
           M == {w \in T : IsOfModel(w)}
           models1 == windowsOfModels(only(limits, scopedIn(limits)))
<1>1. n \in Nat /\ DOMAIN limits = 1..n
  BY DEF isClaudeDoc
<1>2. claudeWindows(doc) = pushedOnto(<<>>, all)
  BY <1>1 DEF claudeWindows
<1>3. \A i \in 1..n : SoundList(seqs[i]) /\ seqs[i] = limitWindow(limits, i)
  <2> SUFFICES ASSUME NEW i \in 1..n PROVE SoundList(limitWindow(limits, i))
    OBVIOUS
  <2>1. optional(limits[i].utilization, Int) /\ optional(limits[i].percent, Int)
    BY <1>1 DEF isClaudeDoc, ToSet
  <2> HIDE DEF limits
  <2> QED BY <2>1, LimitWindowIsSound
<1>4. SoundList(F) /\ Range(F) = UNION {Range(seqs[i]) : i \in 1..n}
  <2>1. seqs = [i \in 1..n |-> seqs[i]]
    OBVIOUS
  <2> HIDE DEF seqs, n
  <2> QED BY <1>1, <1>3, <2>1, FlattenIsSound
<1> HIDE DEF labelled
<1>5. /\ SoundList(A) /\ Ids(A) \subseteq {session}
      /\ SoundList(B) /\ Ids(B) \subseteq {weekly}
  BY UsedWindowIsSound
<1>6. /\ SoundList(C) /\ Ids(C) \subseteq {opusId}
      /\ SoundList(D) /\ Ids(D) \subseteq {sonnetId}
  <2> HIDE DEF opusId, sonnetId
  <2> QED BY UsedWindowIsSound
<1> HIDE DEF A, B, C, D, F
<1>7. SoundList(A \o B) /\ Range(A \o B) = Range(A) \cup Range(B)
  BY <1>5, ConcatIsSound
<1>8. SoundList(A \o B \o F) /\ Range(A \o B \o F) = Range(A) \cup Range(B) \cup Range(F)
  BY <1>4, <1>7, ConcatIsSound
<1>9. SoundList(A \o B \o F \o C)
        /\ Range(A \o B \o F \o C) = Range(A) \cup Range(B) \cup Range(F) \cup Range(C)
  BY <1>6, <1>8, ConcatIsSound
<1>10. SoundList(all) /\ T = Range(A) \cup Range(B) \cup Range(F) \cup Range(C) \cup Range(D)
  BY <1>6, <1>9, ConcatIsSound
<1> HIDE DEF T, all
<1>11. ASSUME NEW s, SoundList(s), Range(s) \subseteq T PROVE s \in Seq(T)
  BY <1>11 DEF SoundList
<1>12. A \in Seq(T) /\ B \in Seq(T) /\ F \in Seq(T) /\ C \in Seq(T) /\ D \in Seq(T)
  BY <1>4, <1>5, <1>6, <1>10, <1>11
<1>13. \A w \in T : w \in M <=> IsOfModel(w)
  OBVIOUS
<1>14. \A v, w \in T : v.id = w.id => (v \in M <=> w \in M)
  BY DEF IsOfModel
<1> HIDE DEF M
<1>15. only(F, M) = models1
  <2>1. \A i \in 1..n : limitWindow(limits, i) \in Seq(T)
    <3> SUFFICES ASSUME NEW i \in 1..n PROVE seqs[i] \in Seq(T)
      BY <1>3
    <3>1. SoundList(seqs[i]) /\ Range(seqs[i]) \subseteq T
      BY <1>3, <1>4, <1>10
    <3> HIDE DEF seqs
    <3> QED BY <1>11, <3>1
  <2>2. only(FlattenSeq([i \in 1..Len(doc.limits) |-> limitWindow(doc.limits, i)]), M)
          = windowsOfModels(only(doc.limits, scopedIn(doc.limits)))
    BY <1>13, <2>1, ModelsOfLimits
  <2> QED BY <2>2 DEF F
<1>16. only(A, M) = <<>> /\ only(B, M) = <<>>
  <2>1. \A w \in Range(A) : w \in M <=> IsOfModel(w)
    BY <1>10, <1>13
  <2>2. \A w \in Range(B) : w \in M <=> IsOfModel(w)
    BY <1>10, <1>13
  <2>3. only(A, M) = IF session[1] = "weekly-model" THEN A ELSE <<>>
    BY <1>5, <2>1, OnlyOfOneId
  <2>4. only(B, M) = IF weekly[1] = "weekly-model" THEN B ELSE <<>>
    BY <1>5, <2>2, OnlyOfOneId
  <2> QED BY <2>3, <2>4, ModelIds
<1>17. only(C, M) = C /\ only(D, M) = D
  <2>0. opusId[1] = "weekly-model" /\ sonnetId[1] = "weekly-model"
    BY ModelIds
  <2> HIDE DEF opusId, sonnetId
  <2>1. \A w \in Range(C) : w \in M <=> IsOfModel(w)
    BY <1>10, <1>13
  <2>2. \A w \in Range(D) : w \in M <=> IsOfModel(w)
    BY <1>10, <1>13
  <2>3. only(C, M) = IF opusId[1] = "weekly-model" THEN C ELSE <<>>
    BY <1>6, <2>1, OnlyOfOneId
  <2>4. only(D, M) = IF sonnetId[1] = "weekly-model" THEN D ELSE <<>>
    BY <1>6, <2>2, OnlyOfOneId
  <2> QED BY <2>0, <2>3, <2>4
<1>18. only(all, M) = models1 \o C \o D
  <2> DEFINE AB == A \o B
             ABF == AB \o F
             ABFC == ABF \o C
  <2>1. AB \in Seq(T) /\ ABF \in Seq(T) /\ ABFC \in Seq(T) /\ all = ABFC \o D
    BY <1>12 DEF all
  <2> HIDE DEF A, B, F, C, D, M, T, all
  <2>2. only(AB, M) = only(A, M) \o only(B, M)
    BY <1>12, OnlyOfConcat
  <2> HIDE DEF AB
  <2>3. only(ABF, M) = only(AB, M) \o only(F, M)
    BY <1>12, <2>1, OnlyOfConcat
  <2> HIDE DEF ABF
  <2>4. only(ABFC, M) = only(ABF, M) \o only(C, M)
    BY <1>12, <2>1, OnlyOfConcat
  <2> HIDE DEF ABFC
  <2>5. only(all, M) = only(ABFC, M) \o only(D, M)
    BY <1>12, <2>1, OnlyOfConcat
  <2>6. only(AB, M) = <<>>
    BY <1>16, <2>2
  <2>7. only(F, M) \in Seq(T)
    BY <1>12, RangeOfOnly
  <2>8. only(ABF, M) = models1
    <3> HIDE DEF models1
    <3> QED BY <1>15, <2>3, <2>6, <2>7, ConcatEmptySeq
  <2> HIDE DEF models1
  <2> QED BY <1>17, <2>4, <2>5, <2>8
<1>19. <<>> \in Seq(T) /\ all \in Seq(T)
  BY <1>10 DEF SoundList, T
<1>20. /\ claudeWindows(doc) \in Seq(T)
       /\ only(claudeWindows(doc), M) = pushedOnto(<<>>, models1 \o C \o D)
  <2> DEFINE none == <<>>
  <2>1. none \in Seq(T) /\ only(none, M) = none
    BY <1>19, OnlyOfNone
  <2> HIDE DEF none
  <2>2. only(pushedOnto(none, all), M) = pushedOnto(only(none, M), only(all, M))
    BY <1>14, <1>19, <2>1, OnlyOfPushed
  <2>3. pushedOnto(none, all) \in Seq(T)
    BY <1>19, <2>1, PushedOntoKeeps
  <2>4. claudeWindows(doc) = pushedOnto(none, all)
    BY <1>2 DEF none
  <2> HIDE DEF models1
  <2>5. only(claudeWindows(doc), M) = pushedOnto(none, models1 \o C \o D)
    BY <1>18, <2>1, <2>2, <2>4
  <2> QED BY <2>3, <2>4, <2>5 DEF none
<1>21. only(claudeWindows(doc), ofModels(claudeWindows(doc))) = only(claudeWindows(doc), M)
  <2> DEFINE windows == claudeWindows(doc)
  <2>1. \A w \in ToSet(windows) : w \in T
    BY <1>20 DEF ToSet
  <2>2. \A w \in ToSet(windows) : w \in ofModels(windows) <=> w \in M
    BY <1>13, <2>1 DEF ofModels, IsOfModel
  <2> HIDE DEF windows
  <2>3. only(windows, ofModels(windows)) = only(windows, M)
    BY <2>2, OnlyByMembers
  <2> QED BY <2>3 DEF windows
<1> QED BY <1>20, <1>21 DEF C, D, labelled

-----------------------------------------------------------------------------
(* StatusRow: every entry of a model is shown apart, but a twin *)

(* Two lists, pushed one after the other. *)
LEMMA PushedOfConcat ==
  ASSUME NEW T, NEW windows \in Seq(T), NEW s \in Seq(T), NEW t \in Seq(T)
  PROVE  pushedOnto(windows, s \o t) = pushedOnto(pushedOnto(windows, s), t)
<1> DEFINE first == pushedOnto(windows, s)
           G == {u \in Seq(T) : pushedOnto(windows, s \o u) = pushedOnto(first, u)}
<1>0. first \in Seq(T)
  BY PushedOntoKeeps
<1>1. <<>> \in G
  <2>1. <<>> \in Seq(T) /\ s \o <<>> = s
    OBVIOUS
  <2>2. pushedOnto(first, <<>>) = first
    <3> HIDE DEF first
    <3> QED BY <1>0, PushedOfNone
  <2> QED BY <2>1, <2>2
<1>2. ASSUME NEW u \in Seq(T), NEW x \in T, u \in G PROVE Append(u, x) \in G
  <2>1. Append(u, x) \in Seq(T) /\ s \o Append(u, x) = Append(s \o u, x) /\ s \o u \in Seq(T)
    OBVIOUS
  <2>2. pushedOnto(windows, Append(s \o u, x)) = push_window_unique(pushedOnto(windows, s \o u), x)
    <3> DEFINE su == s \o u
    <3>1. su \in Seq(T)
      BY <2>1
    <3> HIDE DEF su
    <3>2. pushedOnto(windows, Append(su, x)) = push_window_unique(pushedOnto(windows, su), x)
      BY <3>1, PushedOfAppend
    <3> QED BY <3>2 DEF su
  <2>3. pushedOnto(first, Append(u, x)) = push_window_unique(pushedOnto(first, u), x)
    <3> HIDE DEF first
    <3> QED BY <1>0, PushedOfAppend
  <2>4. pushedOnto(windows, s \o u) = pushedOnto(first, u)
    BY <1>2
  <2>5. pushedOnto(windows, s \o Append(u, x)) = pushedOnto(first, Append(u, x))
    <3> HIDE DEF first
    <3> QED BY <2>1, <2>2, <2>3, <2>4
  <2> QED BY <2>1, <2>5
<1>3. Seq(T) \subseteq G
  <2> HIDE DEF G
  <2> QED BY <1>1, <1>2, ListInduction
<1> QED BY <1>3

(* Two lists, pushed one after the other onto none. *)
LEMMA PushedTwice ==
  ASSUME NEW T, NEW s \in Seq(T), NEW t \in Seq(T)
  PROVE  /\ pushedOnto(<<>>, s) \in Seq(T)
         /\ Ids(pushedOnto(<<>>, s)) = Ids(s)
         /\ pushedOnto(<<>>, s \o t) = pushedOnto(pushedOnto(<<>>, s), t)
<1> DEFINE none == <<>>
<1>1. none \in Seq(T)
  OBVIOUS
<1>0. Ids(none) = {}
  BY EmptyIsSound
<1> HIDE DEF none
<1>2. pushedOnto(none, s) \in Seq(T) /\ Ids(pushedOnto(none, s)) = Ids(s)
  <2> DEFINE all == pushedOnto(none, s)
  <2>1. all \in Seq(T) /\ Ids(all) = Ids(none) \cup Ids(s)
    BY <1>1, PushedOntoKeeps
  <2> HIDE DEF all
  <2>2. Ids(all) = Ids(s)
    BY <1>0, <2>1
  <2> QED BY <2>1, <2>2 DEF all
<1>3. pushedOnto(none, s \o t) = pushedOnto(pushedOnto(none, s), t)
  BY <1>1, PushedOfConcat
<1> QED BY <1>2, <1>3 DEF none

(* Lists are put together in any grouping. *)
LEMMA ConcatGroups ==
  ASSUME NEW T, NEW s \in Seq(T), NEW t \in Seq(T), NEW u \in Seq(T)
  PROVE  s \o t \in Seq(T) /\ (s \o t) \o u = s \o (t \o u)
OBVIOUS

(* What is there stays when more is pushed, and a new id gets in. *)
LEMMA PushedStays ==
  ASSUME NEW T, NEW windows \in Seq(T), NEW s \in Seq(T)
  PROVE  /\ pushedOnto(windows, s) \in Seq(T)
         /\ Range(windows) \subseteq Range(pushedOnto(windows, s))
         /\ \A w \in T : s = <<w>> /\ w.id \notin Ids(windows) => w \in Range(pushedOnto(windows, s))
<1> DEFINE all == pushedOnto(windows, s)
<1>1. /\ all \in Seq(T) /\ Len(windows) <= Len(all)
      /\ \A i \in 1..Len(windows) : all[i] = windows[i]
  BY PushedOntoKeeps
<1> HIDE DEF all
<1>2. Range(windows) \subseteq Range(all)
  <2> SUFFICES ASSUME NEW i \in 1..Len(windows) PROVE windows[i] \in Range(all)
    BY DEF Range
  <2>1. i \in DOMAIN all /\ all[i] = windows[i]
    BY <1>1
  <2> QED BY <2>1 DEF Range
<1>3. ASSUME NEW w \in T, s = <<w>>, w.id \notin Ids(windows) PROVE w \in Range(all)
  <2>1. <<w>> = Append(<<>>, w) /\ <<>> \in Seq(T)
    OBVIOUS
  <2>2. pushedOnto(windows, Append(<<>>, w)) = push_window_unique(pushedOnto(windows, <<>>), w)
    <3> DEFINE none == <<>>
    <3>1. none \in Seq(T)
      BY <2>1
    <3> HIDE DEF none
    <3>2. pushedOnto(windows, Append(none, w)) = push_window_unique(pushedOnto(windows, none), w)
      BY <3>1, PushedOfAppend
    <3> QED BY <3>2 DEF none
  <2>3. pushedOnto(windows, <<>>) = windows
    BY PushedOfNone
  <2>4. all = push_window_unique(windows, w)
    BY <1>3, <2>1, <2>2, <2>3 DEF all
  <2>5. all = Append(windows, w)
    BY <1>3, <2>4 DEF push_window_unique, Ids, Range
  <2>6. Len(windows) + 1 \in DOMAIN all /\ all[Len(windows) + 1] = w
    BY <2>5
  <2> QED BY <2>6 DEF Range
<1> QED BY <1>1, <1>2, <1>3 DEF all

(* The window of a used percentage. *)
LEMMA UsedWindowIs ==
  ASSUME NEW id, NEW percent, percent # <<>>, percent[1] \in Int
  PROVE  usedWindow(id, TRUE, percent) =
           <<[id |-> id, used |-> clamp(percent[1]), remaining |-> 100 - clamp(percent[1])]>>
<1> DEFINE part == clamp(percent[1])
<1>0. \A x \in Int : clamp(x) \in 0..100
  BY DEF clamp
<1>1. part \in 0..100 /\ 100 - part \in 0..100 /\ part + (100 - part) = 100
  <2>1. part \in 0..100
    BY <1>0
  <2> HIDE DEF part
  <2> QED BY <2>1
<1> HIDE DEF part
<1>2. tryNew(id, TRUE, part, 100 - part) = <<[id |-> id, used |-> part, remaining |-> 100 - part]>>
  BY <1>1 DEF tryNew
<1> QED BY <1>2 DEF usedWindow, part

(* An id of a model tells its name and, from the third on, the ordinal. *)
LEMMA ModelIdTells ==
  ASSUME NEW raw, NEW other, NEW m \in Nat, NEW n \in Nat,
         weekly_model_id(raw, m) = weekly_model_id(other, n)
  PROVE  /\ sanitized(raw, "model") = sanitized(other, "model")
         /\ (m <= 1 /\ n <= 1) \/ m = n
<1>1. <<"weekly-model", sanitized(raw, "model")>> = <<"weekly-model", sanitized(other, "model")>>
  BY Quotas
<1>2. sanitized(raw, "model") = sanitized(other, "model")
  BY <1>1
<1> DEFINE name == sanitized(raw, "model")
           base == <<"weekly-model", name>>
<1>3. /\ weekly_model_id(raw, m) = IF m <= 1 THEN base ELSE Append(base, m)
      /\ weekly_model_id(other, n) = IF n <= 1 THEN base ELSE Append(base, n)
  BY <1>2 DEF weekly_model_id
<1> HIDE DEF name
<1>4. base \in Seq({"weekly-model", name, m, n}) /\ Len(base) = 2
  OBVIOUS
<1> HIDE DEF base
<1>5. \A k \in {m, n} : Len(Append(base, k)) = 3 /\ Append(base, k)[3] = k
  <2> DEFINE S == {"weekly-model", name, m, n}
  <2> SUFFICES ASSUME NEW k \in {m, n} PROVE Len(Append(base, k)) = 3 /\ Append(base, k)[3] = k
    OBVIOUS
  <2>1. base \in Seq(S) /\ k \in S
    BY <1>4
  <2> HIDE DEF S
  <2>2. Len(Append(base, k)) = Len(base) + 1 /\ Append(base, k)[Len(base) + 1] = k
    BY <2>1, AppendProperties
  <2> QED BY <1>4, <2>2
<1>6. (m <= 1 /\ n <= 1) \/ m = n
  <2>1. CASE m <= 1 /\ ~(n <= 1)
    <3>1. base = Append(base, n)
      BY <1>3, <2>1
    <3> QED BY <1>4, <1>5, <3>1
  <2>2. CASE ~(m <= 1) /\ n <= 1
    <3>1. Append(base, m) = base
      BY <1>3, <2>2
    <3> QED BY <1>4, <1>5, <3>1
  <2>3. CASE ~(m <= 1) /\ ~(n <= 1)
    <3>1. Append(base, m) = Append(base, n)
      BY <1>3, <2>3
    <3> QED BY <1>5, <3>1
  <2> QED BY <2>1, <2>2, <2>3
<1> QED BY <1>2, <1>6

entryId(limits, i) == weekly_model_id(modelOf(limits[i]), scopedBefore(limits, i))

(* Two entries of models have one id only if the later one is a twin. *)
LEMMA OneIdIsTwin ==
  ASSUME NEW doc, isClaudeDoc(doc), NEW i \in modelEntries(doc), NEW j \in modelEntries(doc),
         j < i, entryId(doc.limits, i) = entryId(doc.limits, j)
  PROVE  i \in twins(doc)
<1> DEFINE limits == doc.limits
           earlier(k) == {p \in 1..k - 1 : isScoped(limits[p])}
<1>0. /\ i \in 1..Len(limits) /\ j \in 1..Len(limits) /\ Len(limits) \in Nat
      /\ isScoped(limits[i]) /\ isScoped(limits[j])
  <2>1. /\ i \in DOMAIN limits /\ j \in DOMAIN limits
        /\ isScoped(limits[i]) /\ isScoped(limits[j])
    BY Zenon DEF modelEntries
  <2>2. limits \in Seq(ToSet(limits))
    BY Zenon DEF isClaudeDoc
  <2> HIDE DEF limits
  <2> QED BY <2>1, <2>2
<1> HIDE DEF limits
<1>1. \A k \in 1..Len(limits) : IsFiniteSet(earlier(k)) /\ Cardinality(earlier(k)) \in Nat
                                  /\ scopedBefore(limits, k) = Cardinality(earlier(k))
  <2> SUFFICES ASSUME NEW k \in 1..Len(limits)
               PROVE  /\ IsFiniteSet(earlier(k)) /\ Cardinality(earlier(k)) \in Nat
                      /\ scopedBefore(limits, k) = Cardinality(earlier(k))
    OBVIOUS
  <2>1. IsFiniteSet(1..k - 1) /\ earlier(k) \subseteq 1..k - 1
    <3>1. 1 \in Int /\ k - 1 \in Int
      BY <1>0
    <3>2. IsFiniteSet(1..k - 1)
      BY <3>1, FS_Interval
    <3> QED BY <3>2
  <2>2. IsFiniteSet(earlier(k))
    BY <2>1, FS_Subset
  <2> QED BY <2>2, FS_CardinalityType DEF scopedBefore
<1>2. earlier(j) \subseteq earlier(i) /\ j \in earlier(i) /\ j \notin earlier(j)
  BY <1>0
<1> DEFINE early == earlier(j)
           late == earlier(i)
<1>3. /\ IsFiniteSet(early) /\ IsFiniteSet(late) /\ early \cup {j} \subseteq late /\ j \notin early
      /\ Cardinality(early) \in Nat /\ Cardinality(late) \in Nat
      /\ scopedBefore(limits, i) = Cardinality(late) /\ scopedBefore(limits, j) = Cardinality(early)
  BY <1>0, <1>1, <1>2
<1>4. late = {p \in 1..i - 1 : isScoped(limits[p])}
  OBVIOUS
<1> HIDE DEF early, late, earlier
<1>5. Cardinality(early) + 1 <= Cardinality(late)
  <2>1. IsFiniteSet(early \cup {j}) /\ Cardinality(early \cup {j}) = Cardinality(early) + 1
    BY <1>3, FS_AddElement
  <2>2. Cardinality(early \cup {j}) <= Cardinality(late)
    BY <1>3, FS_Subset
  <2> QED BY <2>1, <2>2
<1>6. /\ sanitized(modelOf(limits[i]), "model") = sanitized(modelOf(limits[j]), "model")
      /\ Cardinality(late) <= 1
  <2>1. weekly_model_id(modelOf(limits[i]), Cardinality(late)) =
          weekly_model_id(modelOf(limits[j]), Cardinality(early))
    BY <1>3 DEF entryId, limits
  <2> QED BY <1>3, <1>5, <2>1, ModelIdTells
<1>7. nameOf(doc, j) = nameOf(doc, i)
  BY <1>6 DEF nameOf, limits
<1>8. ASSUME NEW k \in late PROVE k = j
  <2>1. {j} \subseteq late /\ IsFiniteSet({j}) /\ Cardinality({j}) = 1
    BY <1>3, FS_Singleton
  <2>2. Cardinality({j}) = Cardinality(late)
    BY <1>3, <1>5, <1>6, <2>1
  <2>3. {j} = late
    BY <1>3, <2>1, <2>2, FS_Subset
  <2> QED BY <1>8, <2>3
<1>9. \A k \in 1..i - 1 : isScoped(doc.limits[k]) => k = j
  BY <1>4, <1>8 DEF limits
<1> QED BY <1>7, <1>9 DEF twins

entryWindow(limits, i) ==
    [id |-> entryId(limits, i), used |-> clamp(value(limits[i])[1]),
     remaining |-> 100 - clamp(value(limits[i])[1])]

(* An entry of a model makes one window. *)
LEMMA EntryWindowIs ==
  ASSUME NEW doc, isClaudeDoc(doc), NEW i \in modelEntries(doc)
  PROVE  limitWindow(doc.limits, i) = <<entryWindow(doc.limits, i)>>
<1> DEFINE limits == doc.limits
           l == limits[i]
<1>1. isScoped(l) /\ l.display # <<"">> /\ l \in ToSet(limits)
  BY DEF modelEntries, ToSet
<1>2. value(l) # <<>> /\ value(l)[1] \in Int
  BY <1>1 DEF isScoped, isClaudeDoc, value, orElse, optional
<1>3. l.kind \notin legacyKinds /\ l.kind \notin DOMAIN groupedId
  BY <1>1 DEF isScoped
<1>4. limitWindow(limits, i) = usedWindow(entryId(limits, i), TRUE, value(l))
  <2>1. (l.display # <<"">>) = TRUE
    BY <1>1
  <2> QED BY <1>3, <2>1 DEF limitWindow, entryId
<1> HIDE DEF l, limits
<1>5. usedWindow(entryId(limits, i), TRUE, value(l)) =
        <<[id |-> entryId(limits, i), used |-> clamp(value(l)[1]),
           remaining |-> 100 - clamp(value(l)[1])]>>
  <2> DEFINE id == entryId(limits, i)
             percent == value(l)
  <2>1. percent # <<>> /\ percent[1] \in Int
    BY <1>2
  <2> HIDE DEF id, percent
  <2>2. usedWindow(id, TRUE, percent) =
          <<[id |-> id, used |-> clamp(percent[1]), remaining |-> 100 - clamp(percent[1])]>>
    BY <2>1, UsedWindowIs
  <2> QED BY <2>2 DEF id, percent
<1> QED BY <1>4, <1>5 DEF entryWindow, l, limits

(* What the first windows and a prefix of the entries have pushed has the    *)
(* window of every entry of a model but twins; the rest pushes none out.     *)
LEMMA EntriesAreShown ==
  ASSUME NEW doc, isClaudeDoc(doc), NEW T, NEW first \in Seq(T),
         \A id \in Ids(first) : id \in {session, weekly},
         \A i \in 1..Len(doc.limits) : limitWindow(doc.limits, i) \in Seq(T)
  PROVE  \A i \in modelEntries(doc) \ twins(doc) : entryWindow(doc.limits, i) \in
           Range(pushedOnto(<<>>, first \o
                   FlattenSeq([p \in 1..Len(doc.limits) |-> limitWindow(doc.limits, p)])))
<1> DEFINE limits == doc.limits
           n == Len(limits)
           own == modelEntries(doc) \ twins(doc)
           e == [i \in 1..n |-> limitWindow(limits, i)]
           W(k) == FlattenSeq([i \in 1..k |-> e[i]])
           R(k) == pushedOnto(<<>>, first \o W(k))
           Holds(k) == /\ W(k) \in Seq(T)
                       /\ R(k) \in Seq(T)
                       /\ \A id \in Ids(R(k)) : \/ id \in {session, weekly}
                                                \/ \E j \in 1..k : id \in LimitIds(limits, j)
                       /\ \A i \in own : i <= k => entryWindow(limits, i) \in Range(R(k))
           G == {k \in Nat : k <= n => Holds(k)}
<1>1. n \in Nat /\ DOMAIN limits = 1..n /\ own \subseteq 1..n
  <2>1. modelEntries(doc) \subseteq DOMAIN limits
    BY Zenon DEF modelEntries
  <2>2. limits \in Seq(ToSet(limits))
    BY Zenon DEF isClaudeDoc
  <2> HIDE DEF limits
  <2> QED BY <2>1, <2>2
<1>2. \A i \in 1..n : e[i] = limitWindow(limits, i) /\ e[i] \in Seq(T)
  OBVIOUS
<1>3. \A i \in 1..n : Ids(e[i]) = LimitIds(limits, i)
  <2> SUFFICES ASSUME NEW i \in 1..n PROVE Ids(limitWindow(limits, i)) = LimitIds(limits, i)
    BY <1>2
  <2>1. optional(limits[i].utilization, Int) /\ optional(limits[i].percent, Int)
    BY <1>1 DEF isClaudeDoc, ToSet
  <2> HIDE DEF limits
  <2> QED BY <2>1, LimitWindowIsSound
<1>4. Holds(0)
  <2>1. [i \in 1..0 |-> e[i]] = <<>>
    OBVIOUS
  <2>2. W(0) = <<>>
    BY <2>1, FlattenOfNone
  <2>3. <<>> \in Seq(T) /\ first \o <<>> = first /\ Ids(<<>>) = {}
    BY EmptyIsSound
  <2>4. R(0) = pushedOnto(<<>>, first)
    <3> HIDE DEF W
    <3> QED BY <2>2, <2>3
  <2>5. R(0) \in Seq(T) /\ Ids(R(0)) = Ids(first)
    <3> HIDE DEF R
    <3> QED BY <2>4, PushedTwice
  <2>6. \A i \in own : ~(i <= 0)
    BY <1>1
  <2> HIDE DEF W, R, own
  <2>7. W(0) \in Seq(T) /\ R(0) \in Seq(T) /\ \A id \in Ids(R(0)) : id \in {session, weekly}
    BY <2>2, <2>3, <2>5
  <2>8. \A i \in own : i <= 0 => entryWindow(limits, i) \in Range(R(0))
    BY <2>6
  <2>9. \A id \in Ids(R(0)) : \/ id \in {session, weekly}
                              \/ \E j \in 1..0 : id \in LimitIds(limits, j)
    BY <2>7
  <2> QED BY <2>7, <2>8, <2>9
<1>5. ASSUME NEW k \in Nat, k + 1 <= n, Holds(k) PROVE Holds(k + 1)
  <2> DEFINE m == k + 1
             old == R(k)
             more == e[m]
             new == R(m)
  <2>0. \A i \in 1..k + 1 : i \in 1..n
    <3>1. k + 1 <= n
      BY <1>5
    <3> QED BY <1>1, <3>1
  <2>1. m \in 1..n /\ more \in Seq(T)
    BY <1>1, <1>2, <2>0
  <2>2. W(k) \in Seq(T) /\ W(m) = W(k) \o more
    <3> HIDE DEF e
    <3>1. \A i \in 1..k + 1 : e[i] \in Seq(T)
      BY <1>2, <2>0
    <3>2. /\ FlattenSeq([i \in 1..k |-> e[i]]) \in Seq(T)
          /\ FlattenSeq([i \in 1..k + 1 |-> e[i]]) = FlattenSeq([i \in 1..k |-> e[i]]) \o e[k + 1]
      BY <3>1, FlattenOfPrefix
    <3> QED BY <3>2
  <2>3. W(m) \in Seq(T) /\ first \o W(k) \in Seq(T) /\ first \o W(m) = (first \o W(k)) \o more
    <3> DEFINE done == W(k)
               next == W(m)
    <3>1. done \in Seq(T) /\ next = done \o more /\ more \in Seq(T)
      BY <2>1, <2>2
    <3> HIDE DEF done, next, more, m
    <3>2. first \o done \in Seq(T) /\ done \o more \in Seq(T)
      BY <3>1
    <3>3. first \o (done \o more) = (first \o done) \o more
      BY <3>1, ConcatGroups
    <3> QED BY <3>1, <3>2, <3>3 DEF done, next
  <2>4. old \in Seq(T) /\ new = pushedOnto(old, more)
    <3> DEFINE s == first \o W(k)
    <3>1. s \in Seq(T)
      BY <2>3
    <3>2. old = pushedOnto(<<>>, s)
      OBVIOUS
    <3>3. new = pushedOnto(<<>>, s \o more)
      <4> HIDE DEF W, more, m
      <4> QED BY <2>3
    <3> HIDE DEF s, old, new, more
    <3>4. /\ pushedOnto(<<>>, s) \in Seq(T)
          /\ pushedOnto(<<>>, s \o more) = pushedOnto(pushedOnto(<<>>, s), more)
      BY <2>1, <3>1, PushedTwice
    <3> QED BY <3>2, <3>3, <3>4
  <2>5. /\ \A id \in Ids(old) : \/ id \in {session, weekly}
                                \/ \E j \in 1..k : id \in LimitIds(limits, j)
        /\ \A i \in own : i <= k => entryWindow(limits, i) \in Range(old)
    <3> HIDE DEF R, W, own
    <3> QED BY <1>5
  <2> HIDE DEF old, new, R, W
  <2>6. new \in Seq(T) /\ Range(old) \subseteq Range(new)
    <3> HIDE DEF more
    <3> QED BY <2>1, <2>4, PushedStays
  <2>7. Ids(new) = Ids(old) \cup LimitIds(limits, m)
    <3>1. Ids(more) = LimitIds(limits, m)
      BY <1>3, <2>1
    <3> HIDE DEF more
    <3> QED BY <2>1, <2>4, <3>1, PushedOntoKeeps
  <2>8. ASSUME m \in own PROVE entryWindow(limits, m) \in Range(new)
    <3> DEFINE w == entryWindow(limits, m)
    <3>0. m \in modelEntries(doc) /\ m \notin twins(doc)
      BY <2>8
    <3>1. more = <<w>> /\ w.id = entryId(limits, m)
      <4>1. more = <<entryWindow(doc.limits, m)>>
        <5> HIDE DEF e, m
        <5> QED BY <1>2, <2>1, <3>0, EntryWindowIs
      <4> QED BY <4>1 DEF entryWindow
    <3>2. w \in T
      <4> HIDE DEF w, more
      <4>1. <<w>> \in Seq(T) /\ <<w>>[1] = w /\ 1 \in 1..Len(<<w>>)
        BY <2>1, <3>1
      <4> QED BY <4>1
    <3>3. w.id \notin {session, weekly}
      <4>1. w.id[1] = "weekly-model"
        BY <3>1, ModelIds DEF entryId
      <4> HIDE DEF w
      <4> QED BY <4>1, ModelIds
    <3>4. ASSUME NEW j \in 1..k PROVE entryId(limits, m) \notin LimitIds(limits, j)
      <4> SUFFICES ASSUME entryId(limits, m) \in LimitIds(limits, j) PROVE FALSE
        OBVIOUS
      <4>1. /\ limits[j].kind \notin legacyKinds /\ value(limits[j]) # <<>>
            /\ \/ limits[j].kind \in DOMAIN groupedId
                    /\ entryId(limits, m) = groupedId[limits[j].kind]
               \/ limits[j].kind \notin DOMAIN groupedId /\ limits[j].display # <<"">>
                    /\ entryId(limits, m) = entryId(limits, j)
        BY DEF LimitIds, entryId
      <4>2. limits[j].kind \notin DOMAIN groupedId
        <5>1. \A kind \in DOMAIN groupedId : groupedId[kind] \in {session, weekly}
          BY DEF groupedId
        <5> QED BY <3>1, <3>3, <4>1, <5>1
      <4>3. j \in modelEntries(doc) /\ j < m
        <5>1. j \in DOMAIN limits
          BY <1>1, <2>1
        <5>2. j \in modelEntries(doc)
          BY Zenon, <4>1, <4>2, <5>1 DEF modelEntries, isScoped
        <5> QED BY <5>2
      <4>4. m \in twins(doc)
        <5> HIDE DEF m
        <5> QED BY <3>0, <4>1, <4>2, <4>3, OneIdIsTwin
      <4> QED BY <3>0, <4>4
    <3>5. w.id \notin Ids(old)
      <4> HIDE DEF w
      <4> QED BY <2>5, <3>1, <3>3, <3>4
    <3> HIDE DEF w, more
    <3>6. w \in Range(pushedOnto(old, more))
      BY <2>1, <2>4, <3>1, <3>2, <3>5, PushedStays
    <3> QED BY <2>4, <3>6 DEF w
  <2>9. \A i \in own : i <= m => entryWindow(limits, i) \in Range(new)
    <3>1. \A i \in own : i <= m => i <= k \/ i = m
      BY <1>1
    <3> HIDE DEF own, m
    <3> QED BY <2>5, <2>6, <2>8, <3>1
  <2>10. \A id \in Ids(new) : \/ id \in {session, weekly}
                              \/ \E j \in 1..m : id \in LimitIds(limits, j)
    <3>1. m \in 1..m /\ \A j \in 1..k : j \in 1..m
      OBVIOUS
    <3> HIDE DEF m
    <3> QED BY <2>5, <2>7, <3>1
  <2> HIDE DEF own
  <2> QED BY <2>3, <2>6, <2>9, <2>10 DEF new
<1>6. Holds(n)
  <2> HIDE DEF Holds
  <2>1. 0 \in G /\ \A k \in Nat : k \in G => k + 1 \in G
    BY <1>1, <1>4, <1>5
  <2>2. Nat \subseteq G
    <3> HIDE DEF G
    <3> QED BY <2>1, SetInduction
  <2> QED BY <1>1, <2>2
<1>7. W(n) = FlattenSeq([i \in 1..n |-> limitWindow(limits, i)])
  OBVIOUS
<1>8. \A i \in own : entryWindow(limits, i) \in Range(R(n))
  <2>1. \A i \in own : i <= n
    BY <1>1
  <2> HIDE DEF own, R, W
  <2> QED BY <1>6, <2>1
<1> HIDE DEF W
<1> QED BY <1>7, <1>8

(* Claude's windows have each entry of a model in a place of its own. *)
LEMMA ClaudeShowsApart ==
  ASSUME NEW doc, isClaudeDoc(doc)
  PROVE  shownApart(doc, modelEntries(doc) \ twins(doc), claudeWindows(doc))
<1> DEFINE limits == doc.limits
           n == Len(limits)
           own == modelEntries(doc) \ twins(doc)
           windows == claudeWindows(doc)
           seqs == [i \in 1..n |-> limitWindow(limits, i)]
           labelled == TRUE
           A == usedWindow(session, labelled, doc.five_hour)
           B == usedWindow(weekly, labelled, orElse(doc.seven_day_oauth_apps, doc.seven_day))
           F == FlattenSeq(seqs)
           C == usedWindow(weekly_model_id("opus", 0), labelled, doc.seven_day_opus)
           D == usedWindow(weekly_model_id("sonnet", 0), labelled, doc.seven_day_sonnet)
           T == Range(A) \cup Range(B) \cup Range(C) \cup Range(D)
                  \cup (UNION {Range(limitWindow(limits, i)) : i \in 1..n})
<1>1. n \in Nat /\ DOMAIN limits = 1..n
  BY DEF isClaudeDoc
<1>2. windows = pushedOnto(<<>>, A \o B \o F \o C \o D)
  BY <1>1 DEF claudeWindows
<1>3. \A i \in 1..n : SoundList(limitWindow(limits, i))
  <2> SUFFICES ASSUME NEW i \in 1..n PROVE SoundList(limitWindow(limits, i))
    OBVIOUS
  <2>1. optional(limits[i].utilization, Int) /\ optional(limits[i].percent, Int)
    BY <1>1 DEF isClaudeDoc, ToSet
  <2> HIDE DEF limits
  <2> QED BY <2>1, LimitWindowIsSound
<1>4. /\ SoundList(A) /\ SoundList(B) /\ SoundList(C) /\ SoundList(D)
      /\ Ids(A) \subseteq {session} /\ Ids(B) \subseteq {weekly}
  BY FieldWindowIsSound
<1>5. \A s, S : s \in Seq(Range(s)) /\ Range(s) \subseteq S => s \in Seq(S)
  OBVIOUS
<1>6. A \in Seq(T) /\ B \in Seq(T) /\ C \in Seq(T) /\ D \in Seq(T)
        /\ \A i \in 1..n : limitWindow(limits, i) \in Seq(T)
  <2>1. /\ Range(A) \subseteq T /\ Range(B) \subseteq T /\ Range(C) \subseteq T /\ Range(D) \subseteq T
        /\ \A i \in 1..n : Range(limitWindow(limits, i)) \subseteq T
    OBVIOUS
  <2> HIDE DEF T, A, B, C, D, limits
  <2> QED BY <1>3, <1>4, <1>5, <2>1 DEF SoundList
<1> HIDE DEF T, A, B, C, D
<1> DEFINE first == A \o B
<1>7. first \in Seq(T) /\ \A id \in Ids(first) : id \in {session, weekly}
  <2>1. Ids(A \o B) = Ids(A) \cup Ids(B)
    BY <1>4, ConcatIsSound
  <2> QED BY <1>4, <1>6, <2>1
<1> HIDE DEF first
<1>8. \A i \in own : entryWindow(limits, i) \in Range(pushedOnto(<<>>, first \o F))
  <2> HIDE DEF entryWindow
  <2> QED BY <1>6, <1>7, EntriesAreShown
<1>9. F \in Seq(T)
  <2>1. seqs \in Seq(Seq(T))
    <3> DEFINE L == Seq(T)
    <3>1. \A i \in 1..n : limitWindow(limits, i) \in L
      BY <1>6
    <3> HIDE DEF L
    <3>2. seqs \in Seq(L)
      BY <1>1, <3>1
    <3> QED BY <3>2 DEF L
  <2> HIDE DEF seqs
  <2> QED BY <2>1, RangeOfFlatten
<1> HIDE DEF F, windows, limits, own
<1> DEFINE rest == C \o D
           start == first \o F
<1>10. /\ start \in Seq(T) /\ rest \in Seq(T) /\ <<>> \in Seq(T)
       /\ windows = pushedOnto(<<>>, start \o rest)
  <2>1. start \in Seq(T) /\ (start \o C) \o D = start \o (C \o D)
    <3>1. start \in Seq(T)
      BY <1>7, <1>9
    <3> HIDE DEF start
    <3>2. (start \o C) \o D = start \o (C \o D)
      BY <1>6, <3>1, ConcatGroups
    <3> QED BY <3>1, <3>2
  <2>2. A \o B \o F \o C \o D = (start \o C) \o D
    BY DEF first
  <2>3. rest \in Seq(T)
    BY <1>6
  <2> HIDE DEF start
  <2>4. windows = pushedOnto(<<>>, start \o (C \o D))
    BY <1>2, <2>1, <2>2
  <2> QED BY <2>1, <2>3, <2>4
<1> HIDE DEF start, rest
<1>11. windows \in Seq(T) /\ Range(pushedOnto(<<>>, start)) \subseteq Range(windows)
  <2>1. pushedOnto(<<>>, start \o rest) = pushedOnto(pushedOnto(<<>>, start), rest)
    BY <1>10, PushedTwice
  <2>2. pushedOnto(<<>>, start) \in Seq(T)
    BY <1>10, PushedTwice
  <2> QED BY <1>10, <2>1, <2>2, PushedStays
<1>12. \A i \in own : entryWindow(limits, i) \in Range(windows)
  BY <1>8, <1>11 DEF start
<1> DEFINE at == [i \in own |-> CHOOSE p \in DOMAIN windows : windows[p] = entryWindow(limits, i)]
<1>13. \A i \in own : at[i] \in DOMAIN windows /\ windows[at[i]] = entryWindow(limits, i)
  <2> SUFFICES ASSUME NEW i \in own
               PROVE  at[i] \in DOMAIN windows /\ windows[at[i]] = entryWindow(limits, i)
    OBVIOUS
  <2>1. \E p \in DOMAIN windows : windows[p] = entryWindow(limits, i)
    BY <1>12 DEF Range
  <2> HIDE DEF entryWindow
  <2> QED BY <2>1
<1>14. at \in [own -> DOMAIN windows]
  BY <1>13
<1> HIDE DEF at
<1>15. \A i \in own : /\ windows[at[i]].id = entryId(limits, i)
                      /\ windows[at[i]].used = clamp(value(limits[i])[1])
  <2>1. \A i : /\ entryWindow(limits, i).id = entryId(limits, i)
               /\ entryWindow(limits, i).used = clamp(value(limits[i])[1])
    <3> HIDE DEF entryId, clamp, value
    <3> QED BY DEF entryWindow
  <2> HIDE DEF entryWindow
  <2> QED BY <1>13, <2>1
<1>16. ASSUME NEW i \in own, NEW j \in own, at[i] = at[j] PROVE i = j
  <2>1. entryId(limits, i) = entryId(limits, j)
    BY <1>15, <1>16
  <2>2. /\ i \in modelEntries(doc) /\ j \in modelEntries(doc)
        /\ i \notin twins(doc) /\ j \notin twins(doc)
    BY DEF own
  <2>3. ~(j < i) /\ ~(i < j)
    BY <2>1, <2>2, OneIdIsTwin DEF limits
  <2>4. i \in Nat /\ j \in Nat
    <3>1. i \in DOMAIN limits /\ j \in DOMAIN limits
      BY Zenon, <2>2 DEF modelEntries, limits
    <3> QED BY <1>1, <3>1
  <2> QED BY <2>3, <2>4
<1>17. IsInjective(at)
  BY <1>14, <1>16 DEF IsInjective
<1>18. \A i \in own : quotaOf(windows[at[i]].id) = <<"weekly-model", nameOf(doc, i)>>
  <2> SUFFICES ASSUME NEW i \in own
               PROVE  quotaOf(windows[at[i]].id) = <<"weekly-model", nameOf(doc, i)>>
    OBVIOUS
  <2>1. quotaOf(weekly_model_id(modelOf(limits[i]), scopedBefore(limits, i))) =
          <<"weekly-model", sanitized(modelOf(limits[i]), "model")>>
    BY Quotas
  <2> QED BY <1>15, <2>1 DEF entryId, nameOf, limits
<1>19. shownApart(doc, own, windows)
  BY <1>14, <1>15, <1>17, <1>18 DEF shownApart, limits
<1> QED BY <1>19 DEF own, windows

(* A ready result shows what its payload reports, as far as showsAll says. *)
LEMMA ResultsShowAll ==
  ASSUME NEW payload \in Payload[provider], provider \in Provider,
         results[provider][payload].state = "ready",
         uniqueIds(results[provider][payload].data.windows)
  PROVE  showsAll(payload, results[provider][payload].data.windows)
<1> DEFINE result == resultOf(provider, payload)
           windows == result.data.windows
<1>1. results[provider][payload] = result
  BY DEF results
<1>2. isPayload(provider, payload)
  BY PayloadAssumption
<1>3. CASE provider = "claude"
  <2>1. windows = claudeWindows(payload)
    BY <1>3 DEF resultOf, claudeResult, readyResult, dataOf, noData
  <2>2. isClaudeDoc(payload)
    BY <1>2, <1>3 DEF isPayload
  <2> HIDE DEF windows
  <2>3. {quotaOf(id) : id \in Ids(windows)} = claudeQuotas(payload)
    BY <2>1, <2>2, ClaudeShowsQuotas
  <2>4. {quotaOf(w.id) : w \in ToSet(windows)} = {quotaOf(id) : id \in Ids(windows)}
    BY DEF Ids, ToSet, Range
  <2>5. shownApart(payload, modelEntries(payload) \ twins(payload), windows)
    BY <2>1, <2>2, ClaudeShowsApart
  <2>6. showsAll(payload, windows)
    BY <1>3, <2>3, <2>4, <2>5 DEF showsAll
  <2> QED BY <1>1, <2>6 DEF windows
<1>4. CASE provider = "codex" /\ payload.from = "server" /\ distinctKeys(payload.read)
  <2> DEFINE answer == payload.read
             found == normalize_to_rate_limits_json(answer)
             doc == found[1]
  <2>1. result = IF found = <<>> THEN failure("provider_error", TRUE, FALSE) ELSE codexReady(doc)
    BY <1>4 DEF resultOf, codexResult
  <2>2. found # <<>>
    BY <1>1, <2>1 DEF failure
  <2>3. windows = codexWindows(doc)
    <3>1. result.data = [dataOf(doc.plan, <<>>, codexWindows(doc)) EXCEPT !.resets = doc.resets]
      BY <2>1, <2>2 DEF codexReady, readyResult
    <3>2. \A plan, account, ws, resets :
            [dataOf(plan, account, ws) EXCEPT !.resets = resets].windows = ws
      BY DEF dataOf, noData
    <3> HIDE DEF doc, result
    <3> QED BY <3>1, <3>2
  <2>4. isRead(answer)
    BY <1>2, <1>4 DEF isPayload
  <2>5. preferredBucket(answer) # <<>>
    BY <2>2 DEF normalize_to_rate_limits_json
  <2>6. distinctKeys(answer) /\ uniqueIds(windows)
    BY <1>1, <1>4
  <2> HIDE DEF windows, answer
  <2>7. Cardinality({w \in ToSet(windows) : w.id # <<"workspace-limit">>})
           = Cardinality(codexSlots(answer))
    BY <2>3, <2>4, <2>5, <2>6, CodexSlotsAreShown
  <2>8. showsAll(payload, windows)
    BY <1>4, <2>7 DEF showsAll, answer
  <2> QED BY <1>1, <2>8 DEF windows
<1>5. CASE /\ provider # "claude"
           /\ ~(provider = "codex" /\ payload.from = "server" /\ distinctKeys(payload.read))
  BY <1>5 DEF showsAll
<1> QED BY <1>3, <1>4, <1>5

(* A row that everything accepts. *)
GoodRow(row) == FollowsTheTable(row) /\ SoundList(row.data.windows)

(* What is remembered of the answers: at most one, of this provider, usable. *)
AnswerHolds ==
    /\ answered \subseteq Payload[provider]
    /\ \A p, q \in answered : p = q
    /\ \A p \in answered : results[provider][p].state = "ready"

(* The inductive invariant of AnswersAreShown: a row is good wherever it is,  *)
(* so that nothing downstream refuses it.                                  *)
ShownInv ==
    /\ RowInv
    /\ ~refused
    /\ \A row \in cached : GoodRow(row)
    /\ AnswerHolds

(* A row of the truth table whose windows add up is accepted. *)
LEMMA GoodRowIsAccepted ==
  ASSUME NEW row, GoodRow(row)
  PROVE  validShape(row) /\ accepted(row)
<1>1. validShape(row)
  BY DEF GoodRow, FollowsTheTable, validShape, noError, FailureState, errorCode, actionsOf
<1>2. ASSUME NEW i \in DOMAIN row.data.windows
      PROVE  Sound(row.data.windows[i])
  <2>1. row.data.windows[i] \in Range(row.data.windows)
    BY DEF Range
  <2> QED BY <2>1 DEF GoodRow, SoundList
<1> QED BY <1>1, <1>2 DEF accepted, Sound

(* A live row is good. *)
LEMMA LiveRowIsGood ==
  ASSUME NEW result, SoundResult(result), SoundList(result.data.windows),
         NEW live \in liveRows(result)
  PROVE  GoodRow(live)
<1>1. FollowsTheTable(live)
  BY LiveRowsAreSound
<1>2. SoundList(noData.windows)
  BY EmptyIsSound DEF noData
<1>3. live.data = result.data \/ live.data = noData
  BY DEF liveRows, statusOf, readyRow, failureRow
<1> QED BY <1>1, <1>2, <1>3 DEF GoodRow

(* Retention gives at least one row, and only good ones. *)
LEMMA RetainedAreGood ==
  ASSUME NEW live, GoodRow(live), is_temporary_failure(live) => live.error.retryable,
         NEW prior, \A row \in prior : GoodRow(row)
  PROVE  /\ apply_stale_retention(live, prior) # {}
         /\ \A row \in apply_stale_retention(live, prior) : GoodRow(row)
<1> DEFINE rows == apply_stale_retention(live, prior)
           kept(row) == retain_as_stale(row, live.error)
           Keeps == /\ is_temporary_failure(live)
                    /\ \E row \in prior : row.state \in {"ready", "stale"}
<1>1. rows = IF Keeps THEN UNION {kept(row) : row \in prior} ELSE {live}
  BY DEF apply_stale_retention
<1>2. CASE ~Keeps
  BY <1>1, <1>2
<1>3. CASE Keeps
  <2>1. PICK old \in prior : old.state \in {"ready", "stale"}
    BY <1>3
  <2>2. kept(old) # {}
    <3>1. old.success /\ uniqueIds(old.data.windows)
      BY <2>1 DEF GoodRow, FollowsTheTable
    <3> QED BY <2>1, <3>1 DEF retain_as_stale, staleRow
  <2>3. ASSUME NEW prev \in prior, NEW row \in kept(prev) PROVE GoodRow(row)
    <3>1. /\ row.state = "stale" /\ row.source = "cache" /\ row.success = TRUE
          /\ row.data = prev.data /\ row.error = live.error /\ row.action = "retry"
          /\ uniqueIds(row.data.windows)
      BY <2>3 DEF retain_as_stale, staleRow
    <3>2. live.error.retryable
      BY <1>3
    <3>3. FollowsTheTable(row)
      BY <3>1, <3>2 DEF FollowsTheTable
    <3>4. SoundList(prev.data.windows)
      BY DEF GoodRow
    <3> QED BY <3>1, <3>3, <3>4 DEF GoodRow
  <2>4. rows = UNION {kept(row) : row \in prior}
    BY <1>1, <1>3
  <2> HIDE DEF rows, kept
  <2> QED BY <2>1, <2>2, <2>3, <2>4 DEF rows
<1> QED BY <1>2, <1>3

(* A report of good rows refuses nothing. *)
LEMMA GoodRowsAreReported ==
  ASSUME NEW rows, rows # {}, \A row \in rows : GoodRow(row), ~refused, Report(rows)
  PROVE  ~refused'
<1>1. PICK row \in rows : accepted(row)
  BY GoodRowIsAccepted
<1> QED BY <1>1 DEF Report

(* A collection refuses nothing and caches good rows. *)
LEMMA CollectKeepsShownInv ==
  ASSUME ShownInv, NEW result, SoundResult(result), SoundList(result.data.windows),
         Collect(result)
  PROVE  ~refused' /\ \A row \in cached' : GoodRow(row)
<1>1. PICK live \in liveRows(result) :
         LET rows == apply_stale_retention(live, loaded) IN
         cached' = (IF rows = {} THEN loaded ELSE rows) /\ Report(rows)
  BY DEF Collect
<1> DEFINE rows == apply_stale_retention(live, loaded)
<1>2. GoodRow(live) /\ (is_temporary_failure(live) => live.error.retryable)
  BY LiveRowIsGood, LiveRowsAreSound
<1>3. \A row \in loaded : GoodRow(row)
  BY DEF loaded, ShownInv
<1>4. rows # {} /\ \A row \in rows : GoodRow(row)
  BY <1>2, <1>3, RetainedAreGood
<1>5. cached' = rows /\ Report(rows)
  BY <1>1, <1>4
<1> HIDE DEF rows
<1>6. ~refused
  BY DEF ShownInv
<1>7. ~refused'
  BY <1>4, <1>5, <1>6, GoodRowsAreReported
<1> QED BY <1>4, <1>5, <1>7

(* Nothing is refused at first. *)
LEMMA InitShownInv == RowInit => ShownInv
  BY InitRowInv DEF RowInit, ShownInv, AnswerHolds

(* Every step keeps the invariant. *)
LEMMA StepShownInv == ShownInv /\ [RowNext]_rowVars => ShownInv'
<1> SUFFICES ASSUME ShownInv, [RowNext]_rowVars PROVE ShownInv'
  OBVIOUS
<1>1. RowInv'
  BY StepRowInv DEF ShownInv
<1>2. provider \in Provider
  BY DEF ShownInv, RowInv
<1>3. ASSUME NEW payload \in Payload[provider], Answers(payload)
      PROVE  ~refused' /\ (\A row \in cached' : GoodRow(row)) /\ AnswerHolds'
  <2> DEFINE result == results[provider][payload]
  <2>1. SoundResult(result) /\ SoundList(result.data.windows)
    BY <1>2, PayloadsAreSound, ResultsAreSound
  <2>2. Collect(result)
    BY <1>3 DEF Answers
  <2>3. /\ answered' = IF \E row \in liveRows(result) : row.state = "ready"
                       THEN {payload} ELSE answered
        /\ provider' = provider
    BY <1>3 DEF Answers
  <2>4. (\E row \in liveRows(result) : row.state = "ready") => result.state = "ready"
    <3> HIDE DEF result
    <3>1. \A row : row \in liveRows(result) /\ row.state = "ready" => result.state = "ready"
      BY <2>1 DEF liveRows, statusOf, failureRow, SoundResult, FailureState
    <3> QED BY <3>1
  <2>5. AnswerHolds'
    BY <2>3, <2>4 DEF AnswerHolds, ShownInv
  <2> HIDE DEF result
  <2>6. ~refused' /\ \A row \in cached' : GoodRow(row)
    BY <2>1, <2>2, CollectKeepsShownInv
  <2> QED BY <2>5, <2>6
<1>4. ASSUME NEW result \in refusals(provider), Fails(result)
      PROVE  ~refused' /\ (\A row \in cached' : GoodRow(row)) /\ AnswerHolds'
  <2>1. SoundResult(result)
    BY <1>2, RefusalsAreSound
  <2>2. SoundList(result.data.windows)
    <3>1. result.data = noData
      <4>1. provider \in {"claude", "codex", "amp", "grok"}
        BY <1>2, RowAssumption
      <4> QED BY <4>1 DEF refusals, failure
    <3> QED BY <3>1, EmptyIsSound DEF noData
  <2>3. ~refused' /\ \A row \in cached' : GoodRow(row)
    BY <1>4, <2>1, <2>2, CollectKeepsShownInv DEF Fails
  <2>4. AnswerHolds'
    BY <1>4 DEF Fails, AnswerHolds, ShownInv
  <2> QED BY <2>3, <2>4
<1>5. CASE Hit
  <2> DEFINE rows == UNION {for_cache_hit(row) : row \in loaded}
  <2>1. \A row \in loaded : GoodRow(row)
    BY DEF loaded, ShownInv
  <2>2. ASSUME NEW row, GoodRow(row)
        PROVE  for_cache_hit(row) # {} /\ \A hit \in for_cache_hit(row) : GoodRow(hit)
    <3>1. CASE row.state # "ready"
      BY <2>2, <3>1 DEF for_cache_hit
    <3>2. CASE row.state = "ready"
      <4>1. row.success /\ uniqueIds(row.data.windows)
        BY <2>2, <3>2 DEF GoodRow, FollowsTheTable
      <4>2. for_cache_hit(row) = readyRow("cache", row.data) /\ for_cache_hit(row) # {}
        BY <3>2, <4>1 DEF for_cache_hit, readyRow
      <4>3. ASSUME NEW hit \in readyRow("cache", row.data) PROVE GoodRow(hit)
        BY <2>2, <3>2, <4>3 DEF readyRow, GoodRow, FollowsTheTable
      <4> QED BY <4>2, <4>3
    <3> QED BY <3>1, <3>2
  <2>3. rows # {} /\ \A row \in rows : GoodRow(row)
    <3>1. loaded # {}
      BY <1>5 DEF Hit
    <3> HIDE DEF loaded
    <3> QED BY <2>1, <2>2, <3>1
  <2>4. Report(rows) /\ ~refused
    BY <1>5 DEF Hit, ShownInv
  <2> HIDE DEF rows
  <2>5. ~refused'
    BY <2>3, <2>4, GoodRowsAreReported
  <2> QED BY <1>1, <1>5, <2>5 DEF Hit, ShownInv, AnswerHolds
<1>6. CASE Removed
  BY <1>1, <1>6 DEF Removed, ShownInv, AnswerHolds
<1>7. CASE UNCHANGED rowVars
  BY <1>1, <1>7 DEF rowVars, ShownInv, AnswerHolds
<1> QED BY <1>1, <1>3, <1>4, <1>5, <1>6, <1>7 DEF RowNext, ShownInv

(* The invariant says that every answer is shown. *)
LEMMA ShownInvShows == ShownInv => AnswersAreShown
<1> SUFFICES ASSUME ShownInv PROVE AnswersAreShown
  OBVIOUS
<1>1. ~refused /\ KeepsTheAnswer /\ provider \in Provider
  BY DEF ShownInv, RowInv
<1>2. ASSUME NEW row \in cached, row.state \in {"ready", "stale"}, NEW payload \in answered
      PROVE  showsAll(payload, row.data.windows)
  <2>1. PICK p \in answered : row.data = results[provider][p].data
    BY <1>1, <1>2 DEF KeepsTheAnswer
  <2>2. p = payload /\ payload \in Payload[provider] /\ results[provider][payload].state = "ready"
    BY DEF ShownInv, AnswerHolds
  <2>3. uniqueIds(row.data.windows)
    BY DEF ShownInv, GoodRow, FollowsTheTable
  <2> QED BY <1>1, <2>1, <2>2, <2>3, ResultsShowAll
<1> QED BY <1>1, <1>2 DEF AnswersAreShown

-----------------------------------------------------------------------------
(* StatusRow: the theorems *)

(* A row with the data of a single answer has the windows it maps to. *)
LEMMA ReadyRowsOfClaude ==
  ASSUME "claude" \in Provider, NEW answers \in SUBSET Payload["claude"],
         \A p, q \in answers : p = q, NEW payload \in answers,
         NEW row, \E p \in answers : row.data = results["claude"][p].data
  PROVE  isClaudeDoc(payload) /\ row.data.windows = claudeWindows(payload)
<1>1. row.data = results["claude"][payload].data
  OBVIOUS
<1>2. isClaudeDoc(payload)
  <2>1. isPayload("claude", payload)
    BY PayloadAssumption
  <2> QED BY <2>1 DEF isPayload
<1>3. results["claude"][payload] = resultOf("claude", payload)
  BY DEF results
<1>4. resultOf("claude", payload).data.windows = claudeWindows(payload)
  BY DEF resultOf, claudeResult, readyResult, dataOf, noData
<1> QED BY <1>1, <1>2, <1>3, <1>4

-----------------------------------------------------------------------------
(* Whatever the payloads are, a row in the cache or in an envelope has the   *)
(* source, the error and the action that the truth table gives its state.   *)
THEOREM RowsAreCoherent == RowSpec => []RowsFollowTheTable
<1>1. RowInv => RowsFollowTheTable  BY DEF RowInv
<1> QED  BY InitRowInv, StepRowInv, <1>1, PTL DEF RowSpec

(* Whatever the payloads are, a ready or stale row carries what the last     *)
(* usable payload was mapped to, however many failures ago.                 *)
THEOREM AnswersAreKept == RowSpec => []KeepsTheAnswer
<1>1. RowInv => KeepsTheAnswer  BY DEF RowInv
<1> QED  BY InitRowInv, StepRowInv, <1>1, PTL DEF RowSpec

(* Whatever the payloads are, no request is refused for a row, and the row   *)
(* shows the last usable payload: exactly the quotas that Claude reports,    *)
(* each entry of a model in a window of its own with its percentage, unless *)
(* it is the second of its name (push_window_unique drops that one); and    *)
(* every slot of Codex's buckets once, if no two of these have names that   *)
(* are one when sanitized.                                                 *)
THEOREM EveryAnswerIsShown == RowSpec => []AnswersAreShown
BY InitShownInv, StepShownInv, ShownInvShows, PTL DEF RowSpec

(* JSON-020: whatever grouped entries come, go and move between two answers, *)
(* what says the same of the models is shown under the same ids, whole and   *)
(* in the same order (claude_from_usage_json, weekly_model_id).             *)
THEOREM ModelIdsStay == RowSpec => ModelIdsAreStable
<1> DEFINE Stays ==
      provider = "claude" =>
        \A old \in cached, new \in cached', before \in answered, after \in answered' :
           /\ old.state = "ready" /\ new.state = "ready"
           /\ saysOfModels(before) = saysOfModels(after)
           => modelWindows(old) = modelWindows(new)
<1>1. ASSUME ShownInv, ShownInv', [RowNext]_rowVars PROVE Stays
  <2> SUFFICES ASSUME provider = "claude", NEW old \in cached, NEW new \in cached',
                      NEW before \in answered, NEW after \in answered',
                      old.state = "ready", new.state = "ready",
                      saysOfModels(before) = saysOfModels(after)
               PROVE  modelWindows(old) = modelWindows(new)
    OBVIOUS
  <2>1. provider' = provider
    BY <1>1 DEF RowNext, Answers, Fails, Hit, Removed, rowVars
  <2>2. isClaudeDoc(before) /\ old.data.windows = claudeWindows(before)
    <3>1. /\ "claude" \in Provider /\ answered \in SUBSET Payload["claude"]
          /\ \A p, q \in answered : p = q
          /\ \E p \in answered : old.data = results["claude"][p].data
      BY <1>1 DEF ShownInv, RowInv, AnswerHolds, KeepsTheAnswer
    <3> QED BY <3>1, ReadyRowsOfClaude
  <2>3. isClaudeDoc(after) /\ new.data.windows = claudeWindows(after)
    <3>1. provider' = "claude"
      BY <2>1
    <3>2. /\ "claude" \in Provider /\ answered' \in SUBSET Payload["claude"]
          /\ \A p, q \in answered' : p = q
          /\ \E p \in answered' : new.data = results["claude"][p].data
      BY <1>1, <3>1 DEF ShownInv, RowInv, AnswerHolds, KeepsTheAnswer
    <3> QED BY <3>2, ReadyRowsOfClaude
  <2>4. /\ only(before.limits, scopedIn(before.limits)) = only(after.limits, scopedIn(after.limits))
        /\ before.seven_day_opus = after.seven_day_opus
        /\ before.seven_day_sonnet = after.seven_day_sonnet
    BY DEF saysOfModels
  <2>5. only(claudeWindows(before), ofModels(claudeWindows(before)))
          = only(claudeWindows(after), ofModels(claudeWindows(after)))
    BY <2>2, <2>3, <2>4, ModelsOfClaude
  <2> QED BY <2>2, <2>3, <2>5 DEF modelWindows
<1>2. ShownInv /\ ShownInv' /\ [RowNext]_rowVars => [Stays]_rowVars
  BY <1>1
<1> QED BY InitShownInv, StepShownInv, <1>2, PTL DEF RowSpec, ModelIdsAreStable
=============================================================================
