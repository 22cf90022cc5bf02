-------------------------- MODULE SessionManagerProofs --------------------------
(***************************************************************************)
(* Proofs about SessionManager for every set of kinds, every number of     *)
(* entries and of failed writes, with forks and without.                   *)
(*                                                                         *)
(* First come the functions that the model is made of: what is picked from *)
(* a sequence, the path to an entry, the entries read back from lines.     *)
(* Then the actions are taken through the parts of the inductive invariant,*)
(* one part after the other:                                               *)
(*                                                                         *)
(*   Base         entries have new ids and come after their parents, and   *)
(*                each line of the file is one of them                     *)
(*   Preps        what a compaction under way has planned                  *)
(*   Closed       parents and the leaf are entries                         *)
(*   FileExact    the file is the memory                                   *)
(*   Losses       how many entries the file lacks, and how many more the   *)
(*                next write would lose                                    *)
(*   Histories    what each compaction entry says of the path before it    *)
(*   Paired       what each result rests on, and where each compaction cut *)
(*   LabelsExact  the index of labels is what the entries give             *)
(*                                                                         *)
(* Closed, FileExact, Paired and LabelsExact speak of sessions of which no *)
(* write has failed; the others of all.                                    *)
(***************************************************************************)
EXTENDS SessionManager, SequenceTheorems, FiniteSetTheorems, WellFoundedInduction, TLAPS

------------------------------------------------------------------------------
(* Numbers *)

LEMMA Least ==
  ASSUME NEW T \in SUBSET Nat, T # {}
  PROVE  \E x \in T : \A y \in T : x <= y
<1> DEFINE Less == {ss \in Nat \X Nat : ss[1] < ss[2]}
<1>1. IsWellFoundedOn(Less, Nat)
  BY NatLessThanWellFounded DEF OpToRel
<1>2. \A x, y \in Nat : <<y, x>> \in Less <=> y < x
  OBVIOUS
<1> HIDE DEF Less
<1>3. PICK x \in T : \A y \in T : ~(<<y, x>> \in Less)
  BY <1>1, WFMin
<1>4. \A y \in T : x <= y
  <2>1. ASSUME NEW y \in T PROVE x <= y
    <3>1. ~(y < x)
      BY <1>2, <1>3
    <3>2. x \in Nat /\ y \in Nat
      OBVIOUS
    <3>3. QED
      BY <3>1, <3>2
  <2>2. QED
    BY <2>1
<1>5. QED
  BY <1>4

LEMMA Below ==
  ASSUME NEW T \in SUBSET Nat, \A n \in Nat : (\A m \in 0..(n - 1) : m \in T) => n \in T
  PROVE  T = Nat
<1> SUFFICES ASSUME Nat \ T # {} PROVE FALSE
  OBVIOUS
<1>1. PICK x \in Nat \ T : \A y \in Nat \ T : x <= y
  BY Least
<1>2. \A m \in 0..(x - 1) : m \in T
  BY <1>1
<1>3. QED
  BY <1>1, <1>2

LEMMA MinIs ==
  ASSUME NEW T \in SUBSET Nat, T # {}
  PROVE  Min(T) \in T /\ \A y \in T : Min(T) <= y
<1>1. \E x \in T : \A y \in T : x =< y
  BY Least
<1>2. QED
  BY <1>1 DEF Min

LEMMA MaxIs ==
  ASSUME NEW T \in SUBSET Nat, T # {}, NEW n \in Nat, \A y \in T : y <= n
  PROVE  Max(T) \in T /\ \A y \in T : Max(T) >= y
<1> DEFINE U == {k \in Nat : \A y \in T : y <= k}
<1>1. PICK x \in U : \A k \in U : x <= k
  <2>1. U \in SUBSET Nat /\ U # {}
    OBVIOUS
  <2> HIDE DEF U
  <2>2. QED
    BY <2>1, Least
<1>2. x \in T
  <2>1. CASE x = 0
    <3>1. PICK y \in T : TRUE
      OBVIOUS
    <3>2. y = 0
      BY <1>1, <2>1, <3>1
    <3>3. QED
      BY <2>1, <3>1, <3>2
  <2>2. CASE x # 0
    <3> SUFFICES ASSUME x \notin T PROVE FALSE
      OBVIOUS
    <3>1. x - 1 \in U
      BY <1>1, <2>2
    <3>2. QED
      BY <1>1, <3>1
  <2>3. QED
    BY <2>1, <2>2
<1>3. \A y \in T : x >= y
  BY <1>1
<1>4. QED
  BY <1>2, <1>3 DEF Max

------------------------------------------------------------------------------
(* Sequences *)

IsPicked(s, picked, N, f) ==
  f = [i \in 0..N |->
         IF i = 0 THEN <<>>
         ELSE IF i \in picked THEN Append(f[i - 1], s[i])
         ELSE f[i - 1]]

PickedUpTo(s, picked) == CHOOSE f : IsPicked(s, picked, Len(s), f)

LEMMA PickedIsUpTo ==
  ASSUME NEW s, NEW picked
  PROVE  Picked(s, picked) = PickedUpTo(s, picked)[Len(s)]
BY DEF Picked, PickedUpTo, IsPicked

LEMMA PickedExists ==
  ASSUME NEW s, NEW picked, NEW M \in Nat
  PROVE  \E f : IsPicked(s, picked, M, f)
<1> DEFINE T == {N \in Nat : \E f : IsPicked(s, picked, N, f)}
<1>1. ASSUME NEW N \in Nat, \A m \in 0..(N - 1) : m \in T PROVE N \in T
  <2> SUFFICES \E f : IsPicked(s, picked, N, f)
    OBVIOUS
  <2>1. CASE N = 0
    <3>1. IsPicked(s, picked, N, [i \in 0..0 |-> <<>>])
      BY <2>1 DEF IsPicked
    <3>2. QED
      BY <3>1
  <2>2. CASE N # 0
    <3>1. PICK f : IsPicked(s, picked, N - 1, f)
      <4>1. N - 1 \in 0..(N - 1)
        BY <2>2
      <4>2. QED
        BY <1>1, <4>1
    <3> DEFINE g == [i \in 0..N |->
                       IF i = N
                       THEN IF i \in picked THEN Append(f[i - 1], s[i])
                            ELSE f[i - 1]
                       ELSE f[i]]
    <3>2. ASSUME NEW i \in 0..N
          PROVE  g[i] = IF i = 0 THEN <<>>
                        ELSE IF i \in picked THEN Append(g[i - 1], s[i])
                        ELSE g[i - 1]
      <4>1. CASE i = 0
        BY <2>2, <3>1, <4>1 DEF IsPicked
      <4>2. CASE i # 0
        <5>1. i - 1 \in 0..N /\ i - 1 # N /\ i - 1 \in 0..(N - 1)
          BY <4>2
        <5>2. g[i - 1] = f[i - 1]
          BY <5>1
        <5>3. CASE i = N
          BY <4>2, <5>2, <5>3
        <5>4. CASE i # N
          <6>1. i \in 0..(N - 1)
            BY <5>4
          <6>2. f[i] = IF i \in picked THEN Append(f[i - 1], s[i])
                       ELSE f[i - 1]
            BY <3>1, <4>2, <6>1 DEF IsPicked
          <6>3. QED
            BY <4>2, <5>2, <5>4, <6>2
        <5>5. QED
          BY <5>3, <5>4
      <4>3. QED
        BY <4>1, <4>2
    <3>3. IsPicked(s, picked, N, g)
      <4>1. g = [i \in 0..N |-> g[i]]
        OBVIOUS
      <4> HIDE DEF g
      <4>2. QED
        BY <3>2, <4>1 DEF IsPicked
    <3>4. QED
      BY <3>3
  <2>3. QED
    BY <2>1, <2>2
<1> HIDE DEF T
<1>2. T = Nat
  BY <1>1, Below DEF T
<1>3. QED
  BY <1>2 DEF T

LEMMA PickedValue ==
  ASSUME NEW s, NEW picked, NEW N, NEW f, IsPicked(s, picked, N, f), NEW i \in 0..N, i # 0
  PROVE  f[i] = IF i \in picked THEN Append(f[i - 1], s[i])
                ELSE f[i - 1]
BY Zenon DEF IsPicked

LEMMA PickedSteps ==
  ASSUME NEW s, Len(s) \in Nat, NEW picked
  PROVE  /\ PickedUpTo(s, picked)[0] = <<>>
         /\ \A i \in 1..Len(s) :
              PickedUpTo(s, picked)[i] =
                IF i \in picked THEN Append(PickedUpTo(s, picked)[i - 1], s[i])
                ELSE PickedUpTo(s, picked)[i - 1]
<1>1. IsPicked(s, picked, Len(s), PickedUpTo(s, picked))
  BY PickedExists, Zenon DEF PickedUpTo
<1>2. PickedUpTo(s, picked)[0] = <<>>
  BY <1>1 DEF IsPicked
<1> DEFINE u == PickedUpTo(s, picked)
<1>3. ASSUME NEW i \in 1..Len(s)
      PROVE  u[i] = IF i \in picked THEN Append(u[i - 1], s[i]) ELSE u[i - 1]
  <2>1. i \in 0..Len(s) /\ i # 0
    OBVIOUS
  <2>2. IsPicked(s, picked, Len(s), u)
    BY <1>1
  <2> HIDE DEF u
  <2>3. QED
    BY <2>1, <2>2, PickedValue
<1>4. QED
  BY <1>2, <1>3

LEMMA AppendIs ==
  ASSUME NEW S, NEW s \in Seq(S), NEW e \in S
  PROVE  /\ Append(s, e) \in Seq(S) /\ Len(Append(s, e)) = Len(s) + 1
         /\ DOMAIN Append(s, e) = 1..(Len(s) + 1) /\ DOMAIN s = 1..Len(s) /\ Len(s) \in Nat
         /\ \A i \in DOMAIN s : Append(s, e)[i] = s[i]
         /\ Append(s, e)[Len(s) + 1] = e
OBVIOUS

\* Position g[k] of s is the k-th of those picked, and w has what is there.
Embeds(w, s, picked, g) ==
  /\ g \in [DOMAIN w -> picked]
  /\ \A k \in DOMAIN w : w[k] = s[g[k]]
  /\ \A k, l \in DOMAIN w : k < l => g[k] < g[l]
  /\ \A i \in picked : \E k \in DOMAIN w : g[k] = i

LEMMA EmbedsGrows ==
  ASSUME NEW S, NEW w \in Seq(S), NEW s \in Seq(S), NEW n \in DOMAIN s,
         NEW picked \in SUBSET (1..(n - 1)), NEW g, Embeds(w, s, picked, g)
  PROVE  \E h : Embeds(Append(w, s[n]), s, picked \union {n}, h)
<1> DEFINE m == Len(w)
           v == Append(w, s[n])
           h == [k \in 1..(m + 1) |-> IF k = m + 1 THEN n ELSE g[k]]
<1>1. /\ v \in Seq(S) /\ DOMAIN v = 1..(m + 1) /\ DOMAIN w = 1..m /\ m \in Nat
      /\ \A i \in 1..m : v[i] = w[i]
      /\ v[m + 1] = s[n] /\ n \in Nat
  <2>1. s[n] \in S /\ n \in Nat
    OBVIOUS
  <2>2. QED
    BY <2>1, AppendIs
<1>2. /\ h[m + 1] = n
      /\ \A k \in 1..m : h[k] = g[k] /\ g[k] \in picked /\ g[k] \in 1..(n - 1)
  <2>1. h[m + 1] = n
    BY <1>1
  <2>2. ASSUME NEW k \in 1..m PROVE h[k] = g[k] /\ g[k] \in picked
    <3>1. k \in 1..(m + 1) /\ k # m + 1 /\ k \in DOMAIN w
      BY <1>1
    <3>2. QED
      BY <3>1 DEF Embeds
  <2>3. QED
    BY <2>1, <2>2
<1>3. h \in [DOMAIN v -> picked \union {n}]
  <2>1. \A k \in 1..(m + 1) : k = m + 1 \/ k \in 1..m
    BY <1>1
  <2>2. \A k \in 1..(m + 1) : h[k] \in picked \union {n}
    BY <1>2, <2>1
  <2>3. h = [k \in 1..(m + 1) |-> h[k]]
    OBVIOUS
  <2> HIDE DEF h
  <2>4. QED
    BY <1>1, <2>2, <2>3
<1> HIDE DEF h, v, m
<1>4. \A k \in DOMAIN v : v[k] = s[h[k]]
  <2>1. ASSUME NEW k \in DOMAIN v PROVE v[k] = s[h[k]]
    <3>1. CASE k = m + 1
      BY <1>1, <1>2, <3>1
    <3>2. CASE k # m + 1
      <4>1. k \in 1..m
        BY <1>1, <3>2
      <4>2. QED
        BY <1>1, <1>2, <4>1 DEF Embeds
    <3>3. QED
      BY <3>1, <3>2
  <2>2. QED
    BY <2>1
<1>5. \A k, l \in DOMAIN v : k < l => h[k] < h[l]
  <2>1. ASSUME NEW k \in DOMAIN v, NEW l \in DOMAIN v, k < l PROVE h[k] < h[l]
    <3>1. k \in 1..m
      BY <1>1, <2>1
    <3>2. CASE l = m + 1
      <4>1. g[k] \in 1..(n - 1) /\ h[k] = g[k]
        BY <1>2, <3>1
      <4>2. h[l] = n
        BY <1>2, <3>2
      <4>3. QED
        BY <1>1, <4>1, <4>2
    <3>3. CASE l # m + 1
      <4>1. l \in 1..m
        BY <1>1, <3>3
      <4>2. QED
        BY <1>1, <1>2, <2>1, <3>1, <4>1 DEF Embeds
    <3>4. QED
      BY <3>2, <3>3
  <2>2. QED
    BY <2>1
<1>6. \A i \in picked \union {n} : \E k \in DOMAIN v : h[k] = i
  <2>1. ASSUME NEW i \in picked PROVE \E k \in DOMAIN v : h[k] = i
    <3>1. PICK k \in DOMAIN w : g[k] = i
      BY DEF Embeds
    <3>2. k \in 1..m /\ k \in DOMAIN v
      BY <1>1
    <3>3. QED
      BY <1>2, <3>1, <3>2
  <2>2. m + 1 \in DOMAIN v
    BY <1>1
  <2>3. QED
    BY <1>2, <2>1, <2>2
<1>7. QED
  BY <1>3, <1>4, <1>5, <1>6 DEF Embeds, v

LEMMA PickedEmbeds ==
  ASSUME NEW S, NEW s \in Seq(S), NEW picked \in SUBSET DOMAIN s
  PROVE  Picked(s, picked) \in Seq(S) /\ \E g : Embeds(Picked(s, picked), s, picked, g)
<1> DEFINE u == PickedUpTo(s, picked)
           T == {n \in Nat : n <= Len(s) =>
                   u[n] \in Seq(S) /\ \E g : Embeds(u[n], s, picked \intersect 1..n, g)}
<1>0. Len(s) \in Nat /\ DOMAIN s = 1..Len(s)
  OBVIOUS
<1>1. /\ u[0] = <<>>
      /\ \A i \in 1..Len(s) :
           u[i] = IF i \in picked THEN Append(u[i - 1], s[i]) ELSE u[i - 1]
  BY <1>0, PickedSteps
<1> HIDE DEF u
<1>2. ASSUME NEW n \in Nat, \A m \in 0..(n - 1) : m \in T PROVE n \in T
  <2> SUFFICES ASSUME n <= Len(s)
               PROVE  u[n] \in Seq(S) /\ \E g : Embeds(u[n], s, picked \intersect 1..n, g)
    OBVIOUS
  <2>1. CASE n = 0
    <3>1. u[n] = <<>> /\ DOMAIN <<>> = {} /\ picked \intersect 1..n = {} /\ <<>> \in Seq(S)
      BY <1>1, <2>1
    <3>2. Embeds(<<>>, s, {}, <<>>)
      <4>1. <<>> \in [DOMAIN <<>> -> {}] /\ DOMAIN <<>> = {}
        OBVIOUS
      <4>2. QED
        BY <4>1 DEF Embeds
    <3>3. QED
      BY <3>1, <3>2
  <2>2. CASE n # 0
    <3>1. n \in 1..Len(s) /\ n - 1 \in 0..(n - 1) /\ n - 1 <= Len(s) /\ n \in DOMAIN s
      BY <1>0, <2>2
    <3>2. PICK g : u[n - 1] \in Seq(S) /\ Embeds(u[n - 1], s, picked \intersect 1..(n - 1), g)
      BY <1>2, <3>1
    <3>3. CASE n \notin picked
      <4>1. u[n] = u[n - 1]
        BY <1>1, <3>1, <3>3
      <4>2. picked \intersect 1..n = picked \intersect 1..(n - 1)
        BY <1>0, <3>1, <3>3
      <4>3. QED
        BY <3>2, <4>1, <4>2
    <3>4. CASE n \in picked
      <4>1. u[n] = Append(u[n - 1], s[n]) /\ s[n] \in S
        <5>1. u[n] = Append(u[n - 1], s[n])
          BY <1>1, <3>1, <3>4
        <5>2. s[n] \in S
          BY <3>1
        <5>3. QED
          BY <5>1, <5>2
      <4>2. picked \intersect 1..n = (picked \intersect 1..(n - 1)) \union {n}
        BY <1>0, <3>1, <3>4
      <4>3. picked \intersect 1..(n - 1) \in SUBSET (1..(n - 1))
        OBVIOUS
      <4>4. \E h : Embeds(Append(u[n - 1], s[n]), s,
                          (picked \intersect 1..(n - 1)) \union {n}, h)
        <5> DEFINE q == picked \intersect 1..(n - 1)
        <5>1. q \in SUBSET (1..(n - 1)) /\ Embeds(u[n - 1], s, q, g)
          BY <3>2
        <5> HIDE DEF q
        <5>2. \E h : Embeds(Append(u[n - 1], s[n]), s, q \union {n}, h)
          BY <3>1, <3>2, <5>1, EmbedsGrows
        <5>3. QED
          BY <5>2 DEF q
      <4>5. u[n] \in Seq(S)
        BY <3>2, <4>1, AppendIs
      <4>6. QED
        BY <4>1, <4>2, <4>4, <4>5
    <3>5. QED
      BY <3>3, <3>4
  <2>3. QED
    BY <2>1, <2>2
<1>3. T = Nat
  BY <1>2, Below DEF T
<1>4. u[Len(s)] \in Seq(S) /\ \E g : Embeds(u[Len(s)], s, picked \intersect 1..Len(s), g)
  <2> HIDE DEF T
  <2>1. Len(s) \in T /\ Len(s) <= Len(s)
    BY <1>0, <1>3
  <2>2. QED
    BY <2>1 DEF T
<1>5. picked \intersect 1..Len(s) = picked
  BY <1>0
<1>6. Picked(s, picked) = u[Len(s)]
  BY PickedIsUpTo DEF u
<1>7. QED
  BY <1>4, <1>5, <1>6

LEMMA PickedAll ==
  ASSUME NEW S, NEW s \in Seq(S), NEW picked, DOMAIN s \subseteq picked
  PROVE  Picked(s, picked) = s
<1> DEFINE u == PickedUpTo(s, picked)
           T == {n \in Nat : n <= Len(s) =>
                   u[n] \in Seq(S) /\ Len(u[n]) = n /\ \A k \in 1..n : u[n][k] = s[k]}
<1>0. Len(s) \in Nat /\ DOMAIN s = 1..Len(s)
  OBVIOUS
<1>1. u[0] = <<>> /\ \A i \in 1..Len(s) : u[i] = Append(u[i - 1], s[i])
  BY <1>0, PickedSteps
<1> HIDE DEF u
<1>2. ASSUME NEW n \in Nat, \A m \in 0..(n - 1) : m \in T PROVE n \in T
  <2> SUFFICES ASSUME n <= Len(s)
               PROVE  u[n] \in Seq(S) /\ Len(u[n]) = n /\ \A k \in 1..n : u[n][k] = s[k]
    OBVIOUS
  <2>1. CASE n = 0
    <3>1. <<>> \in Seq(S) /\ Len(<<>>) = 0 /\ 1..0 = {}
      OBVIOUS
    <3>2. QED
      BY <1>1, <2>1, <3>1
  <2>2. CASE n # 0
    <3>1. n \in 1..Len(s) /\ n - 1 \in 0..(n - 1) /\ n - 1 <= Len(s) /\ n \in DOMAIN s
      BY <1>0, <2>2
    <3>2. /\ u[n - 1] \in Seq(S) /\ Len(u[n - 1]) = n - 1
          /\ \A k \in 1..(n - 1) : u[n - 1][k] = s[k]
      BY <1>2, <3>1
    <3>3. u[n] = Append(u[n - 1], s[n]) /\ s[n] \in S
      <4>1. s[n] \in S
        BY <3>1
      <4>2. QED
        BY <1>1, <3>1, <4>1
    <3>4. /\ u[n] \in Seq(S) /\ Len(u[n]) = n
          /\ \A k \in 1..(n - 1) : u[n][k] = u[n - 1][k]
          /\ u[n][n] = s[n]
      <4>1. /\ u[n] \in Seq(S) /\ Len(u[n]) = (n - 1) + 1
            /\ DOMAIN u[n - 1] = 1..(n - 1)
            /\ \A k \in DOMAIN u[n - 1] : u[n][k] = u[n - 1][k]
            /\ u[n][(n - 1) + 1] = s[n]
        BY <3>2, <3>3, AppendIs
      <4>2. QED
        BY <3>1, <4>1
    <3>5. QED
      BY <3>1, <3>2, <3>4
  <2>3. QED
    BY <2>1, <2>2
<1>3. T = Nat
  BY <1>2, Below DEF T
<1>4. /\ u[Len(s)] \in Seq(S) /\ Len(u[Len(s)]) = Len(s)
      /\ \A k \in 1..Len(s) : u[Len(s)][k] = s[k]
  BY <1>0, <1>3
<1>5. u[Len(s)] = s
  BY <1>0, <1>4, SeqEqual
<1>6. QED
  BY <1>5, PickedIsUpTo DEF u

------------------------------------------------------------------------------
(* Entries and paths *)

Plain == [id : IdRange, parent : Nat, kind : EntryKinds \ {"label", "compaction"}]
Marks == [id : IdRange, parent : Nat, kind : {"label"}, target : IdRange, set : BOOLEAN]
Summaries == [id : IdRange, parent : Nat, kind : {"compaction"}, kept : Nat,
              covers : SUBSET Nat, forgets : BOOLEAN, moved : BOOLEAN]
Entries == Plain \union Marks \union Summaries

\* Entries have new ids, and come after their parents.
Grown(es, n) ==
  /\ es \in Seq(Entries)
  /\ \A i \in DOMAIN es : es[i].id <= n /\ es[i].parent < es[i].id
  /\ \A i, j \in DOMAIN es : i < j => es[i].id < es[j].id

LEMMA EntryIs ==
  ASSUME NEW e \in Entries
  PROVE  /\ e.id \in IdRange /\ e.id \in Nat /\ e.id >= 1 /\ e.id <= MaxEntries
         /\ e.parent \in Nat /\ e.kind \in EntryKinds
         /\ e.kind = "compaction" => e \in Summaries /\ e.kept \in Nat /\ e.covers \in SUBSET Nat
                                     /\ e.forgets \in BOOLEAN /\ e.moved \in BOOLEAN
         /\ e.kind = "label" => e.target \in IdRange /\ e.set \in BOOLEAN
         /\ e # Header /\ e # Junk
         /\ IsCompaction(e) <=> e.kind = "compaction"
         /\ InContext(e) => e.kind \notin {"label", "setting", "compaction"}
         /\ e.kind \notin {"label", "setting", "compaction"} => InContext(e)
<1>1. MaxEntries \in Nat
  BY SessionAssumption
<1>2. e \in Plain \/ e \in Marks \/ e \in Summaries
  BY DEF Entries
<1>3. e.id \in IdRange /\ e.parent \in Nat /\ e.kind \in EntryKinds
  BY <1>2 DEF Plain, Marks, Summaries, EntryKinds, AppendKinds
<1>4. e.id \in Nat /\ e.id >= 1 /\ e.id <= MaxEntries
  BY <1>1, <1>3 DEF IdRange
<1>5. e.kind = "compaction" => e \in Summaries /\ e.kept \in Nat /\ e.covers \in SUBSET Nat
                               /\ e.forgets \in BOOLEAN /\ e.moved \in BOOLEAN
  BY <1>2 DEF Plain, Marks, Summaries, EntryKinds, AppendKinds
<1>6. e.kind = "label" => e.target \in IdRange /\ e.set \in BOOLEAN
  BY <1>2 DEF Plain, Marks, Summaries, EntryKinds, AppendKinds
<1>7. e # Header /\ e # Junk
  <2>1. Header.kind \notin EntryKinds /\ Junk.kind \notin EntryKinds
    BY DEF Header, Junk, EntryKinds, AppendKinds
  <2>2. QED
    BY <1>3, <2>1
<1>8. IsCompaction(e) <=> e.kind = "compaction"
  BY DEF IsCompaction
<1>9. InContext(e) => e.kind \notin {"label", "setting", "compaction"}
  BY DEF InContext, IsMessage, MessageKinds
<1>10. e.kind \notin {"label", "setting", "compaction"} => InContext(e)
  BY <1>3 DEF InContext, IsMessage, MessageKinds, EntryKinds, AppendKinds
<1>11. QED
  BY <1>3, <1>4, <1>5, <1>6, <1>7, <1>8, <1>9, <1>10

LEMMA IdsOf ==
  ASSUME NEW es, NEW n
  PROVE  n \in Ids(es) <=> \E i \in DOMAIN es : es[i].id = n
BY DEF Ids

LEMMA FindIs ==
  ASSUME NEW es, NEW c \in Nat, Grown(es, c), NEW i \in DOMAIN es
  PROVE  Find(es, es[i].id) = es[i] /\ es[i].id \in Ids(es)
<1>1. \A j \in DOMAIN es : es[j].id = es[i].id => j = i
  <2>1. ASSUME NEW j \in DOMAIN es, es[j].id = es[i].id PROVE j = i
    <3>1. es[i] \in Entries /\ es[j] \in Entries /\ i \in Nat /\ j \in Nat
      BY DEF Grown
    <3>2. es[i].id \in Nat
      BY <3>1, EntryIs
    <3>3. ~(i < j) /\ ~(j < i)
      BY <2>1, <3>2 DEF Grown
    <3>4. QED
      BY <3>1, <3>3
  <2>2. QED
    BY <2>1
<1>2. (CHOOSE j \in DOMAIN es : es[j].id = es[i].id) = i
  BY <1>1
<1>3. QED
  BY <1>2, IdsOf DEF Find

IsPath(es, N, f) ==
  f = [i \in 0..N |->
         IF i \in Ids(es) THEN Append(f[Find(es, i).parent], Find(es, i)) ELSE <<>>]

PathTo(es) == CHOOSE f : IsPath(es, MaxEntries, f)

LEMMA PathIsPathTo ==
  ASSUME NEW es, NEW n
  PROVE  Path(es, n) = PathTo(es)[n]
BY DEF Path, PathTo, IsPath

LEMMA Parents ==
  ASSUME NEW es, NEW c \in Nat, Grown(es, c), NEW n \in Ids(es)
  PROVE  /\ Find(es, n) \in Entries /\ Find(es, n).id = n /\ n \in 1..c /\ n \in 1..MaxEntries
         /\ Find(es, n).parent \in 0..(n - 1) /\ \E i \in DOMAIN es : Find(es, n) = es[i]
<1>1. PICK i \in DOMAIN es : es[i].id = n
  BY IdsOf
<1>2. es[i] \in Entries /\ Find(es, n) = es[i]
  BY <1>1, FindIs DEF Grown
<1>3. n \in Nat /\ n >= 1 /\ n <= MaxEntries /\ es[i].parent \in Nat /\ n \in Int
  BY <1>1, <1>2, EntryIs
<1>4. n <= c /\ es[i].parent < n /\ MaxEntries \in Nat
  BY <1>1, SessionAssumption DEF Grown
<1>5. QED
  BY <1>1, <1>2, <1>3, <1>4

LEMMA PathExists ==
  ASSUME NEW es, NEW c \in Nat, Grown(es, c), NEW M \in Nat
  PROVE  \E f : IsPath(es, M, f)
<1> DEFINE T == {N \in Nat : \E f : IsPath(es, N, f)}
<1>1. ASSUME NEW N \in Nat, \A m \in 0..(N - 1) : m \in T PROVE N \in T
  <2> SUFFICES \E f : IsPath(es, N, f)
    OBVIOUS
  <2>1. CASE N = 0
    <3>1. 0 \notin Ids(es)
      BY Parents
    <3>2. IsPath(es, N, [i \in 0..0 |-> <<>>])
      BY <2>1, <3>1 DEF IsPath
    <3>3. QED
      BY <3>2
  <2>2. CASE N # 0
    <3>1. PICK f : IsPath(es, N - 1, f)
      <4>1. N - 1 \in 0..(N - 1)
        BY <2>2
      <4>2. QED
        BY <1>1, <4>1
    <3> DEFINE g == [i \in 0..N |->
                       IF i = N
                       THEN IF i \in Ids(es)
                            THEN Append(f[Find(es, i).parent], Find(es, i)) ELSE <<>>
                       ELSE f[i]]
    <3>2. ASSUME NEW i \in 0..N
          PROVE  g[i] = IF i \in Ids(es)
                        THEN Append(g[Find(es, i).parent], Find(es, i)) ELSE <<>>
      <4>1. i \in Ids(es) => g[Find(es, i).parent] = f[Find(es, i).parent]
        <5> SUFFICES ASSUME i \in Ids(es)
                     PROVE  g[Find(es, i).parent] = f[Find(es, i).parent]
          OBVIOUS
        <5>1. Find(es, i).parent \in 0..(i - 1)
          BY Parents
        <5>2. Find(es, i).parent \in 0..N /\ Find(es, i).parent # N
          BY <5>1
        <5>3. QED
          BY <5>2
      <4>2. CASE i = N
        BY <4>1, <4>2
      <4>3. CASE i # N
        <5>1. i \in 0..(N - 1)
          BY <4>3
        <5>2. f[i] = IF i \in Ids(es)
                     THEN Append(f[Find(es, i).parent], Find(es, i)) ELSE <<>>
          BY <3>1, <5>1 DEF IsPath
        <5>3. QED
          BY <4>1, <4>3, <5>2
      <4>4. QED
        BY <4>2, <4>3
    <3>3. IsPath(es, N, g)
      <4>1. g = [i \in 0..N |-> g[i]]
        OBVIOUS
      <4> HIDE DEF g
      <4>2. QED
        BY <3>2, <4>1 DEF IsPath
    <3>4. QED
      BY <3>3
  <2>3. QED
    BY <2>1, <2>2
<1> HIDE DEF T
<1>2. T = Nat
  BY <1>1, Below DEF T
<1>3. QED
  BY <1>2 DEF T

LEMMA PathSteps ==
  ASSUME NEW es, NEW c \in Nat, Grown(es, c), NEW n \in 0..MaxEntries
  PROVE  /\ n \notin Ids(es) => Path(es, n) = <<>>
         /\ n \in Ids(es) => Path(es, n) = Append(Path(es, Find(es, n).parent), Find(es, n))
<1>1. MaxEntries \in Nat
  BY SessionAssumption
<1>2. IsPath(es, MaxEntries, PathTo(es))
  BY <1>1, PathExists, Zenon DEF PathTo
<1> DEFINE f == PathTo(es)
<1>3. IsPath(es, MaxEntries, f)
  BY <1>2
<1> HIDE DEF f
<1>4. f[n] = IF n \in Ids(es) THEN Append(f[Find(es, n).parent], Find(es, n)) ELSE <<>>
  BY <1>3 DEF IsPath
<1>5. QED
  BY <1>4, PathIsPathTo DEF f

Rising(p) == \A i, j \in DOMAIN p : i < j => p[i].id < p[j].id

\* A path of entries of es that ends with entry n.
Leads(es, n, p) ==
  /\ p \in Seq(Entries) /\ Rising(p)
  /\ \A k \in DOMAIN p : p[k].id <= n /\ \E i \in DOMAIN es : p[k] = es[i]
  /\ n \notin Ids(es) => p = <<>>
  /\ n \in Ids(es) => p # <<>> /\ p[Len(p)] = Find(es, n) /\ p[Len(p)].id = n

LEMMA PathLeads ==
  ASSUME NEW es, NEW c \in Nat, Grown(es, c), NEW n \in 0..MaxEntries
  PROVE  Leads(es, n, Path(es, n))
<1> DEFINE T == {k \in Nat : k <= MaxEntries => Leads(es, k, Path(es, k))}
<1>0. MaxEntries \in Nat
  BY SessionAssumption
<1>1. ASSUME NEW k \in Nat, \A m \in 0..(k - 1) : m \in T PROVE k \in T
  <2> SUFFICES ASSUME k <= MaxEntries PROVE Leads(es, k, Path(es, k))
    OBVIOUS
  <2>0. k \in 0..MaxEntries
    BY <1>0
  <2>1. CASE k \notin Ids(es)
    <3>1. Path(es, k) = <<>>
      BY <2>0, <2>1, PathSteps
    <3>2. <<>> \in Seq(Entries) /\ DOMAIN <<>> = {}
      OBVIOUS
    <3>3. QED
      BY <2>1, <3>1, <3>2 DEF Leads, Rising
  <2>2. CASE k \in Ids(es)
    <3> DEFINE e == Find(es, k)
               q == Path(es, e.parent)
               p == Path(es, k)
    <3>1. /\ e \in Entries /\ e.id = k /\ e.parent \in 0..(k - 1)
          /\ \E i \in DOMAIN es : e = es[i]
      BY <2>2, Parents
    <3>2. p = Append(q, e)
      BY <2>0, <2>2, PathSteps
    <3>3. Leads(es, e.parent, q)
      <4>1. e.parent \in T /\ e.parent <= MaxEntries
        BY <1>0, <1>1, <3>1
      <4>2. QED
        BY <4>1
    <3> HIDE DEF e, p, q
    <3>4. q \in Seq(Entries) /\ Rising(q) /\ \A l \in DOMAIN q : q[l].id <= e.parent /\ q[l].id \in Nat
      <4>1. ASSUME NEW l \in DOMAIN q PROVE q[l].id \in Nat
        <5>1. q[l] \in Entries
          BY <3>3 DEF Leads
        <5>2. QED
          BY <5>1, EntryIs
      <4>2. QED
        BY <3>3, <4>1 DEF Leads
    <3>5. /\ p \in Seq(Entries) /\ Len(p) = Len(q) + 1
          /\ DOMAIN p = 1..(Len(q) + 1) /\ DOMAIN q = 1..Len(q) /\ Len(q) \in Nat
          /\ \A i \in DOMAIN q : p[i] = q[i]
          /\ p[Len(q) + 1] = e
      BY <3>1, <3>2, <3>4, AppendIs
    <3>6. ASSUME NEW l \in DOMAIN p
          PROVE  p[l].id <= k /\ \E i \in DOMAIN es : p[l] = es[i]
      <4>1. CASE l \in DOMAIN q
        <5>1. p[l] = q[l] /\ q[l].id <= e.parent /\ q[l].id \in Nat
          BY <3>4, <3>5, <4>1
        <5>2. p[l].id <= k
          BY <3>1, <5>1
        <5>3. QED
          BY <3>3, <4>1, <5>1, <5>2 DEF Leads
      <4>2. CASE l \notin DOMAIN q
        <5>1. p[l] = e
          BY <3>5, <4>2
        <5>2. QED
          BY <3>1, <5>1
      <4>3. QED
        BY <4>1, <4>2
    <3>7. Rising(p)
      <4>1. ASSUME NEW i \in DOMAIN p, NEW j \in DOMAIN p, i < j PROVE p[i].id < p[j].id
        <5>1. i \in DOMAIN q
          BY <3>5, <4>1
        <5>2. CASE j \in DOMAIN q
          BY <3>4, <3>5, <4>1, <5>1, <5>2 DEF Rising
        <5>3. CASE j \notin DOMAIN q
          <6>1. p[j] = e /\ p[i] = q[i] /\ q[i].id <= e.parent /\ q[i].id \in Nat
            BY <3>4, <3>5, <5>1, <5>3
          <6>2. QED
            BY <3>1, <6>1
        <5>4. QED
          BY <5>2, <5>3
      <4>2. QED
        BY <4>1 DEF Rising
    <3>8. p # <<>> /\ p[Len(p)] = e /\ p[Len(p)].id = k
      BY <3>1, <3>5
    <3>9. Leads(es, k, p)
      BY <2>2, <3>5, <3>6, <3>7, <3>8 DEF Leads, e
    <3>10. QED
      BY <3>9 DEF p
  <2>3. QED
    BY <2>1, <2>2
<1> HIDE DEF T
<1>2. T = Nat
  BY <1>1, Below DEF T
<1>3. n \in T /\ n <= MaxEntries
  BY <1>0, <1>2
<1>4. QED
  BY <1>3 DEF T

\* The positions of a path are told apart by the ids.
LEMMA PathOnce ==
  ASSUME NEW p \in Seq(Entries), Rising(p), NEW i \in DOMAIN p, NEW j \in DOMAIN p
  PROVE  /\ p[i].id = p[j].id => i = j
         /\ p[i].id < p[j].id <=> i < j
         /\ p[i].id \in Nat /\ i \in Nat
<1>1. p[i] \in Entries /\ p[j] \in Entries /\ i \in Nat /\ j \in Nat
  OBVIOUS
<1>2. p[i].id \in Nat /\ p[j].id \in Nat
  BY <1>1, EntryIs
<1>3. (i < j => p[i].id < p[j].id) /\ (j < i => p[j].id < p[i].id)
  BY DEF Rising
<1>4. CASE i = j
  BY <1>1, <1>2, <1>4
<1>5. CASE i < j
  BY <1>1, <1>2, <1>3, <1>5
<1>6. CASE j < i
  BY <1>1, <1>2, <1>3, <1>6
<1>7. QED
  BY <1>1, <1>4, <1>5, <1>6

LEMMA PrefixIs ==
  ASSUME NEW S, NEW p \in Seq(S), NEW k \in DOMAIN p
  PROVE  /\ SubSeq(p, 1, k) \in Seq(S) /\ Len(SubSeq(p, 1, k)) = k
         /\ DOMAIN SubSeq(p, 1, k) = 1..k /\ 1..k \subseteq DOMAIN p
         /\ \A i \in 1..k : SubSeq(p, 1, k)[i] = p[i]
         /\ k \in Nat /\ k >= 1 /\ k <= Len(p)
OBVIOUS

LEMMA PrefixOfAppend ==
  ASSUME NEW S, NEW q \in Seq(S), NEW e \in S, NEW k \in DOMAIN q
  PROVE  SubSeq(Append(q, e), 1, k) = SubSeq(q, 1, k)
<1> DEFINE p == Append(q, e)
           a == SubSeq(p, 1, k)
           b == SubSeq(q, 1, k)
<1>1. /\ p \in Seq(S) /\ k \in DOMAIN p
      /\ \A i \in DOMAIN q : p[i] = q[i]
  BY AppendIs
<1>2. a \in Seq(S) /\ Len(a) = k /\ \A i \in 1..k : a[i] = p[i]
  BY <1>1, PrefixIs
<1>3. b \in Seq(S) /\ Len(b) = k /\ 1..k \subseteq DOMAIN q /\ \A i \in 1..k : b[i] = q[i]
  BY PrefixIs
<1> HIDE DEF a, b, p
<1>4. \A i \in 1..k : a[i] = b[i]
  BY <1>1, <1>2, <1>3
<1>5. a = b
  BY <1>2, <1>3, <1>4, SeqEqual
<1>6. QED
  BY <1>5 DEF a, b, p

LEMMA PrefixWhole ==
  ASSUME NEW S, NEW p \in Seq(S)
  PROVE  SubSeq(p, 1, Len(p)) = p
BY SubSeqFull

\* The path to an entry of a path is the part of it up to there.
LEMMA PathPrefix ==
  ASSUME NEW es, NEW c \in Nat, Grown(es, c), NEW n \in 0..MaxEntries,
         NEW k \in DOMAIN Path(es, n)
  PROVE  /\ Path(es, n)[k].id \in 0..MaxEntries
         /\ Path(es, Path(es, n)[k].id) = SubSeq(Path(es, n), 1, k)
<1> DEFINE T == {m \in Nat : m <= MaxEntries =>
                   \A l \in DOMAIN Path(es, m) :
                     Path(es, Path(es, m)[l].id) = SubSeq(Path(es, m), 1, l)}
<1>0. MaxEntries \in Nat
  BY SessionAssumption
<1>1. ASSUME NEW m \in Nat, \A x \in 0..(m - 1) : x \in T PROVE m \in T
  <2> SUFFICES ASSUME m <= MaxEntries, NEW l \in DOMAIN Path(es, m)
               PROVE  Path(es, Path(es, m)[l].id) = SubSeq(Path(es, m), 1, l)
    OBVIOUS
  <2>0. m \in 0..MaxEntries
    BY <1>0
  <2>1. m \in Ids(es)
    <3>1. m \notin Ids(es) => Path(es, m) = <<>>
      BY <2>0, PathSteps
    <3>2. DOMAIN <<>> = {}
      OBVIOUS
    <3>3. QED
      BY <3>1, <3>2
  <2> DEFINE e == Find(es, m)
             q == Path(es, e.parent)
             p == Path(es, m)
  <2>2. e \in Entries /\ e.id = m /\ e.parent \in 0..(m - 1)
    BY <2>1, Parents
  <2>3. p = Append(q, e)
    BY <2>0, <2>1, PathSteps
  <2>4. e.parent \in T /\ e.parent \in 0..MaxEntries /\ e.parent <= MaxEntries
    BY <1>0, <1>1, <2>0, <2>2
  <2>5. q \in Seq(Entries)
    BY <2>4, PathLeads DEF Leads
  <2>6. \A i \in DOMAIN q : Path(es, q[i].id) = SubSeq(q, 1, i)
    BY <2>4
  <2>7. l \in DOMAIN p
    OBVIOUS
  <2> HIDE DEF T, e, p, q
  <2>8. /\ p \in Seq(Entries) /\ Len(p) = Len(q) + 1
        /\ DOMAIN p = 1..(Len(q) + 1) /\ DOMAIN q = 1..Len(q) /\ Len(q) \in Nat
        /\ \A i \in DOMAIN q : p[i] = q[i]
        /\ p[Len(q) + 1] = e
    BY <2>2, <2>3, <2>5, AppendIs
  <2>9. CASE l \in DOMAIN q
    <3>1. SubSeq(p, 1, l) = SubSeq(q, 1, l)
      BY <2>2, <2>3, <2>5, <2>9, PrefixOfAppend
    <3>2. QED
      BY <2>6, <2>8, <2>9, <3>1 DEF p
  <2>10. CASE l \notin DOMAIN q
    <3>1. l = Len(p) /\ p[l].id = m
      BY <2>2, <2>7, <2>8, <2>10
    <3>2. SubSeq(p, 1, l) = p
      BY <2>8, <3>1, PrefixWhole
    <3>3. QED
      BY <3>1, <3>2 DEF p
  <2>11. QED
    BY <2>9, <2>10
<1>2. Path(es, n)[k].id \in 0..MaxEntries
  <2>1. Path(es, n) \in Seq(Entries)
    BY PathLeads DEF Leads
  <2> HIDE DEF T
  <2>2. Path(es, n)[k] \in Entries
    BY <2>1
  <2>3. QED
    BY <1>0, <2>2, EntryIs
<1> HIDE DEF T
<1>3. T = Nat
  BY <1>1, Below DEF T
<1>4. n \in T /\ n <= MaxEntries
  BY <1>0, <1>3
<1>5. QED
  BY <1>2, <1>4 DEF T

\* The next entry of a session.
Follows(es, c, e) == e \in Entries /\ e.id = c + 1 /\ e.parent <= c

LEMMA GrownGrows ==
  ASSUME NEW es, NEW c \in Nat, Grown(es, c), NEW e, Follows(es, c, e)
  PROVE  Grown(Append(es, e), c + 1)
<1> DEFINE fs == Append(es, e)
<1>1. /\ es \in Seq(Entries) /\ e \in Entries /\ e.id = c + 1 /\ e.parent \in Nat
      /\ e.parent < e.id
  BY EntryIs DEF Follows, Grown
<1>2. /\ fs \in Seq(Entries) /\ DOMAIN fs = 1..(Len(es) + 1) /\ DOMAIN es = 1..Len(es)
      /\ Len(es) \in Nat
      /\ \A i \in DOMAIN es : fs[i] = es[i]
      /\ fs[Len(es) + 1] = e
  BY <1>1, AppendIs
<1> HIDE DEF fs
<1>3. \A i \in DOMAIN es : es[i].id \in Nat /\ es[i].id <= c /\ es[i].parent < es[i].id
  <2>1. ASSUME NEW i \in DOMAIN es PROVE es[i].id \in Nat
    <3>1. es[i] \in Entries
      BY <1>1
    <3>2. QED
      BY <3>1, EntryIs
  <2>2. QED
    BY <2>1 DEF Grown
<1>4. ASSUME NEW i \in DOMAIN fs PROVE fs[i].id <= c + 1 /\ fs[i].parent < fs[i].id
  <2>1. CASE i \in DOMAIN es
    <3>1. fs[i] = es[i] /\ es[i].id \in Nat /\ es[i].id <= c /\ es[i].parent < es[i].id
      BY <1>2, <1>3, <2>1
    <3>2. QED
      BY <3>1
  <2>2. CASE i \notin DOMAIN es
    <3>1. fs[i] = e
      BY <1>2, <2>2
    <3>2. QED
      BY <1>1, <3>1
  <2>3. QED
    BY <2>1, <2>2
<1>5. ASSUME NEW i \in DOMAIN fs, NEW j \in DOMAIN fs, i < j PROVE fs[i].id < fs[j].id
  <2>1. i \in DOMAIN es
    BY <1>2, <1>5
  <2>2. CASE j \in DOMAIN es
    BY <1>2, <1>5, <2>1, <2>2 DEF Grown
  <2>3. CASE j \notin DOMAIN es
    <3>1. fs[j] = e /\ fs[i] = es[i] /\ es[i].id \in Nat /\ es[i].id <= c
      BY <1>2, <1>3, <2>1, <2>3
    <3>2. QED
      BY <1>1, <3>1
  <2>4. QED
    BY <2>2, <2>3
<1>6. QED
  BY <1>2, <1>4, <1>5 DEF Grown, fs

LEMMA NewFound ==
  ASSUME NEW es, NEW c \in Nat, Grown(es, c), NEW e, Follows(es, c, e)
  PROVE  /\ Ids(Append(es, e)) = Ids(es) \union {e.id} /\ e.id \notin Ids(es)
         /\ Find(Append(es, e), e.id) = e
         /\ \A n \in Ids(es) : Find(Append(es, e), n) = Find(es, n)
<1> DEFINE fs == Append(es, e)
<1>1. es \in Seq(Entries) /\ e \in Entries /\ e.id = c + 1
  BY DEF Follows, Grown
<1>2. /\ fs \in Seq(Entries) /\ DOMAIN fs = 1..(Len(es) + 1) /\ DOMAIN es = 1..Len(es)
      /\ Len(es) \in Nat
      /\ \A i \in DOMAIN es : fs[i] = es[i]
      /\ fs[Len(es) + 1] = e
  BY <1>1, AppendIs
<1>3. Grown(fs, c + 1) /\ c + 1 \in Nat
  BY GrownGrows
<1> HIDE DEF fs
<1>4. DOMAIN fs = DOMAIN es \union {Len(es) + 1} /\ DOMAIN es \subseteq DOMAIN fs
  BY <1>2
<1>5. Ids(fs) = Ids(es) \union {e.id}
  <2>1. Ids(fs) = {fs[i].id : i \in DOMAIN es} \union {e.id}
    BY <1>2, <1>4 DEF Ids
  <2>2. {fs[i].id : i \in DOMAIN es} = Ids(es)
    BY <1>2 DEF Ids
  <2>3. QED
    BY <2>1, <2>2
<1>6. e.id \notin Ids(es)
  <2> SUFFICES ASSUME e.id \in Ids(es) PROVE FALSE
    OBVIOUS
  <2>1. e.id \in 1..c
    BY Parents
  <2>2. QED
    BY <1>1, <2>1
<1>7. Find(fs, e.id) = e
  <2>1. Len(es) + 1 \in DOMAIN fs
    BY <1>4
  <2>2. Find(fs, fs[Len(es) + 1].id) = fs[Len(es) + 1]
    BY <1>3, <2>1, FindIs
  <2>3. QED
    BY <1>2, <2>2
<1>8. ASSUME NEW n \in Ids(es) PROVE Find(fs, n) = Find(es, n)
  <2>1. PICK i \in DOMAIN es : es[i].id = n
    BY IdsOf
  <2>2. Find(es, n) = es[i]
    BY <2>1, FindIs
  <2>3. i \in DOMAIN fs /\ fs[i] = es[i]
    BY <1>2, <1>4
  <2>4. Find(fs, fs[i].id) = fs[i]
    BY <1>3, <2>3, FindIs
  <2>5. QED
    BY <2>1, <2>2, <2>3, <2>4
<1>9. QED
  BY <1>5, <1>6, <1>7, <1>8 DEF fs

LEMMA PathGrows ==
  ASSUME NEW es, NEW c \in Nat, Grown(es, c), c < MaxEntries, NEW e, Follows(es, c, e)
  PROVE  /\ \A n \in 0..c : Path(Append(es, e), n) = Path(es, n)
         /\ Path(Append(es, e), e.id) = Append(Path(es, e.parent), e)
<1> DEFINE fs == Append(es, e)
           T == {n \in Nat : n <= c => Path(fs, n) = Path(es, n)}
<1>0. MaxEntries \in Nat /\ e.id = c + 1 /\ e.parent \in 0..c
  BY SessionAssumption, EntryIs DEF Follows
<1>1. Grown(fs, c + 1) /\ c + 1 \in Nat
  BY GrownGrows
<1>2. /\ Ids(fs) = Ids(es) \union {e.id} /\ e.id \notin Ids(es)
      /\ Find(fs, e.id) = e
      /\ \A n \in Ids(es) : Find(fs, n) = Find(es, n)
  BY NewFound
<1> HIDE DEF fs
<1>3. ASSUME NEW n \in Nat, \A m \in 0..(n - 1) : m \in T PROVE n \in T
  <2> SUFFICES ASSUME n <= c PROVE Path(fs, n) = Path(es, n)
    OBVIOUS
  <2>1. n \in 0..MaxEntries /\ n # e.id
    BY <1>0
  <2>2. CASE n \notin Ids(es)
    <3>1. n \notin Ids(fs)
      BY <1>2, <2>1, <2>2
    <3>2. QED
      BY <1>1, <2>1, <2>2, <3>1, PathSteps
  <2>3. CASE n \in Ids(es)
    <3>1. n \in Ids(fs) /\ Find(fs, n) = Find(es, n)
      BY <1>2, <2>3
    <3>2. Find(es, n).parent \in 0..(n - 1)
      BY <2>3, Parents
    <3>3. Path(fs, Find(es, n).parent) = Path(es, Find(es, n).parent)
      <4>1. Find(es, n).parent \in T /\ Find(es, n).parent <= c
        BY <1>3, <3>2
      <4>2. QED
        BY <4>1
    <3>4. Path(fs, n) = Append(Path(fs, Find(fs, n).parent), Find(fs, n))
      BY <1>1, <2>1, <3>1, PathSteps
    <3>5. Path(es, n) = Append(Path(es, Find(es, n).parent), Find(es, n))
      BY <2>1, <2>3, PathSteps
    <3>6. QED
      BY <3>1, <3>3, <3>4, <3>5
  <2>4. QED
    BY <2>2, <2>3
<1> HIDE DEF T
<1>4. T = Nat
  BY <1>3, Below DEF T
<1>5. ASSUME NEW n \in 0..c PROVE Path(fs, n) = Path(es, n)
  <2>1. n \in T /\ n <= c
    BY <1>4
  <2>2. QED
    BY <2>1 DEF T
<1>6. Path(fs, e.id) = Append(Path(fs, e.parent), e)
  <2>1. e.id \in 0..MaxEntries /\ e.id \in Ids(fs)
    BY <1>0, <1>2
  <2>2. QED
    BY <1>1, <1>2, <2>1, PathSteps
<1>7. QED
  BY <1>0, <1>5, <1>6 DEF fs

\* With fewer entries a path has fewer.
LEMMA PathShrinks ==
  ASSUME NEW es, NEW c \in Nat, Grown(es, c), NEW fs, NEW d \in Nat, Grown(fs, d),
         \A i \in DOMAIN fs : \E j \in DOMAIN es : fs[i] = es[j],
         NEW n \in 0..MaxEntries
  PROVE  \A k \in DOMAIN Path(fs, n) : \E l \in DOMAIN Path(es, n) :
           Path(fs, n)[k] = Path(es, n)[l]
<1> DEFINE In(m) == \A k \in DOMAIN Path(fs, m) : \E l \in DOMAIN Path(es, m) :
                      Path(fs, m)[k] = Path(es, m)[l]
           T == {m \in Nat : m <= MaxEntries => In(m)}
<1>0. MaxEntries \in Nat
  BY SessionAssumption
<1>1. ASSUME NEW m \in Nat, \A x \in 0..(m - 1) : x \in T PROVE m \in T
  <2> SUFFICES ASSUME m <= MaxEntries PROVE In(m)
    OBVIOUS
  <2>0. m \in 0..MaxEntries
    BY <1>0
  <2>1. CASE m \notin Ids(fs)
    <3>1. Path(fs, m) = <<>> /\ DOMAIN <<>> = {}
      BY <2>0, <2>1, PathSteps
    <3>2. QED
      BY <3>1
  <2>2. CASE m \in Ids(fs)
    <3>1. PICK i \in DOMAIN fs : fs[i].id = m
      BY <2>2, IdsOf
    <3>2. PICK j \in DOMAIN es : fs[i] = es[j]
      OBVIOUS
    <3> DEFINE e == es[j]
               q == Path(es, e.parent)
               r == Path(fs, e.parent)
    <3>3. Find(fs, m) = e /\ Find(es, m) = e /\ m \in Ids(es)
      BY <3>1, <3>2, FindIs
    <3>4. e \in Entries /\ e.parent \in 0..(m - 1)
      BY <3>3, Parents
    <3>5. Path(fs, m) = Append(r, e) /\ Path(es, m) = Append(q, e)
      BY <2>0, <2>2, <3>3, PathSteps
    <3>6. In(e.parent) /\ e.parent \in 0..MaxEntries
      <4>1. e.parent \in T /\ e.parent <= MaxEntries /\ e.parent \in 0..MaxEntries
        BY <1>0, <1>1, <3>4
      <4>2. QED
        BY <4>1
    <3>7. q \in Seq(Entries) /\ r \in Seq(Entries)
      BY <3>6, PathLeads DEF Leads
    <3>8. \A k \in DOMAIN r : \E l \in DOMAIN q : r[k] = q[l]
      BY <3>6
    <3> HIDE DEF e, q, r, T, In
    <3>9. /\ DOMAIN Append(r, e) = 1..(Len(r) + 1) /\ DOMAIN r = 1..Len(r) /\ Len(r) \in Nat
          /\ \A k \in DOMAIN r : Append(r, e)[k] = r[k]
          /\ Append(r, e)[Len(r) + 1] = e
      BY <3>4, <3>7, AppendIs
    <3>10. /\ DOMAIN Append(q, e) = 1..(Len(q) + 1) /\ DOMAIN q = 1..Len(q) /\ Len(q) \in Nat
           /\ \A k \in DOMAIN q : Append(q, e)[k] = q[k]
           /\ Append(q, e)[Len(q) + 1] = e
      BY <3>4, <3>7, AppendIs
    <3>11. ASSUME NEW k \in DOMAIN Append(r, e)
           PROVE  \E l \in DOMAIN Append(q, e) : Append(r, e)[k] = Append(q, e)[l]
      <4>1. CASE k \in DOMAIN r
        <5>1. PICK l \in DOMAIN q : r[k] = q[l]
          BY <3>8, <4>1
        <5>2. l \in DOMAIN Append(q, e) /\ Append(q, e)[l] = q[l] /\ Append(r, e)[k] = r[k]
          BY <3>9, <3>10, <4>1
        <5>3. QED
          BY <5>1, <5>2
      <4>2. CASE k \notin DOMAIN r
        <5>1. Append(r, e)[k] = e /\ Len(q) + 1 \in DOMAIN Append(q, e)
          BY <3>9, <3>10, <4>2
        <5>2. QED
          BY <3>10, <5>1
      <4>3. QED
        BY <4>1, <4>2
    <3>12. QED
      BY <3>5, <3>11 DEF In
  <2>3. QED
    BY <2>1, <2>2
<1> HIDE DEF T
<1>2. T = Nat
  BY <1>1, Below DEF T
<1>3. n \in T /\ n <= MaxEntries
  BY <1>0, <1>2
<1>4. QED
  BY <1>3 DEF T

\* Each entry is the child of the one before it.
Chained(es) == \A i \in DOMAIN es : es[i].parent = IF i = 1 THEN 0 ELSE es[i - 1].id

LEMMA PathOfChain ==
  ASSUME NEW es, NEW c \in Nat, Grown(es, c), Chained(es), NEW n \in DOMAIN es
  PROVE  Path(es, es[n].id) = SubSeq(es, 1, n)
<1> DEFINE T == {m \in Nat : m \in DOMAIN es => Path(es, es[m].id) = SubSeq(es, 1, m)}
<1>0. es \in Seq(Entries) /\ DOMAIN es = 1..Len(es) /\ Len(es) \in Nat
  BY DEF Grown
<1>1. ASSUME NEW m \in Nat, \A x \in 0..(m - 1) : x \in T PROVE m \in T
  <2> SUFFICES ASSUME m \in DOMAIN es PROVE Path(es, es[m].id) = SubSeq(es, 1, m)
    OBVIOUS
  <2> DEFINE e == es[m]
             q == Path(es, e.parent)
  <2>1. e \in Entries /\ e.id \in Ids(es) /\ Find(es, e.id) = e /\ e.id \in 0..MaxEntries
    <3>1. e \in Entries /\ e.id \in Ids(es) /\ Find(es, e.id) = e
      BY <1>0, FindIs
    <3>2. e.id \in 1..MaxEntries
      BY <3>1, Parents
    <3>3. QED
      BY <3>1, <3>2
  <2>2. Path(es, e.id) = Append(q, e)
    BY <2>1, PathSteps
  <2>3. q = SubSeq(es, 1, m - 1)
    <3>1. CASE m = 1
      <4>1. e.parent = 0
        BY <3>1 DEF Chained
      <4>2. 0 \notin Ids(es) /\ 0 \in 0..MaxEntries
        BY Parents, SessionAssumption
      <4>3. q = <<>>
        BY <4>1, <4>2, PathSteps
      <4>4. SubSeq(es, 1, 0) = <<>>
        BY <1>0, SubSeqEmpty
      <4>5. QED
        BY <3>1, <4>3, <4>4
    <3>2. CASE m # 1
      <4>1. m - 1 \in 0..(m - 1) /\ m - 1 \in DOMAIN es
        BY <1>0, <3>2
      <4>2. e.parent = es[m - 1].id
        BY <3>2 DEF Chained
      <4>3. m - 1 \in T
        BY <1>1, <4>1
      <4>4. QED
        BY <4>1, <4>2, <4>3
    <3>3. QED
      BY <3>1, <3>2
  <2> HIDE DEF q, e
  <2>4. SubSeq(es, 1, m) = Append(SubSeq(es, 1, m - 1), e)
    <3>1. m \in 1..Len(es) /\ 1 \in 1..Len(es)
      BY <1>0
    <3>2. SubSeq(es, 1, m) = Append(SubSeq(es, 1, m - 1), es[m])
      BY <1>0, <3>1, SubSeqRecursiveSecond
    <3>3. QED
      BY <3>2 DEF e
  <2>5. QED
    BY <2>2, <2>3, <2>4 DEF e
<1> HIDE DEF T
<1>2. T = Nat
  BY <1>1, Below DEF T
<1>3. n \in T
  BY <1>0, <1>2
<1>4. QED
  BY <1>3 DEF T

------------------------------------------------------------------------------
(* What a file holds *)

Lines == Entries \union {Header, Junk}

\* What the lines of a file have to do with the entries in memory.
Holds(es, lines) ==
  /\ lines \in Seq(Lines)
  /\ \A i \in DOMAIN lines : i # 1 => lines[i] # Header
  /\ \A i \in DOMAIN lines : lines[i] \in Entries => \E j \in DOMAIN es : lines[i] = es[j]
  /\ \A i, j \in DOMAIN lines :
       i < j /\ lines[i] \in Entries /\ lines[j] \in Entries => lines[i].id < lines[j].id

LEMMA LineIs ==
  /\ Header \in Lines /\ Junk \in Lines /\ Entries \subseteq Lines
  /\ Header \notin Entries /\ Junk \notin Entries /\ Header # Junk
<1>1. Header \notin Entries /\ Junk \notin Entries
  BY EntryIs
<1>2. Header # Junk
  <2>1. Header.kind # Junk.kind
    BY DEF Header, Junk
  <2>2. QED
    BY <2>1
<1>3. QED
  BY <1>1, <1>2 DEF Lines

LEMMA ParsedIs ==
  ASSUME NEW es, Holds(es, file)
  PROVE  /\ Parsed \in Seq(Lines)
         /\ \E g : Embeds(Parsed, file, {i \in DOMAIN file : file[i] # Junk}, g)
<1>1. file \in Seq(Lines) /\ {i \in DOMAIN file : file[i] # Junk} \in SUBSET DOMAIN file
  BY DEF Holds
<1>2. QED
  BY <1>1, PickedEmbeds DEF Parsed

LEMMA ReadableIs ==
  ASSUME NEW es, Holds(es, file)
  PROVE  Readable <=> file # <<>> /\ file[1] = Header
<1> DEFINE picked == {i \in DOMAIN file : file[i] # Junk}
           w == Parsed
<1>1. file \in Seq(Lines) /\ w \in Seq(Lines)
  BY ParsedIs DEF Holds
<1>2. PICK g : Embeds(w, file, picked, g)
  BY ParsedIs
<1>3. Readable <=> w # <<>> /\ w[1] = Header
  BY <1>1 DEF Readable
<1>4. /\ DOMAIN file = 1..Len(file) /\ Len(file) \in Nat
      /\ DOMAIN w = 1..Len(w) /\ Len(w) \in Nat
  BY <1>1
<1> HIDE DEF w
<1>5. ASSUME w # <<>>, w[1] = Header PROVE file # <<>> /\ file[1] = Header
  <2>1. 1 \in DOMAIN w
    BY <1>1, <1>4, <1>5
  <2>2. g[1] \in picked /\ w[1] = file[g[1]]
    BY <1>2, <2>1 DEF Embeds
  <2>3. g[1] \in DOMAIN file /\ file[g[1]] = Header
    BY <1>5, <2>2
  <2>4. g[1] = 1
    BY <2>3 DEF Holds
  <2>5. QED
    BY <1>1, <1>4, <2>3, <2>4
<1>6. ASSUME file # <<>>, file[1] = Header PROVE w # <<>> /\ w[1] = Header
  <2>1. 1 \in DOMAIN file
    BY <1>1, <1>4, <1>6
  <2>2. 1 \in picked
    BY <1>6, <2>1, LineIs
  <2>3. PICK k \in DOMAIN w : g[k] = 1
    BY <1>2, <2>2 DEF Embeds
  <2>4. 1 \in DOMAIN w
    BY <1>4, <2>3
  <2>5. g[1] \in DOMAIN file /\ (1 < k => g[1] < g[k])
    BY <1>2, <2>3, <2>4 DEF Embeds
  <2>6. k = 1
    <3>1. g[1] \in Nat /\ g[1] >= 1 /\ k \in Nat /\ k >= 1
      BY <1>4, <2>3, <2>5
    <3>2. ~(1 < k)
      BY <2>3, <2>5, <3>1
    <3>3. QED
      BY <3>1, <3>2
  <2>7. w[1] = file[1]
    BY <1>2, <2>3, <2>4, <2>6 DEF Embeds
  <2>8. QED
    BY <1>1, <1>4, <1>6, <2>4, <2>7
<1>7. QED
  BY <1>3, <1>5, <1>6

\* The entries that are read back are those of the lines.
LEMMA LoadedIs ==
  ASSUME NEW es, NEW c \in Nat, Grown(es, c), Holds(es, file)
  PROVE  /\ Grown(Loaded, c)
         /\ \A i \in DOMAIN Loaded : \E j \in DOMAIN es : Loaded[i] = es[j]
         /\ \A i \in DOMAIN Loaded : \E j \in DOMAIN file : Loaded[i] = file[j]
         /\ Readable =>
              \A j \in DOMAIN file : file[j] \in Entries =>
                \E i \in DOMAIN Loaded : Loaded[i] = file[j]
         /\ ~Readable => Loaded = <<>>
<1> DEFINE picked == {i \in DOMAIN file : file[i] # Junk}
           w == Parsed
           v == Loaded
<1>1. file \in Seq(Lines) /\ w \in Seq(Lines)
  BY ParsedIs DEF Holds
<1>2. PICK g : Embeds(w, file, picked, g)
  BY ParsedIs
<1>3. Readable <=> file # <<>> /\ file[1] = Header
  BY ReadableIs
<1>4. /\ DOMAIN file = 1..Len(file) /\ Len(file) \in Nat
      /\ DOMAIN w = 1..Len(w) /\ Len(w) \in Nat
  BY <1>1
<1>5. v = IF Readable THEN Tail(w) ELSE <<>>
  BY DEF Loaded, Readable
<1>6. Readable => w # <<>> /\ w[1] = Header
  BY <1>1 DEF Readable
<1>7. CASE ~Readable
  <2>1. v = <<>> /\ DOMAIN <<>> = {} /\ <<>> \in Seq(Entries)
    BY <1>5, <1>7
  <2>2. Grown(v, c)
    BY <2>1 DEF Grown
  <2>3. QED
    BY <1>7, <2>1, <2>2
<1>8. CASE Readable
  <2>1. v = Tail(w) /\ w # <<>>
    BY <1>5, <1>6, <1>8
  <2> HIDE DEF w, v
  <2>2. /\ v \in Seq(Lines) /\ Len(v) = Len(w) - 1 /\ DOMAIN v = 1..(Len(w) - 1)
        /\ Len(w) >= 1
        /\ \A k \in 1..(Len(w) - 1) : v[k] = w[k + 1]
    BY <1>1, <2>1
  <2>3. ASSUME NEW k \in DOMAIN v
        PROVE  /\ k + 1 \in DOMAIN w /\ g[k + 1] \in DOMAIN file /\ v[k] = file[g[k + 1]]
               /\ v[k] \in Entries /\ g[k + 1] # 1
    <3>1. k + 1 \in DOMAIN w /\ 1 \in DOMAIN w /\ 1 < k + 1
      BY <1>4, <2>2
    <3>2. g[k + 1] \in picked /\ g[1] \in picked /\ w[k + 1] = file[g[k + 1]]
      BY <1>2, <3>1 DEF Embeds
    <3>3. g[1] < g[k + 1]
      BY <1>2, <3>1 DEF Embeds
    <3>4. g[k + 1] # 1
      BY <1>4, <3>2, <3>3
    <3>5. file[g[k + 1]] \in Lines /\ file[g[k + 1]] # Junk /\ file[g[k + 1]] # Header
      BY <1>1, <3>2, <3>4 DEF Holds
    <3>6. QED
      BY <2>2, <3>1, <3>2, <3>4, <3>5 DEF Lines
  <2>4. v \in Seq(Entries)
    BY <2>2, <2>3
  <2>5. ASSUME NEW i \in DOMAIN v PROVE \E j \in DOMAIN es : v[i] = es[j]
    BY <2>3 DEF Holds
  <2>6. ASSUME NEW i \in DOMAIN v, NEW j \in DOMAIN v, i < j PROVE v[i].id < v[j].id
    <3>1. i + 1 \in DOMAIN w /\ j + 1 \in DOMAIN w /\ i + 1 < j + 1
      BY <2>2, <2>3, <2>6
    <3>2. g[i + 1] < g[j + 1]
      BY <1>2, <3>1 DEF Embeds
    <3>3. QED
      BY <2>3, <3>2 DEF Holds
  <2>7. ASSUME NEW i \in DOMAIN v PROVE v[i].id <= c /\ v[i].parent < v[i].id
    BY <2>5 DEF Grown
  <2>8. Grown(v, c)
    BY <2>4, <2>6, <2>7 DEF Grown
  <2>9. ASSUME NEW j \in DOMAIN file, file[j] \in Entries
        PROVE  \E i \in DOMAIN v : v[i] = file[j]
    <3>1. j \in picked
      BY <2>9, LineIs
    <3>2. PICK k \in DOMAIN w : g[k] = j
      BY <1>2, <3>1 DEF Embeds
    <3>3. w[k] = file[j]
      BY <1>2, <3>2 DEF Embeds
    <3>4. k # 1
      BY <1>6, <1>8, <2>9, <3>3, LineIs DEF w
    <3>5. k - 1 \in DOMAIN v /\ v[k - 1] = w[k]
      BY <1>4, <2>2, <3>2, <3>4
    <3>6. QED
      BY <3>3, <3>5
  <2>10. QED
    BY <1>8, <2>3, <2>5, <2>8, <2>9 DEF v
<1>9. QED
  BY <1>7, <1>8

\* A file that is whole is read back whole.
LEMMA LoadedWhole ==
  ASSUME NEW es \in Seq(Entries), file = <<Header>> \o es
  PROVE  Readable /\ Loaded = es
<1>1. <<Header>> \in Seq(Lines) /\ es \in Seq(Lines)
  BY LineIs
<1>2. /\ file \in Seq(Lines) /\ Len(file) = Len(es) + 1 /\ file[1] = Header /\ file # <<>>
      /\ DOMAIN file = 1..(Len(es) + 1) /\ DOMAIN es = 1..Len(es) /\ Len(es) \in Nat
      /\ \A i \in DOMAIN file : i # 1 => i - 1 \in DOMAIN es /\ file[i] = es[i - 1]
  BY <1>1
<1>3. \A i \in DOMAIN file : file[i] # Junk
  BY <1>2, LineIs
<1>4. Parsed = file
  BY <1>2, <1>3, PickedAll DEF Parsed
<1>5. Readable
  BY <1>2, <1>4 DEF Readable
<1>6. Loaded = Tail(file)
  BY <1>4, <1>5 DEF Readable, Loaded
<1>7. Tail(file) = es
  <2>1. Tail(file) \in Seq(Lines) /\ Len(Tail(file)) = Len(es)
    BY <1>2
  <2>2. \A i \in 1..Len(es) : Tail(file)[i] = es[i]
    BY <1>2
  <2>3. QED
    BY <1>1, <2>1, <2>2, SeqEqual
<1>8. QED
  BY <1>5, <1>6, <1>7

LEMMA HoldsPart ==
  ASSUME NEW es, NEW lines, Holds(es, lines), NEW k \in 0..Len(lines)
  PROVE  Holds(es, SubSeq(lines, 1, k))
<1> DEFINE p == SubSeq(lines, 1, k)
<1>1. lines \in Seq(Lines)
  BY DEF Holds
<1>2. /\ p \in Seq(Lines) /\ DOMAIN p = 1..k /\ DOMAIN p \subseteq DOMAIN lines
      /\ \A i \in DOMAIN p : p[i] = lines[i]
  BY <1>1
<1> HIDE DEF p
<1>3. Holds(es, p)
  BY <1>2 DEF Holds
<1>4. QED
  BY <1>3 DEF p

LEMMA HoldsJunk ==
  ASSUME NEW es, NEW lines, Holds(es, lines)
  PROVE  Holds(es, Append(lines, Junk))
<1> DEFINE p == Append(lines, Junk)
<1>1. lines \in Seq(Lines) /\ Junk \in Lines
  BY LineIs DEF Holds
<1>2. /\ p \in Seq(Lines) /\ DOMAIN p = 1..(Len(lines) + 1) /\ DOMAIN lines = 1..Len(lines)
      /\ Len(lines) \in Nat /\ \A i \in DOMAIN lines : p[i] = lines[i]
      /\ p[Len(lines) + 1] = Junk
  BY <1>1, AppendIs
<1> HIDE DEF p
<1>3. \A i \in DOMAIN p : p[i] # Junk => i \in DOMAIN lines /\ p[i] = lines[i]
  BY <1>2
<1>4. Holds(es, p)
  <2>1. \A i \in DOMAIN p : p[i] \in Entries \/ p[i] = Header => i \in DOMAIN lines /\ p[i] = lines[i]
    BY <1>3, LineIs
  <2>2. QED
    BY <1>2, <2>1 DEF Holds
<1>5. QED
  BY <1>4 DEF p

LEMMA HoldsMore ==
  ASSUME NEW es, NEW lines, Holds(es, lines), NEW fs,
         \A i \in DOMAIN es : \E j \in DOMAIN fs : es[i] = fs[j]
  PROVE  Holds(fs, lines)
<1>1. ASSUME NEW i \in DOMAIN lines, lines[i] \in Entries
      PROVE  \E j \in DOMAIN fs : lines[i] = fs[j]
  <2>1. PICK k \in DOMAIN es : lines[i] = es[k]
    BY <1>1 DEF Holds
  <2>2. QED
    BY <2>1
<1>2. QED
  BY <1>1 DEF Holds

LEMMA HoldsNew ==
  ASSUME NEW es, NEW c \in Nat, Grown(es, c), NEW e, Follows(es, c, e),
         NEW lines, Holds(es, lines)
  PROVE  Holds(Append(es, e), lines) /\ Holds(Append(es, e), Append(lines, e))
<1> DEFINE p == Append(lines, e)
           fs == Append(es, e)
<1>1. lines \in Seq(Lines) /\ e \in Entries /\ e \in Lines /\ es \in Seq(Entries) /\ e.id = c + 1
  BY LineIs DEF Holds, Grown, Follows
<1>2. /\ p \in Seq(Lines) /\ DOMAIN p = 1..(Len(lines) + 1) /\ DOMAIN lines = 1..Len(lines)
      /\ Len(lines) \in Nat /\ \A i \in DOMAIN lines : p[i] = lines[i]
      /\ p[Len(lines) + 1] = e
  BY <1>1, AppendIs
<1>3. /\ DOMAIN fs = 1..(Len(es) + 1) /\ DOMAIN es = 1..Len(es)
      /\ Len(es) \in Nat /\ \A i \in DOMAIN es : fs[i] = es[i]
      /\ fs[Len(es) + 1] = e
  BY <1>1, AppendIs
<1> HIDE DEF p, fs
<1>4. \A i \in DOMAIN es : \E j \in DOMAIN fs : es[i] = fs[j]
  BY <1>3
<1>5. Holds(fs, lines)
  BY <1>4, HoldsMore
<1>6. ASSUME NEW i \in DOMAIN p PROVE i # 1 => p[i] # Header
  <2>1. i \in DOMAIN lines => p[i] = lines[i]
    BY <1>2
  <2>2. i \notin DOMAIN lines => p[i] = e
    BY <1>2
  <2>3. QED
    BY <1>1, <2>1, <2>2, LineIs DEF Holds
<1>7. ASSUME NEW i \in DOMAIN p, p[i] \in Entries PROVE \E j \in DOMAIN fs : p[i] = fs[j]
  <2>1. CASE i \in DOMAIN lines
    BY <1>2, <1>5, <1>7, <2>1 DEF Holds
  <2>2. CASE i \notin DOMAIN lines
    <3>1. p[i] = e /\ Len(es) + 1 \in DOMAIN fs
      BY <1>2, <1>3, <2>2
    <3>2. QED
      BY <1>3, <3>1
  <2>3. QED
    BY <2>1, <2>2
<1>8. ASSUME NEW i \in DOMAIN p, NEW j \in DOMAIN p, i < j, p[i] \in Entries, p[j] \in Entries
      PROVE  p[i].id < p[j].id
  <2>1. i \in DOMAIN lines /\ p[i] = lines[i]
    BY <1>2, <1>8
  <2>2. CASE j \in DOMAIN lines
    <3>1. p[j] = lines[j]
      BY <1>2, <2>2
    <3>2. QED
      BY <1>8, <2>1, <2>2, <3>1 DEF Holds
  <2>3. CASE j \notin DOMAIN lines
    <3>1. p[j] = e
      BY <1>2, <2>3
    <3>2. PICK k \in DOMAIN es : p[i] = es[k]
      BY <1>8, <2>1 DEF Holds
    <3>3. p[i].id <= c /\ p[i].id \in Nat
      BY <1>8, <3>2, EntryIs DEF Grown
    <3>4. QED
      BY <1>1, <3>1, <3>3
  <2>4. QED
    BY <2>2, <2>3
<1>9. Holds(fs, p)
  BY <1>2, <1>6, <1>7, <1>8 DEF Holds
<1>10. QED
  BY <1>5, <1>9 DEF p, fs

LEMMA HoldsWhole ==
  ASSUME NEW es, NEW c \in Nat, Grown(es, c)
  PROVE  /\ Holds(es, <<Header>> \o es) /\ Holds(es, <<>>) /\ Holds(es, <<Header>>)
         /\ Len(<<Header>> \o es) = Len(es) + 1 /\ Len(es) \in Nat
<1> DEFINE p == <<Header>> \o es
<1>1. es \in Seq(Entries) /\ es \in Seq(Lines) /\ <<Header>> \in Seq(Lines)
  BY LineIs DEF Grown
<1>2. /\ p \in Seq(Lines) /\ DOMAIN p = 1..(Len(es) + 1) /\ Len(p) = Len(es) + 1
      /\ DOMAIN es = 1..Len(es) /\ Len(es) \in Nat /\ p[1] = Header
      /\ \A i \in DOMAIN p : i # 1 => i - 1 \in DOMAIN es /\ p[i] = es[i - 1]
  BY <1>1
<1> HIDE DEF p
<1>3. \A i \in DOMAIN p : p[i] \in Entries => i # 1
  BY <1>2, LineIs
<1>4. \A i \in DOMAIN p : i # 1 => p[i] # Header
  BY <1>1, <1>2, LineIs
<1>5. \A i \in DOMAIN p : p[i] \in Entries => \E j \in DOMAIN es : p[i] = es[j]
  BY <1>2, <1>3
<1>6. ASSUME NEW i \in DOMAIN p, NEW j \in DOMAIN p, i < j, p[i] \in Entries, p[j] \in Entries
      PROVE  p[i].id < p[j].id
  <2>1. i # 1 /\ j # 1
    BY <1>3, <1>6
  <2>2. /\ i - 1 \in DOMAIN es /\ p[i] = es[i - 1] /\ j - 1 \in DOMAIN es /\ p[j] = es[j - 1]
        /\ i - 1 < j - 1
    BY <1>2, <1>6, <2>1
  <2>3. QED
    BY <2>2 DEF Grown
<1>7. Holds(es, p)
  BY <1>2, <1>4, <1>5, <1>6 DEF Holds
<1>8. Holds(es, SubSeq(p, 1, 0)) /\ Holds(es, SubSeq(p, 1, 1))
  BY <1>2, <1>7, HoldsPart
<1>9. SubSeq(p, 1, 0) = <<>>
  BY <1>2
<1>10. SubSeq(p, 1, 1) = <<Header>>
  <2>1. SubSeq(p, 1, 1) \in Seq(Lines) /\ Len(SubSeq(p, 1, 1)) = 1 /\ SubSeq(p, 1, 1)[1] = p[1]
    BY <1>2
  <2>2. <<Header>> \in Seq(Lines) /\ Len(<<Header>>) = 1 /\ <<Header>>[1] = Header
    BY <1>1
  <2>3. \A i \in 1..1 : SubSeq(p, 1, 1)[i] = <<Header>>[i]
    BY <1>2, <2>1, <2>2
  <2>4. QED
    BY <2>1, <2>2, <2>3, SeqEqual
<1>11. QED
  BY <1>2, <1>7, <1>8, <1>9, <1>10 DEF p
------------------------------------------------------------------------------
(* What a write leaves behind *)

LEMMA LinesAdded ==
  ASSUME NEW new \in Seq(Lines), new # <<>>, file = <<>>, torn = FALSE, NEW k \in 0..Len(new)
  PROVE  AddLines(new, k) = SubSeq(new, 1, k)
<1>1. CASE k = 0
  BY <1>1 DEF AddLines
<1>2. CASE k # 0
  <2>1. AddLines(new, k) = <<new[1]>> \o SubSeq(new, 2, k)
    BY <1>2 DEF AddLines, AddLine
  <2> DEFINE a == <<new[1]>> \o SubSeq(new, 2, k)
             b == SubSeq(new, 1, k)
  <2>2. /\ new[1] \in Lines /\ SubSeq(new, 2, k) \in Seq(Lines) /\ Len(SubSeq(new, 2, k)) = k - 1
        /\ \A i \in 1..(k - 1) : SubSeq(new, 2, k)[i] = new[i + 1]
    BY <1>2
  <2>3. a \in Seq(Lines) /\ Len(a) = k /\ \A i \in 1..k : a[i] = new[i]
    BY <1>2, <2>2
  <2>4. b \in Seq(Lines) /\ Len(b) = k /\ \A i \in 1..k : b[i] = new[i]
    BY <1>2
  <2> HIDE DEF a, b
  <2>5. a = b
    BY <2>3, <2>4, SeqEqual
  <2>6. QED
    BY <2>1, <2>5 DEF a, b
<1>3. QED
  BY <1>1, <1>2

LEMMA LineAdded ==
  ASSUME NEW e \in Lines, file \in Seq(Lines), torn => file # <<>>
  PROVE  AddLines(<<e>>, 0) = file /\ AddLines(<<e>>, 1) = AddLine(file, torn, e)
<1>1. AddLines(<<e>>, 0) = file
  BY DEF AddLines
<1>2. AddLines(<<e>>, 1) = AddLine(file, torn, e) \o SubSeq(<<e>>, 2, 1)
  BY DEF AddLines
<1>3. SubSeq(<<e>>, 2, 1) = <<>>
  BY <1>1
<1>4. AddLine(file, torn, e) \in Seq(Lines)
  <2>1. CASE torn
    <3>1. Front(file) \in Seq(Lines) /\ Junk \in Lines
      BY <2>1, LineIs DEF Front
    <3>2. QED
      BY <2>1, <3>1 DEF AddLine
  <2>2. CASE ~torn
    BY <2>2 DEF AddLine
  <2>3. QED
    BY <2>1, <2>2
<1>5. QED
  BY <1>1, <1>2, <1>3, <1>4

------------------------------------------------------------------------------
(* Appending an entry *)

Stored ==
  /\ Holds(entries, file)
  /\ flushed \in BOOLEAN /\ exists \in BOOLEAN /\ torn \in BOOLEAN
  /\ ~exists => file = <<>> /\ torn = FALSE /\ flushed = FALSE
  /\ torn => file # <<>> /\ faults # 0
  /\ faults \in 0..MaxFaults

\* What becomes of the file when entry e is written, and of the whole session,
\* es with e, when it is created.
Added(e) ==
  /\ flushed /\ exists' = TRUE
  /\ \/ torn' = FALSE /\ faults' = faults /\ file' = AddLine(file, torn, e)
     \/ /\ torn' = TRUE /\ faults' = faults + 1
        /\ \E x \in {Junk, e} : file' = AddLine(file, torn, x)
Created(es) ==
  /\ ~flushed /\ ~exists /\ HasAssistant(es) /\ exists' = TRUE
  /\ \/ /\ flushed' = TRUE /\ torn' = FALSE /\ faults' = faults
        /\ file' = <<Header>> \o es
     \/ /\ flushed' = FALSE /\ faults' = faults + 1
        /\ \E k \in 0..(Len(es) + 1) :
             \/ file' = SubSeq(<<Header>> \o es, 1, k) /\ (torn' => k # 0)
             \/ file' = Append(SubSeq(<<Header>> \o es, 1, k), Junk)
Wrote(es, e) ==
  /\ torn' \in BOOLEAN
  /\ \/ UNCHANGED disk /\ ~flushed /\ (HasAssistant(es) => exists)
     \/ /\ UNCHANGED <<flushed, file, torn>> /\ faults' = faults + 1
        /\ exists' \in BOOLEAN /\ (exists => exists')
     \/ Added(e) /\ flushed' = TRUE
     \/ Created(es)

LEMMA PersistWrites ==
  ASSUME Grown(entries, created), Stored, NEW e, Follows(entries, created, e), created \in Nat,
         AppendEntry(e)
  PROVE  /\ created' = created + 1 /\ created < MaxEntries
         /\ entries' = Append(entries, e) /\ leaf' = e.id
         /\ Wrote(entries', e) /\ faults' \in 0..MaxFaults
<1>1. /\ created' = created + 1 /\ created < MaxEntries
      /\ entries' = Append(entries, e) /\ leaf' = e.id /\ Persist(entries')
  BY DEF AppendEntry
<1>2. MaxFaults \in Nat /\ faults \in Nat /\ faults <= MaxFaults
  BY SessionAssumption DEF Stored
<1>3. Grown(entries', created + 1) /\ created + 1 \in Nat
  BY <1>1, GrownGrows
<1>4. /\ entries \in Seq(Entries) /\ e \in Entries /\ e \in Lines /\ file \in Seq(Lines)
      /\ flushed \in BOOLEAN /\ exists \in BOOLEAN /\ torn \in BOOLEAN
      /\ (~exists => file = <<>> /\ torn = FALSE /\ flushed = FALSE)
      /\ (torn => file # <<>>)
  BY LineIs DEF Stored, Holds, Grown, Follows
<1>5. CASE flushed
  <2>1. Written(<<entries'[Len(entries')]>>)
    BY <1>1, <1>5 DEF Persist
  <2>2. entries'[Len(entries')] = e
    BY <1>1, <1>4, AppendIs
  <2>3. Written(<<e>>)
    BY <2>1, <2>2
  <2>4. /\ AddLines(<<e>>, 0) = file /\ AddLines(<<e>>, 1) = AddLine(file, torn, e)
        /\ Len(<<e>>) = 1 /\ <<e>>[1] = e
    BY <1>4, LineAdded
  <2>5. CASE /\ file' = AddLines(<<e>>, Len(<<e>>)) /\ torn' = FALSE
             /\ exists' = TRUE /\ flushed' = TRUE /\ UNCHANGED faults
    <3>1. file' = AddLine(file, torn, e) /\ faults' = faults
      BY <2>4, <2>5
    <3>2. Added(e)
      BY <1>5, <2>5, <3>1 DEF Added
    <3>3. Wrote(entries', e)
      BY <2>5, <3>2 DEF Wrote
    <3>4. QED
      BY <1>1, <1>2, <3>1, <3>3
  <2>6. CASE /\ faults < MaxFaults /\ faults' = faults + 1 /\ flushed' = flushed
             /\ UNCHANGED <<exists, file, torn>>
    BY <1>1, <1>2, <1>4, <2>6 DEF Wrote
  <2>7. CASE /\ faults < MaxFaults /\ faults' = faults + 1 /\ flushed' = flushed
             /\ \E k \in 0..(Len(<<e>>) - 1) :
                  /\ exists' = TRUE
                  /\ \/ file' = AddLines(<<e>>, k) /\ torn' = (torn /\ k = 0)
                     \/ \E line \in {Junk, <<e>>[k + 1]} :
                          file' = AddLine(AddLines(<<e>>, k), torn /\ k = 0, line) /\ torn' = TRUE
    <3>1. /\ exists' = TRUE
          /\ \/ file' = AddLines(<<e>>, 0) /\ torn' = torn
             \/ \E line \in {Junk, <<e>>[0 + 1]} :
                  file' = AddLine(AddLines(<<e>>, 0), torn, line) /\ torn' = TRUE
      <4>1. PICK k \in 0..(Len(<<e>>) - 1) :
                  /\ exists' = TRUE
                  /\ \/ file' = AddLines(<<e>>, k) /\ torn' = (torn /\ k = 0)
                     \/ \E line \in {Junk, <<e>>[k + 1]} :
                          file' = AddLine(AddLines(<<e>>, k), torn /\ k = 0, line) /\ torn' = TRUE
        BY <2>7
      <4>2. k = 0
        BY <2>4
      <4>3. (torn /\ k = 0) = torn
        BY <1>4, <4>2
      <4>4. QED
        BY <4>1, <4>2, <4>3
    <3>2. CASE file' = file /\ torn' = torn
      BY <1>1, <1>2, <1>4, <1>5, <2>7, <3>1, <3>2 DEF Wrote
    <3>3. CASE \E line \in {Junk, e} : file' = AddLine(file, torn, line) /\ torn' = TRUE
      <4>1. torn' = TRUE /\ \E x \in {Junk, e} : file' = AddLine(file, torn, x)
        BY <3>3
      <4>2. Added(e)
        BY <1>5, <2>7, <3>1, <4>1 DEF Added
      <4>3. Wrote(entries', e)
        BY <1>5, <2>7, <4>1, <4>2 DEF Wrote
      <4>4. QED
        BY <1>1, <1>2, <2>7, <4>3
    <3>4. <<e>>[0 + 1] = e
      OBVIOUS
    <3>5. QED
      BY <2>4, <3>1, <3>2, <3>3, <3>4
  <2>8. QED
    <3>1. \/ /\ file' = AddLines(<<e>>, Len(<<e>>)) /\ torn' = FALSE
             /\ exists' = TRUE /\ flushed' = TRUE /\ UNCHANGED faults
          \/ /\ faults < MaxFaults /\ faults' = faults + 1 /\ flushed' = flushed
             /\ \/ UNCHANGED <<exists, file, torn>>
                \/ \E k \in 0..(Len(<<e>>) - 1) :
                     /\ exists' = TRUE
                     /\ \/ file' = AddLines(<<e>>, k) /\ torn' = (torn /\ k = 0)
                        \/ \E line \in {Junk, <<e>>[k + 1]} :
                             file' = AddLine(AddLines(<<e>>, k), torn /\ k = 0, line) /\ torn' = TRUE
      BY <2>3 DEF Written, FlushedAfterFailure
    <3>2. QED
      BY <2>5, <2>6, <2>7, <3>1
<1>6. CASE ~flushed /\ HasAssistant(entries') /\ ~exists
  <2> DEFINE new == <<Header>> \o entries'
  <2>1. Written(new)
    BY <1>1, <1>6 DEF Persist
  <2>2. Holds(entries', new) /\ Len(new) = Len(entries') + 1 /\ Len(entries') \in Nat
    BY <1>3, HoldsWhole
  <2>3. new \in Seq(Lines) /\ new # <<>> /\ file = <<>> /\ torn = FALSE
    BY <1>4, <1>6, <2>2 DEF Holds
  <2> HIDE DEF new
  <2>4. \A k \in 0..Len(new) : AddLines(new, k) = SubSeq(new, 1, k)
    BY <2>3, LinesAdded
  <2>5. SubSeq(new, 1, Len(new)) = new
    BY <2>3, PrefixWhole
  <2>6. CASE /\ file' = AddLines(new, Len(new)) /\ torn' = FALSE
             /\ exists' = TRUE /\ flushed' = TRUE /\ UNCHANGED faults
    <3>1. file' = new
      <4>1. Len(new) \in 0..Len(new)
        BY <2>2
      <4>2. QED
        BY <2>4, <2>5, <2>6, <4>1
    <3>2. Created(entries')
      BY <1>6, <2>6, <3>1 DEF Created, new
    <3>3. Wrote(entries', e)
      BY <2>6, <3>2 DEF Wrote
    <3>4. faults' = faults
      BY <2>6
    <3>5. QED
      BY <1>1, <1>2, <3>3, <3>4
  <2>7. CASE /\ faults < MaxFaults /\ faults' = faults + 1 /\ flushed' = flushed
             /\ UNCHANGED <<exists, file, torn>>
    BY <1>1, <1>2, <1>4, <2>7 DEF Wrote
  <2>8. CASE /\ faults < MaxFaults /\ faults' = faults + 1 /\ flushed' = flushed
             /\ \E k \in 0..(Len(new) - 1) :
                  /\ exists' = TRUE
                  /\ \/ file' = AddLines(new, k) /\ torn' = (torn /\ k = 0)
                     \/ \E line \in {Junk, new[k + 1]} :
                          file' = AddLine(AddLines(new, k), torn /\ k = 0, line) /\ torn' = TRUE
    <3>1. PICK k \in 0..(Len(new) - 1) :
                  /\ exists' = TRUE
                  /\ \/ file' = AddLines(new, k) /\ torn' = (torn /\ k = 0)
                     \/ \E line \in {Junk, new[k + 1]} :
                          file' = AddLine(AddLines(new, k), torn /\ k = 0, line) /\ torn' = TRUE
      BY <2>8
    <3>2. /\ k \in 0..Len(new) /\ k + 1 \in 0..Len(new) /\ (torn /\ k = 0) = FALSE
          /\ k \in 0..(Len(entries') + 1) /\ k + 1 \in 0..(Len(entries') + 1)
          /\ k \in Nat /\ k + 1 # 0
      BY <2>2, <2>3
    <3>3. AddLines(new, k) = SubSeq(new, 1, k)
      BY <2>4, <3>2
    <3>4. Append(SubSeq(new, 1, k), new[k + 1]) = SubSeq(new, 1, k + 1)
      <4> DEFINE a == Append(SubSeq(new, 1, k), new[k + 1])
                 b == SubSeq(new, 1, k + 1)
      <4>1. /\ SubSeq(new, 1, k) \in Seq(Lines) /\ Len(SubSeq(new, 1, k)) = k
            /\ \A i \in 1..k : SubSeq(new, 1, k)[i] = new[i]
            /\ new[k + 1] \in Lines
        BY <2>3, <3>2
      <4>2. a \in Seq(Lines) /\ Len(a) = k + 1 /\ \A i \in 1..(k + 1) : a[i] = new[i]
        BY <3>2, <4>1
      <4>3. b \in Seq(Lines) /\ Len(b) = k + 1 /\ \A i \in 1..(k + 1) : b[i] = new[i]
        BY <2>3, <3>2
      <4> HIDE DEF a, b
      <4>4. a = b
        BY <4>2, <4>3, SeqEqual
      <4>5. QED
        BY <4>4 DEF a, b
    <3>5. CASE file' = AddLines(new, k) /\ torn' = (torn /\ k = 0)
      <4>1. file' = SubSeq(new, 1, k) /\ torn' = FALSE
        BY <3>2, <3>3, <3>5
      <4>2. Created(entries')
        BY <1>6, <2>8, <3>1, <3>2, <4>1 DEF Created, new
      <4>3. Wrote(entries', e)
        BY <4>1, <4>2 DEF Wrote
      <4>4. QED
        BY <1>1, <1>2, <2>8, <4>3
    <3>6. CASE \E line \in {Junk, new[k + 1]} :
                 file' = AddLine(AddLines(new, k), torn /\ k = 0, line) /\ torn' = TRUE
      <4>1. PICK line \in {Junk, new[k + 1]} :
              file' = AddLine(AddLines(new, k), torn /\ k = 0, line) /\ torn' = TRUE
        BY <3>6
      <4>2. file' = Append(SubSeq(new, 1, k), line)
        BY <3>2, <3>3, <4>1 DEF AddLine
      <4>3. file' = SubSeq(new, 1, k + 1) \/ file' = Append(SubSeq(new, 1, k), Junk)
        BY <3>4, <4>1, <4>2
      <4>4. Created(entries')
        <5>1. \E l \in 0..(Len(entries') + 1) :
                \/ file' = SubSeq(new, 1, l) /\ (torn' => l # 0)
                \/ file' = Append(SubSeq(new, 1, l), Junk)
          <6>1. CASE file' = SubSeq(new, 1, k + 1)
            BY <3>2, <6>1
          <6>2. CASE file' = Append(SubSeq(new, 1, k), Junk)
            BY <3>2, <6>2
          <6>3. QED
            BY <4>3, <6>1, <6>2
        <5>2. flushed' = FALSE /\ faults' = faults + 1 /\ exists' = TRUE
          BY <1>4, <1>6, <2>8, <3>1
        <5>3. QED
          BY <1>6, <5>1, <5>2 DEF Created, new
      <4>5. Wrote(entries', e)
        BY <4>1, <4>4 DEF Wrote
      <4>6. QED
        BY <1>1, <1>2, <2>8, <4>5
    <3>7. QED
      BY <3>1, <3>5, <3>6
  <2>9. QED
    <3>1. \/ /\ file' = AddLines(new, Len(new)) /\ torn' = FALSE
             /\ exists' = TRUE /\ flushed' = TRUE /\ UNCHANGED faults
          \/ /\ faults < MaxFaults /\ faults' = faults + 1 /\ flushed' = flushed
             /\ \/ UNCHANGED <<exists, file, torn>>
                \/ \E k \in 0..(Len(new) - 1) :
                     /\ exists' = TRUE
                     /\ \/ file' = AddLines(new, k) /\ torn' = (torn /\ k = 0)
                        \/ \E line \in {Junk, new[k + 1]} :
                             file' = AddLine(AddLines(new, k), torn /\ k = 0, line) /\ torn' = TRUE
      BY <2>1 DEF Written, FlushedAfterFailure
    <3>2. QED
      BY <2>6, <2>7, <2>8, <3>1
<1>7. CASE ~flushed /\ (HasAssistant(entries') => exists)
  <2>1. UNCHANGED disk
    BY <1>1, <1>7 DEF Persist
  <2>2. QED
    BY <1>1, <1>2, <1>4, <1>7, <2>1 DEF Wrote, disk
<1>8. QED
  BY <1>4, <1>5, <1>6, <1>7

LEMMA AppendStored ==
  ASSUME Grown(entries, created), Stored, NEW e, Follows(entries, created, e), created \in Nat,
         AppendEntry(e)
  PROVE  Stored'
<1>1. /\ entries' = Append(entries, e)
      /\ Wrote(entries', e) /\ faults' \in 0..MaxFaults
  BY PersistWrites
<1>2. Grown(entries', created + 1) /\ created + 1 \in Nat
  BY <1>1, GrownGrows
<1>3. /\ Holds(entries, file)
      /\ flushed \in BOOLEAN /\ exists \in BOOLEAN /\ torn \in BOOLEAN
      /\ (~exists => file = <<>> /\ torn = FALSE /\ flushed = FALSE)
      /\ (torn => file # <<>> /\ faults # 0)
      /\ faults \in Nat
  BY SessionAssumption DEF Stored
<1>4. /\ Holds(entries', file) /\ Holds(entries', Append(file, e))
  BY <1>1, <1>3, HoldsNew
<1>5. file \in Seq(Lines)
  BY <1>4 DEF Holds
<1>6. ASSUME UNCHANGED disk PROVE Stored'
  BY <1>1, <1>3, <1>4, <1>6 DEF Stored, disk
<1>7. ASSUME UNCHANGED <<flushed, file, torn>>, faults' = faults + 1,
             exists' \in BOOLEAN, exists => exists'
      PROVE  Stored'
  <2>1. Holds(entries', file')
    BY <1>4, <1>7
  <2>2. ~exists' => file' = <<>> /\ torn' = FALSE /\ flushed' = FALSE
    BY <1>3, <1>7
  <2>3. torn' => file' # <<>> /\ faults' # 0
    BY <1>3, <1>7
  <2>4. QED
    BY <1>1, <1>3, <1>7, <2>1, <2>2, <2>3 DEF Stored
<1>8. ASSUME NEW x \in {Junk, e}, file' = AddLine(file, torn, x)
      PROVE  Holds(entries', file') /\ file' # <<>>
  <2>1. CASE torn
    <3>1. Len(file) - 1 \in 0..Len(file) /\ Front(file) = SubSeq(file, 1, Len(file) - 1)
      BY <1>3, <1>5, <2>1 DEF Front
    <3>2. Holds(entries', Front(file))
      BY <1>4, <3>1, HoldsPart
    <3>3. file' = Append(Front(file), Junk) /\ Front(file) \in Seq(Lines)
      BY <1>5, <1>8, <2>1, <3>1 DEF AddLine
    <3>4. QED
      BY <3>2, <3>3, HoldsJunk
  <2>2. CASE ~torn
    <3>1. file' = Append(file, x)
      BY <1>8, <2>2 DEF AddLine
    <3>2. QED
      BY <1>4, <1>5, <1>8, <3>1, HoldsJunk
  <2>3. QED
    BY <2>1, <2>2
<1>9. ASSUME Added(e), flushed' = TRUE, torn' \in BOOLEAN PROVE Stored'
  <2>1. Holds(entries', file') /\ file' # <<>>
    BY <1>8, <1>9 DEF Added
  <2>2. torn' => faults' # 0
    BY <1>3, <1>9 DEF Added
  <2>3. exists' = TRUE
    BY <1>9 DEF Added
  <2>4. QED
    BY <1>1, <1>9, <2>1, <2>2, <2>3 DEF Stored
<1>10. ASSUME Created(entries'), torn' \in BOOLEAN PROVE Stored'
  <2> DEFINE new == <<Header>> \o entries'
  <2>1. Holds(entries', new) /\ Len(new) = Len(entries') + 1 /\ Len(entries') \in Nat
    BY <1>2, HoldsWhole
  <2>2. \A k \in 0..(Len(entries') + 1) :
          Holds(entries', SubSeq(new, 1, k)) /\ Holds(entries', Append(SubSeq(new, 1, k), Junk))
    BY <2>1, HoldsPart, HoldsJunk
  <2>3. \A k \in 0..(Len(entries') + 1) :
          Append(SubSeq(new, 1, k), Junk) # <<>> /\ (k # 0 => SubSeq(new, 1, k) # <<>>)
    <3>1. new \in Seq(Lines)
      BY <2>1 DEF Holds
    <3> HIDE DEF new
    <3>2. QED
      BY <2>1, <3>1
  <2> HIDE DEF new
  <2>4. exists' = TRUE /\ flushed' \in BOOLEAN
    BY <1>10 DEF Created
  <2>5. Holds(entries', file')
    BY <1>10, <2>1, <2>2 DEF Created, new
  <2>6. torn' => file' # <<>> /\ faults' # 0
    <3> SUFFICES ASSUME torn' PROVE file' # <<>> /\ faults' # 0
      OBVIOUS
    <3>1. faults' # 0
      BY <1>3, <1>10 DEF Created
    <3>2. PICK k \in 0..(Len(entries') + 1) :
             \/ file' = SubSeq(<<Header>> \o entries', 1, k) /\ (torn' => k # 0)
             \/ file' = Append(SubSeq(<<Header>> \o entries', 1, k), Junk)
      BY <1>10 DEF Created
    <3>3. file' # <<>>
      BY <2>3, <3>2 DEF new
    <3>4. QED
      BY <3>1, <3>3
  <2>7. QED
    BY <1>1, <1>10, <2>4, <2>5, <2>6 DEF Stored
<1>11. QED
  BY <1>1, <1>6, <1>7, <1>9, <1>10 DEF Wrote

LEMMA HasAssistantGrows ==
  ASSUME NEW es \in Seq(Entries), NEW e \in Entries
  PROVE  HasAssistant(Append(es, e)) <=> HasAssistant(es) \/ e.kind = "assistant"
<1> DEFINE fs == Append(es, e)
<1>1. /\ DOMAIN fs = 1..(Len(es) + 1) /\ DOMAIN es = 1..Len(es)
      /\ Len(es) \in Nat /\ \A i \in DOMAIN es : fs[i] = es[i]
      /\ fs[Len(es) + 1] = e
  BY AppendIs
<1> HIDE DEF fs
<1>2. HasAssistant(es) => HasAssistant(fs)
  BY <1>1 DEF HasAssistant
<1>3. e.kind = "assistant" => HasAssistant(fs)
  <2>1. Len(es) + 1 \in DOMAIN fs
    BY <1>1
  <2>2. QED
    BY <1>1, <2>1 DEF HasAssistant
<1>4. HasAssistant(fs) => HasAssistant(es) \/ e.kind = "assistant"
  <2>1. ASSUME NEW i \in DOMAIN fs PROVE i \in DOMAIN es \/ fs[i] = e
    BY <1>1
  <2>2. QED
    BY <1>1, <2>1 DEF HasAssistant
<1>5. QED
  BY <1>2, <1>3, <1>4 DEF fs

LEMMA AppendExact ==
  ASSUME Grown(entries, created), Stored, NEW e, Follows(entries, created, e), created \in Nat,
         AppendEntry(e), FileExact
  PROVE  FileExact' /\ (faults' = 0 => faults = 0)
<1>1. /\ entries' = Append(entries, e)
      /\ Wrote(entries', e) /\ faults' \in 0..MaxFaults
  BY PersistWrites
<1>2. entries \in Seq(Entries) /\ e \in Entries /\ entries' \in Seq(Entries)
  BY <1>1 DEF Grown, Follows
<1>3. faults \in Nat /\ flushed \in BOOLEAN /\ exists \in BOOLEAN /\ torn \in BOOLEAN
  BY SessionAssumption DEF Stored
<1>4. HasAssistant(entries') <=> HasAssistant(entries) \/ e.kind = "assistant"
  BY <1>1, <1>2, HasAssistantGrows
<1>5. faults' = 0 => faults = 0 /\ faults' = faults
  BY <1>1, <1>3 DEF Wrote, Added, Created, disk
<1> SUFFICES ASSUME faults' = 0
             PROVE  /\ exists' = HasAssistant(entries') /\ flushed' = exists'
                    /\ (exists' => ~torn' /\ file' = <<Header>> \o entries')
  BY <1>5 DEF FileExact
<1>6. /\ exists = HasAssistant(entries) /\ flushed = exists
      /\ (exists => ~torn /\ file = <<Header>> \o entries)
  BY <1>5 DEF FileExact
<1>7. \/ UNCHANGED disk /\ ~flushed /\ (HasAssistant(entries') => exists)
      \/ Added(e) /\ flushed' = TRUE
      \/ Created(entries')
  BY <1>1, <1>3, <1>5 DEF Wrote
<1>8. CASE UNCHANGED disk /\ ~flushed /\ (HasAssistant(entries') => exists)
  <2>1. exists' = FALSE /\ flushed' = FALSE /\ ~HasAssistant(entries')
    BY <1>3, <1>6, <1>8 DEF disk
  <2>2. HasAssistant(entries') \in BOOLEAN
    BY DEF HasAssistant
  <2>3. QED
    BY <2>1, <2>2
<1>9. CASE Added(e) /\ flushed' = TRUE
  <2>1. torn' = FALSE /\ file' = Append(file, e) /\ exists' = TRUE /\ flushed' = TRUE
    BY <1>3, <1>5, <1>6, <1>9 DEF Added, AddLine
  <2>2. HasAssistant(entries') = TRUE
    <3>1. HasAssistant(entries') \in BOOLEAN /\ flushed
      BY <1>9 DEF HasAssistant, Added
    <3>2. QED
      BY <1>4, <1>6, <3>1
  <2>3. Append(file, e) = <<Header>> \o entries'
    <3>1. file = <<Header>> \o entries
      BY <1>6, <1>9 DEF Added
    <3>2. <<Header>> \in Seq(Lines) /\ entries \in Seq(Lines) /\ e \in Lines
      BY <1>2, LineIs
    <3> DEFINE a == Append(<<Header>> \o entries, e)
               b == <<Header>> \o Append(entries, e)
    <3>3. /\ a \in Seq(Lines) /\ Len(a) = Len(entries) + 2 /\ a[1] = Header
          /\ \A i \in 1..(Len(entries) + 2) :
               i # 1 => a[i] = IF i = Len(entries) + 2 THEN e ELSE entries[i - 1]
      BY <3>2
    <3>4. /\ b \in Seq(Lines) /\ Len(b) = Len(entries) + 2 /\ b[1] = Header
          /\ \A i \in 1..(Len(entries) + 2) :
               i # 1 => b[i] = IF i = Len(entries) + 2 THEN e ELSE entries[i - 1]
      BY <3>2
    <3> HIDE DEF a, b
    <3>5. \A i \in 1..(Len(entries) + 2) : a[i] = b[i]
      BY <3>3, <3>4
    <3>6. a = b
      BY <3>3, <3>4, <3>5, SeqEqual
    <3>7. QED
      BY <1>1, <3>1, <3>6 DEF a, b
  <2>4. QED
    BY <2>1, <2>2, <2>3
<1>10. CASE Created(entries')
  <2>1. /\ HasAssistant(entries') /\ exists' = TRUE /\ flushed' = TRUE /\ torn' = FALSE
        /\ file' = <<Header>> \o entries'
    BY <1>3, <1>5, <1>10 DEF Created
  <2>2. HasAssistant(entries') \in BOOLEAN
    BY DEF HasAssistant
  <2>3. QED
    BY <2>1, <2>2
<1>11. QED
  BY <1>7, <1>8, <1>9, <1>10

------------------------------------------------------------------------------
(* What failed writes lose *)

\* The entries that are lines of a file.
LineIds(lines) == {lines[i].id : i \in {j \in DOMAIN lines : lines[j] \in Entries}}

\* The entries of the memory that are in no line and not in out.
Missing(es, lines, out) == Ids(es) \ (LineIds(lines) \union out)

\* How many more the next write loses: its own, and the one of a torn line.
Owed(lines, unfinished) ==
  IF ~unfinished THEN 0 ELSE IF lines[Len(lines)] = Junk THEN 1 ELSE 2

Losses ==
  flushed /\ file # <<>> /\ file[1] = Header =>
    Cardinality(Missing(entries, file, cleared)) + Owed(file, torn) <= 2 * faults

LEMMA IdsFinite ==
  ASSUME NEW es, NEW c \in Nat, Grown(es, c), NEW lines, NEW out
  PROVE  /\ IsFiniteSet(Missing(es, lines, out))
         /\ Cardinality(Missing(es, lines, out)) \in Nat
<1>1. Missing(es, lines, out) \subseteq 1..c
  <2>1. ASSUME NEW n \in Ids(es) PROVE n \in 1..c
    BY <2>1, Parents
  <2>2. QED
    BY <2>1 DEF Missing
<1>2. IsFiniteSet(1..c)
  BY FS_Interval
<1>3. QED
  BY <1>1, <1>2, FS_Subset, FS_CardinalityType

LEMMA OneMore ==
  ASSUME NEW A, IsFiniteSet(A), NEW B, NEW x, B \subseteq A \union {x}
  PROVE  IsFiniteSet(B) /\ Cardinality(B) <= Cardinality(A) + 1
<1>1. IsFiniteSet(A \union {x}) /\ Cardinality(A \union {x}) <= Cardinality(A) + 1
  <2>1. Cardinality(A) \in Nat
    BY FS_CardinalityType
  <2>2. /\ IsFiniteSet(A \union {x})
        /\ Cardinality(A \union {x}) = IF x \in A THEN Cardinality(A) ELSE Cardinality(A) + 1
    BY FS_AddElement
  <2>3. QED
    BY <2>1, <2>2
<1>2. IsFiniteSet(B) /\ Cardinality(B) <= Cardinality(A \union {x})
  BY <1>1, FS_Subset
<1>3. Cardinality(A) \in Nat /\ Cardinality(B) \in Nat /\ Cardinality(A \union {x}) \in Nat
  BY <1>1, <1>2, FS_CardinalityType
<1>4. QED
  BY <1>1, <1>2, <1>3

LEMMA TwoMore ==
  ASSUME NEW A, IsFiniteSet(A), NEW B, NEW x, NEW y, B \subseteq A \union {x, y}
  PROVE  Cardinality(B) <= Cardinality(A) + 2
<1>1. IsFiniteSet(A \union {x}) /\ Cardinality(A \union {x}) <= Cardinality(A) + 1
  BY OneMore
<1>2. IsFiniteSet(B) /\ Cardinality(B) <= Cardinality(A \union {x}) + 1
  <2>1. B \subseteq (A \union {x}) \union {y}
    OBVIOUS
  <2>2. QED
    BY <1>1, <2>1, OneMore
<1>3. Cardinality(A) \in Nat /\ Cardinality(B) \in Nat /\ Cardinality(A \union {x}) \in Nat
  BY <1>1, <1>2, FS_CardinalityType
<1>4. QED
  BY <1>1, <1>2, <1>3

LEMMA LineIdsOf ==
  ASSUME NEW lines, NEW n
  PROVE  n \in LineIds(lines) <=> \E i \in DOMAIN lines : lines[i] \in Entries /\ lines[i].id = n
BY DEF LineIds

\* What a line does to the entries that the file has.
LEMMA LineIdsGrow ==
  ASSUME NEW lines \in Seq(Lines), NEW x \in Lines
  PROVE  LineIds(Append(lines, x)) = LineIds(lines) \union (IF x \in Entries THEN {x.id} ELSE {})
<1> DEFINE p == Append(lines, x)
<1>1. /\ DOMAIN p = 1..(Len(lines) + 1) /\ DOMAIN lines = 1..Len(lines)
      /\ Len(lines) \in Nat /\ \A i \in DOMAIN lines : p[i] = lines[i]
      /\ p[Len(lines) + 1] = x
  BY AppendIs
<1> HIDE DEF p
<1>2. ASSUME NEW n \in LineIds(p)
      PROVE  n \in LineIds(lines) \union (IF x \in Entries THEN {x.id} ELSE {})
  <2>1. PICK i \in DOMAIN p : p[i] \in Entries /\ p[i].id = n
    BY LineIdsOf
  <2>2. i \in DOMAIN lines \/ p[i] = x
    BY <1>1
  <2>3. QED
    BY <1>1, <2>1, <2>2, LineIdsOf
<1>3. ASSUME NEW n \in LineIds(lines) PROVE n \in LineIds(p)
  <2>1. PICK i \in DOMAIN lines : lines[i] \in Entries /\ lines[i].id = n
    BY LineIdsOf
  <2>2. i \in DOMAIN p /\ p[i] = lines[i]
    BY <1>1
  <2>3. QED
    BY <2>1, <2>2, LineIdsOf
<1>4. ASSUME x \in Entries PROVE x.id \in LineIds(p)
  <2>1. Len(lines) + 1 \in DOMAIN p
    BY <1>1
  <2>2. QED
    BY <1>1, <1>4, <2>1, LineIdsOf
<1>5. LineIds(p) = LineIds(lines) \union (IF x \in Entries THEN {x.id} ELSE {})
  BY <1>2, <1>3, <1>4
<1>6. QED
  BY <1>5 DEF p

LEMMA LineIdsFront ==
  ASSUME NEW lines \in Seq(Lines), lines # <<>>
  PROVE  /\ Front(lines) \in Seq(Lines) /\ Len(Front(lines)) = Len(lines) - 1
         /\ Len(lines) \in Nat /\ Len(lines) >= 1 /\ lines[Len(lines)] \in Lines
         /\ lines = Append(Front(lines), lines[Len(lines)])
         /\ LineIds(lines) = LineIds(Front(lines))
                \union (IF lines[Len(lines)] \in Entries THEN {lines[Len(lines)].id} ELSE {})
<1> DEFINE f == Front(lines)
           y == lines[Len(lines)]
<1>1. /\ f \in Seq(Lines) /\ Len(f) = Len(lines) - 1 /\ Len(lines) \in Nat /\ Len(lines) >= 1
      /\ \A i \in 1..(Len(lines) - 1) : f[i] = lines[i]
      /\ y \in Lines
  <2>1. Len(lines) \in Nat /\ Len(lines) >= 1 /\ y \in Lines
    OBVIOUS
  <2>2. f = SubSeq(lines, 1, Len(lines) - 1)
    BY DEF Front
  <2>3. PICK m \in Nat : m = Len(lines) - 1
    BY <2>1
  <2>4. /\ SubSeq(lines, 1, m) \in Seq(Lines) /\ Len(SubSeq(lines, 1, m)) = m
        /\ \A i \in 1..m : SubSeq(lines, 1, m)[i] = lines[i]
    BY <2>1, <2>3
  <2> HIDE DEF f, y
  <2>5. QED
    BY <2>1, <2>2, <2>3, <2>4
<1> HIDE DEF f, y
<1>2. /\ Append(f, y) \in Seq(Lines) /\ Len(Append(f, y)) = Len(lines)
      /\ \A i \in 1..Len(lines) : Append(f, y)[i] = IF i = Len(lines) THEN y ELSE f[i]
  BY <1>1
<1>3. \A i \in 1..Len(lines) : Append(f, y)[i] = lines[i]
  BY <1>1, <1>2 DEF y
<1>4. Append(f, y) = lines
  BY <1>2, <1>3, SeqEqual
<1>5. LineIds(Append(f, y)) = LineIds(f) \union (IF y \in Entries THEN {y.id} ELSE {})
  BY <1>1, LineIdsGrow
<1>6. QED
  BY <1>1, <1>4, <1>5 DEF f, y

LEMMA LineIdsLoaded ==
  ASSUME NEW es, NEW c \in Nat, Grown(es, c), Holds(es, file), Readable
  PROVE  Ids(Loaded) = LineIds(file)
<1>1. /\ Grown(Loaded, c)
      /\ \A i \in DOMAIN Loaded : \E j \in DOMAIN file : Loaded[i] = file[j]
      /\ \A j \in DOMAIN file : file[j] \in Entries => \E i \in DOMAIN Loaded : Loaded[i] = file[j]
  BY LoadedIs
<1>2. ASSUME NEW n \in Ids(Loaded) PROVE n \in LineIds(file)
  <2>1. PICK i \in DOMAIN Loaded : Loaded[i].id = n
    BY IdsOf
  <2>2. Loaded[i] \in Entries
    BY <1>1 DEF Grown
  <2>3. QED
    BY <1>1, <2>1, <2>2, LineIdsOf
<1>3. ASSUME NEW n \in LineIds(file) PROVE n \in Ids(Loaded)
  <2>1. PICK i \in DOMAIN file : file[i] \in Entries /\ file[i].id = n
    BY LineIdsOf
  <2>2. QED
    BY <1>1, <2>1, IdsOf
<1>4. QED
  BY <1>2, <1>3

LEMMA AppendLosses ==
  ASSUME Grown(entries, created), Stored, NEW e, Follows(entries, created, e), created \in Nat,
         AppendEntry(e), Losses
  PROVE  Losses'
<1>1. entries' = Append(entries, e) /\ Wrote(entries', e) /\ faults' \in Nat
  BY PersistWrites, SessionAssumption
<1>2. /\ Holds(entries, file) /\ faults \in Nat /\ torn \in BOOLEAN /\ flushed \in BOOLEAN
      /\ exists \in BOOLEAN /\ file \in Seq(Lines) /\ (torn => file # <<>>)
  BY SessionAssumption DEF Stored, Holds
<1>3. Grown(entries', created + 1) /\ created + 1 \in Nat
  BY <1>1, GrownGrows
<1>4. /\ Ids(entries') = Ids(entries) \union {e.id} /\ e \in Entries /\ e \in Lines
      /\ cleared' = cleared
  BY <1>1, NewFound, LineIs DEF Follows, AppendEntry
<1> DEFINE M == Missing(entries, file, cleared)
           N == Missing(entries', file', cleared')
           A == Cardinality(M)
           B == Cardinality(N)
<1>5. /\ IsFiniteSet(M) /\ A \in Nat
      /\ IsFiniteSet(N) /\ B \in Nat
  BY <1>3, IdsFinite
<1> SUFFICES ASSUME flushed', file' # <<>>, file'[1] = Header
             PROVE  B + Owed(file', torn') <= 2 * faults'
  BY DEF Losses
<1> HIDE DEF A, B, M, N
<1>6. CASE UNCHANGED <<flushed, file, torn>> /\ faults' = faults + 1
  <2>1. A + Owed(file, torn) <= 2 * faults /\ Owed(file, torn) \in Nat
    BY <1>6 DEF Losses, A, M, Owed
  <2>2. N \subseteq M \union {e.id}
    BY <1>4, <1>6 DEF N, M, Missing
  <2>3. B <= A + 1
    BY <1>5, <2>2, OneMore DEF A, B
  <2>4. Owed(file', torn') = Owed(file, torn)
    BY <1>6
  <2>5. QED
    BY <1>2, <1>5, <1>6, <2>1, <2>3, <2>4
<1>7. ASSUME NEW x \in {Junk, e}, file' = AddLine(file, torn, x), flushed,
             \/ x = e /\ torn' = FALSE /\ faults' = faults
             \/ torn' = TRUE /\ faults' = faults + 1
      PROVE  B + Owed(file', torn') <= 2 * faults'
  <2>1. CASE ~torn
    <3>1. file' = Append(file, x) /\ x \in Lines
      BY <1>4, <1>7, <2>1, LineIs DEF AddLine
    <3>2. file # <<>> /\ file[1] = Header
      <4>1. CASE file = <<>>
        <5>1. file'[1] = x
          BY <3>1, <4>1
        <5>2. QED
          BY <1>4, <1>7, <5>1, LineIs
      <4>2. CASE file # <<>>
        <5>1. file'[1] = file[1]
          BY <1>2, <3>1, <4>2
        <5>2. QED
          BY <4>2, <5>1
      <4>3. QED
        BY <4>1, <4>2
    <3>3. A <= 2 * faults
      <4>1. Owed(file, torn) = 0
        BY <2>1 DEF Owed
      <4>2. A + 0 <= 2 * faults
        BY <1>7, <3>2, <4>1 DEF Losses, A, M
      <4>3. QED
        BY <1>5, <4>2
    <3>4. LineIds(file') = LineIds(file) \union (IF x \in Entries THEN {x.id} ELSE {})
      BY <1>2, <3>1, LineIdsGrow
    <3>5. file'[Len(file')] = x
      BY <1>2, <3>1
    <3>6. CASE x = e
      <4>1. N \subseteq M
        BY <1>4, <3>4, <3>6 DEF N, M, Missing
      <4>2. B <= A
        BY <1>5, <4>1, FS_Subset DEF A, B
      <4>3. CASE torn' = FALSE /\ faults' = faults
        <5>1. Owed(file', torn') = 0
          BY <4>3 DEF Owed
        <5>2. QED
          BY <1>2, <1>5, <3>3, <4>2, <4>3, <5>1
      <4>4. CASE torn' = TRUE /\ faults' = faults + 1
        <5>1. Owed(file', torn') = 2
          BY <1>4, <3>5, <3>6, <4>4, LineIs DEF Owed
        <5>2. QED
          BY <1>2, <1>5, <3>3, <4>2, <4>4, <5>1
      <4>5. QED
        BY <1>7, <4>3, <4>4
    <3>7. CASE x # e
      <4>1. x = Junk /\ torn' = TRUE /\ faults' = faults + 1
        BY <1>7, <3>7
      <4>2. N \subseteq M \union {e.id}
        BY <1>4, <3>4 DEF N, M, Missing
      <4>3. B <= A + 1
        BY <1>5, <4>2, OneMore DEF A, B
      <4>4. Owed(file', torn') = 1
        BY <3>5, <4>1 DEF Owed
      <4>5. QED
        BY <1>2, <1>5, <3>3, <4>1, <4>3, <4>4
    <3>8. QED
      BY <3>6, <3>7
  <2>2. CASE torn
    <3> DEFINE f == Front(file)
               y == file[Len(file)]
    <3>1. /\ f \in Seq(Lines) /\ Len(f) = Len(file) - 1 /\ Len(file) \in Nat /\ Len(file) >= 1
          /\ y \in Lines /\ file = Append(f, y)
          /\ LineIds(file) = LineIds(f) \union (IF y \in Entries THEN {y.id} ELSE {})
      BY <1>2, <2>2, LineIdsFront
    <3>2. file' = Append(f, Junk)
      BY <1>7, <2>2 DEF AddLine
    <3> HIDE DEF f, y
    <3>3. f # <<>>
      <4> SUFFICES ASSUME f = <<>> PROVE FALSE
        OBVIOUS
      <4>1. file'[1] = Junk
        BY <3>2
      <4>2. QED
        BY <4>1, LineIs
    <3>4. file # <<>> /\ file[1] = Header
      <4>1. file'[1] = f[1] /\ file[1] = f[1] /\ file # <<>>
        <5>1. Len(f) >= 1
          BY <3>1, <3>3
        <5>2. Append(f, Junk)[1] = f[1] /\ Append(f, y)[1] = f[1] /\ Append(f, y) # <<>>
          BY <3>1, <5>1, LineIs
        <5>3. QED
          BY <3>1, <3>2, <5>2
      <4>2. QED
        BY <4>1
    <3>5. y # Header
      <4>1. Len(file) # 1 /\ Len(file) \in DOMAIN file
        <5>1. Len(f) # 0
          BY <3>1, <3>3
        <5>2. QED
          BY <1>2, <3>1, <5>1
      <4>2. QED
        BY <1>2, <4>1 DEF Holds, y
    <3>6. A + Owed(file, torn) <= 2 * faults
      BY <1>7, <3>4 DEF Losses, A, M
    <3>7. LineIds(file') = LineIds(f)
      BY <3>1, <3>2, LineIdsGrow, LineIs
    <3>8. file'[Len(file')] = Junk
      BY <3>1, <3>2, LineIs
    <3>9. Owed(file', torn') \in Nat /\ Owed(file', torn') <= 1 /\ (torn' = FALSE => Owed(file', torn') = 0)
      BY <3>8 DEF Owed
    <3>10. CASE y = Junk
      <4>1. Owed(file, torn) = 1
        BY <2>2, <3>10 DEF Owed, y
      <4>2. LineIds(file') = LineIds(file)
        BY <3>1, <3>7, <3>10, LineIs
      <4>3. N \subseteq M \union {e.id}
        BY <1>4, <4>2 DEF N, M, Missing
      <4>4. B <= A + 1
        BY <1>5, <4>3, OneMore DEF A, B
      <4>5. QED
        BY <1>2, <1>5, <1>7, <3>6, <3>9, <4>1, <4>4
    <3>11. CASE y # Junk
      <4>1. Owed(file, torn) = 2 /\ y \in Entries
        BY <2>2, <3>1, <3>5, <3>11 DEF Owed, y, Lines
      <4>2. N \subseteq M \union {e.id, y.id}
        BY <1>4, <3>1, <3>7, <4>1 DEF N, M, Missing
      <4>3. B <= A + 2
        BY <1>5, <4>2, TwoMore DEF A, B
      <4>4. QED
        BY <1>2, <1>5, <1>7, <3>6, <3>9, <4>1, <4>3
    <3>12. QED
      BY <3>10, <3>11
  <2>3. QED
    BY <2>1, <2>2
<1>8. CASE Added(e)
  <2>1. flushed
    BY <1>8 DEF Added
  <2>2. CASE torn' = FALSE /\ faults' = faults /\ file' = AddLine(file, torn, e)
    BY <1>7, <2>1, <2>2
  <2>3. CASE /\ torn' = TRUE /\ faults' = faults + 1
             /\ \E x \in {Junk, e} : file' = AddLine(file, torn, x)
    BY <1>7, <2>1, <2>3
  <2>4. QED
    BY <1>8, <2>2, <2>3 DEF Added
<1>9. CASE Created(entries')
  <2>1. torn' = FALSE /\ faults' = faults /\ file' = <<Header>> \o entries'
    BY <1>9 DEF Created
  <2>2. N = {}
    <3>1. /\ entries' \in Seq(Entries) /\ entries' \in Seq(Lines) /\ <<Header>> \in Seq(Lines)
      BY <1>3, LineIs DEF Grown
    <3>2. \A i \in DOMAIN entries' : i + 1 \in DOMAIN file' /\ file'[i + 1] = entries'[i]
      BY <2>1, <3>1
    <3>3. ASSUME NEW n \in Ids(entries') PROVE n \in LineIds(file')
      <4>1. PICK i \in DOMAIN entries' : entries'[i].id = n
        BY IdsOf
      <4>2. entries'[i] \in Entries
        BY <3>1
      <4>3. QED
        BY <3>2, <4>1, <4>2, LineIdsOf
    <3>4. QED
      BY <3>3 DEF N, Missing
  <2>3. B = 0
    BY <2>2, FS_EmptySet DEF B
  <2>4. Owed(file', torn') = 0
    BY <2>1 DEF Owed
  <2>5. QED
    BY <1>2, <2>1, <2>3, <2>4
<1>10. QED
  <2>1. ~(UNCHANGED disk /\ ~flushed)
    BY DEF disk
  <2>2. QED
    BY <1>1, <1>6, <1>8, <1>9, <2>1 DEF Wrote

------------------------------------------------------------------------------
(* Forks *)

LEMMA Reparented ==
  ASSUME NEW e \in Entries, NEW n \in Nat
  PROVE  /\ [e EXCEPT !.parent = n] \in Entries
         /\ [e EXCEPT !.parent = n].id = e.id /\ [e EXCEPT !.parent = n].kind = e.kind
         /\ [e EXCEPT !.parent = n].parent = n
         /\ e.kind = "compaction" =>
              /\ [e EXCEPT !.parent = n].kept = e.kept /\ [e EXCEPT !.parent = n].covers = e.covers
              /\ [e EXCEPT !.parent = n].forgets = e.forgets
              /\ [e EXCEPT !.parent = n].moved = e.moved
<1>1. CASE e \in Plain
  BY <1>1 DEF Plain, Entries
<1>2. CASE e \in Marks
  BY <1>2 DEF Marks, Entries
<1>3. CASE e \in Summaries
  BY <1>3 DEF Summaries, Entries
<1>4. QED
  BY <1>1, <1>2, <1>3 DEF Entries

\* Entry e is f with another parent.
Same(e, f) ==
  /\ e.id = f.id /\ e.kind = f.kind
  /\ e.kind = "compaction" =>
       e.kept = f.kept /\ e.covers = f.covers /\ e.forgets = f.forgets /\ e.moved = f.moved

\* w has the entries of p at the positions picked, with other parents.
Copies(w, p, picked, g) ==
  /\ g \in [DOMAIN w -> picked]
  /\ \A k \in DOMAIN w : Same(w[k], p[g[k]])
  /\ \A k, l \in DOMAIN w : k < l => g[k] < g[l]
  /\ \A i \in picked : \E k \in DOMAIN w : g[k] = i

LEMMA ChainGrown ==
  ASSUME NEW es \in Seq(Entries), Rising(es), Chained(es), NEW c \in Nat,
         \A i \in DOMAIN es : es[i].id <= c
  PROVE  Grown(es, c)
<1>1. ASSUME NEW i \in DOMAIN es PROVE es[i].parent < es[i].id
  <2>1. es[i] \in Entries /\ i \in Nat /\ i >= 1
    OBVIOUS
  <2>2. CASE i = 1
    BY <2>1, <2>2, EntryIs DEF Chained
  <2>3. CASE i # 1
    <3>1. i - 1 \in DOMAIN es /\ i - 1 < i
      BY <2>1, <2>3
    <3>2. QED
      BY <2>3, <3>1 DEF Chained, Rising
  <2>4. QED
    BY <2>2, <2>3
<1>2. QED
  BY <1>1 DEF Grown, Rising

LEMMA ConcatIs ==
  ASSUME NEW S, NEW s \in Seq(S), NEW t \in Seq(S)
  PROVE  /\ s \o t \in Seq(S) /\ Len(s \o t) = Len(s) + Len(t)
         /\ DOMAIN (s \o t) = 1..(Len(s) + Len(t)) /\ DOMAIN s = 1..Len(s)
         /\ Len(s) \in Nat /\ Len(t) \in Nat
         /\ \A i \in DOMAIN s : (s \o t)[i] = s[i]
         /\ \A i \in DOMAIN (s \o t) : i \notin DOMAIN s =>
              i - Len(s) \in 1..Len(t) /\ (s \o t)[i] = t[i - Len(s)]
OBVIOUS

LEMMA IsSeq ==
  ASSUME NEW S, NEW n \in Nat, NEW s \in [1..n -> S]
  PROVE  s \in Seq(S) /\ Len(s) = n
OBVIOUS

LEMMA RechainedIs ==
  ASSUME NEW p \in Seq(Entries), Rising(p)
  PROVE  /\ Rechained(p) \in Seq(Entries) /\ Rising(Rechained(p)) /\ Chained(Rechained(p))
         /\ \A i \in DOMAIN Rechained(p) : Rechained(p)[i].kind # "label"
         /\ \E g : Copies(Rechained(p), p, DOMAIN p \ LabelsAt(p), g)
<1> DEFINE picked == DOMAIN p \ LabelsAt(p)
           kept == Picked(p, picked)
           re == Rechained(p)
<1>1. kept \in Seq(Entries)
  BY PickedEmbeds
<1>2. PICK g : Embeds(kept, p, picked, g)
  BY PickedEmbeds
<1> DEFINE up(i) == IF i = 1 THEN 0 ELSE kept[i - 1].id
<1>3. re = [i \in DOMAIN kept |-> [kept[i] EXCEPT !.parent = up(i)]]
  BY DEF Rechained
<1> HIDE DEF re, kept, picked
<1>4. ASSUME NEW i \in DOMAIN kept
      PROVE  kept[i] \in Entries /\ up(i) \in Nat /\ i \in Nat /\ i >= 1
  <2>1. kept[i] \in Entries /\ i \in Nat /\ i >= 1 /\ DOMAIN kept = 1..Len(kept) /\ Len(kept) \in Nat
    BY <1>1
  <2>2. ASSUME i # 1 PROVE kept[i - 1].id \in Nat
    <3>1. i - 1 \in DOMAIN kept
      BY <2>1, <2>2
    <3>2. kept[i - 1] \in Entries
      BY <1>1, <3>1
    <3>3. QED
      BY <3>2, EntryIs
  <2>3. QED
    BY <2>1, <2>2
<1>5. DOMAIN re = DOMAIN kept /\ \A i \in DOMAIN re : re[i] = [kept[i] EXCEPT !.parent = up(i)]
  BY <1>3
<1>6. \A i \in DOMAIN re : /\ re[i] \in Entries /\ Same(re[i], kept[i]) /\ re[i].parent = up(i)
  <2> HIDE DEF up
  <2>1. ASSUME NEW i \in DOMAIN re
        PROVE  re[i] \in Entries /\ Same(re[i], kept[i]) /\ re[i].parent = up(i)
    <3>1. kept[i] \in Entries /\ up(i) \in Nat
      BY <1>4, <1>5
    <3>2. re[i] = [kept[i] EXCEPT !.parent = up(i)]
      BY <1>5
    <3>3. re[i] \in Entries /\ re[i].parent = up(i)
      BY <3>1, <3>2, Reparented
    <3>4. Same(re[i], kept[i])
      BY <3>1, <3>2, Reparented DEF Same
    <3>5. QED
      BY <3>3, <3>4
  <2>2. QED
    BY <2>1
<1>7. re \in Seq(Entries)
  <2>1. DOMAIN re = 1..Len(kept) /\ Len(kept) \in Nat
    BY <1>1, <1>5
  <2>2. re \in [1..Len(kept) -> Entries]
    BY <1>3, <1>6, <2>1
  <2>3. QED
    BY <2>1, <2>2, IsSeq
<1>8. Copies(re, p, picked, g)
  BY <1>2, <1>5, <1>6 DEF Copies, Embeds
<1>9. picked \subseteq DOMAIN p /\ \A i \in picked : p[i].kind # "label"
  BY DEF picked, LabelsAt
<1>10. ASSUME NEW i \in DOMAIN re, NEW j \in DOMAIN re, i < j PROVE re[i].id < re[j].id
  <2>1. g[i] \in DOMAIN p /\ g[j] \in DOMAIN p /\ g[i] < g[j]
    BY <1>8, <1>9, <1>10 DEF Copies
  <2>2. re[i].id = p[g[i]].id /\ re[j].id = p[g[j]].id
    BY <1>8 DEF Copies, Same
  <2>3. QED
    BY <2>1, <2>2 DEF Rising
<1>11. Chained(re)
  <2>1. ASSUME NEW i \in DOMAIN re PROVE re[i].parent = IF i = 1 THEN 0 ELSE re[i - 1].id
    <3>1. CASE i = 1
      BY <1>6, <3>1
    <3>2. CASE i # 1
      <4>1. i - 1 \in DOMAIN re
        BY <1>7, <3>2
      <4>2. re[i - 1].id = kept[i - 1].id
        BY <1>6, <4>1 DEF Same
      <4>3. QED
        BY <1>6, <3>2, <4>2
    <3>3. QED
      BY <3>1, <3>2
  <2>2. QED
    BY <2>1 DEF Chained
<1>12. \A i \in DOMAIN re : re[i].kind # "label"
  BY <1>8, <1>9 DEF Copies, Same
<1>13. Rising(re)
  BY <1>10 DEF Rising
<1>14. QED
  BY <1>7, <1>8, <1>11, <1>12, <1>13 DEF re, picked

LEMMA SetToSeqIs ==
  ASSUME NEW S, IsFiniteSet(S)
  PROVE  SetToSeq(S) \in Seq(S) /\ Len(SetToSeq(S)) = Cardinality(S) /\ Cardinality(S) \in Nat
<1>1. Cardinality(S) \in Nat /\ ExistsBijection(1..Cardinality(S), S)
  BY FS_CardinalityType
<1>2. \E f \in [1..Cardinality(S) -> S] : IsInjective(f)
  BY <1>1 DEF ExistsBijection, Bijection, Injection, IsInjective
<1>3. SetToSeq(S) \in [1..Cardinality(S) -> S]
  BY <1>2 DEF SetToSeq
<1>4. QED
  BY <1>1, <1>3

LEMMA LabelIs ==
  ASSUME NEW n \in IdRange, NEW m \in Nat, NEW t \in IdRange, NEW set \in BOOLEAN
  PROVE  /\ Label(n, m, t, set) \in Marks /\ Label(n, m, t, set).id = n
         /\ Label(n, m, t, set).parent = m /\ Label(n, m, t, set).kind = "label"
         /\ Label(n, m, t, set).target = t /\ Label(n, m, t, set).set = set
BY DEF Label, Marks

\* The session of a fork: a chain, and labels after it.
LEMMA ChainJoined ==
  ASSUME NEW re \in Seq(Entries), Rising(re), Chained(re), NEW c \in Nat,
         \A i \in DOMAIN re : re[i].id <= c,
         NEW kept \in Seq(IdRange), c + Len(kept) <= MaxEntries,
         NEW copies \in Seq(Marks), Len(copies) = Len(kept),
         \A i \in 1..Len(kept) :
           copies[i].id = c + i /\ copies[i].parent = IF i = 1 THEN LastId(re) ELSE c + i - 1
  PROVE  /\ Chained(re \o copies) /\ Grown(re \o copies, c + Len(kept))
         /\ Len(re \o copies) = Len(re) + Len(kept)
         /\ \A i \in DOMAIN re : (re \o copies)[i] = re[i]
         /\ \A i \in DOMAIN (re \o copies) : i \notin DOMAIN re => (re \o copies)[i] \in Marks
<1> DEFINE new == re \o copies
           up(i) == IF i = 1 THEN LastId(re) ELSE c + i - 1
<1>0. MaxEntries \in Nat /\ Len(re) \in Nat /\ Len(kept) \in Nat
  BY SessionAssumption
<1>1. LastId(re) \in Nat /\ (re # <<>> => LastId(re) = re[Len(re)].id) /\ (re = <<>> => LastId(re) = 0)
  <2>1. CASE re = <<>>
    BY <2>1 DEF LastId
  <2>2. CASE re # <<>>
    <3>1. re[Len(re)] \in Entries
      BY <2>2
    <3>2. QED
      BY <2>2, <3>1, EntryIs DEF LastId
  <2>3. QED
    BY <2>1, <2>2
<1>3. ASSUME NEW i \in 1..Len(kept)
      PROVE  copies[i] \in Marks /\ copies[i].id = c + i /\ copies[i].parent = up(i)
  OBVIOUS
<1> HIDE DEF up
<1>4. copies \in Seq(Entries)
  BY DEF Entries
<1>5. /\ new \in Seq(Entries) /\ Len(new) = Len(re) + Len(kept)
      /\ DOMAIN new = 1..(Len(re) + Len(kept)) /\ DOMAIN re = 1..Len(re)
      /\ \A i \in DOMAIN re : new[i] = re[i]
      /\ \A i \in DOMAIN new : i \notin DOMAIN re =>
           i - Len(re) \in 1..Len(kept) /\ new[i] = copies[i - Len(re)]
  <2>1. /\ new \in Seq(Entries) /\ Len(new) = Len(re) + Len(copies)
        /\ DOMAIN new = 1..(Len(re) + Len(copies)) /\ DOMAIN re = 1..Len(re)
        /\ \A i \in DOMAIN re : new[i] = re[i]
        /\ \A i \in DOMAIN new : i \notin DOMAIN re =>
             i - Len(re) \in 1..Len(copies) /\ new[i] = copies[i - Len(re)]
    <3>1. re \in Seq(Entries) /\ copies \in Seq(Entries)
      BY <1>4
    <3>2. new = re \o copies
      OBVIOUS
    <3> HIDE DEF new
    <3>3. new \in Seq(Entries) /\ Len(new) = Len(re) + Len(copies) /\ DOMAIN re = 1..Len(re)
      BY <3>1, <3>2, ConcatIs
    <3>4. DOMAIN new = 1..(Len(re) + Len(copies))
      BY <3>1, <3>2, <3>3
    <3>5. \A i \in DOMAIN re : new[i] = re[i]
      BY <3>1, <3>2, ConcatIs
    <3>6. \A i \in DOMAIN new : i \notin DOMAIN re =>
             i - Len(re) \in 1..Len(copies) /\ new[i] = copies[i - Len(re)]
      BY <3>1, <3>2, ConcatIs
    <3>7. QED
      BY <3>3, <3>4, <3>5, <3>6
  <2> HIDE DEF new
  <2>2. QED
    BY <1>4, <2>1
<1> HIDE DEF new
<1>6. ASSUME NEW i \in DOMAIN new, i \notin DOMAIN re
      PROVE  new[i] \in Marks /\ new[i].id = c + (i - Len(re)) /\ new[i].parent = up(i - Len(re))
  BY <1>3, <1>5, <1>6
<1>7. ASSUME NEW i \in DOMAIN re PROVE new[i].id <= c /\ new[i].id \in Nat
  <2>1. re[i] \in Entries
    OBVIOUS
  <2>2. QED
    BY <1>5, <2>1, EntryIs
<1>8. Rising(new)
  <2>1. ASSUME NEW i \in DOMAIN new, NEW j \in DOMAIN new, i < j PROVE new[i].id < new[j].id
    <3>1. CASE j \in DOMAIN re
      <4>1. i \in DOMAIN re
        BY <1>0, <1>5, <2>1, <3>1
      <4>2. QED
        BY <1>5, <2>1, <3>1, <4>1 DEF Rising
    <3>2. CASE j \notin DOMAIN re /\ i \in DOMAIN re
      <4>1. new[j].id = c + (j - Len(re)) /\ j - Len(re) >= 1 /\ j \in Nat
        BY <1>0, <1>5, <1>6, <3>2
      <4>2. QED
        BY <1>0, <1>7, <3>2, <4>1
    <3>3. CASE j \notin DOMAIN re /\ i \notin DOMAIN re
      <4>1. new[j].id = c + (j - Len(re)) /\ new[i].id = c + (i - Len(re)) /\ i \in Nat /\ j \in Nat
        BY <1>0, <1>5, <1>6, <3>3
      <4>2. QED
        BY <1>0, <2>1, <4>1
    <3>4. QED
      BY <3>1, <3>2, <3>3
  <2>2. QED
    BY <2>1 DEF Rising
<1>9. Chained(new)
  <2>1. ASSUME NEW i \in DOMAIN new
        PROVE  new[i].parent = IF i = 1 THEN 0 ELSE new[i - 1].id
    <3>1. CASE i \in DOMAIN re
      <4>1. i # 1 => i - 1 \in DOMAIN re
        BY <1>0, <1>5, <3>1
      <4>2. QED
        BY <1>5, <3>1, <4>1 DEF Chained
    <3>2. CASE i \notin DOMAIN re /\ i - Len(re) = 1
      <4>1. new[i].parent = LastId(re)
        BY <1>6, <3>2 DEF up
      <4>2. CASE re = <<>>
        <5>1. i = 1
          BY <1>5, <3>2, <4>2
        <5>2. QED
          BY <1>1, <4>1, <4>2, <5>1
      <4>3. CASE re # <<>>
        <5>1. i # 1 /\ i - 1 = Len(re) /\ Len(re) \in DOMAIN re
          BY <1>0, <1>5, <3>2, <4>3
        <5>2. QED
          BY <1>1, <1>5, <4>1, <4>3, <5>1
      <4>4. QED
        BY <4>2, <4>3
    <3>3. CASE i \notin DOMAIN re /\ i - Len(re) # 1
      <4>1. new[i].parent = c + (i - Len(re)) - 1
        BY <1>6, <3>3 DEF up
      <4>2. i - 1 \in DOMAIN new /\ i - 1 \notin DOMAIN re /\ i # 1 /\ i \in Nat
        BY <1>0, <1>5, <3>3
      <4>3. new[i - 1].id = c + ((i - 1) - Len(re))
        BY <1>6, <4>2
      <4>4. QED
        BY <1>0, <4>1, <4>2, <4>3
    <3>4. QED
      BY <3>1, <3>2, <3>3
  <2>2. QED
    BY <2>1 DEF Chained
<1>10. ASSUME NEW i \in DOMAIN new PROVE new[i].id <= c + Len(kept)
  <2>1. CASE i \in DOMAIN re
    BY <1>0, <1>7, <2>1
  <2>2. CASE i \notin DOMAIN re
    BY <1>0, <1>5, <1>6, <2>2
  <2>3. QED
    BY <2>1, <2>2
<1>11. Grown(new, c + Len(kept))
  <2>1. c + Len(kept) \in Nat
    BY <1>0
  <2>2. QED
    BY <1>5, <1>8, <1>9, <1>10, <2>1, ChainGrown
<1>12. QED
  BY <1>0, <1>4, <1>5, <1>6, <1>9, <1>11 DEF new

------------------------------------------------------------------------------
(* What the steps keep *)

Base ==
  /\ created \in 0..MaxEntries /\ Grown(entries, created)
  /\ leaf \in 0..created /\ labels \subseteq IdRange /\ cleared \subseteq IdRange
  /\ Stored

LEMMA LastIdIs ==
  ASSUME NEW es, NEW c \in Nat, Grown(es, c)
  PROVE  LastId(es) \in 0..c /\ (es = <<>> => LastId(es) = 0)
         /\ (es # <<>> => LastId(es) \in Ids(es))
<1>1. es \in Seq(Entries)
  BY DEF Grown
<1>2. CASE es = <<>>
  BY <1>2 DEF LastId
<1>3. CASE es # <<>>
  <2>1. Len(es) \in DOMAIN es /\ LastId(es) = es[Len(es)].id
    BY <1>1, <1>3 DEF LastId
  <2>2. LastId(es) \in Ids(es)
    BY <2>1, IdsOf
  <2>3. LastId(es) \in 1..c
    BY <2>2, Parents
  <2>4. QED
    BY <1>3, <2>2, <2>3
<1>4. QED
  BY <1>2, <1>3

LEMMA LabelsTyped ==
  ASSUME NEW es, NEW c \in Nat, Grown(es, c)
  PROVE  LabelsIn(es) \subseteq IdRange
<1>1. ASSUME NEW i \in LabelsAt(es) PROVE es[i].target \in IdRange
  <2>1. es[i] \in Entries /\ es[i].kind = "label"
    BY DEF LabelsAt, Grown
  <2>2. QED
    BY <2>1, EntryIs
<1>2. LabelsEverIn(es) \subseteq IdRange
  BY <1>1 DEF LabelsEverIn
<1>3. QED
  BY <1>2 DEF LabelsIn

LEMMA ReopenBase ==
  ASSUME Base, Reopen
  PROVE  Base'
<1>1. created \in Nat /\ created \in 0..MaxEntries /\ Grown(entries, created) /\ Holds(entries, file)
  BY SessionAssumption DEF Base, Stored
<1>2. Grown(Loaded, created) /\ (~Readable => Loaded = <<>>)
  BY <1>1, LoadedIs
<1>3. /\ entries' = Loaded /\ leaf' = LastId(Loaded) /\ labels' = LabelsIn(Loaded)
      /\ created' = created /\ exists' = exists /\ faults' = faults /\ flushed' = exists
      /\ IF exists /\ ~Readable THEN file' = <<Header>> /\ torn' = FALSE
         ELSE file' = file /\ torn' = torn
      /\ cleared' = {}
  BY DEF Reopen
<1>4. leaf' \in 0..created' /\ labels' \subseteq IdRange
  BY <1>1, <1>2, <1>3, LastIdIs, LabelsTyped
<1>5. /\ exists \in BOOLEAN /\ torn \in BOOLEAN /\ faults \in 0..MaxFaults
      /\ (~exists => file = <<>> /\ torn = FALSE /\ flushed = FALSE)
      /\ (torn => file # <<>> /\ faults # 0)
  BY DEF Base, Stored
<1>6. Stored'
  <2>1. CASE exists /\ ~Readable
    <3>1. Holds(entries', file')
      BY <1>2, <1>3, <1>1, <2>1, HoldsWhole
    <3>2. QED
      BY <1>3, <1>5, <2>1, <3>1 DEF Stored
  <2>2. CASE ~(exists /\ ~Readable)
    <3>1. file' = file /\ torn' = torn
      BY <1>3, <2>2
    <3>2. CASE Readable
      <4>1. \A i \in DOMAIN file : file[i] \in Entries => \E j \in DOMAIN Loaded : file[i] = Loaded[j]
        <5>1. \A j \in DOMAIN file : file[j] \in Entries =>
                \E i \in DOMAIN Loaded : Loaded[i] = file[j]
          BY <1>1, <3>2, LoadedIs
        <5>2. QED
          BY <5>1
      <4>2. Holds(Loaded, file)
        BY <1>1, <4>1 DEF Holds
      <4>3. QED
        BY <1>3, <1>5, <3>1, <4>2 DEF Stored
    <3>3. CASE ~Readable
      <4>1. file = <<>> /\ exists = FALSE
        BY <1>5, <2>2, <3>3
      <4>2. Holds(Loaded, <<>>)
        BY <1>1, <1>2, HoldsWhole
      <4>3. QED
        BY <1>3, <1>5, <3>1, <4>1, <4>2 DEF Stored
    <3>4. QED
      BY <3>2, <3>3
  <2>3. QED
    BY <2>1, <2>2
<1>7. QED
  BY <1>1, <1>2, <1>3, <1>4, <1>6 DEF Base

\* What a fork at target makes.
LEMMA ForkIs ==
  ASSUME Base, NEW target, ForkAt(target)
  PROVE  LET p == Path(Loaded, target)
             re == Rechained(p)
         IN  /\ target \in Ids(Loaded) /\ target \in 0..MaxEntries /\ Readable
             /\ Grown(Loaded, created) /\ Leads(Loaded, target, p)
             /\ re \in Seq(Entries) /\ \A i \in DOMAIN re : re[i].id <= created
             /\ created' >= created /\ created' \in 0..MaxEntries
             /\ Grown(entries', created') /\ Chained(entries')
             /\ Len(entries') >= Len(re) /\ Len(re) \in Nat
             /\ \A i \in DOMAIN re : entries'[i] = re[i]
             /\ \A i \in DOMAIN entries' : i \notin DOMAIN re => entries'[i] \in Marks
             /\ \A i \in DOMAIN entries' : i \notin DOMAIN re => entries'[i].id > created
             /\ leaf' = LastId(entries') /\ labels' = LabelsIn(entries')
             /\ flushed' = HasAssistant(entries') /\ exists' = HasAssistant(entries')
             /\ file' = (IF HasAssistant(entries') THEN <<Header>> \o entries' ELSE <<>>)
             /\ torn' = FALSE /\ prep' = NoPrep /\ faults' = faults /\ cleared' = {}
<1> DEFINE p == Path(Loaded, target)
           re == Rechained(p)
           kept == SetToSeq(LabelsIn(Loaded) \intersect Ids(re))
           copies == [i \in DOMAIN kept |->
                        Label(created + i, IF i = 1 THEN LastId(re) ELSE created + i - 1,
                              kept[i], TRUE)]
<1>1. created \in Nat /\ created \in 0..MaxEntries /\ Grown(entries, created) /\ Holds(entries, file)
      /\ MaxEntries \in Nat
  BY SessionAssumption DEF Base, Stored
<1>2. Grown(Loaded, created)
  BY <1>1, LoadedIs
<1>3. /\ target \in Ids(Loaded) /\ Readable /\ created + Len(kept) <= MaxEntries
      /\ created' = created + Len(kept) /\ entries' = re \o copies
      /\ leaf' = LastId(entries') /\ labels' = LabelsIn(entries')
      /\ flushed' = HasAssistant(entries') /\ exists' = HasAssistant(entries')
      /\ file' = (IF HasAssistant(entries') THEN <<Header>> \o entries' ELSE <<>>)
      /\ torn' = FALSE /\ prep' = NoPrep /\ faults' = faults /\ cleared' = {}
  BY DEF ForkAt, WrittenAtOnce
<1>4. target \in 0..MaxEntries
  <2>1. target \in 1..MaxEntries
    BY <1>1, <1>2, <1>3, Parents
  <2>2. QED
    BY <2>1
<1>5. Leads(Loaded, target, p)
  BY <1>1, <1>2, <1>4, PathLeads
<1> HIDE DEF p
<1>6. /\ re \in Seq(Entries) /\ Rising(re) /\ Chained(re)
      /\ \E g : Copies(re, p, DOMAIN p \ LabelsAt(p), g)
  BY <1>5, RechainedIs DEF Leads
<1> HIDE DEF re
<1>7. ASSUME NEW i \in DOMAIN re PROVE re[i].id <= created
  <2>1. PICK g : Copies(re, p, DOMAIN p \ LabelsAt(p), g)
    BY <1>6
  <2>2. g[i] \in DOMAIN p /\ re[i].id = p[g[i]].id
    BY <2>1 DEF Copies, Same
  <2>3. PICK j \in DOMAIN Loaded : p[g[i]] = Loaded[j]
    BY <1>5, <2>2 DEF Leads
  <2>4. Loaded[j].id <= created
    BY <1>2 DEF Grown
  <2>5. QED
    BY <2>2, <2>3, <2>4
<1>8. kept \in Seq(IdRange)
  <2>1. LabelsIn(Loaded) \subseteq IdRange
    BY <1>1, <1>2, LabelsTyped
  <2> DEFINE S == LabelsIn(Loaded) \intersect Ids(re)
  <2>2. S \subseteq 1..MaxEntries
    BY <2>1 DEF IdRange
  <2>3. IsFiniteSet(S)
    <3>1. IsFiniteSet(1..MaxEntries)
      BY <1>1, FS_Interval
    <3>2. QED
      BY <2>2, <3>1, FS_Subset
  <2> HIDE DEF S
  <2>4. SetToSeq(S) \in Seq(S)
    BY <2>3, SetToSeqIs
  <2>5. SetToSeq(S) \in Seq(IdRange)
    <3>1. S \subseteq IdRange
      BY <2>2 DEF IdRange
    <3>2. QED
      BY <2>4, <3>1
  <2>6. QED
    BY <2>5 DEF S
<1> HIDE DEF kept
<1>9. LastId(re) \in Nat
  <2>1. Grown(re, created)
    BY <1>1, <1>6, <1>7, ChainGrown
  <2>2. LastId(re) \in 0..created
    BY <1>1, <2>1, LastIdIs
  <2>3. QED
    BY <2>2
<1>10. /\ copies \in Seq(Marks) /\ Len(copies) = Len(kept) /\ Len(kept) \in Nat
       /\ \A i \in 1..Len(kept) :
            copies[i].id = created + i
            /\ copies[i].parent = IF i = 1 THEN LastId(re) ELSE created + i - 1
  <2>1. created + Len(kept) <= MaxEntries
    BY <1>3
  <2> DEFINE up(i) == IF i = 1 THEN LastId(re) ELSE created + i - 1
             copy(i) == Label(created + i, up(i), kept[i], TRUE)
  <2>2. DOMAIN kept = 1..Len(kept) /\ Len(kept) \in Nat
    BY <1>8
  <2>3. ASSUME NEW i \in 1..Len(kept)
        PROVE  copy(i) \in Marks /\ copy(i).id = created + i /\ copy(i).parent = up(i)
    <3>1. up(i) \in Nat /\ created + i \in IdRange /\ kept[i] \in IdRange
      BY <1>1, <1>8, <1>9, <2>1, <2>2 DEF IdRange
    <3> HIDE DEF up
    <3>2. QED
      BY <3>1, LabelIs
  <2>4. copies = [i \in 1..Len(kept) |-> copy(i)]
    BY <2>2
  <2> HIDE DEF copy, copies, up
  <2>5. copies \in [1..Len(kept) -> Marks] /\ \A i \in 1..Len(kept) : copies[i] = copy(i)
    BY <2>3, <2>4
  <2>6. copies \in Seq(Marks) /\ Len(copies) = Len(kept)
    BY <2>2, <2>5, IsSeq
  <2>7. QED
    BY <2>2, <2>3, <2>5, <2>6 DEF up
<1> HIDE DEF copies
<1>11. /\ Chained(re \o copies) /\ Grown(re \o copies, created + Len(kept))
       /\ Len(re \o copies) = Len(re) + Len(kept)
       /\ \A i \in DOMAIN re : (re \o copies)[i] = re[i]
       /\ \A i \in DOMAIN (re \o copies) : i \notin DOMAIN re => (re \o copies)[i] \in Marks
  BY <1>1, <1>3, <1>6, <1>7, <1>8, <1>10, ChainJoined
<1>12. \A i \in DOMAIN (re \o copies) : i \notin DOMAIN re => (re \o copies)[i].id > created
  <2>1. re \in Seq(Entries) /\ copies \in Seq(Entries)
    BY <1>6, <1>10 DEF Entries
  <2>2. \A i \in DOMAIN (re \o copies) : i \notin DOMAIN re =>
          i - Len(re) \in 1..Len(copies) /\ (re \o copies)[i] = copies[i - Len(re)]
    BY <2>1, ConcatIs
  <2>3. \A k \in 1..Len(copies) : copies[k].id > created
    BY <1>1, <1>10
  <2>4. QED
    BY <2>2, <2>3
<1>13. created' >= created /\ created' \in 0..MaxEntries /\ Len(re) \in Nat
  BY <1>1, <1>3, <1>6, <1>10
<1>14. Len(entries') >= Len(re)
  BY <1>3, <1>10, <1>11, <1>13
<1>15. QED
  BY <1>2, <1>3, <1>4, <1>5, <1>6, <1>7, <1>11, <1>12, <1>13, <1>14 DEF p, re

------------------------------------------------------------------------------
(* Entries that are added *)

\* Every message before the first entry kept is in the summary.
Accounts(path, kept, covers) ==
  \A i \in DOMAIN path : InContext(path[i]) /\ path[i].id < kept => path[i].id \in covers

\* What is planned, and what it accounts for.
Planned ==
  /\ prep.lossy \in BOOLEAN /\ Forgets(prep.plan) \in BOOLEAN
  /\ prep.plan.kept \in 1..created /\ prep.from \in 1..created
  /\ Covers(prep.plan) \subseteq 1..(prep.plan.kept - 1)
  /\ ~(prep.lossy \/ Forgets(prep.plan)) =>
       Accounts(Path(entries, prep.plan.kept), prep.plan.kept, Covers(prep.plan))

Preps == prep.on \in BOOLEAN /\ (prep.on => Planned)

\* Entry e is appended.
Adds(e) ==
  /\ Follows(entries, created, e) /\ AppendEntry(e)
  /\ labels' \subseteq IdRange
  /\ e.parent = leaf \/ \E t \in Ids(entries) : e.parent = NewLeaf(t)
  /\ \/ /\ e.kind \notin {"label", "compaction"}
        /\ labels' = labels /\ prep' = prep
        /\ e.kind = "toolResult" => TurnRuns /\ e.parent = leaf
     \/ /\ e.kind = "label" /\ e.target \in Ids(entries) /\ prep' = prep
        /\ labels' = IF Threw THEN labels
                     ELSE IF e.set THEN labels \union {e.target} ELSE labels \ {e.target}
     \/ /\ e.kind = "compaction" /\ e.parent = leaf /\ prep.on
        /\ e.kept = prep.plan.kept /\ e.covers = Covers(prep.plan)
        /\ e.forgets = (prep.lossy \/ Forgets(prep.plan))
        /\ e.moved = (prep.from \notin Ids(Path(entries, leaf)))
        /\ labels' = labels /\ prep' = NoPrep

LEMMA NewLeafIs ==
  ASSUME Base, NEW target \in Ids(entries)
  PROVE  /\ NewLeaf(target) \in 0..created
         /\ NewLeaf(target) = target \/ NewLeaf(target) = Find(entries, target).parent
<1>1. created \in Nat /\ Grown(entries, created)
  BY SessionAssumption DEF Base
<1>2. Find(entries, target).parent \in 0..(target - 1) /\ target \in 1..created
  BY <1>1, Parents
<1>3. Find(entries, target).parent \in 0..created /\ target \in 0..created
  BY <1>1, <1>2
<1>4. QED
  BY <1>3 DEF NewLeaf

LEMMA EntryFollows ==
  ASSUME Base, created < MaxEntries, NEW kind \in EntryKinds \ {"label", "compaction"},
         NEW n \in 0..created
  PROVE  /\ Follows(entries, created, Entry(created + 1, n, kind))
         /\ Entry(created + 1, n, kind).kind = kind /\ Entry(created + 1, n, kind).parent = n
<1>1. created \in Nat /\ MaxEntries \in Nat
  BY SessionAssumption DEF Base
<1>2. created + 1 \in IdRange /\ n \in Nat /\ n <= created
  BY <1>1 DEF IdRange
<1>3. Entry(created + 1, n, kind) \in Plain
  BY <1>2 DEF Entry, Plain
<1>4. QED
  BY <1>2, <1>3 DEF Follows, Entries, Entry

LEMMA KindAdds ==
  ASSUME Base, AppendKind
  PROVE  \E e : Adds(e)
<1>1. PICK kind \in Kinds \intersect AppendKinds :
        /\ kind = "toolResult" => TurnRuns
        /\ AppendEntry(Entry(created + 1, leaf, kind))
        /\ UNCHANGED <<labels, prep>>
  BY DEF AppendKind
<1> DEFINE e == Entry(created + 1, leaf, kind)
<1>2. created < MaxEntries /\ AppendEntry(e)
  BY <1>1 DEF AppendEntry
<1>3. leaf \in 0..created /\ labels \subseteq IdRange
  BY DEF Base
<1>4. kind \in EntryKinds \ {"label", "compaction"}
  BY DEF EntryKinds, AppendKinds
<1>5. Follows(entries, created, e) /\ e.kind = kind /\ e.parent = leaf
  BY <1>2, <1>3, <1>4, EntryFollows
<1> HIDE DEF e
<1>6. Adds(e)
  BY <1>1, <1>2, <1>3, <1>4, <1>5 DEF Adds
<1>7. QED
  BY <1>6

LEMMA SummaryAdds ==
  ASSUME Base, NavigateWithSummary
  PROVE  \E e : Adds(e)
<1>1. PICK target \in Ids(entries) \ {leaf} :
        /\ AppendEntry(Entry(created + 1, NewLeaf(target), "branch_summary"))
        /\ UNCHANGED <<labels, prep>>
  BY DEF NavigateWithSummary
<1> DEFINE e == Entry(created + 1, NewLeaf(target), "branch_summary")
<1>2. created < MaxEntries /\ AppendEntry(e)
  BY <1>1 DEF AppendEntry
<1>3. labels \subseteq IdRange
  BY DEF Base
<1>4. "branch_summary" \in EntryKinds \ {"label", "compaction"}
  BY DEF EntryKinds, AppendKinds
<1>5. NewLeaf(target) \in 0..created
  BY NewLeafIs
<1>6. /\ Follows(entries, created, e)
      /\ e.kind = "branch_summary" /\ e.parent = NewLeaf(target)
  BY <1>2, <1>4, <1>5, EntryFollows
<1> HIDE DEF e
<1>7. Adds(e)
  BY <1>1, <1>2, <1>3, <1>6 DEF Adds
<1>8. QED
  BY <1>7

LEMMA LabelAdds ==
  ASSUME Base, AppendLabel
  PROVE  \E e : Adds(e)
<1>1. PICK target \in Ids(entries), set \in BOOLEAN :
        /\ AppendEntry(Label(created + 1, leaf, target, set))
        /\ labels' = IF Threw THEN labels
                     ELSE IF set THEN labels \union {target} ELSE labels \ {target}
        /\ UNCHANGED prep
  BY DEF AppendLabel
<1> DEFINE e == Label(created + 1, leaf, target, set)
<1>2. created < MaxEntries /\ AppendEntry(e)
  BY <1>1 DEF AppendEntry
<1>3. /\ leaf \in 0..created /\ labels \subseteq IdRange /\ created \in Nat /\ MaxEntries \in Nat
      /\ Grown(entries, created)
  BY SessionAssumption DEF Base
<1>4. target \in IdRange
  BY <1>3, Parents DEF IdRange
<1>5. created + 1 \in IdRange /\ leaf \in Nat /\ leaf <= created
  BY <1>2, <1>3 DEF IdRange
<1>6. /\ e \in Marks /\ e.id = created + 1 /\ e.parent = leaf /\ e.kind = "label"
      /\ e.target = target /\ e.set = set
  BY <1>4, <1>5, LabelIs
<1> HIDE DEF e
<1>7. Follows(entries, created, e)
  BY <1>5, <1>6 DEF Follows, Entries
<1>8. labels' \subseteq IdRange
  BY <1>1, <1>3, <1>4
<1>9. Adds(e)
  BY <1>1, <1>2, <1>6, <1>7, <1>8 DEF Adds
<1>10. QED
  BY <1>9

LEMMA CompactionAdds ==
  ASSUME Base, Preps, AppendCompaction
  PROVE  \E e : Adds(e)
<1> DEFINE e == [id |-> created + 1, parent |-> leaf, kind |-> "compaction",
                 kept |-> prep.plan.kept, covers |-> Covers(prep.plan),
                 forgets |-> prep.lossy \/ Forgets(prep.plan),
                 moved |-> prep.from \notin Ids(Path(entries, leaf))]
<1>1. /\ prep.on /\ AppendEntry(e) /\ prep' = NoPrep /\ labels' = labels
  BY DEF AppendCompaction
<1>2. created < MaxEntries
  BY <1>1 DEF AppendEntry
<1>3. leaf \in 0..created /\ labels \subseteq IdRange /\ created \in Nat /\ MaxEntries \in Nat
  BY SessionAssumption DEF Base
<1>4. Planned
  BY <1>1 DEF Preps
<1>5. created + 1 \in IdRange /\ leaf \in Nat /\ leaf <= created
  BY <1>2, <1>3 DEF IdRange
<1>6. prep.plan.kept \in Nat /\ Covers(prep.plan) \in SUBSET Nat
  BY <1>3, <1>4 DEF Planned
<1> DEFINE forgets == prep.lossy \/ Forgets(prep.plan)
           moved == prep.from \notin Ids(Path(entries, leaf))
<1>7. forgets \in BOOLEAN /\ moved \in BOOLEAN
  BY <1>4 DEF Planned
<1>8. e = [id |-> created + 1, parent |-> leaf, kind |-> "compaction",
           kept |-> prep.plan.kept, covers |-> Covers(prep.plan),
           forgets |-> forgets, moved |-> moved]
  OBVIOUS
<1> HIDE DEF e, forgets, moved
<1>9. e \in Summaries
  BY <1>5, <1>6, <1>7, <1>8 DEF Summaries
<1>10. /\ e.id = created + 1 /\ e.parent = leaf /\ e.kind = "compaction"
       /\ e.kept = prep.plan.kept /\ e.covers = Covers(prep.plan)
       /\ e.forgets = forgets /\ e.moved = moved
  BY <1>8
<1>11. Follows(entries, created, e)
  BY <1>5, <1>9, <1>10 DEF Follows, Entries
<1>12. Adds(e)
  BY <1>1, <1>3, <1>10, <1>11 DEF Adds, forgets, moved
<1>13. QED
  BY <1>12

LEMMA Steps ==
  ASSUME Base, Preps, [Next]_vars
  PROVE  \/ \E e : Adds(e)
         \/ Navigate \/ PrepareCompaction \/ AbandonCompaction
         \/ Reopen \/ NewSession \/ Fork \/ ForkOfUnreadable \/ UNCHANGED vars
BY KindAdds, LabelAdds, SummaryAdds, CompactionAdds DEF Next

LEMMA EmptyBase ==
  /\ \A c \in Nat : Grown(<<>>, c)
  /\ Ids(<<>>) = {} /\ ~HasAssistant(<<>>) /\ Holds(<<>>, <<>>) /\ Chained(<<>>)
<1>1. <<>> \in Seq(Entries) /\ DOMAIN <<>> = {} /\ <<>> \in Seq(Lines)
  OBVIOUS
<1>2. QED
  BY <1>1 DEF Grown, Ids, HasAssistant, Holds, Chained

LEMMA StartBase ==
  ASSUME entries' = <<>>, leaf' = 0, labels' = {}, flushed' = FALSE, exists' = FALSE,
         file' = <<>>, torn' = FALSE, created' = 0, faults' \in 0..MaxFaults, cleared' = {}
  PROVE  Base'
<1>1. MaxEntries \in Nat /\ 0 \in 0..MaxEntries /\ 0 \in 0..0 /\ 0 \in Nat
  BY SessionAssumption
<1>2. Stored'
  BY EmptyBase DEF Stored
<1>3. Grown(entries', created')
  BY <1>1, EmptyBase
<1>4. QED
  BY <1>1, <1>2, <1>3 DEF Base

LEMMA ForkBase ==
  ASSUME Base, Fork
  PROVE  Base'
<1>1. PICK target : ForkAt(target)
  BY DEF Fork
<1>2. /\ created' \in 0..MaxEntries /\ Grown(entries', created')
      /\ leaf' = LastId(entries') /\ labels' = LabelsIn(entries')
      /\ flushed' = HasAssistant(entries') /\ exists' = HasAssistant(entries')
      /\ file' = (IF HasAssistant(entries') THEN <<Header>> \o entries' ELSE <<>>)
      /\ torn' = FALSE /\ faults' = faults /\ cleared' = {}
  BY <1>1, ForkIs
<1>3. created' \in Nat
  BY <1>2, SessionAssumption
<1>4. leaf' \in 0..created' /\ labels' \subseteq IdRange
  BY <1>2, <1>3, LastIdIs, LabelsTyped
<1>5. Holds(entries', <<Header>> \o entries') /\ Holds(entries', <<>>)
  BY <1>2, <1>3, HoldsWhole
<1>6. HasAssistant(entries') \in BOOLEAN /\ faults \in 0..MaxFaults
  BY DEF HasAssistant, Base, Stored
<1>7. Stored'
  BY <1>2, <1>5, <1>6 DEF Stored
<1>8. QED
  BY <1>2, <1>4, <1>7 DEF Base

LEMMA BaseStep ==
  ASSUME Base, Preps, [Next]_vars
  PROVE  Base'
<1>1. /\ created \in Nat /\ MaxEntries \in Nat /\ created \in 0..MaxEntries
      /\ Grown(entries, created) /\ leaf \in 0..created /\ labels \subseteq IdRange /\ Stored
      /\ cleared \subseteq IdRange
  BY SessionAssumption DEF Base
<1>2. ASSUME NEW e, Adds(e) PROVE Base'
  <2>1. Follows(entries, created, e) /\ AppendEntry(e) /\ labels' \subseteq IdRange
    BY <1>2 DEF Adds
  <2>2. Stored'
    BY <1>1, <2>1, AppendStored
  <2>3. /\ created' = created + 1 /\ created < MaxEntries
        /\ entries' = Append(entries, e) /\ leaf' = e.id /\ cleared' = cleared
    BY <1>1, <2>1, PersistWrites DEF AppendEntry
  <2>4. Grown(entries', created')
    BY <1>1, <2>1, <2>3, GrownGrows
  <2>5. e.id = created + 1
    BY <2>1 DEF Follows
  <2>6. created' \in 0..MaxEntries /\ leaf' \in 0..created'
    BY <1>1, <2>3, <2>5
  <2>7. QED
    BY <1>1, <2>1, <2>2, <2>3, <2>4, <2>6 DEF Base
<1>3. CASE Navigate
  <2>1. PICK t \in Ids(entries) :
          leaf' = NewLeaf(t) /\ UNCHANGED <<entries, labels, disk, prep, created, cleared>>
    BY <1>3 DEF Navigate
  <2>2. leaf' \in 0..created
    BY <2>1, NewLeafIs
  <2>3. Stored'
    BY <1>1, <2>1 DEF Stored, disk
  <2>4. QED
    BY <1>1, <2>1, <2>2, <2>3 DEF Base
<1>4. CASE UNCHANGED <<memory, disk, created, cleared>>
  <2>1. Stored'
    BY <1>1, <1>4 DEF Stored, disk, memory
  <2>2. QED
    BY <1>1, <1>4, <2>1 DEF Base, memory
<1>5. CASE PrepareCompaction \/ AbandonCompaction \/ UNCHANGED vars
  <2>1. UNCHANGED <<memory, disk, created, cleared>>
    BY <1>5 DEF PrepareCompaction, AbandonCompaction, vars
  <2>2. QED
    BY <1>4, <2>1
<1>6. CASE NewSession
  <2>1. faults' \in 0..MaxFaults
    BY <1>1, <1>6 DEF NewSession, Stored
  <2>2. QED
    BY <1>6, <2>1, StartBase DEF NewSession
<1>7. CASE ForkOfUnreadable
  <2>1. /\ file' = <<Header>> /\ torn' = FALSE /\ exists /\ cleared' = Ids(entries)
        /\ UNCHANGED <<entries, leaf, labels, flushed, exists, created, faults>>
    BY <1>7 DEF ForkOfUnreadable, memory
  <2>2. Holds(entries, <<Header>>)
    BY <1>1, HoldsWhole
  <2>3. Stored'
    BY <1>1, <2>1, <2>2 DEF Stored
  <2>4. cleared' \subseteq IdRange
    <3>1. ASSUME NEW n \in Ids(entries) PROVE n \in 1..MaxEntries
      <4>1. n \in 1..created
        BY <1>1, Parents
      <4>2. QED
        BY <1>1, <4>1
    <3>2. QED
      BY <2>1, <3>1 DEF IdRange
  <2>5. QED
    BY <1>1, <2>1, <2>3, <2>4 DEF Base
<1>8. QED
  BY <1>2, <1>3, <1>5, <1>6, <1>7, Steps, ReopenBase, ForkBase
------------------------------------------------------------------------------
(* As long as no write fails *)

\* Parents and the leaf are entries.
Closed ==
  faults = 0 =>
    /\ leaf \in {0} \union Ids(entries)
    /\ \A i \in DOMAIN entries : entries[i].parent \in {0} \union Ids(entries)

LEMMA ReopenSame ==
  ASSUME Base, FileExact, Reopen, faults = 0
  PROVE  \/ exists /\ entries' = entries /\ file' = file /\ torn' = torn
         \/ ~exists /\ entries' = <<>> /\ file' = <<>> /\ torn' = FALSE
<1>1. /\ Grown(entries, created) /\ created \in Nat /\ Holds(entries, file) /\ entries \in Seq(Entries)
      /\ (~exists => file = <<>> /\ torn = FALSE)
  BY SessionAssumption DEF Base, Stored, Grown
<1>2. CASE exists
  <2>1. file = <<Header>> \o entries
    BY <1>2 DEF FileExact
  <2>2. Readable /\ Loaded = entries
    BY <1>1, <2>1, LoadedWhole
  <2>3. QED
    <3>1. entries' = Loaded /\ file' = file /\ torn' = torn
      BY <2>2 DEF Reopen
    <3>2. QED
      BY <1>2, <2>2, <3>1
<1>3. CASE ~exists
  <2>1. file = <<>> /\ torn = FALSE
    BY <1>1, <1>3
  <2>2. ~Readable
    BY <1>1, <2>1, ReadableIs
  <2>3. Loaded = <<>>
    BY <1>1, <2>2, LoadedIs
  <2>4. QED
    BY <1>3, <2>1, <2>3 DEF Reopen
<1>4. QED
  BY <1>2, <1>3

\* The file of a session is readable as long as no write has failed.
LEMMA UnreadableFailed ==
  ASSUME Base, FileExact, ForkOfUnreadable
  PROVE  faults # 0 /\ faults' # 0
<1>1. exists /\ ~Readable /\ faults' = faults
  BY DEF ForkOfUnreadable
<1>2. /\ Grown(entries, created) /\ created \in Nat /\ Holds(entries, file)
      /\ entries \in Seq(Entries)
  BY SessionAssumption DEF Base, Stored, Grown
<1>3. faults = 0 => file = <<Header>> \o entries
  BY <1>1 DEF FileExact
<1>4. QED
  BY <1>1, <1>2, <1>3, LoadedWhole

LEMMA ExactStep ==
  ASSUME Base, Preps, FileExact, [Next]_vars
  PROVE  FileExact' /\ (faults' = 0 => faults = 0)
<1>1. /\ created \in Nat /\ Grown(entries, created) /\ Stored
  BY SessionAssumption DEF Base
<1>2. ASSUME NEW e, Adds(e) PROVE FileExact' /\ (faults' = 0 => faults = 0)
  <2>1. Follows(entries, created, e) /\ AppendEntry(e)
    BY <1>2 DEF Adds
  <2>2. QED
    BY <1>1, <2>1, AppendExact
<1>3. CASE UNCHANGED <<entries, disk>>
  BY <1>3 DEF FileExact, disk
<1>4. CASE Navigate \/ PrepareCompaction \/ AbandonCompaction \/ UNCHANGED vars
  <2>1. UNCHANGED <<entries, disk>>
    BY <1>4 DEF Navigate, PrepareCompaction, AbandonCompaction, vars, memory
  <2>2. QED
    BY <1>3, <2>1
<1>5. CASE NewSession
  BY <1>5, EmptyBase DEF NewSession, FileExact, HasAssistant
<1>6. CASE Reopen
  <2>1. faults' = faults /\ exists' = exists /\ flushed' = exists
    BY <1>6 DEF Reopen
  <2> SUFFICES ASSUME faults = 0
               PROVE  /\ exists' = HasAssistant(entries') /\ flushed' = exists'
                      /\ (exists' => ~torn' /\ file' = <<Header>> \o entries')
    BY <2>1 DEF FileExact
  <2>2. exists = HasAssistant(entries) /\ (exists => ~torn /\ file = <<Header>> \o entries)
    BY DEF FileExact
  <2>3. exists \in BOOLEAN /\ HasAssistant(<<>>) = FALSE
    BY <1>1, EmptyBase DEF Stored, HasAssistant
  <2>4. QED
    <3>1. \/ exists /\ entries' = entries /\ file' = file /\ torn' = torn
          \/ ~exists /\ entries' = <<>> /\ file' = <<>> /\ torn' = FALSE
      BY <1>6, ReopenSame
    <3>2. CASE exists /\ entries' = entries /\ file' = file /\ torn' = torn
      <4>1. HasAssistant(entries') = HasAssistant(entries)
        BY <3>2
      <4>2. QED
        BY <2>1, <2>2, <3>2, <4>1
    <3>3. CASE ~exists /\ entries' = <<>> /\ file' = <<>> /\ torn' = FALSE
      <4>1. HasAssistant(entries') = FALSE /\ exists' = FALSE
        BY <2>1, <2>3, <3>3
      <4>2. QED
        BY <2>1, <4>1
    <3>4. QED
      BY <3>1, <3>2, <3>3
<1>7. CASE Fork
  <2>1. PICK target : ForkAt(target)
    BY <1>7 DEF Fork
  <2>2. /\ flushed' = HasAssistant(entries') /\ exists' = HasAssistant(entries')
        /\ file' = (IF HasAssistant(entries') THEN <<Header>> \o entries' ELSE <<>>)
        /\ torn' = FALSE /\ faults' = faults
    BY <2>1, ForkIs
  <2>3. QED
    BY <2>2 DEF FileExact
<1>8. CASE ForkOfUnreadable
  BY <1>8, UnreadableFailed DEF FileExact
<1>9. QED
  BY <1>2, <1>4, <1>5, <1>6, <1>7, <1>8, Steps

LEMMA ClosedStep ==
  ASSUME Base, Preps, FileExact, Closed, [Next]_vars
  PROVE  Closed'
<1>1. faults' = 0 => faults = 0
  BY ExactStep
<1> SUFFICES ASSUME faults' = 0, faults = 0
             PROVE  /\ leaf' \in {0} \union Ids(entries')
                    /\ \A i \in DOMAIN entries' : entries'[i].parent \in {0} \union Ids(entries')
  BY <1>1 DEF Closed
<1>2. /\ created \in Nat /\ Grown(entries, created)
      /\ leaf \in {0} \union Ids(entries)
      /\ \A i \in DOMAIN entries : entries[i].parent \in {0} \union Ids(entries)
  BY SessionAssumption DEF Base, Closed
<1>3. \A t \in Ids(entries) : NewLeaf(t) \in {0} \union Ids(entries)
  <2>1. ASSUME NEW t \in Ids(entries) PROVE NewLeaf(t) \in {0} \union Ids(entries)
    <3>1. NewLeaf(t) = t \/ NewLeaf(t) = Find(entries, t).parent
      BY NewLeafIs
    <3>2. \E i \in DOMAIN entries : Find(entries, t) = entries[i]
      BY <1>2, Parents
    <3>3. QED
      BY <1>2, <3>1, <3>2
  <2>2. QED
    BY <2>1
<1>4. ASSUME NEW e, Adds(e)
      PROVE  /\ leaf' \in {0} \union Ids(entries')
             /\ \A i \in DOMAIN entries' : entries'[i].parent \in {0} \union Ids(entries')
  <2>1. Follows(entries, created, e) /\ AppendEntry(e)
        /\ (e.parent = leaf \/ \E t \in Ids(entries) : e.parent = NewLeaf(t))
    BY <1>4 DEF Adds
  <2>2. entries' = Append(entries, e) /\ leaf' = e.id
    BY <2>1 DEF AppendEntry
  <2>3. Ids(entries') = Ids(entries) \union {e.id}
    BY <1>2, <2>1, <2>2, NewFound
  <2>4. e.parent \in {0} \union Ids(entries)
    BY <1>2, <1>3, <2>1
  <2>5. /\ DOMAIN entries' = 1..(Len(entries) + 1) /\ DOMAIN entries = 1..Len(entries)
        /\ Len(entries) \in Nat
        /\ \A i \in DOMAIN entries : entries'[i] = entries[i]
        /\ entries'[Len(entries) + 1] = e
    BY <1>2, <2>1, <2>2, AppendIs DEF Grown, Follows
  <2>6. ASSUME NEW i \in DOMAIN entries' PROVE entries'[i].parent \in {0} \union Ids(entries')
    <3>1. i \in DOMAIN entries \/ entries'[i] = e
      BY <2>5
    <3>2. QED
      BY <1>2, <2>3, <2>4, <2>5, <3>1
  <2>7. QED
    BY <2>2, <2>3, <2>6
<1>5. CASE UNCHANGED entries /\ leaf' \in {0} \union Ids(entries)
  BY <1>2, <1>5
<1>6. CASE Navigate
  <2>1. UNCHANGED entries /\ \E t \in Ids(entries) : leaf' = NewLeaf(t)
    BY <1>6 DEF Navigate
  <2>2. QED
    BY <1>3, <1>5, <2>1
<1>7. CASE PrepareCompaction \/ AbandonCompaction \/ UNCHANGED vars
  <2>1. UNCHANGED <<entries, leaf>>
    BY <1>7 DEF PrepareCompaction, AbandonCompaction, vars, memory
  <2>2. QED
    BY <1>2, <1>5, <2>1
<1>8. CASE NewSession
  <2>1. entries' = <<>> /\ leaf' = 0 /\ DOMAIN <<>> = {}
    BY <1>8 DEF NewSession
  <2>2. QED
    BY <2>1
<1>9. CASE Reopen
  <2>1. leaf' = LastId(Loaded) /\ entries' = Loaded
    BY <1>9 DEF Reopen
  <2>2. entries' = entries \/ entries' = <<>>
    BY <1>9, ReopenSame
  <2>3. leaf' \in {0} \union Ids(entries')
    <3>1. Grown(entries', created)
      BY <1>2, <2>2, EmptyBase
    <3>2. leaf' = LastId(entries')
      BY <2>1
    <3>3. QED
      BY <1>2, <3>1, <3>2, LastIdIs
  <2>4. DOMAIN <<>> = {}
    OBVIOUS
  <2>5. QED
    BY <1>2, <2>2, <2>3, <2>4
<1>10. CASE Fork
  <2>1. PICK target : ForkAt(target)
    BY <1>10 DEF Fork
  <2>2. /\ created' \in 0..MaxEntries /\ Grown(entries', created') /\ Chained(entries')
        /\ leaf' = LastId(entries')
    BY <2>1, ForkIs
  <2>3. created' \in Nat
    BY <2>2, SessionAssumption
  <2>4. leaf' \in {0} \union Ids(entries')
    BY <2>2, <2>3, LastIdIs
  <2>5. ASSUME NEW i \in DOMAIN entries' PROVE entries'[i].parent \in {0} \union Ids(entries')
    <3>1. i # 1 => i - 1 \in DOMAIN entries'
      <4>1. entries' \in Seq(Entries)
        BY <2>2 DEF Grown
      <4>2. QED
        BY <4>1
    <3>2. entries'[i].parent = IF i = 1 THEN 0 ELSE entries'[i - 1].id
      BY <2>2 DEF Chained
    <3>3. QED
      BY <3>1, <3>2, IdsOf
  <2>6. QED
    BY <2>4, <2>5
<1>11. QED
  BY <1>4, <1>6, <1>7, <1>8, <1>9, <1>10, Steps, UnreadableFailed

------------------------------------------------------------------------------
(* What is lost, and the tree *)

LEMMA NoneMissing ==
  ASSUME NEW es \in Seq(Entries)
  PROVE  (\A out : Missing(es, <<Header>> \o es, out) = {}) /\ Cardinality({}) = 0
<1> DEFINE p == <<Header>> \o es
<1>1. es \in Seq(Lines) /\ <<Header>> \in Seq(Lines)
  BY LineIs
<1>2. \A i \in DOMAIN es : i + 1 \in DOMAIN p /\ p[i + 1] = es[i]
  BY <1>1
<1> HIDE DEF p
<1>3. ASSUME NEW n \in Ids(es) PROVE n \in LineIds(p)
  <2>1. PICK i \in DOMAIN es : es[i].id = n
    BY IdsOf
  <2>2. es[i] \in Entries
    OBVIOUS
  <2>3. QED
    BY <1>2, <2>1, <2>2, LineIdsOf
<1>4. QED
  BY <1>3, FS_EmptySet DEF Missing, p

LEMMA LossStep ==
  ASSUME Base, Preps, Losses, [Next]_vars
  PROVE  Losses'
<1>1. /\ created \in Nat /\ Grown(entries, created) /\ Stored /\ Holds(entries, file)
      /\ faults \in Nat /\ exists \in BOOLEAN /\ torn \in BOOLEAN
      /\ (torn => faults # 0)
  BY SessionAssumption DEF Base, Stored
<1>2. ASSUME NEW e, Adds(e) PROVE Losses'
  <2>1. Follows(entries, created, e) /\ AppendEntry(e)
    BY <1>2 DEF Adds
  <2>2. QED
    BY <1>1, <2>1, AppendLosses
<1>3. CASE Navigate \/ PrepareCompaction \/ AbandonCompaction \/ UNCHANGED vars
  <2>1. UNCHANGED <<entries, flushed, file, torn, faults, cleared>>
    BY <1>3 DEF Navigate, PrepareCompaction, AbandonCompaction, vars, memory, disk
  <2>2. QED
    BY <2>1 DEF Losses
<1>4. CASE NewSession
  BY <1>4 DEF NewSession, Losses
<1>5. ASSUME Missing(entries', file', cleared') = {}, torn' \in BOOLEAN, torn' => faults' # 0, faults' \in Nat
      PROVE  Losses'
  <2>1. Cardinality(Missing(entries', file', cleared')) = 0
    BY <1>5, FS_EmptySet
  <2>2. Owed(file', torn') \in Nat /\ Owed(file', torn') <= 2 * faults'
    <3>1. CASE torn'
      <4>1. faults' >= 1
        BY <1>5, <3>1
      <4>2. Owed(file', torn') = 1 \/ Owed(file', torn') = 2
        BY <3>1 DEF Owed
      <4>3. QED
        BY <1>5, <4>1, <4>2
    <3>2. CASE ~torn'
      <4>1. Owed(file', torn') = 0
        BY <3>2 DEF Owed
      <4>2. faults' \in Nat
        BY <1>5
      <4>3. 0 <= 2 * faults' /\ 0 \in Nat
        <5>1. \A n \in Nat : 2 * n >= 0
          OBVIOUS
        <5>2. QED
          BY <4>2, <5>1
      <4>4. QED
        BY <4>1, <4>3
    <3>3. QED
      BY <3>1, <3>2
  <2>3. QED
    BY <1>5, <2>1, <2>2 DEF Losses
<1>6. CASE Reopen
  <2>1. /\ entries' = Loaded /\ flushed' = exists /\ faults' = faults
        /\ IF exists /\ ~Readable THEN file' = <<Header>> /\ torn' = FALSE
           ELSE file' = file /\ torn' = torn
    BY <1>6 DEF Reopen
  <2>2. CASE ~exists
    BY <1>1, <2>1, <2>2 DEF Losses
  <2>3. CASE exists /\ ~Readable
    <3>1. Loaded = <<>>
      BY <1>1, <2>3, LoadedIs
    <3>2. Missing(entries', file', cleared') = {}
      BY <2>1, <3>1, EmptyBase DEF Missing
    <3>3. QED
      BY <1>1, <1>5, <2>1, <2>3, <3>2
  <2>4. CASE exists /\ Readable
    <3>1. Ids(Loaded) = LineIds(file)
      BY <1>1, <2>4, LineIdsLoaded
    <3>2. file' = file /\ torn' = torn
      BY <2>1, <2>4
    <3>3. Missing(entries', file', cleared') = {}
      BY <2>1, <3>1, <3>2 DEF Missing
    <3>4. QED
      BY <1>1, <1>5, <2>1, <3>2, <3>3
  <2>5. QED
    BY <1>1, <2>2, <2>3, <2>4
<1>7. CASE Fork
  <2>1. PICK target : ForkAt(target)
    BY <1>7 DEF Fork
  <2>2. /\ Grown(entries', created') /\ flushed' = HasAssistant(entries')
        /\ file' = (IF HasAssistant(entries') THEN <<Header>> \o entries' ELSE <<>>)
        /\ torn' = FALSE /\ faults' = faults
    BY <2>1, ForkIs
  <2>3. CASE HasAssistant(entries')
    <3>1. file' = <<Header>> \o entries' /\ entries' \in Seq(Entries)
      BY <2>2, <2>3 DEF Grown
    <3>2. Missing(entries', file', cleared') = {}
      BY <3>1, NoneMissing
    <3>3. QED
      BY <1>1, <1>5, <2>2, <3>2
  <2>4. CASE ~HasAssistant(entries')
    BY <2>2, <2>4 DEF Losses
  <2>5. QED
    BY <2>3, <2>4
<1>8. CASE ForkOfUnreadable
  <2>1. cleared' = Ids(entries) /\ entries' = entries /\ torn' = FALSE /\ faults' = faults
    BY <1>8 DEF ForkOfUnreadable, memory
  <2>2. Missing(entries', file', cleared') = {}
    BY <2>1 DEF Missing
  <2>3. QED
    BY <1>1, <1>5, <2>1, <2>2
<1>9. QED
  BY <1>2, <1>3, <1>4, <1>6, <1>7, <1>8, Steps

LEMMA TypesImplied ==
  ASSUME Base, Preps, Closed
  PROVE  TypeOK
<1>1. /\ created \in Nat /\ MaxEntries \in Nat /\ created \in 0..MaxEntries
      /\ Grown(entries, created) /\ leaf \in 0..created /\ labels \subseteq IdRange
      /\ Holds(entries, file)
  BY SessionAssumption DEF Base, Stored
<1>2. ASSUME NEW i \in DOMAIN entries
      PROVE  /\ entries[i].id \in IdRange /\ entries[i].parent \in {0} \union IdRange
             /\ entries[i].kind \in EntryKinds
  <2>1. entries[i] \in Entries /\ entries[i].parent < entries[i].id
    BY <1>1 DEF Grown
  <2>2. /\ entries[i].id \in IdRange /\ entries[i].id \in Nat /\ entries[i].id <= MaxEntries
        /\ entries[i].parent \in Nat /\ entries[i].kind \in EntryKinds
    BY <2>1, EntryIs
  <2>3. QED
    BY <1>1, <2>1, <2>2 DEF IdRange
<1>3. ASSUME NEW i \in DOMAIN file PROVE file[i] \in {Header, Junk} \/ file[i].id \in IdRange
  <2>1. file[i] \in Lines
    BY <1>1 DEF Holds
  <2>2. QED
    BY <2>1, EntryIs DEF Lines
<1>4. leaf \in {0} \union (IF faults = 0 THEN Ids(entries) ELSE IdRange)
  BY <1>1 DEF Closed, IdRange
<1>5. QED
  BY <1>1, <1>2, <1>3, <1>4 DEF TypeOK, Base, Stored, Preps

LEMMA TreeImplied ==
  ASSUME Base, Closed
  PROVE  TreeIntact
<1>1. created \in Nat /\ Grown(entries, created) /\ entries \in Seq(Entries)
  BY SessionAssumption DEF Base, Grown
<1> SUFFICES ASSUME faults = 0, NEW i \in DOMAIN entries
             PROVE  /\ entries[i].id \notin Ids(SubSeq(entries, 1, i - 1))
                    /\ entries[i].parent \in {0} \union Ids(SubSeq(entries, 1, i - 1))
  BY DEF TreeIntact
<1> DEFINE p == SubSeq(entries, 1, i - 1)
<1>2. i \in 1..Len(entries) /\ Len(entries) \in Nat
  BY <1>1
<1>3. p \in Seq(Entries) /\ DOMAIN p = 1..(i - 1) /\ \A j \in 1..(i - 1) : p[j] = entries[j]
  <2>1. PICK m \in Nat : m = i - 1
    BY <1>2
  <2>2. /\ SubSeq(entries, 1, m) \in Seq(Entries) /\ DOMAIN SubSeq(entries, 1, m) = 1..m
        /\ \A j \in 1..m : SubSeq(entries, 1, m)[j] = entries[j]
    BY <1>1, <1>2, <2>1
  <2>3. QED
    BY <2>1, <2>2
<1> HIDE DEF p
<1>4. \A j \in DOMAIN entries : entries[j].id \in Nat /\ entries[j].id >= 1
  <2>1. \A j \in DOMAIN entries : entries[j] \in Entries
    BY <1>1
  <2>2. QED
    BY <2>1, EntryIs
<1>5. entries[i].id \notin Ids(p)
  <2> SUFFICES ASSUME NEW j \in DOMAIN p, p[j].id = entries[i].id PROVE FALSE
    BY IdsOf
  <2>1. j \in DOMAIN entries /\ j < i /\ p[j] = entries[j]
    BY <1>2, <1>3
  <2>2. entries[j].id < entries[i].id
    BY <1>1, <2>1 DEF Grown
  <2>3. QED
    BY <1>4, <2>1, <2>2
<1>6. entries[i].parent \in {0} \union Ids(p)
  <2>1. entries[i].parent \in {0} \union Ids(entries)
    BY DEF Closed
  <2>2. CASE entries[i].parent \in Ids(entries)
    <3>1. PICK j \in DOMAIN entries : entries[j].id = entries[i].parent
      BY <2>2, IdsOf
    <3>2. entries[j].id < entries[i].id
      BY <1>1, <3>1 DEF Grown
    <3>3. j < i
      <4>1. j \in Nat /\ i \in Nat /\ ~(i < j) /\ j # i
        <5>1. i < j => entries[i].id < entries[j].id
          BY <1>1 DEF Grown
        <5>2. QED
          BY <1>1, <1>2, <1>4, <3>2, <5>1
      <4>2. QED
        BY <4>1
    <3>4. j \in DOMAIN p /\ p[j] = entries[j]
      BY <1>1, <1>2, <1>3, <3>3
    <3>5. QED
      BY <3>1, <3>4, IdsOf
  <2>3. QED
    BY <2>1, <2>2
<1>7. QED
  BY <1>5, <1>6 DEF p

LEMMA LossImplied ==
  ASSUME Base, Losses
  PROVE  LossBounded
<1>1. /\ created \in Nat /\ Grown(entries, created) /\ Holds(entries, file)
      /\ file \in Seq(Lines) /\ faults \in Nat /\ torn \in BOOLEAN
  BY SessionAssumption DEF Base, Stored, Holds
<1> SUFFICES ASSUME flushed, Header \in ToSet(file)
             PROVE  Cardinality(Ids(entries) \ (Ids(Loaded) \union cleared)) <= 2 * faults
  BY DEF LossBounded
<1>2. PICK i \in DOMAIN file : file[i] = Header
  BY DEF ToSet
<1>3. file # <<>> /\ file[1] = Header
  <2>1. i = 1
    BY <1>1, <1>2 DEF Holds
  <2>2. QED
    BY <1>1, <1>2, <2>1
<1>4. Ids(entries) \ (Ids(Loaded) \union cleared) = Missing(entries, file, cleared)
  BY <1>1, <1>3, ReadableIs, LineIdsLoaded DEF Missing
<1>5. Cardinality(Missing(entries, file, cleared)) \in Nat /\ Owed(file, torn) \in Nat
  BY <1>1, IdsFinite DEF Owed
<1>6. Cardinality(Missing(entries, file, cleared)) + Owed(file, torn) <= 2 * faults
  BY <1>3 DEF Losses
<1> DEFINE A == Cardinality(Missing(entries, file, cleared))
           B == Owed(file, torn)
<1>7. A \in Nat /\ B \in Nat /\ A + B <= 2 * faults
  BY <1>5, <1>6
<1> HIDE DEF A, B
<1>8. A <= 2 * faults
  BY <1>1, <1>7
<1>9. QED
  BY <1>4, <1>8 DEF A

------------------------------------------------------------------------------
(* Where a path is cut *)

LEMMA LastCompactionIs ==
  ASSUME NEW p \in Seq(Entries)
  PROVE  /\ LastCompaction(p) \in 0..Len(p) /\ Len(p) \in Nat
         /\ LastCompaction(p) # 0 => LastCompaction(p) \in DOMAIN p /\ IsCompaction(p[LastCompaction(p)])
         /\ \A i \in DOMAIN p : IsCompaction(p[i]) => i <= LastCompaction(p)
<1> DEFINE T == {0} \union {i \in DOMAIN p : IsCompaction(p[i])}
<1>1. Len(p) \in Nat /\ DOMAIN p = 1..Len(p)
  OBVIOUS
<1>2. T \in SUBSET Nat /\ T # {} /\ \A y \in T : y <= Len(p)
  BY <1>1
<1> HIDE DEF T
<1>3. Max(T) \in T /\ \A y \in T : Max(T) >= y
  BY <1>1, <1>2, MaxIs
<1>4. LastCompaction(p) = Max(T)
  BY DEF LastCompaction, T
<1>5. \A i \in DOMAIN p : IsCompaction(p[i]) => i \in T /\ i \in Nat
  BY <1>1 DEF T
<1>6. Max(T) \in 0..Len(p) /\ (Max(T) # 0 => Max(T) \in DOMAIN p /\ IsCompaction(p[Max(T)]))
  BY <1>1, <1>3 DEF T
<1>7. QED
  BY <1>1, <1>3, <1>4, <1>5, <1>6

\* Where entry n is on a path.
LEMMA AtIs ==
  ASSUME NEW p \in Seq(Entries), Rising(p), NEW n, At(p, n) # {}
  PROVE  /\ Min(At(p, n)) \in DOMAIN p /\ p[Min(At(p, n))].id = n
         /\ \A i \in DOMAIN p : p[i].id = n => i = Min(At(p, n))
<1>1. At(p, n) \in SUBSET Nat
  BY DEF At
<1>2. Min(At(p, n)) \in At(p, n)
  BY <1>1, MinIs
<1> DEFINE q == Min(At(p, n))
<1>3. q \in DOMAIN p /\ p[q].id = n
  BY <1>2 DEF At
<1> HIDE DEF q
<1>4. \A i \in DOMAIN p : p[i].id = n => i = q
  BY <1>3, PathOnce
<1>5. QED
  BY <1>3, <1>4 DEF q

LEMMA PrefixRising ==
  ASSUME NEW p \in Seq(Entries), Rising(p), NEW k \in DOMAIN p
  PROVE  SubSeq(p, 1, k) \in Seq(Entries) /\ Rising(SubSeq(p, 1, k))
<1> DEFINE s == SubSeq(p, 1, k)
<1>1. s \in Seq(Entries) /\ DOMAIN s = 1..k /\ 1..k \subseteq DOMAIN p /\ \A i \in 1..k : s[i] = p[i]
  BY PrefixIs
<1> HIDE DEF s
<1>2. Rising(s)
  BY <1>1 DEF Rising
<1>3. QED
  BY <1>1, <1>2 DEF s

\* The same entry is kept wherever the path is looked at.
LEMMA AtPrefix ==
  ASSUME NEW p \in Seq(Entries), Rising(p), NEW k \in DOMAIN p, NEW n, At(SubSeq(p, 1, k), n) # {}
  PROVE  /\ At(p, n) # {} /\ Min(At(p, n)) = Min(At(SubSeq(p, 1, k), n))
         /\ Min(At(p, n)) \in 1..k
<1> DEFINE s == SubSeq(p, 1, k)
<1>1. s \in Seq(Entries) /\ Rising(s)
  BY PrefixRising
<1>2. DOMAIN s = 1..k /\ 1..k \subseteq DOMAIN p /\ \A i \in 1..k : s[i] = p[i]
  BY PrefixIs
<1>3. At(s, n) # {}
  OBVIOUS
<1> HIDE DEF s
<1>4. Min(At(s, n)) \in DOMAIN s /\ s[Min(At(s, n))].id = n
  BY <1>1, <1>3, AtIs
<1>5. Min(At(s, n)) \in DOMAIN p /\ p[Min(At(s, n))].id = n
  BY <1>2, <1>4
<1>6. At(p, n) # {}
  BY <1>5 DEF At
<1>7. Min(At(s, n)) = Min(At(p, n))
  BY <1>5, <1>6, AtIs
<1>8. QED
  BY <1>2, <1>4, <1>6, <1>7 DEF s

LEMMA BoundaryIs ==
  ASSUME NEW p \in Seq(Entries), Rising(p),
         \A i \in DOMAIN p : IsCompaction(p[i]) => p[i].kept < p[i].id
  PROVE  LET prev == LastCompaction(p)
             start == BoundaryStart(p)
         IN  /\ start \in 1..(Len(p) + 1) /\ Len(p) \in Nat /\ prev \in 0..Len(p)
             /\ prev = 0 => start = 1
             /\ prev # 0 =>
                  /\ prev \in DOMAIN p /\ IsCompaction(p[prev])
                  /\ \/ At(p, p[prev].kept) # {} /\ start \in 1..prev /\ p[start].id = p[prev].kept
                     \/ At(p, p[prev].kept) = {} /\ start = prev + 1
<1> DEFINE prev == LastCompaction(p)
           start == BoundaryStart(p)
<1>1. /\ prev \in 0..Len(p) /\ Len(p) \in Nat /\ DOMAIN p = 1..Len(p)
      /\ prev # 0 => prev \in DOMAIN p /\ IsCompaction(p[prev])
  BY LastCompactionIs
<1> HIDE DEF prev
<1>2. start = IF prev = 0 THEN 1
              ELSE IF At(p, p[prev].kept) # {} THEN Min(At(p, p[prev].kept)) ELSE prev + 1
  BY DEF BoundaryStart, prev
<1> HIDE DEF start
<1>3. CASE prev = 0
  BY <1>1, <1>2, <1>3 DEF prev, start
<1>4. CASE prev # 0 /\ At(p, p[prev].kept) = {}
  BY <1>1, <1>2, <1>4 DEF prev, start
<1>5. CASE prev # 0 /\ At(p, p[prev].kept) # {}
  <2>1. start = Min(At(p, p[prev].kept))
    BY <1>2, <1>5
  <2>2. start \in DOMAIN p /\ p[start].id = p[prev].kept
    BY <1>5, <2>1, AtIs
  <2>3. p[start].id < p[prev].id
    BY <1>1, <1>5, <2>2
  <2>4. start < prev
    BY <1>1, <1>5, <2>2, <2>3, PathOnce
  <2>5. start \in 1..prev /\ start \in 1..(Len(p) + 1)
    BY <1>1, <2>2, <2>4
  <2>6. QED
    BY <1>1, <1>5, <2>2, <2>5 DEF prev, start
<1>6. QED
  BY <1>3, <1>4, <1>5

\* Only entries that are no messages of a turn come between the first entry
\* kept and one where a path may be cut.
Opens(p, first, b) ==
  /\ b \in first..Len(p) /\ InContext(p[b]) /\ p[b].kind # "toolResult"
  /\ \A j \in first..(b - 1) : ~IsMessage(p[j]) /\ ~IsCompaction(p[j])

LEMMA CutIs ==
  ASSUME NEW p \in Seq(Entries), NEW start \in 1..(Len(p) + 1), NEW reached,
         FirstKept(p, start, reached) \in DOMAIN p
  PROVE  LET cut == FirstKept(p, start, reached)
         IN  /\ cut \in start..Len(p)
             /\ CutPoints(p, start) # {} => \E b \in start..Len(p) : Opens(p, cut, b)
             /\ CutPoints(p, start) = {} => cut = start
             /\ IsSplitTurn(p, start, cut) => TurnStart(p, start, cut) \in start..cut
<1> DEFINE cut == FirstKept(p, start, reached)
<1>0. Len(p) \in Nat /\ DOMAIN p = 1..Len(p) /\ start \in Nat /\ start >= 1
  OBVIOUS
<1>1. CASE CutPoints(p, start) = {}
  <2>1. cut = start /\ cut \in DOMAIN p
    BY <1>1 DEF FirstKept
  <2>2. ~IsSplitTurn(p, start, cut)
    BY <1>1 DEF IsSplitTurn
  <2> HIDE DEF cut
  <2>3. cut \in start..Len(p)
    BY <1>0, <2>1
  <2>4. QED
    BY <1>1, <2>1, <2>2, <2>3 DEF cut
<1>2. CASE CutPoints(p, start) # {}
  <2> DEFINE b == BudgetCut(p, start, reached)
             later == {i \in CutPoints(p, start) : i >= reached}
             T == {i \in start..b :
                     \A j \in i..(b - 1) : ~IsMessage(p[j]) /\ ~IsCompaction(p[j])}
  <2>1. CutPoints(p, start) \in SUBSET Nat /\ later \in SUBSET Nat
    BY <1>0 DEF CutPoints
  <2>2. b \in CutPoints(p, start)
    <3>1. CASE reached # 0 /\ later # {}
      <4>1. b = Min(later)
        BY <3>1 DEF BudgetCut
      <4>2. Min(later) \in later
        BY <2>1, <3>1, MinIs
      <4>3. QED
        BY <4>1, <4>2
    <3>2. CASE ~(reached # 0 /\ later # {})
      <4>1. b = Min(CutPoints(p, start))
        BY <3>2 DEF BudgetCut
      <4>2. QED
        BY <1>2, <2>1, <4>1, MinIs
    <3>3. QED
      BY <3>1, <3>2
  <2>3. cut = ScanBack(p, start, b)
    BY <1>2 DEF FirstKept
  <2>4. cut = Min(T)
    BY <2>3 DEF ScanBack
  <2> HIDE DEF b, cut
  <2>5. b \in start..Len(p) /\ InContext(p[b]) /\ p[b].kind # "toolResult"
    BY <2>2 DEF CutPoints
  <2>6. T \in SUBSET Nat /\ b \in T
    <3>1. b \in start..b /\ \A j \in b..(b - 1) : FALSE
      BY <1>0, <2>5
    <3>2. b \in T
      BY <3>1
    <3>3. T \in SUBSET Nat
      BY <1>0, <2>5
    <3>4. QED
      BY <3>2, <3>3
  <2>7. cut \in T
    BY <2>4, <2>6, MinIs
  <2>8. cut \in start..Len(p) /\ b \in cut..Len(p) /\ b \in start..Len(p)
    BY <1>0, <2>5, <2>7
  <2>9. Opens(p, cut, b)
    BY <2>5, <2>7, <2>8 DEF Opens
  <2>10. IsSplitTurn(p, start, cut) => TurnStart(p, start, cut) \in start..cut
    <3> SUFFICES ASSUME IsSplitTurn(p, start, cut) PROVE TurnStart(p, start, cut) \in start..cut
      OBVIOUS
    <3> DEFINE U == {0} \union {i \in start..cut :
                       p[i].kind \in {"user", "bash", "custom_message", "branch_summary"}}
    <3>1. U \in SUBSET Nat /\ U # {} /\ cut \in Nat /\ \A y \in U : y <= cut
      BY <1>0, <2>8
    <3>2. TurnStart(p, start, cut) = Max(U) /\ Max(U) # 0
      BY DEF IsSplitTurn, TurnStart
    <3> HIDE DEF U
    <3>3. Max(U) \in U
      BY <3>1, MaxIs
    <3>4. QED
      BY <3>2, <3>3 DEF U
  <2>11. QED
    BY <1>2, <2>8, <2>9, <2>10 DEF cut
<1>3. QED
  BY <1>1, <1>2

------------------------------------------------------------------------------
(* What summaries account for *)

\* What a compaction entry says of the path before what it keeps.
Accounted(es, x) ==
  x.kind = "compaction" =>
    /\ x.kept \in 1..(x.id - 1) /\ x.covers \subseteq 1..(x.kept - 1)
    /\ ~x.forgets => Accounts(Path(es, x.kept), x.kept, x.covers)

Histories == \A i \in DOMAIN entries : Accounted(entries, entries[i])

LEMMA MessageIdsOf ==
  ASSUME NEW p, NEW lo, NEW hi, NEW n
  PROVE  n \in MessageIds(p, lo, hi) <=> \E i \in lo..(hi - 1) : InContext(p[i]) /\ p[i].id = n
BY DEF MessageIds

\* The parts of a plan.
LEMMA PreparedParts ==
  ASSUME NEW p, NEW reached
  PROVE  LET prev == LastCompaction(p)
             start == BoundaryStart(p)
             cut == FirstKept(p, start, reached)
             plan == Prepared(p, reached)
             split == IsSplitTurn(p, start, cut)
             turn == TurnStart(p, start, cut)
             earlier == IF prev = 0 THEN {} ELSE p[prev].covers
         IN  /\ plan.kept = p[cut].id
             /\ split => Covers(plan) = MessageIds(p, turn, cut) \union
                           (IF Forgets(plan) THEN {} ELSE MessageIds(p, start, turn) \union earlier)
             /\ ~split => Covers(plan) = MessageIds(p, start, cut) \union earlier /\ ~Forgets(plan)
             /\ Forgets(plan) \in BOOLEAN
             /\ Forgets(plan) => prev # 0
<1> DEFINE prev == LastCompaction(p)
           start == BoundaryStart(p)
           cut == FirstKept(p, start, reached)
           plan == Prepared(p, reached)
           split == IsSplitTurn(p, start, cut)
           turn == TurnStart(p, start, cut)
           earlier == IF prev = 0 THEN {} ELSE p[prev].covers
           to == MessageIds(p, start, IF split THEN turn ELSE cut)
           prefix == IF split THEN MessageIds(p, turn, cut) ELSE {}
<1>1. /\ plan.kept = p[cut].id /\ plan.toSummarize = to /\ plan.turnPrefix = prefix
      /\ plan.again = (prev # 0) /\ plan.previous = earlier
  BY DEF Prepared
<1> HIDE DEF prev, start, cut, plan, turn, earlier
<1>2. split \in BOOLEAN
  BY DEF IsSplitTurn
<1> HIDE DEF split
<1>3. Forgets(plan) <=> prev # 0 /\ prefix # {} /\ to = {}
  BY <1>1 DEF Forgets, NoHistory
<1>4. Covers(plan) = prefix \union (IF prefix # {} /\ to = {} THEN {} ELSE to \union earlier)
  BY <1>1 DEF Covers, NoHistory, Summary
<1>5. prev = 0 => earlier = {}
  BY DEF earlier
<1>6. Forgets(plan) \in BOOLEAN
  BY DEF Forgets, NoHistory
<1>7. CASE split
  <2>1. to = MessageIds(p, start, turn) /\ prefix = MessageIds(p, turn, cut)
    BY <1>7
  <2> HIDE DEF to, prefix
  <2>2. Covers(plan) = prefix \union (IF Forgets(plan) THEN {} ELSE to \union earlier)
    BY <1>3, <1>4, <1>5
  <2>3. QED
    BY <1>1, <1>3, <1>6, <1>7, <2>1, <2>2 DEF prev, start, cut, plan, split, turn, earlier
<1>8. CASE ~split
  <2>1. to = MessageIds(p, start, cut) /\ prefix = {}
    BY <1>8
  <2> HIDE DEF to, prefix
  <2>2. Covers(plan) = to \union earlier /\ ~Forgets(plan)
    BY <1>3, <1>4, <2>1
  <2>3. QED
    BY <1>1, <1>3, <1>6, <1>8, <2>1, <2>2 DEF prev, start, cut, plan, split, turn, earlier
<1>9. QED
  BY <1>2, <1>7, <1>8

LEMMA PrepareAccounts ==
  ASSUME Base, Histories, PrepareCompaction
  PROVE  Planned'
<1> DEFINE p == Path(entries, leaf)
<1>1. PICK reached \in BudgetPoints(p) :
        /\ CanCompact(p, reached)
        /\ prep' = [on |-> TRUE, from |-> leaf, lossy |-> Lossy(p), plan |-> Prepared(p, reached)]
        /\ UNCHANGED <<memory, disk, created, cleared>>
  BY DEF PrepareCompaction
<1> DEFINE prev == LastCompaction(p)
           start == BoundaryStart(p)
           cut == FirstKept(p, start, reached)
           plan == Prepared(p, reached)
           split == IsSplitTurn(p, start, cut)
           turn == TurnStart(p, start, cut)
           earlier == IF prev = 0 THEN {} ELSE p[prev].covers
<1>2. /\ created \in Nat /\ MaxEntries \in Nat /\ created <= MaxEntries /\ Grown(entries, created)
      /\ leaf \in 0..created /\ leaf \in 0..MaxEntries
  BY SessionAssumption DEF Base
<1>3. Leads(entries, leaf, p)
  BY <1>2, PathLeads
<1>4. p # <<>> /\ cut \in DOMAIN p
  BY <1>1 DEF CanCompact
<1>5. leaf \in 1..created
  <2>1. leaf \in Ids(entries)
    BY <1>3, <1>4 DEF Leads
  <2>2. QED
    BY <1>2, <2>1, Parents
<1>6. /\ prep'.lossy = Lossy(p) /\ prep'.from = leaf /\ prep'.plan = plan
      /\ entries' = entries /\ created' = created
  BY <1>1 DEF memory
<1>7. \A k \in DOMAIN p : /\ Path(entries, p[k].id) = SubSeq(p, 1, k) /\ p[k].id \in 0..MaxEntries
  BY <1>2, PathPrefix
<1> HIDE DEF p
<1>8. p \in Seq(Entries) /\ Rising(p) /\ Len(p) \in Nat /\ DOMAIN p = 1..Len(p)
  BY <1>3 DEF Leads
<1>9. ASSUME NEW k \in DOMAIN p
      PROVE  /\ Accounted(entries, p[k]) /\ p[k].id \in 1..created /\ p[k].id \in Nat
             /\ (p[k].kind = "compaction" <=> IsCompaction(p[k]))
  <2>1. PICK i \in DOMAIN entries : p[k] = entries[i]
    BY <1>3 DEF Leads
  <2>2. p[k].id \in 1..created
    BY <1>2, <2>1, Parents, IdsOf
  <2>3. QED
    BY <2>1, <2>2 DEF Histories, IsCompaction
<1>10. \A i \in DOMAIN p : IsCompaction(p[i]) => p[i].kept < p[i].id /\ p[i].kept \in Nat
  <2>1. ASSUME NEW i \in DOMAIN p, IsCompaction(p[i]) PROVE p[i].kept < p[i].id /\ p[i].kept \in Nat
    <3>1. p[i].kept \in 1..(p[i].id - 1) /\ p[i].id \in Nat
      BY <1>9, <2>1 DEF Accounted
    <3>2. QED
      BY <3>1
  <2>2. QED
    BY <2>1
<1>11. /\ start \in 1..(Len(p) + 1) /\ prev \in 0..Len(p)
       /\ prev = 0 => start = 1
       /\ prev # 0 =>
            /\ prev \in DOMAIN p /\ IsCompaction(p[prev])
            /\ \/ At(p, p[prev].kept) # {} /\ start \in 1..prev /\ p[start].id = p[prev].kept
               \/ At(p, p[prev].kept) = {} /\ start = prev + 1
  BY <1>8, <1>10, BoundaryIs
<1> HIDE DEF prev, start
<1>12. cut \in start..Len(p) /\ (split => turn \in start..cut)
  BY <1>4, <1>8, <1>11, CutIs
<1>13. /\ plan.kept = p[cut].id
       /\ split => Covers(plan) = MessageIds(p, turn, cut) \union
                     (IF Forgets(plan) THEN {} ELSE MessageIds(p, start, turn) \union earlier)
       /\ ~split => Covers(plan) = MessageIds(p, start, cut) \union earlier /\ ~Forgets(plan)
       /\ Forgets(plan) \in BOOLEAN
       /\ Forgets(plan) => prev # 0
  BY PreparedParts DEF prev, start
<1> HIDE DEF cut, plan, split, turn
<1>14. plan.kept \in 1..created /\ plan.kept = p[cut].id
  BY <1>4, <1>9, <1>13
<1>15. \A lo \in start..cut, hi \in start..cut : \A n \in MessageIds(p, lo, hi) : n \in 1..(p[cut].id - 1)
  <2>1. ASSUME NEW lo \in start..cut, NEW hi \in start..cut, NEW n \in MessageIds(p, lo, hi)
        PROVE  n \in 1..(p[cut].id - 1)
    <3>1. PICK i \in lo..(hi - 1) : p[i].id = n
      BY MessageIdsOf
    <3>2. i \in DOMAIN p /\ i < cut
      BY <1>8, <1>11, <1>12
    <3>3. p[i].id < p[cut].id
      BY <1>4, <1>8, <3>2 DEF Rising
    <3>4. p[i].id \in 1..created /\ p[cut].id \in 1..created
      BY <1>4, <1>9, <3>2
    <3>5. QED
      BY <3>1, <3>3, <3>4
  <2>2. QED
    BY <2>1
<1>16. earlier \subseteq 1..(p[cut].id - 1)
  <2>1. CASE prev = 0
    BY <2>1
  <2>2. CASE prev # 0
    <3>1. /\ p[prev].covers \subseteq 1..(p[prev].kept - 1) /\ p[prev].kept \in 1..(p[prev].id - 1)
      BY <1>9, <1>11, <2>2 DEF Accounted
    <3>2. p[prev].kept <= p[cut].id
      <4>1. CASE start \in 1..prev /\ p[start].id = p[prev].kept
        <5>1. start \in DOMAIN p /\ (start = cut \/ start < cut)
          BY <1>4, <1>8, <1>12, <4>1, <1>11, <2>2
        <5>2. p[start].id = p[cut].id \/ p[start].id < p[cut].id
          BY <1>4, <1>8, <5>1 DEF Rising
        <5>3. p[start].id \in 1..created /\ p[cut].id \in 1..created
          BY <1>4, <1>9, <5>1
        <5>4. QED
          BY <4>1, <5>2, <5>3
      <4>2. CASE start = prev + 1
        <5>1. prev < cut
          BY <1>8, <1>11, <1>12, <4>2
        <5>2. p[prev].id < p[cut].id
          BY <1>4, <1>8, <1>11, <2>2, <5>1 DEF Rising
        <5>3. p[prev].id \in 1..created /\ p[cut].id \in 1..created
          BY <1>4, <1>9, <1>11, <2>2
        <5>4. QED
          BY <3>1, <5>2, <5>3
      <4>3. QED
        BY <1>11, <2>2, <4>1, <4>2
    <3>3. p[cut].id \in Nat /\ p[prev].kept \in Nat
      BY <1>4, <1>9, <1>10, <1>11, <2>2
    <3>4. earlier = p[prev].covers
      BY <2>2
    <3>5. QED
      BY <3>1, <3>2, <3>3, <3>4
  <2>3. QED
    BY <2>1, <2>2
<1>17. start \in start..cut /\ cut \in start..cut /\ (split => turn \in start..cut)
  BY <1>8, <1>11, <1>12
<1>18. Covers(plan) \subseteq 1..(plan.kept - 1)
  <2>1. CASE split
    BY <1>13, <1>14, <1>15, <1>16, <1>17, <2>1
  <2>2. CASE ~split
    BY <1>13, <1>14, <1>15, <1>16, <1>17, <2>2
  <2>3. QED
    BY <2>1, <2>2
<1>19. Lossy(p) \in BOOLEAN
  <2>1. prev # 0 => p[prev].forgets \in BOOLEAN
    <3>1. prev # 0 => p[prev] \in Entries /\ p[prev].kind = "compaction"
      BY <1>8, <1>9, <1>11
    <3>2. QED
      BY <3>1, EntryIs
  <2>2. QED
    BY <2>1 DEF Lossy, prev
<1>20. ASSUME ~(Lossy(p) \/ Forgets(plan)) PROVE Accounts(Path(entries, plan.kept), plan.kept, Covers(plan))
  <2> DEFINE s == SubSeq(p, 1, cut)
  <2>1. Path(entries, plan.kept) = s
    BY <1>4, <1>7, <1>14
  <2>2. DOMAIN s = 1..cut /\ 1..cut \subseteq DOMAIN p /\ (\A i \in 1..cut : s[i] = p[i]) /\ cut \in Nat
    BY <1>4, <1>8, PrefixIs
  <2> HIDE DEF s
  <2>3. ASSUME NEW i \in DOMAIN s, InContext(s[i]), s[i].id < plan.kept
        PROVE  s[i].id \in Covers(plan)
    <3>1. i \in DOMAIN p /\ s[i] = p[i] /\ InContext(p[i]) /\ p[i].id < p[cut].id
      BY <1>14, <2>2, <2>3
    <3>2. i < cut
      BY <1>4, <1>8, <3>1, PathOnce
    <3>3. CASE i >= start
      <4>1. CASE split
        <5>1. i \in start..(turn - 1) \/ i \in turn..(cut - 1)
          BY <1>8, <1>11, <1>12, <3>1, <3>2, <3>3, <4>1
        <5>2. p[i].id \in MessageIds(p, start, turn) \/ p[i].id \in MessageIds(p, turn, cut)
          BY <3>1, <5>1, MessageIdsOf
        <5>3. QED
          BY <1>13, <1>20, <3>1, <4>1, <5>2
      <4>2. CASE ~split
        <5>1. i \in start..(cut - 1)
          BY <1>8, <1>11, <1>12, <3>1, <3>2, <3>3
        <5>2. p[i].id \in MessageIds(p, start, cut)
          BY <3>1, <5>1, MessageIdsOf
        <5>3. QED
          BY <1>13, <3>1, <4>2, <5>2
      <4>3. QED
        BY <4>1, <4>2
    <3>4. CASE i < start
      <4>1. prev # 0
        BY <1>8, <1>11, <3>1, <3>4
      <4>2. /\ ~p[prev].forgets /\ At(SubSeq(p, 1, prev), p[prev].kept) # {}
        BY <1>20, <4>1 DEF Lossy, prev
      <4>3. At(p, p[prev].kept) # {}
        BY <1>8, <1>11, <4>1, <4>2, AtPrefix
      <4>4. start \in 1..prev /\ p[start].id = p[prev].kept /\ prev \in DOMAIN p
        BY <1>11, <4>1, <4>3
      <4>5. start \in DOMAIN p
        BY <1>8, <4>4
      <4>6. Accounts(Path(entries, p[prev].kept), p[prev].kept, p[prev].covers)
        BY <1>9, <1>11, <4>1, <4>2 DEF Accounted
      <4>7. Path(entries, p[prev].kept) = SubSeq(p, 1, start)
        BY <1>7, <4>4, <4>5
      <4>8. DOMAIN SubSeq(p, 1, start) = 1..start /\ \A j \in 1..start : SubSeq(p, 1, start)[j] = p[j]
        BY <1>8, <4>5, PrefixIs
      <4>9. i \in 1..start /\ p[i].id < p[start].id
        BY <1>8, <3>1, <3>4, <4>5 DEF Rising
      <4>10. p[i].id \in p[prev].covers
        BY <3>1, <4>4, <4>6, <4>7, <4>8, <4>9 DEF Accounts
      <4>11. p[i].id \in earlier
        BY <4>1, <4>10
      <4>12. QED
        BY <1>13, <1>20, <3>1, <4>11
    <3>5. QED
      BY <1>8, <1>11, <3>1, <3>3, <3>4
  <2>4. QED
    BY <2>1, <2>3 DEF Accounts
<1>21. QED
  BY <1>5, <1>6, <1>13, <1>14, <1>18, <1>19, <1>20 DEF Planned

\* Each entry of path q is one of path p, but for its parent.
Within(q, p) == \A k \in DOMAIN q : \E l \in DOMAIN p : Same(q[k], p[l])

LEMMA SameIs ==
  ASSUME NEW e, NEW f, Same(e, f)
  PROVE  e.id = f.id /\ e.kind = f.kind /\ (InContext(e) <=> InContext(f))
         /\ (IsMessage(e) <=> IsMessage(f)) /\ (IsCompaction(e) <=> IsCompaction(f))
BY DEF Same, InContext, IsMessage, IsCompaction

LEMMA AccountedWithin ==
  ASSUME NEW es, NEW fs, NEW e, NEW f, Same(f, e), Accounted(es, e),
         e.kind = "compaction" => Within(Path(fs, e.kept), Path(es, e.kept))
  PROVE  Accounted(fs, f)
<1> SUFFICES ASSUME f.kind = "compaction" PROVE Accounted(fs, f)
  BY DEF Accounted
<1>1. /\ f.id = e.id /\ e.kind = "compaction" /\ f.kept = e.kept /\ f.covers = e.covers
      /\ f.forgets = e.forgets
  BY DEF Same
<1> DEFINE p == Path(es, e.kept)
           q == Path(fs, e.kept)
<1>2. Within(q, p)
  BY <1>1
<1> HIDE DEF p, q
<1>3. Accounts(p, e.kept, e.covers) => Accounts(q, e.kept, e.covers)
  BY <1>2, SameIs DEF Accounts, Within
<1>4. QED
  BY <1>1, <1>3 DEF Accounted, p, q

LEMMA SameSelf ==
  ASSUME NEW e
  PROVE  Same(e, e)
BY DEF Same

LEMMA ReopenWithin ==
  ASSUME Base, NEW n \in 0..MaxEntries
  PROVE  Within(Path(Loaded, n), Path(entries, n))
<1>1. /\ created \in Nat /\ Grown(entries, created) /\ Holds(entries, file)
  BY SessionAssumption DEF Base, Stored
<1>2. Grown(Loaded, created) /\ \A i \in DOMAIN Loaded : \E j \in DOMAIN entries : Loaded[i] = entries[j]
  BY <1>1, LoadedIs
<1>3. \A k \in DOMAIN Path(Loaded, n) : \E l \in DOMAIN Path(entries, n) :
        Path(Loaded, n)[k] = Path(entries, n)[l]
  BY <1>1, <1>2, PathShrinks
<1>4. QED
  BY <1>3, SameSelf DEF Within

\* A position of a session that was forked, and where its entry was.
LEMMA ForkPosition ==
  ASSUME Base, NEW target, ForkAt(target)
  PROVE  LET p == Path(Loaded, target)
             re == Rechained(p)
         IN  /\ p \in Seq(Entries) /\ Rising(p) /\ re \in Seq(Entries) /\ DOMAIN re \subseteq DOMAIN entries'
             /\ \A k \in DOMAIN p : Path(Loaded, p[k].id) = SubSeq(p, 1, k)
             /\ \A k \in DOMAIN re : entries'[k] = re[k]
             /\ \A k \in DOMAIN entries' : Path(entries', entries'[k].id) = SubSeq(entries', 1, k)
             /\ \A k \in DOMAIN entries' : entries'[k].id <= created => k \in DOMAIN re
             /\ \A k \in DOMAIN entries' : entries'[k].kind # "label" => k \in DOMAIN re
             /\ \E g : Copies(re, p, DOMAIN p \ LabelsAt(p), g)
<1> DEFINE p == Path(Loaded, target)
           re == Rechained(p)
<1>1. /\ target \in 0..MaxEntries /\ Grown(Loaded, created) /\ Leads(Loaded, target, p)
      /\ re \in Seq(Entries) /\ created' \in 0..MaxEntries
      /\ Grown(entries', created') /\ Chained(entries')
      /\ Len(entries') >= Len(re) /\ Len(re) \in Nat
      /\ \A i \in DOMAIN re : entries'[i] = re[i]
      /\ \A i \in DOMAIN entries' : i \notin DOMAIN re => entries'[i] \in Marks
      /\ \A i \in DOMAIN entries' : i \notin DOMAIN re => entries'[i].id > created
  BY ForkIs
<1>2. created \in Nat /\ created' \in Nat
  BY <1>1, SessionAssumption DEF Base
<1>3. \A k \in DOMAIN p : Path(Loaded, p[k].id) = SubSeq(p, 1, k)
  BY <1>1, <1>2, PathPrefix
<1> HIDE DEF p
<1>4. p \in Seq(Entries) /\ Rising(p)
  BY <1>1 DEF Leads
<1>5. \E g : Copies(re, p, DOMAIN p \ LabelsAt(p), g)
  BY <1>4, RechainedIs
<1> HIDE DEF re
<1>6. DOMAIN re \subseteq DOMAIN entries'
  <2>1. entries' \in Seq(Entries)
    BY <1>1 DEF Grown
  <2>2. QED
    BY <1>1, <2>1
<1>7. \A k \in DOMAIN entries' : Path(entries', entries'[k].id) = SubSeq(entries', 1, k)
  BY <1>1, <1>2, PathOfChain
<1>8. ASSUME NEW k \in DOMAIN entries', entries'[k].id <= created PROVE k \in DOMAIN re
  <2>1. entries'[k].id \in Nat
    <3>1. entries'[k] \in Entries
      BY <1>1 DEF Grown
    <3>2. QED
      BY <3>1, EntryIs
  <2>2. QED
    BY <1>1, <1>2, <1>8, <2>1
<1>9. \A k \in DOMAIN entries' : entries'[k].kind # "label" => k \in DOMAIN re
  BY <1>1 DEF Marks
<1>10. QED
  BY <1>1, <1>3, <1>4, <1>5, <1>6, <1>7, <1>8, <1>9 DEF p, re

LEMMA ForkWithin ==
  ASSUME Base, NEW target, ForkAt(target), NEW n \in 0..created
  PROVE  Within(Path(entries', n), Path(entries, n))
<1> DEFINE p == Path(Loaded, target)
           re == Rechained(p)
<1>1. /\ p \in Seq(Entries) /\ Rising(p) /\ re \in Seq(Entries) /\ DOMAIN re \subseteq DOMAIN entries'
      /\ \A k \in DOMAIN p : Path(Loaded, p[k].id) = SubSeq(p, 1, k)
      /\ \A k \in DOMAIN re : entries'[k] = re[k]
      /\ \A k \in DOMAIN entries' : Path(entries', entries'[k].id) = SubSeq(entries', 1, k)
      /\ \A k \in DOMAIN entries' : entries'[k].id <= created => k \in DOMAIN re
  BY ForkPosition
<1>2. PICK g : Copies(re, p, DOMAIN p \ LabelsAt(p), g)
  BY ForkPosition
<1> HIDE DEF p, re
<1>3. created \in Nat /\ MaxEntries \in Nat /\ created <= MaxEntries /\ n \in 0..MaxEntries
      /\ n <= created
  BY SessionAssumption DEF Base
<1>4. Within(Path(Loaded, n), Path(entries, n))
  BY <1>3, ReopenWithin
<1>5. /\ created' \in Nat /\ Grown(entries', created') /\ entries' \in Seq(Entries)
      /\ n \in 0..MaxEntries
  <2>1. created' \in 0..MaxEntries /\ Grown(entries', created')
    BY ForkIs
  <2>2. QED
    BY <1>3, <2>1 DEF Grown
<1>6. CASE n \notin Ids(entries')
  <2>1. Path(entries', n) = <<>> /\ DOMAIN <<>> = {}
    BY <1>5, <1>6, PathSteps
  <2>2. QED
    BY <2>1 DEF Within
<1>7. CASE n \in Ids(entries')
  <2>1. PICK j \in DOMAIN entries' : entries'[j].id = n
    BY <1>7, IdsOf
  <2>2. j \in DOMAIN re
    BY <1>1, <1>3, <2>1
  <2> DEFINE q == SubSeq(entries', 1, j)
             s == SubSeq(p, 1, g[j])
  <2>3. Path(entries', n) = q
    BY <1>1, <2>1
  <2>4. /\ DOMAIN q = 1..j /\ 1..j \subseteq DOMAIN entries' /\ \A i \in 1..j : q[i] = entries'[i]
    BY <1>5, PrefixIs
  <2>5. g[j] \in DOMAIN p /\ Same(re[j], p[g[j]])
    BY <1>2, <2>2 DEF Copies
  <2>6. p[g[j]].id = n
    BY <1>1, <2>1, <2>2, <2>5 DEF Same
  <2>7. Path(Loaded, n) = s
    BY <1>1, <2>5, <2>6
  <2>8. /\ DOMAIN s = 1..g[j] /\ \A i \in 1..g[j] : s[i] = p[i]
    BY <1>1, <2>5, PrefixIs
  <2> HIDE DEF q, s
  <2>9. ASSUME NEW k \in DOMAIN q PROVE \E l \in DOMAIN Path(entries, n) : Same(q[k], Path(entries, n)[l])
    <3>1. k \in DOMAIN re /\ (k = j \/ k < j) /\ q[k] = re[k]
      BY <1>1, <2>2, <2>4
    <3>2. g[k] \in DOMAIN p /\ Same(re[k], p[g[k]]) /\ (g[k] = g[j] \/ g[k] < g[j])
      BY <1>2, <2>2, <3>1 DEF Copies
    <3>3. g[k] \in 1..g[j]
      BY <1>1, <2>5, <3>2
    <3>4. g[k] \in DOMAIN Path(Loaded, n) /\ Path(Loaded, n)[g[k]] = p[g[k]]
      BY <2>7, <2>8, <3>3
    <3>5. PICK l \in DOMAIN Path(entries, n) : Same(p[g[k]], Path(entries, n)[l])
      BY <1>4, <3>4 DEF Within
    <3>6. Same(q[k], Path(entries, n)[l])
      BY <3>1, <3>2, <3>5 DEF Same
    <3>7. QED
      BY <3>6
  <2>10. QED
    BY <2>3, <2>9 DEF Within
<1>8. QED
  BY <1>6, <1>7

LEMMA HistoryStep ==
  ASSUME Base, Preps, Histories, [Next]_vars
  PROVE  Histories' /\ Preps'
<1>1. /\ created \in Nat /\ MaxEntries \in Nat /\ created <= MaxEntries
      /\ Grown(entries, created) /\ Holds(entries, file)
  BY SessionAssumption DEF Base, Stored
<1>2. ASSUME NEW i \in DOMAIN entries
      PROVE  /\ entries[i] \in Entries /\ entries[i].id \in 1..created
             /\ entries[i].kind = "compaction" =>
                  entries[i].kept \in 0..created /\ entries[i].kept \in 0..MaxEntries
  <2>1. entries[i] \in Entries /\ entries[i].id \in 1..created
    BY <1>1, IdsOf, Parents DEF Grown
  <2>2. entries[i].kind = "compaction" => entries[i].kept \in 1..(entries[i].id - 1)
    BY DEF Histories, Accounted
  <2>3. QED
    BY <1>1, <2>1, <2>2
<1>3. ASSUME NEW e, Adds(e) PROVE Histories' /\ Preps'
  <2>1. Follows(entries, created, e) /\ AppendEntry(e)
    BY <1>3 DEF Adds
  <2>2. /\ entries' = Append(entries, e) /\ created' = created + 1 /\ created < MaxEntries
        /\ e.id = created + 1 /\ e \in Entries
    BY <2>1 DEF AppendEntry, Follows
  <2>3. \A n \in 0..created : Path(entries', n) = Path(entries, n)
    BY <1>1, <2>1, <2>2, PathGrows
  <2>4. /\ DOMAIN entries' = 1..(Len(entries) + 1) /\ DOMAIN entries = 1..Len(entries)
        /\ Len(entries) \in Nat
        /\ \A i \in DOMAIN entries : entries'[i] = entries[i]
        /\ entries'[Len(entries) + 1] = e
    BY <1>1, <2>2, AppendIs DEF Grown
  <2>5. ASSUME NEW i \in DOMAIN entries PROVE Accounted(entries', entries[i])
    <3>1. Accounted(entries, entries[i])
      BY DEF Histories
    <3>2. entries[i].kind = "compaction" => Path(entries', entries[i].kept) = Path(entries, entries[i].kept)
      BY <1>2, <2>3
    <3>3. QED
      BY <3>1, <3>2 DEF Accounted
  <2>6. Accounted(entries', e)
    <3> SUFFICES ASSUME e.kind = "compaction" PROVE Accounted(entries', e)
      BY DEF Accounted
    <3>1. /\ prep.on /\ e.kept = prep.plan.kept /\ e.covers = Covers(prep.plan)
          /\ e.forgets = (prep.lossy \/ Forgets(prep.plan))
      BY <1>3 DEF Adds
    <3>2. Planned
      BY <3>1 DEF Preps
    <3>3. e.kept \in 1..(e.id - 1) /\ e.kept \in 0..created
      BY <1>1, <2>2, <3>1, <3>2 DEF Planned
    <3>4. Path(entries', e.kept) = Path(entries, e.kept)
      BY <2>3, <3>3
    <3>5. QED
      BY <3>1, <3>2, <3>3, <3>4 DEF Planned, Accounted
  <2>7. Histories'
    <3>1. ASSUME NEW i \in DOMAIN entries' PROVE Accounted(entries', entries'[i])
      <4>1. i \in DOMAIN entries \/ entries'[i] = e
        BY <2>4
      <4>2. QED
        BY <2>4, <2>5, <2>6, <4>1
    <3>2. QED
      BY <3>1 DEF Histories
  <2>8. Preps'
    <3>1. prep' = prep \/ prep' = NoPrep
      BY <1>3 DEF Adds
    <3>2. CASE prep' = NoPrep
      BY <3>2 DEF Preps, NoPrep
    <3>3. CASE prep' = prep
      <4>1. Planned => Planned'
        <5> SUFFICES ASSUME Planned PROVE Planned'
          OBVIOUS
        <5>1. prep.plan.kept \in 0..created /\ prep.plan.kept \in 1..created'
              /\ prep.from \in 1..created'
          BY <1>1, <2>2 DEF Planned
        <5>2. Path(entries', prep.plan.kept) = Path(entries, prep.plan.kept)
          BY <2>3, <5>1
        <5>3. QED
          BY <3>3, <5>1, <5>2 DEF Planned
      <4>2. QED
        BY <3>3, <4>1 DEF Preps
    <3>4. QED
      BY <3>1, <3>2, <3>3
  <2>9. QED
    BY <2>7, <2>8
<1>4. CASE Navigate \/ ForkOfUnreadable \/ UNCHANGED vars
  <2>1. UNCHANGED <<entries, created, prep>>
    BY <1>4 DEF Navigate, ForkOfUnreadable, vars, memory
  <2>2. QED
    BY <2>1 DEF Histories, Preps, Planned
<1>5. CASE PrepareCompaction
  <2>1. entries' = entries /\ prep'.on = TRUE
    BY <1>5 DEF PrepareCompaction, memory
  <2>2. Planned'
    BY <1>5, PrepareAccounts
  <2>3. QED
    BY <2>1, <2>2 DEF Histories, Preps
<1>6. CASE AbandonCompaction
  BY <1>6 DEF AbandonCompaction, memory, Histories, Preps, NoPrep
<1>7. CASE NewSession
  BY <1>7 DEF NewSession, Histories, Preps, NoPrep
<1>8. CASE Reopen
  <2>1. entries' = Loaded /\ prep' = NoPrep
    BY <1>8 DEF Reopen
  <2>2. \A i \in DOMAIN Loaded : \E j \in DOMAIN entries : Loaded[i] = entries[j]
    BY <1>1, LoadedIs
  <2>3. ASSUME NEW i \in DOMAIN Loaded PROVE Accounted(Loaded, Loaded[i])
    <3>1. PICK j \in DOMAIN entries : Loaded[i] = entries[j]
      BY <2>2
    <3>2. Accounted(entries, entries[j])
      BY DEF Histories
    <3>3. entries[j].kind = "compaction" =>
            Within(Path(Loaded, entries[j].kept), Path(entries, entries[j].kept))
      BY <1>2, ReopenWithin
    <3>4. Same(Loaded[i], entries[j])
      BY <3>1, SameSelf
    <3>5. QED
      BY <3>2, <3>3, <3>4, AccountedWithin
  <2>4. QED
    BY <2>1, <2>3 DEF Histories, Preps, NoPrep
<1>9. CASE Fork
  <2>1. PICK target : ForkAt(target)
    BY <1>9 DEF Fork
  <2> DEFINE p == Path(Loaded, target)
             re == Rechained(p)
  <2>2. /\ p \in Seq(Entries) /\ \A k \in DOMAIN re : entries'[k] = re[k]
        /\ \A k \in DOMAIN entries' : entries'[k].kind # "label" => k \in DOMAIN re
    BY <2>1, ForkPosition
  <2>3. PICK g : Copies(re, p, DOMAIN p \ LabelsAt(p), g)
    BY <2>1, ForkPosition
  <2>4. Leads(Loaded, target, p) /\ prep' = NoPrep
    BY <2>1, ForkIs
  <2>5. \A i \in DOMAIN Loaded : \E j \in DOMAIN entries : Loaded[i] = entries[j]
    BY <1>1, LoadedIs
  <2> HIDE DEF p, re
  <2>6. ASSUME NEW i \in DOMAIN entries' PROVE Accounted(entries', entries'[i])
    <3> SUFFICES ASSUME entries'[i].kind = "compaction" PROVE Accounted(entries', entries'[i])
      BY DEF Accounted
    <3>1. i \in DOMAIN re /\ entries'[i] = re[i]
      BY <2>2
    <3>2. g[i] \in DOMAIN p /\ Same(re[i], p[g[i]])
      BY <2>3, <3>1 DEF Copies
    <3>3. \E k \in DOMAIN Loaded : p[g[i]] = Loaded[k]
      BY <2>4, <3>2 DEF Leads
    <3>4. PICK j \in DOMAIN entries : p[g[i]] = entries[j]
      BY <2>5, <3>3
    <3>5. Accounted(entries, entries[j]) /\ Same(entries'[i], entries[j])
      BY <3>1, <3>2, <3>4 DEF Histories
    <3>6. entries[j].kind = "compaction" =>
            Within(Path(entries', entries[j].kept), Path(entries, entries[j].kept))
      BY <1>2, <2>1, ForkWithin
    <3>7. QED
      BY <3>5, <3>6, AccountedWithin
  <2>7. QED
    BY <2>4, <2>6 DEF Histories, Preps, NoPrep
<1>10. QED
  BY <1>3, <1>4, <1>5, <1>6, <1>7, <1>8, <1>9, Steps

LEMMA HistoryImplied ==
  ASSUME Base, Histories
  PROVE  HistoryAccounted
<1> DEFINE path == Path(entries, leaf)
<1>1. /\ created \in Nat /\ MaxEntries \in Nat /\ created <= MaxEntries /\ Grown(entries, created)
      /\ leaf \in 0..MaxEntries
  BY SessionAssumption DEF Base
<1>2. Leads(entries, leaf, path)
  BY <1>1, PathLeads
<1>3. \A k \in DOMAIN path : Path(entries, path[k].id) = SubSeq(path, 1, k)
  BY <1>1, PathPrefix
<1> HIDE DEF path
<1>4. path \in Seq(Entries) /\ Rising(path)
  BY <1>2 DEF Leads
<1> SUFFICES ASSUME NEW p \in DOMAIN path, IsCompaction(path[p]), ~path[p].forgets,
                    At(SubSeq(path, 1, p), path[p].kept) # {},
                    NEW i \in 1..(p - 1), InContext(path[i])
             PROVE  (path[i].id \in path[p].covers)
                      # (i >= Min(At(SubSeq(path, 1, p), path[p].kept)))
  BY DEF HistoryAccounted, path
<1> DEFINE q == Min(At(SubSeq(path, 1, p), path[p].kept))
           kept == path[p].kept
<1>5. q = Min(At(path, kept)) /\ At(path, kept) # {} /\ q \in 1..p
  BY <1>4, AtPrefix
<1>6. q \in DOMAIN path /\ path[q].id = kept
  BY <1>4, <1>5, AtIs
<1> HIDE DEF q
<1>7. i \in DOMAIN path /\ i \in Nat /\ q \in Nat
  BY <1>4, <1>6
<1>8. path[i].id \in Nat /\ path[q].id \in Nat /\ (path[i].id < path[q].id <=> i < q)
  BY <1>4, <1>6, <1>7, PathOnce
<1>9. /\ path[p].covers \subseteq 1..(kept - 1)
      /\ Accounts(Path(entries, kept), kept, path[p].covers)
  <2>1. PICK j \in DOMAIN entries : path[p] = entries[j]
    BY <1>2 DEF Leads
  <2>2. Accounted(entries, path[p])
    BY <2>1 DEF Histories
  <2>3. QED
    BY <2>2 DEF Accounted, IsCompaction
<1>10. ASSUME i < q PROVE path[i].id \in path[p].covers
  <2>1. Path(entries, kept) = SubSeq(path, 1, q)
    BY <1>3, <1>6
  <2>2. /\ DOMAIN SubSeq(path, 1, q) = 1..q /\ \A j \in 1..q : SubSeq(path, 1, q)[j] = path[j]
    BY <1>4, <1>6, PrefixIs
  <2>3. i \in 1..q /\ path[i].id < kept
    BY <1>6, <1>7, <1>8, <1>10
  <2>4. QED
    BY <1>9, <2>1, <2>2, <2>3 DEF Accounts
<1>11. ASSUME ~(i < q) PROVE path[i].id \notin path[p].covers
  BY <1>6, <1>8, <1>9, <1>11
<1>12. (path[i].id \in path[p].covers) # (i >= q)
  BY <1>7, <1>10, <1>11
<1>13. QED
  BY <1>12 DEF q

------------------------------------------------------------------------------
(* Results and their calls *)

\* Only settings and labels come between position j, a call or a result, and n.
Answers(p, n, j) ==
  /\ j \in 1..(n - 1) /\ p[j].kind \in {"assistant", "toolResult"}
  /\ \A k \in (j + 1)..(n - 1) : p[k].kind \in {"setting", "label"}

\* What position n of a path rests on: a result on its call, a compaction that
\* was appended below the entry it was prepared at on where it cut the path.
CleanAt(p, n) ==
  /\ p[n].kind = "toolResult" => \E j \in 1..(n - 1) : Answers(p, n, j)
  /\ p[n].kind = "compaction" /\ ~p[n].moved =>
       \A i \in 1..(n - 1) : p[i].id = p[n].kept => \E b \in i..(n - 1) : Opens(p, i, b)

Clean(p) == \A n \in DOMAIN p : CleanAt(p, n)

LEMMA CleanAtSame ==
  ASSUME NEW p \in Seq(Entries), NEW q \in Seq(Entries), NEW n \in DOMAIN p, n \in DOMAIN q,
         \A i \in 1..n : q[i] = p[i], CleanAt(p, n)
  PROVE  CleanAt(q, n)
<1>1. /\ n \in Nat /\ n >= 1 /\ q[n] = p[n] /\ \A i \in 1..(n - 1) : q[i] = p[i]
      /\ Len(p) \in Nat /\ Len(q) \in Nat /\ n <= Len(p) /\ n <= Len(q)
  OBVIOUS
<1>2. ASSUME q[n].kind = "toolResult" PROVE \E j \in 1..(n - 1) : Answers(q, n, j)
  <2>1. PICK j \in 1..(n - 1) : Answers(p, n, j)
    BY <1>1, <1>2 DEF CleanAt
  <2>2. \A k \in (j + 1)..(n - 1) : q[k] = p[k]
    BY <1>1
  <2>3. q[j] = p[j]
    BY <1>1
  <2>4. Answers(q, n, j)
    BY <2>1, <2>2, <2>3 DEF Answers
  <2>5. QED
    BY <2>4
<1>3. ASSUME q[n].kind = "compaction", ~q[n].moved, NEW i \in 1..(n - 1), q[i].id = q[n].kept
      PROVE  \E b \in i..(n - 1) : Opens(q, i, b)
  <2>1. PICK b \in i..(n - 1) : Opens(p, i, b)
    BY <1>1, <1>3 DEF CleanAt
  <2>2. b \in i..Len(q) /\ q[b] = p[b] /\ \A j \in i..(b - 1) : q[j] = p[j]
    BY <1>1
  <2>3. Opens(q, i, b)
    BY <2>1, <2>2 DEF Opens
  <2>4. QED
    BY <2>3
<1>4. QED
  BY <1>2, <1>3 DEF CleanAt

LEMMA CleanPrefix ==
  ASSUME NEW p \in Seq(Entries), Clean(p), NEW k \in DOMAIN p
  PROVE  Clean(SubSeq(p, 1, k))
<1> DEFINE s == SubSeq(p, 1, k)
<1>1. s \in Seq(Entries) /\ DOMAIN s = 1..k /\ 1..k \subseteq DOMAIN p /\ \A i \in 1..k : s[i] = p[i]
      /\ k \in Nat
  BY PrefixIs
<1> HIDE DEF s
<1>2. ASSUME NEW n \in DOMAIN s PROVE CleanAt(s, n)
  <2>1. n \in DOMAIN p /\ \A i \in 1..n : s[i] = p[i]
    BY <1>1
  <2>2. CleanAt(p, n)
    BY <2>1 DEF Clean
  <2>3. QED
    BY <1>1, <2>1, <2>2, CleanAtSame
<1>3. QED
  BY <1>2 DEF Clean, s

LEMMA CleanAppend ==
  ASSUME NEW q \in Seq(Entries), Clean(q), NEW e \in Entries,
         CleanAt(Append(q, e), Len(q) + 1)
  PROVE  Clean(Append(q, e))
<1> DEFINE p == Append(q, e)
<1>1. /\ p \in Seq(Entries) /\ DOMAIN p = 1..(Len(q) + 1) /\ DOMAIN q = 1..Len(q) /\ Len(q) \in Nat
      /\ \A i \in DOMAIN q : p[i] = q[i]
  BY AppendIs
<1> HIDE DEF p
<1>2. ASSUME NEW n \in DOMAIN p PROVE CleanAt(p, n)
  <2>1. CASE n = Len(q) + 1
    BY <2>1 DEF p
  <2>2. CASE n # Len(q) + 1
    <3>1. n \in DOMAIN q /\ \A i \in 1..n : p[i] = q[i]
      BY <1>1, <2>2
    <3>2. CleanAt(q, n)
      BY <3>1 DEF Clean
    <3>3. QED
      BY <1>1, <3>1, <3>2, CleanAtSame
  <2>3. QED
    BY <2>1, <2>2
<1>3. QED
  BY <1>2 DEF Clean, p

\* So it is with the copy that a fork makes, which leaves the labels out.
LEMMA CleanCopies ==
  ASSUME NEW p \in Seq(Entries), Rising(p), Clean(p), NEW w \in Seq(Entries),
         NEW g, Copies(w, p, DOMAIN p \ LabelsAt(p), g)
  PROVE  Clean(w)
<1> DEFINE picked == DOMAIN p \ LabelsAt(p)
<1>1. /\ \A k \in DOMAIN w : g[k] \in picked /\ Same(w[k], p[g[k]])
      /\ \A k, l \in DOMAIN w : k < l => g[k] < g[l]
      /\ \A i \in picked : \E k \in DOMAIN w : g[k] = i
  BY DEF Copies
<1>2. \A i \in DOMAIN p : i \in picked <=> p[i].kind # "label"
  BY DEF LabelsAt
<1>3. picked \subseteq DOMAIN p /\ DOMAIN p = 1..Len(p) /\ Len(p) \in Nat
      /\ DOMAIN w = 1..Len(w) /\ Len(w) \in Nat
  OBVIOUS
<1> HIDE DEF picked
<1>4. ASSUME NEW k \in DOMAIN w
      PROVE  g[k] \in DOMAIN p /\ w[k].kind = p[g[k]].kind /\ w[k].id = p[g[k]].id
             /\ (w[k].kind = "compaction" => w[k].kept = p[g[k]].kept /\ w[k].moved = p[g[k]].moved)
  BY <1>1, <1>3 DEF Same
<1>5. ASSUME NEW k \in DOMAIN w, NEW l \in DOMAIN w PROVE k < l <=> g[k] < g[l]
  <2>1. k \in Nat /\ l \in Nat /\ g[k] \in Nat /\ g[l] \in Nat
    BY <1>3, <1>4
  <2>2. k < l \/ k = l \/ l < k
    BY <2>1
  <2>3. QED
    BY <1>1, <2>1, <2>2
<1>6. ASSUME NEW n \in DOMAIN w, w[n].kind = "toolResult"
      PROVE  \E j \in 1..(n - 1) : Answers(w, n, j)
  <2>1. g[n] \in DOMAIN p /\ p[g[n]].kind = "toolResult"
    BY <1>4, <1>6
  <2>2. PICK i \in 1..(g[n] - 1) : Answers(p, g[n], i)
    BY <2>1 DEF Clean, CleanAt
  <2>3. i \in DOMAIN p /\ p[i].kind \in {"assistant", "toolResult"} /\ i < g[n]
    BY <1>3, <2>1, <2>2 DEF Answers
  <2>4. PICK j \in DOMAIN w : g[j] = i
    BY <1>1, <1>2, <2>3
  <2>5. j \in 1..(n - 1) /\ w[j].kind \in {"assistant", "toolResult"}
    <3>1. j < n
      BY <1>5, <2>3, <2>4
    <3>2. QED
      BY <1>3, <1>4, <2>3, <2>4, <3>1
  <2>6. ASSUME NEW k \in (j + 1)..(n - 1) PROVE w[k].kind \in {"setting", "label"}
    <3>1. k \in DOMAIN w /\ j < k /\ k < n
      BY <1>3, <2>5
    <3>2. g[k] \in (i + 1)..(g[n] - 1)
      <4>1. g[j] < g[k] /\ g[k] < g[n]
        BY <1>5, <3>1
      <4>2. g[k] \in Nat /\ g[n] \in Nat /\ i \in Nat
        BY <1>3, <1>4, <2>3, <3>1
      <4>3. QED
        BY <2>4, <4>1, <4>2
    <3>3. QED
      BY <1>4, <2>2, <3>1, <3>2 DEF Answers
  <2>7. Answers(w, n, j)
    BY <2>5, <2>6 DEF Answers
  <2>8. QED
    BY <2>5, <2>7
<1>7. ASSUME NEW n \in DOMAIN w, w[n].kind = "compaction", ~w[n].moved,
             NEW i \in 1..(n - 1), w[i].id = w[n].kept
      PROVE  \E b \in i..(n - 1) : Opens(w, i, b)
  <2>1. i \in DOMAIN w /\ i < n
    BY <1>3
  <2>2. g[n] \in DOMAIN p /\ p[g[n]].kind = "compaction" /\ ~p[g[n]].moved
        /\ g[i] \in DOMAIN p /\ p[g[i]].id = p[g[n]].kept /\ g[i] < g[n]
    BY <1>4, <1>5, <1>7, <2>1
  <2>3. g[i] \in 1..(g[n] - 1)
    BY <1>3, <2>2
  <2>4. PICK c \in g[i]..(g[n] - 1) : Opens(p, g[i], c)
    BY <2>2, <2>3 DEF Clean, CleanAt
  <2>5. c \in DOMAIN p /\ InContext(p[c]) /\ p[c].kind # "toolResult" /\ c < g[n] /\ g[i] <= c
    BY <1>3, <2>2, <2>3, <2>4 DEF Opens
  <2>6. p[c].kind # "label"
    BY <2>5 DEF InContext, IsMessage, MessageKinds
  <2>7. PICK b \in DOMAIN w : g[b] = c
    BY <1>1, <1>2, <2>5, <2>6
  <2>8. b \in i..(n - 1)
    <3>1. b < n
      BY <1>5, <2>5, <2>7
    <3>2. ~(b < i)
      <4>1. b < i => g[b] < g[i]
        BY <1>5, <2>1
      <4>2. QED
        BY <1>3, <2>2, <2>5, <2>7, <4>1
    <3>3. QED
      BY <1>3, <2>1, <3>1, <3>2
  <2>9. ASSUME NEW j \in i..(b - 1) PROVE ~IsMessage(w[j]) /\ ~IsCompaction(w[j])
    <3>1. j \in DOMAIN w /\ j < b /\ (i < j \/ i = j)
      BY <1>3, <2>1, <2>7, <2>8
    <3>2. g[j] \in g[i]..(c - 1)
      <4>1. g[j] < c /\ (g[i] < g[j] \/ g[i] = g[j])
        BY <1>5, <2>1, <2>7, <3>1
      <4>2. g[j] \in Nat /\ g[i] \in Nat /\ c \in Nat
        BY <1>3, <1>4, <2>2, <2>5, <3>1
      <4>3. QED
        BY <4>1, <4>2
    <3>3. ~IsMessage(p[g[j]]) /\ ~IsCompaction(p[g[j]])
      BY <2>4, <3>2 DEF Opens
    <3>4. QED
      BY <1>4, <3>1, <3>3 DEF IsMessage, IsCompaction
  <2>10. Opens(w, i, b)
    <3>1. b \in i..Len(w)
      BY <1>3, <2>7, <2>8
    <3>2. InContext(w[b]) /\ w[b].kind # "toolResult"
      BY <1>4, <2>5, <2>7 DEF InContext, IsMessage
    <3>3. QED
      BY <2>9, <3>1, <3>2 DEF Opens
  <2>11. QED
    BY <2>8, <2>10
<1>8. QED
  BY <1>6, <1>7 DEF Clean, CleanAt

LEMMA NewestIs ==
  ASSUME NEW q \in Seq(Entries), Newest(q).kind \in {"assistant", "toolResult"}
  PROVE  \E j \in DOMAIN q : /\ q[j].kind \in {"assistant", "toolResult"}
                             /\ \A k \in (j + 1)..Len(q) : q[k].kind \in {"setting", "label"}
<1> DEFINE loud == {i \in DOMAIN q : q[i].kind \notin {"setting", "label"}}
<1>1. Len(q) \in Nat /\ DOMAIN q = 1..Len(q)
  OBVIOUS
<1>2. Newest(q) = IF loud = {} THEN Entry(0, 0, "none") ELSE q[Max(loud)]
  BY DEF Newest
<1>3. loud # {}
  BY <1>2 DEF Entry
<1>4. loud \in SUBSET Nat /\ \A y \in loud : y <= Len(q)
  BY <1>1
<1>5. \A i \in DOMAIN q : i \in loud <=> q[i].kind \notin {"setting", "label"}
  OBVIOUS
<1>6. loud \subseteq DOMAIN q
  OBVIOUS
<1> HIDE DEF loud
<1>7. Max(loud) \in loud /\ \A y \in loud : Max(loud) >= y
  BY <1>1, <1>3, <1>4, MaxIs
<1> DEFINE j == Max(loud)
<1>8. j \in DOMAIN q /\ q[j].kind \in {"assistant", "toolResult"}
  BY <1>2, <1>3, <1>6, <1>7
<1> HIDE DEF j
<1>9. ASSUME NEW k \in (j + 1)..Len(q) PROVE q[k].kind \in {"setting", "label"}
  <2>1. k \in DOMAIN q /\ ~(j >= k)
    BY <1>1, <1>8
  <2>2. k \notin loud
    BY <1>7, <2>1 DEF j
  <2>3. QED
    BY <1>5, <2>1, <2>2
<1>10. QED
  BY <1>8, <1>9

\* A compaction of the path to from keeps the entry kept.
PlanOpens(es, from, kept) ==
  \E i \in DOMAIN Path(es, from) :
    /\ Path(es, from)[i].id = kept
    /\ \E b \in i..Len(Path(es, from)) : Opens(Path(es, from), i, b)

LEMMA PrepareOpens ==
  ASSUME Base, Histories, PrepareCompaction
  PROVE  PlanOpens(entries, leaf, prep'.plan.kept) /\ prep'.from = leaf
<1> DEFINE p == Path(entries, leaf)
<1>1. PICK reached \in BudgetPoints(p) :
        /\ CanCompact(p, reached)
        /\ prep' = [on |-> TRUE, from |-> leaf, lossy |-> Lossy(p), plan |-> Prepared(p, reached)]
  BY DEF PrepareCompaction
<1> DEFINE start == BoundaryStart(p)
           cut == FirstKept(p, start, reached)
           plan == Prepared(p, reached)
<1>2. /\ created \in Nat /\ MaxEntries \in Nat /\ created <= MaxEntries /\ Grown(entries, created)
      /\ leaf \in 0..created /\ leaf \in 0..MaxEntries
  BY SessionAssumption DEF Base
<1>3. Leads(entries, leaf, p)
  BY <1>2, PathLeads
<1>4. cut \in DOMAIN p /\ plan.toSummarize \union plan.turnPrefix # {}
  BY <1>1 DEF CanCompact
<1>5. prep'.from = leaf /\ prep'.plan = plan
  BY <1>1
<1> HIDE DEF p
<1>6. p \in Seq(Entries) /\ Rising(p) /\ Len(p) \in Nat /\ DOMAIN p = 1..Len(p)
  BY <1>3 DEF Leads
<1>7. \A i \in DOMAIN p : IsCompaction(p[i]) => p[i].kept < p[i].id
  <2>1. ASSUME NEW i \in DOMAIN p, IsCompaction(p[i]) PROVE p[i].kept < p[i].id
    <3>1. PICK j \in DOMAIN entries : p[i] = entries[j]
      BY <1>3 DEF Leads
    <3>2. p[i].kept \in 1..(p[i].id - 1) /\ p[i].id \in Nat
      BY <1>6, <2>1, <3>1, EntryIs DEF Histories, Accounted, IsCompaction
    <3>3. QED
      BY <3>2
  <2>2. QED
    BY <2>1
<1>8. start \in 1..(Len(p) + 1)
  BY <1>6, <1>7, BoundaryIs
<1>9. plan.kept = p[cut].id
  BY DEF Prepared
<1>10. CutPoints(p, start) # {}
  <2> SUFFICES ASSUME CutPoints(p, start) = {} PROVE FALSE
    OBVIOUS
  <2>1. cut = start
    BY DEF FirstKept
  <2>2. ~IsSplitTurn(p, start, cut)
    BY DEF IsSplitTurn
  <2> HIDE DEF start, cut
  <2>3. plan.toSummarize = MessageIds(p, start, cut) /\ plan.turnPrefix = {}
    BY <2>2 DEF Prepared, start, cut
  <2>4. start..(start - 1) = {} /\ start \in Nat
    BY <1>8
  <2>5. MessageIds(p, start, start) = {}
    BY <2>4 DEF MessageIds
  <2>6. QED
    BY <1>4, <2>1, <2>3, <2>5
<1>11. \E b \in start..Len(p) : Opens(p, cut, b)
  BY <1>4, <1>6, <1>8, <1>10, CutIs
<1> HIDE DEF start, cut, plan
<1>12. \E b \in cut..Len(p) : Opens(p, cut, b)
  BY <1>11 DEF Opens
<1>13. PlanOpens(entries, leaf, plan.kept)
  BY <1>4, <1>9, <1>12 DEF PlanOpens, p
<1>14. QED
  BY <1>5, <1>13

\* As long as no write fails, every path is so, and so is what is planned.
Paired ==
  faults = 0 =>
    /\ \A n \in 0..MaxEntries : Clean(Path(entries, n))
    /\ prep.on => PlanOpens(entries, prep.from, prep.plan.kept)

LEMMA AddsClean ==
  ASSUME Base, Preps, Paired, faults = 0, NEW e, Adds(e), NEW q, q = Path(entries, e.parent)
  PROVE  q \in Seq(Entries) /\ e \in Entries /\ CleanAt(Append(q, e), Len(q) + 1)
<1>1. /\ created \in Nat /\ MaxEntries \in Nat /\ created <= MaxEntries /\ Grown(entries, created)
  BY SessionAssumption DEF Base
<1>2. e \in Entries /\ e.parent \in 0..created /\ e.parent \in 0..MaxEntries
  <2>1. e \in Entries /\ e.parent \in 0..created
    <3>1. e \in Entries /\ e.parent <= created
      BY DEF Adds, Follows
    <3>2. e.parent \in Nat
      BY <3>1, EntryIs
    <3>3. QED
      BY <1>1, <3>1, <3>2
  <2>2. QED
    BY <1>1, <2>1
<1>3. Leads(entries, e.parent, q)
  BY <1>1, <1>2, PathLeads
<1>4. q \in Seq(Entries) /\ Rising(q)
  BY <1>3 DEF Leads
<1> DEFINE p == Append(q, e)
           m == Len(q)
<1>5. /\ p \in Seq(Entries) /\ Len(p) = m + 1 /\ DOMAIN q = 1..m /\ m \in Nat
      /\ \A i \in 1..m : p[i] = q[i]
      /\ p[m + 1] = e /\ (m + 1) - 1 = m
  BY <1>2, <1>4, AppendIs
<1> HIDE DEF p, m
<1>6. ASSUME e.kind = "toolResult" PROVE \E j \in 1..m : Answers(p, m + 1, j)
  <2>1. TurnRuns /\ e.parent = leaf
    BY <1>6 DEF Adds
  <2>2. Newest(q).kind \in {"assistant", "toolResult"}
    BY <2>1 DEF TurnRuns
  <2>3. PICK j \in DOMAIN q : /\ q[j].kind \in {"assistant", "toolResult"}
                              /\ \A k \in (j + 1)..m : q[k].kind \in {"setting", "label"}
    BY <1>4, <2>2, NewestIs DEF m
  <2>4. j \in 1..m /\ \A k \in (j + 1)..m : k \in 1..m
    BY <1>5
  <2>5. Answers(p, m + 1, j)
    BY <1>5, <2>3, <2>4 DEF Answers
  <2>6. QED
    BY <2>4, <2>5
<1>7. ASSUME e.kind = "compaction", ~e.moved, NEW i \in 1..m, p[i].id = e.kept
      PROVE  \E b \in i..m : Opens(p, i, b)
  <2>1. /\ e.parent = leaf /\ prep.on /\ e.kept = prep.plan.kept
        /\ e.moved = (prep.from \notin Ids(Path(entries, leaf)))
    BY <1>7 DEF Adds
  <2>2. prep.from \in Ids(q)
    BY <1>7, <2>1
  <2>3. PICK k \in DOMAIN q : q[k].id = prep.from
    BY <2>2, IdsOf
  <2>4. Path(entries, prep.from) = SubSeq(q, 1, k)
    BY <1>1, <1>2, <2>3, PathPrefix
  <2> DEFINE s == SubSeq(q, 1, k)
  <2>5. /\ s \in Seq(Entries) /\ Len(s) = k /\ DOMAIN s = 1..k /\ 1..k \subseteq DOMAIN q
        /\ \A x \in 1..k : s[x] = q[x]
        /\ k \in Nat /\ k <= m
    BY <1>4, PrefixIs DEF m
  <2>6. PlanOpens(entries, prep.from, e.kept)
    BY <2>1 DEF Paired
  <2>7. PICK x \in DOMAIN s : s[x].id = e.kept /\ \E b \in x..k : Opens(s, x, b)
    BY <2>4, <2>5, <2>6 DEF PlanOpens
  <2> HIDE DEF s
  <2>8. x = i
    <3>1. x \in DOMAIN q /\ i \in DOMAIN q /\ q[x].id = q[i].id
      BY <1>5, <1>7, <2>5, <2>7
    <3>2. QED
      BY <1>4, <3>1, PathOnce
  <2>9. PICK b \in i..k : Opens(s, i, b)
    BY <2>7, <2>8
  <2>10. \A y \in i..b : p[y] = s[y]
    <3>1. \A y \in i..b : y \in 1..k /\ y \in 1..m
      <4>1. i \in Nat /\ i >= 1 /\ b \in Int /\ b <= k /\ m \in Nat
        BY <1>5
      <4>2. QED
        BY <2>5, <4>1
    <3>2. QED
      BY <1>5, <2>5, <3>1
  <2>11. b \in i..m /\ b \in i..Len(p) /\ b \in i..b /\ \A y \in i..(b - 1) : y \in i..b
    BY <1>5, <2>5
  <2>12. Opens(p, i, b)
    BY <2>9, <2>10, <2>11 DEF Opens
  <2>13. QED
    BY <2>11, <2>12
<1>8. CleanAt(p, m + 1)
  BY <1>5, <1>6, <1>7 DEF CleanAt
<1>9. QED
  BY <1>2, <1>4, <1>8 DEF p, m

LEMMA ForkClean ==
  ASSUME Base, FileExact, Paired, faults = 0, NEW target, ForkAt(target), NEW n \in 0..MaxEntries
  PROVE  Clean(Path(entries', n))
<1> DEFINE p == Path(Loaded, target)
           re == Rechained(p)
<1>1. /\ p \in Seq(Entries) /\ Rising(p) /\ re \in Seq(Entries) /\ DOMAIN re \subseteq DOMAIN entries'
      /\ \A k \in DOMAIN re : entries'[k] = re[k]
      /\ \A k \in DOMAIN entries' : Path(entries', entries'[k].id) = SubSeq(entries', 1, k)
      /\ \A k \in DOMAIN entries' : entries'[k].kind # "label" => k \in DOMAIN re
      /\ \E g : Copies(re, p, DOMAIN p \ LabelsAt(p), g)
  BY ForkPosition
<1>2. target \in 0..MaxEntries /\ target \in Ids(Loaded) /\ Readable
      /\ created' \in 0..MaxEntries /\ Grown(entries', created')
  BY ForkIs
<1>3. created' \in Nat /\ entries' \in Seq(Entries)
  BY <1>2, SessionAssumption DEF Grown
<1>4. Loaded = entries \/ Loaded = <<>>
  <2>1. Grown(entries, created) /\ created \in Nat /\ Holds(entries, file) /\ entries \in Seq(Entries)
        /\ exists \in BOOLEAN /\ (~exists => file = <<>>)
    BY SessionAssumption DEF Base, Stored, Grown
  <2>2. CASE exists
    <3>1. file = <<Header>> \o entries
      BY <2>2 DEF FileExact
    <3>2. QED
      BY <2>1, <3>1, LoadedWhole
  <2>3. CASE ~exists
    <3>1. ~Readable
      BY <2>1, <2>3, ReadableIs
    <3>2. QED
      BY <1>2, <3>1
  <2>4. QED
    BY <2>1, <2>2, <2>3
<1>5. Loaded = entries
  BY <1>2, <1>4, EmptyBase
<1>6. Clean(p)
  BY <1>2, <1>5 DEF Paired
<1>7. Clean(re)
  BY <1>1, <1>6, CleanCopies
<1> HIDE DEF p, re
<1>8. ASSUME NEW k \in DOMAIN entries' PROVE CleanAt(entries', k)
  <2>1. CASE entries'[k].kind = "label"
    BY <2>1 DEF CleanAt
  <2>2. CASE entries'[k].kind # "label"
    <3>1. k \in DOMAIN re /\ CleanAt(re, k)
      BY <1>1, <1>7, <2>2 DEF Clean
    <3>2. \A i \in 1..k : entries'[i] = re[i]
      <4>1. \A i \in 1..k : i \in DOMAIN re
        BY <1>1, <3>1
      <4>2. QED
        BY <1>1, <4>1
    <3>3. QED
      BY <1>1, <1>3, <3>1, <3>2, CleanAtSame
  <2>3. QED
    BY <2>1, <2>2
<1>9. Clean(entries')
  BY <1>8 DEF Clean
<1>10. CASE n \in Ids(entries')
  <2>1. PICK k \in DOMAIN entries' : entries'[k].id = n
    BY <1>10, IdsOf
  <2>2. Path(entries', n) = SubSeq(entries', 1, k)
    BY <1>1, <2>1
  <2>3. QED
    BY <1>3, <1>9, <2>2, CleanPrefix
<1>11. CASE n \notin Ids(entries')
  <2>1. Path(entries', n) = <<>>
    BY <1>2, <1>3, <1>11, PathSteps
  <2>2. QED
    BY <2>1 DEF Clean
<1>12. QED
  BY <1>10, <1>11

LEMMA EmptyPaths ==
  ASSUME NEW n \in 0..MaxEntries
  PROVE  Path(<<>>, n) = <<>> /\ Clean(<<>>)
<1>1. Grown(<<>>, 0) /\ 0 \in Nat /\ n \notin Ids(<<>>)
  BY EmptyBase
<1>2. Path(<<>>, n) = <<>>
  BY <1>1, PathSteps
<1>3. QED
  BY <1>2 DEF Clean

LEMMA PairedStep ==
  ASSUME Base, Preps, FileExact, Histories, Paired, [Next]_vars
  PROVE  Paired'
<1>1. faults' = 0 => faults = 0
  BY ExactStep
<1> SUFFICES ASSUME faults' = 0, faults = 0
             PROVE  /\ \A n \in 0..MaxEntries : Clean(Path(entries', n))
                    /\ prep'.on => PlanOpens(entries', prep'.from, prep'.plan.kept)
  BY <1>1 DEF Paired
<1>2. /\ created \in Nat /\ MaxEntries \in Nat /\ created <= MaxEntries
      /\ Grown(entries, created) /\ created \in 0..MaxEntries
  BY SessionAssumption DEF Base
<1>3. /\ \A n \in 0..MaxEntries : Clean(Path(entries, n))
      /\ prep.on => PlanOpens(entries, prep.from, prep.plan.kept) /\ prep.from \in 0..created
  <2>1. prep.on => prep.from \in 1..created
    BY DEF Preps, Planned
  <2>2. QED
    BY <1>2, <2>1 DEF Paired
<1>4. ASSUME NEW e, Adds(e)
      PROVE  /\ \A n \in 0..MaxEntries : Clean(Path(entries', n))
             /\ prep'.on => PlanOpens(entries', prep'.from, prep'.plan.kept)
  <2>1. Follows(entries, created, e) /\ AppendEntry(e) /\ (prep' = prep \/ prep' = NoPrep)
    BY <1>4 DEF Adds
  <2>2. /\ entries' = Append(entries, e) /\ created < MaxEntries
        /\ e.id = created + 1 /\ e \in Entries
    BY <2>1 DEF AppendEntry, Follows
  <2>3. /\ \A n \in 0..created : Path(entries', n) = Path(entries, n)
        /\ Path(entries', e.id) = Append(Path(entries, e.parent), e)
    BY <1>2, <2>1, <2>2, PathGrows
  <2>4. Grown(entries', created + 1) /\ created + 1 \in Nat
    BY <1>2, <2>1, <2>2, GrownGrows
  <2>5. e.parent \in 0..MaxEntries
    <3>1. e.parent \in Nat /\ e.parent <= created
      BY <2>1, EntryIs DEF Follows
    <3>2. QED
      BY <1>2, <3>1
  <2>6. ASSUME NEW n \in 0..MaxEntries PROVE Clean(Path(entries', n))
    <3>1. CASE n \in 0..created
      BY <1>3, <2>3, <3>1
    <3>2. CASE n = created + 1
      <4> DEFINE q == Path(entries, e.parent)
      <4>1. q \in Seq(Entries) /\ e \in Entries /\ CleanAt(Append(q, e), Len(q) + 1)
        BY <1>4, AddsClean
      <4>2. Clean(q)
        BY <1>3, <2>5
      <4> HIDE DEF q
      <4>3. Clean(Append(q, e))
        BY <4>1, <4>2, CleanAppend
      <4>4. QED
        BY <2>2, <2>3, <3>2, <4>3 DEF q
    <3>3. CASE n \notin 0..(created + 1)
      <4>1. n \notin Ids(entries')
        <5>1. n \in Ids(entries') => n \in 1..(created + 1)
          BY <2>4, Parents
        <5>2. QED
          BY <1>2, <3>3, <5>1
      <4>2. Path(entries', n) = <<>>
        BY <2>4, <4>1, PathSteps
      <4>3. QED
        BY <4>2, EmptyPaths
    <3>4. QED
      BY <1>2, <3>1, <3>2, <3>3
  <2>7. prep'.on => PlanOpens(entries', prep'.from, prep'.plan.kept)
    <3>1. CASE prep' = NoPrep
      BY <3>1 DEF NoPrep
    <3>2. CASE prep' = prep
      <4> SUFFICES ASSUME prep.on PROVE PlanOpens(entries', prep.from, prep.plan.kept)
        BY <3>2
      <4>1. Path(entries', prep.from) = Path(entries, prep.from)
        BY <1>3, <2>3
      <4>2. QED
        BY <1>3, <4>1 DEF PlanOpens
    <3>3. QED
      BY <2>1, <3>1, <3>2
  <2>8. QED
    BY <2>6, <2>7
<1>5. CASE entries' = entries /\ prep' = prep
  BY <1>3, <1>5
<1>6. CASE (entries' = entries \/ entries' = <<>>) /\ prep' = NoPrep
  <2>1. ~prep'.on
    BY <1>6 DEF NoPrep
  <2>2. \A n \in 0..MaxEntries : Clean(Path(entries', n))
    BY <1>3, <1>6, EmptyPaths
  <2>3. QED
    BY <2>1, <2>2
<1>7. CASE Navigate \/ UNCHANGED vars
  <2>1. entries' = entries /\ prep' = prep
    BY <1>7 DEF Navigate, vars, memory
  <2>2. QED
    BY <1>5, <2>1
<1>8. CASE PrepareCompaction
  <2>1. entries' = entries
    BY <1>8 DEF PrepareCompaction, memory
  <2>2. PlanOpens(entries, leaf, prep'.plan.kept) /\ prep'.from = leaf
    BY <1>8, PrepareOpens
  <2>3. QED
    BY <1>3, <2>1, <2>2
<1>9. CASE AbandonCompaction \/ NewSession
  <2>1. (entries' = entries \/ entries' = <<>>) /\ prep' = NoPrep
    BY <1>9 DEF AbandonCompaction, NewSession, memory
  <2>2. QED
    BY <1>6, <2>1
<1>10. CASE Reopen
  <2>1. (entries' = entries \/ entries' = <<>>) /\ prep' = NoPrep
    <3>1. prep' = NoPrep
      BY <1>10 DEF Reopen
    <3>2. entries' = entries \/ entries' = <<>>
      BY <1>10, ReopenSame
    <3>3. QED
      BY <3>1, <3>2
  <2>2. QED
    BY <1>6, <2>1
<1>11. CASE Fork
  <2>1. PICK target : ForkAt(target)
    BY <1>11 DEF Fork
  <2>2. prep' = NoPrep
    BY <2>1 DEF ForkAt
  <2>3. ~prep'.on
    BY <2>2 DEF NoPrep
  <2>4. \A n \in 0..MaxEntries : Clean(Path(entries', n))
    BY <2>1, ForkClean
  <2>5. QED
    BY <2>3, <2>4
<1>12. QED
  BY <1>4, <1>7, <1>8, <1>9, <1>10, <1>11, Steps, UnreadableFailed

\* A result that is shown comes right after its call or another result.
LEMMA ShownPaired ==
  ASSUME NEW p \in Seq(Entries), NEW first \in Nat,
         \A i \in DOMAIN p : i >= first /\ p[i].kind = "toolResult" =>
           \E j \in 1..(i - 1) : j >= first /\ Answers(p, i, j)
  PROVE  LET w == Shown(p, first)
         IN  /\ w \in Seq(Entries)
             /\ \A k \in DOMAIN w : w[k].kind = "toolResult" =>
                  k > 1 /\ w[k - 1].kind \in {"assistant", "toolResult"}
<1> DEFINE w == Shown(p, first)
           picked == {i \in DOMAIN p : i >= first /\ InContext(p[i])}
<1>1. picked \in SUBSET DOMAIN p
  OBVIOUS
<1>2. \A i \in DOMAIN p : i \in picked <=> i >= first /\ InContext(p[i])
  OBVIOUS
<1>3. w = Picked(p, picked)
  BY DEF Shown
<1> HIDE DEF w, picked
<1>4. w \in Seq(Entries) /\ \E g : Embeds(w, p, picked, g)
  BY <1>1, <1>3, PickedEmbeds
<1>5. PICK g : Embeds(w, p, picked, g)
  BY <1>4
<1>6. /\ \A k \in DOMAIN w : g[k] \in picked /\ w[k] = p[g[k]]
      /\ \A k, l \in DOMAIN w : k < l => g[k] < g[l]
      /\ \A i \in picked : \E k \in DOMAIN w : g[k] = i
  BY <1>5 DEF Embeds
<1>7. DOMAIN w = 1..Len(w) /\ Len(w) \in Nat /\ DOMAIN p = 1..Len(p) /\ Len(p) \in Nat
  BY <1>4
<1>8. ASSUME NEW k \in DOMAIN w, w[k].kind = "toolResult"
      PROVE  k > 1 /\ w[k - 1].kind \in {"assistant", "toolResult"}
  <2>1. g[k] \in DOMAIN p /\ g[k] >= first /\ p[g[k]].kind = "toolResult"
    BY <1>1, <1>2, <1>6, <1>8
  <2>2. PICK j \in 1..(g[k] - 1) : j >= first /\ Answers(p, g[k], j)
    BY <2>1
  <2>3. j \in DOMAIN p /\ p[j].kind \in {"assistant", "toolResult"} /\ j < g[k]
    BY <1>7, <2>1, <2>2 DEF Answers
  <2>4. j \in picked
    BY <1>2, <2>2, <2>3 DEF InContext, IsMessage, MessageKinds
  <2>5. PICK l \in DOMAIN w : g[l] = j
    BY <1>6, <2>4
  <2>6. l < k
    <3>1. g[k] \in Nat /\ j \in Nat /\ k \in Nat /\ l \in Nat
      BY <1>7, <2>1, <2>3
    <3>2. k < l => g[k] < g[l]
      BY <1>6
    <3>3. QED
      BY <2>3, <2>5, <3>1, <3>2
  <2>7. k \in Nat /\ l \in Nat /\ l >= 1 /\ k - 1 \in DOMAIN w /\ k > 1
    BY <1>7, <2>6
  <2>8. CASE l = k - 1
    BY <1>6, <2>3, <2>5, <2>7, <2>8
  <2>9. CASE l # k - 1
    <3>1. l < k - 1 /\ k - 1 < k
      BY <2>6, <2>7, <2>9
    <3>2. j < g[k - 1] /\ g[k - 1] < g[k]
      BY <1>6, <2>5, <2>7, <3>1
    <3>3. g[k - 1] \in DOMAIN p /\ InContext(p[g[k - 1]])
      BY <1>1, <1>2, <1>6, <2>7
    <3>4. g[k - 1] \in (j + 1)..(g[k] - 1)
      BY <1>7, <2>1, <2>3, <3>2, <3>3
    <3>5. p[g[k - 1]].kind \in {"setting", "label"}
      BY <2>2, <3>4 DEF Answers
    <3>6. QED
      BY <3>3, <3>5 DEF InContext, IsMessage, MessageKinds
  <2>10. QED
    BY <2>7, <2>8, <2>9
<1>9. QED
  BY <1>4, <1>8 DEF w

LEMMA PairedImplied ==
  ASSUME Base, Histories, Paired
  PROVE  ResultsPaired
<1> DEFINE path == Path(entries, leaf)
           last == LastCompaction(path)
           context == Context(entries, leaf)
           kept == IF last = 0 THEN {} ELSE At(SubSeq(path, 1, last), path[last].kept)
           first == IF last = 0 THEN 1 ELSE IF kept = {} THEN last ELSE Min(kept)
           messages == Shown(path, first)
<1> SUFFICES ASSUME faults = 0, last # 0 => ~path[last].moved
             PROVE  \A i \in DOMAIN context : context[i].kind = "toolResult" =>
                      i > 1 /\ context[i - 1].kind \in {"assistant", "toolResult"}
  BY DEF ResultsPaired
<1>1. /\ created \in Nat /\ MaxEntries \in Nat /\ Grown(entries, created) /\ leaf \in 0..MaxEntries
  BY SessionAssumption DEF Base
<1>2. Leads(entries, leaf, path)
  BY <1>1, PathLeads
<1>3. path \in Seq(Entries) /\ Rising(path) /\ Clean(path)
  BY <1>1, <1>2 DEF Leads, Paired
<1>4. context = IF last = 0 THEN messages ELSE <<path[last]>> \o messages
  BY DEF Context
<1> HIDE DEF path, context
<1>5. DOMAIN path = 1..Len(path) /\ Len(path) \in Nat
  BY <1>3
<1>6. /\ last \in 0..Len(path)
      /\ last # 0 => last \in DOMAIN path /\ IsCompaction(path[last])
      /\ \A i \in DOMAIN path : IsCompaction(path[i]) => i <= last
  BY <1>3, LastCompactionIs
<1> HIDE DEF last
<1>7. ASSUME last # 0, kept # {}
      PROVE  /\ first \in DOMAIN path /\ first < last
             /\ \E b \in first..(last - 1) : Opens(path, first, b)
  <2>1. kept = At(SubSeq(path, 1, last), path[last].kept) /\ first = Min(kept)
    BY <1>7
  <2> HIDE DEF kept, first
  <2> DEFINE s == SubSeq(path, 1, last)
  <2>2. s \in Seq(Entries) /\ Rising(s) /\ DOMAIN s = 1..last /\ \A i \in 1..last : s[i] = path[i]
    BY <1>3, <1>6, <1>7, PrefixRising, PrefixIs
  <2> HIDE DEF s
  <2>3. first \in 1..last /\ s[first].id = path[last].kept
    BY <1>7, <2>1, <2>2, AtIs DEF s
  <2>4. path[first].id = path[last].kept
    BY <2>2, <2>3
  <2>5. path[last].kind = "compaction" /\ ~path[last].moved
    BY <1>6, <1>7 DEF IsCompaction
  <2>6. CleanAt(path, last)
    BY <1>3, <1>6, <1>7 DEF Clean
  <2>7. first < last
    <3>1. PICK i \in DOMAIN entries : path[last] = entries[i]
      BY <1>2, <1>6, <1>7 DEF Leads
    <3>2. path[last].kept \in 1..(path[last].id - 1) /\ path[last].id \in Nat
      BY <1>3, <1>6, <1>7, <2>5, <3>1, EntryIs DEF Histories, Accounted
    <3>3. path[first].id # path[last].id
      BY <2>4, <3>2
    <3>4. QED
      BY <1>5, <1>6, <2>3, <3>3
  <2>8. first \in DOMAIN path /\ first \in 1..(last - 1)
    BY <1>5, <1>6, <2>3, <2>7
  <2>9. QED
    BY <2>4, <2>5, <2>6, <2>7, <2>8 DEF CleanAt
<1>8. first \in Nat
  <2>1. CASE last # 0 /\ kept # {}
    BY <1>5, <1>7, <2>1
  <2>2. CASE last = 0 \/ kept = {}
    <3>1. first = 1 \/ first = last
      BY <2>2
    <3>2. QED
      BY <1>5, <1>6, <3>1
  <2>3. QED
    BY <2>1, <2>2
<1>9. ASSUME NEW i \in DOMAIN path, i >= first, path[i].kind = "toolResult"
      PROVE  \E j \in 1..(i - 1) : j >= first /\ Answers(path, i, j)
  <2>1. PICK j \in 1..(i - 1) : Answers(path, i, j)
    BY <1>3, <1>9 DEF Clean, CleanAt
  <2>2. ASSUME NEW k \in 1..i, k > j PROVE ~InContext(path[k]) \/ path[k].kind = "toolResult"
    <3>1. CASE k = i
      BY <1>9, <3>1
    <3>2. CASE k # i
      <4>1. k \in (j + 1)..(i - 1)
        BY <1>5, <2>1, <2>2, <3>2
      <4>2. path[k].kind \in {"setting", "label"}
        BY <2>1, <4>1 DEF Answers
      <4>3. QED
        BY <4>2 DEF InContext, IsMessage, MessageKinds
    <3>3. QED
      BY <3>1, <3>2
  <2>3. ASSUME NEW k \in 1..i, k > j PROVE ~IsCompaction(path[k])
    <3>1. CASE k = i
      BY <1>9, <3>1 DEF IsCompaction
    <3>2. CASE k # i
      <4>1. k \in (j + 1)..(i - 1)
        BY <1>5, <2>1, <2>3, <3>2
      <4>2. path[k].kind \in {"setting", "label"}
        BY <2>1, <4>1 DEF Answers
      <4>3. QED
        BY <4>2 DEF IsCompaction
    <3>3. QED
      BY <3>1, <3>2
  <2>4. j >= first
    <3> SUFFICES ASSUME j < first PROVE FALSE
      BY <1>5, <1>8, <2>1
    <3>1. CASE last = 0
      <4>1. first = 1
        BY <3>1
      <4>2. QED
        BY <1>5, <2>1, <4>1
    <3>2. CASE last # 0 /\ kept = {}
      <4>1. first = last
        BY <3>2
      <4>2. last \in 1..i /\ last > j
        BY <1>5, <1>6, <1>9, <3>2, <4>1
      <4>3. QED
        BY <1>6, <2>3, <3>2, <4>2
    <3>3. CASE last # 0 /\ kept # {}
      <4>1. PICK b \in first..(last - 1) : Opens(path, first, b)
        BY <1>7, <3>3
      <4>2. first \in DOMAIN path /\ b \in Nat /\ b >= first
        BY <1>5, <1>7, <3>3, <4>1
      <4>3. CASE b <= i
        <5>1. b \in 1..i /\ b > j
          BY <1>5, <2>1, <4>2, <4>3
        <5>2. QED
          BY <2>2, <4>1, <5>1 DEF Opens
      <4>4. CASE b > i
        <5>1. i \in first..(b - 1)
          BY <1>5, <1>9, <4>2, <4>4
        <5>2. ~IsMessage(path[i])
          BY <4>1, <5>1 DEF Opens
        <5>3. QED
          BY <1>9, <5>2 DEF IsMessage, MessageKinds
      <4>5. QED
        BY <1>5, <4>2, <4>3, <4>4
    <3>4. QED
      BY <3>1, <3>2, <3>3
  <2>5. QED
    BY <2>1, <2>4
<1> HIDE DEF first, kept
<1>10. /\ messages \in Seq(Entries)
       /\ \A k \in DOMAIN messages : messages[k].kind = "toolResult" =>
            k > 1 /\ messages[k - 1].kind \in {"assistant", "toolResult"}
  BY <1>3, <1>8, <1>9, ShownPaired
<1> HIDE DEF messages
<1>11. CASE last = 0
  BY <1>4, <1>10, <1>11
<1>12. CASE last # 0
  <2>1. path[last] \in Entries /\ <<path[last]>> \in Seq(Entries) /\ Len(<<path[last]>>) = 1
    BY <1>3, <1>6, <1>12
  <2>2. context = <<path[last]>> \o messages
    BY <1>4, <1>12
  <2>3. /\ DOMAIN context = 1..(1 + Len(messages)) /\ Len(messages) \in Nat
        /\ context[1] = path[last]
        /\ \A i \in DOMAIN messages : context[i + 1] = messages[i]
    BY <1>10, <2>1, <2>2
  <2>4. ASSUME NEW i \in DOMAIN context, context[i].kind = "toolResult"
        PROVE  i > 1 /\ context[i - 1].kind \in {"assistant", "toolResult"}
    <3>1. i # 1
      BY <1>6, <1>12, <2>3, <2>4 DEF IsCompaction
    <3>2. PICK k \in DOMAIN messages : i = k + 1
      <4>1. i - 1 \in DOMAIN messages /\ i = (i - 1) + 1
        BY <1>10, <2>3, <3>1
      <4>2. QED
        BY <4>1
    <3>3. messages[k].kind = "toolResult"
      BY <2>3, <2>4, <3>2
    <3>4. k > 1 /\ messages[k - 1].kind \in {"assistant", "toolResult"}
      BY <1>10, <3>3
    <3>5. k - 1 \in DOMAIN messages /\ context[(k - 1) + 1] = messages[k - 1] /\ i - 1 = (k - 1) + 1
      <4>1. k \in Nat /\ k - 1 \in DOMAIN messages
        BY <1>10, <3>4
      <4>2. QED
        BY <2>3, <3>2, <4>1
    <3>6. context[i - 1] = messages[k - 1]
      BY <3>5
    <3>7. i > 1
      BY <1>10, <3>2, <3>4
    <3>8. QED
      BY <3>4, <3>6, <3>7
  <2>5. QED
    BY <2>4
<1>13. QED
  BY <1>11, <1>12

------------------------------------------------------------------------------
(* Labels *)

\* Position i has the last label given to entry n.
LastLabel(es, n, i) ==
  /\ i \in LabelsAt(es) /\ es[i].target = n
  /\ \A k \in LabelsAt(es) : es[k].target = n => k <= i

LEMMA LabelledIs ==
  ASSUME NEW es, NEW c \in Nat, Grown(es, c), NEW n
  PROVE  n \in LabelsIn(es) <=> \E i \in LabelsAt(es) : LastLabel(es, n, i) /\ es[i].set
<1> DEFINE about == {i \in LabelsAt(es) : es[i].target = n}
<1>1. es \in Seq(Entries) /\ Len(es) \in Nat /\ DOMAIN es = 1..Len(es)
  BY DEF Grown
<1>2. about \in SUBSET Nat /\ \A y \in about : y <= Len(es)
  BY <1>1 DEF LabelsAt
<1>3. n \in LabelsIn(es) <=> about # {} /\ es[Max(about)].set
  BY DEF LabelsIn, LabelsEverIn
<1>4. \A i : i \in about <=> i \in LabelsAt(es) /\ es[i].target = n
  OBVIOUS
<1> HIDE DEF about
<1>5. about # {} => Max(about) \in about /\ \A y \in about : Max(about) >= y
  BY <1>1, <1>2, MaxIs
<1>6. about # {} => LastLabel(es, n, Max(about))
  <2> SUFFICES ASSUME about # {} PROVE LastLabel(es, n, Max(about))
    OBVIOUS
  <2> DEFINE m == Max(about)
  <2>1. m \in about /\ m \in Nat /\ \A y \in about : m >= y
    BY <1>2, <1>5
  <2> HIDE DEF m
  <2>2. ASSUME NEW k \in LabelsAt(es), es[k].target = n PROVE k <= m
    <3>1. k \in about /\ k \in Nat
      BY <1>2, <1>4, <2>2
    <3>2. QED
      BY <2>1, <3>1
  <2>3. LastLabel(es, n, m)
    BY <1>4, <2>1, <2>2 DEF LastLabel
  <2>4. QED
    BY <2>3 DEF m
<1>7. ASSUME NEW i \in LabelsAt(es), LastLabel(es, n, i) PROVE about # {} /\ i = Max(about)
  <2>1. i \in about
    BY <1>4, <1>7 DEF LastLabel
  <2>2. Max(about) \in about /\ Max(about) >= i
    BY <1>5, <2>1
  <2>3. i >= Max(about)
    BY <1>4, <1>7, <2>2 DEF LastLabel
  <2>4. i \in Nat /\ Max(about) \in Nat
    BY <1>2, <2>1, <2>2
  <2>5. QED
    BY <2>1, <2>2, <2>3, <2>4
<1>8. CASE about = {}
  BY <1>3, <1>7, <1>8
<1>9. CASE about # {}
  <2>1. Max(about) \in LabelsAt(es)
    BY <1>4, <1>5, <1>9
  <2>2. QED
    BY <1>3, <1>6, <1>7, <1>9, <2>1
<1>10. QED
  BY <1>8, <1>9

LEMMA LabelsGrow ==
  ASSUME NEW es, NEW c \in Nat, Grown(es, c), NEW e, Follows(es, c, e)
  PROVE  /\ e.kind # "label" => LabelsIn(Append(es, e)) = LabelsIn(es)
         /\ e.kind = "label" =>
              LabelsIn(Append(es, e)) =
                IF e.set THEN LabelsIn(es) \union {e.target} ELSE LabelsIn(es) \ {e.target}
<1> DEFINE fs == Append(es, e)
           m == Len(es) + 1
<1>1. Grown(fs, c + 1) /\ c + 1 \in Nat
  BY GrownGrows
<1>2. /\ DOMAIN fs = 1..m /\ DOMAIN es = 1..Len(es) /\ Len(es) \in Nat /\ m = Len(es) + 1
      /\ \A i \in DOMAIN es : fs[i] = es[i]
      /\ fs[m] = e
  BY AppendIs DEF Grown, Follows
<1> HIDE DEF fs, m
<1>3. \A i : i \in LabelsAt(es) <=> i \in 1..Len(es) /\ es[i].kind = "label"
  BY <1>2 DEF LabelsAt
<1>4. \A i : i \in LabelsAt(fs) <=> i \in LabelsAt(es) \/ (i = m /\ e.kind = "label")
  <2>1. \A i : i \in LabelsAt(fs) <=> i \in 1..m /\ fs[i].kind = "label"
    BY <1>2 DEF LabelsAt
  <2>2. \A i : i \in 1..m <=> i \in 1..Len(es) \/ i = m
    BY <1>2
  <2>3. \A i \in 1..Len(es) : fs[i] = es[i] /\ i # m
    BY <1>2
  <2>4. QED
    BY <1>2, <1>3, <2>1, <2>2, <2>3
<1>5. \A i \in LabelsAt(es) : fs[i] = es[i] /\ i < m /\ i \in Nat
  BY <1>2, <1>3
<1>6. m \in Nat
  BY <1>2
<1>7. ASSUME NEW n, e.kind # "label" \/ e.target # n
      PROVE  n \in LabelsIn(fs) <=> n \in LabelsIn(es)
  <2>1. ASSUME NEW i
        PROVE  (i \in LabelsAt(fs) /\ LastLabel(fs, n, i)) <=> (i \in LabelsAt(es) /\ LastLabel(es, n, i))
    <3>1. \A k \in LabelsAt(fs) : fs[k].target = n => k \in LabelsAt(es)
      BY <1>2, <1>4, <1>7
    <3>2. QED
      BY <1>4, <1>5, <3>1 DEF LastLabel
  <2>2. n \in LabelsIn(fs) <=> \E i \in LabelsAt(fs) : LastLabel(fs, n, i) /\ fs[i].set
    BY <1>1, LabelledIs
  <2>3. n \in LabelsIn(es) <=> \E i \in LabelsAt(es) : LastLabel(es, n, i) /\ es[i].set
    BY LabelledIs
  <2>4. QED
    BY <1>5, <2>1, <2>2, <2>3
<1>8. ASSUME e.kind = "label"
      PROVE  e.target \in LabelsIn(fs) <=> e.set
  <2>1. m \in LabelsAt(fs) /\ LastLabel(fs, e.target, m)
    BY <1>2, <1>4, <1>5, <1>6, <1>8 DEF LastLabel
  <2>2. ASSUME NEW i \in LabelsAt(fs), LastLabel(fs, e.target, i) PROVE i = m
    <3>1. m <= i
      BY <1>2, <2>1, <2>2 DEF LastLabel
    <3>2. i = m \/ (i < m /\ i \in Nat)
      BY <1>4, <1>5
    <3>3. QED
      BY <1>6, <3>1, <3>2
  <2>3. e.target \in LabelsIn(fs) <=> \E i \in LabelsAt(fs) : LastLabel(fs, e.target, i) /\ fs[i].set
    BY <1>1, LabelledIs
  <2>4. QED
    BY <1>2, <2>1, <2>2, <2>3
<1>9. ASSUME e.kind # "label" PROVE LabelsIn(fs) = LabelsIn(es)
  BY <1>7, <1>9
<1>10. ASSUME e.kind = "label"
       PROVE  LabelsIn(fs) = IF e.set THEN LabelsIn(es) \union {e.target} ELSE LabelsIn(es) \ {e.target}
  <2>1. \A n : n \in LabelsIn(fs) <=> IF n = e.target THEN e.set ELSE n \in LabelsIn(es)
    BY <1>7, <1>8, <1>10
  <2>2. CASE e.set
    <3>1. \A n : n \in LabelsIn(fs) <=> n \in LabelsIn(es) \union {e.target}
      BY <2>1, <2>2
    <3>2. QED
      BY <2>2, <3>1
  <2>3. CASE ~e.set
    <3>1. \A n : n \in LabelsIn(fs) <=> n \in LabelsIn(es) \ {e.target}
      BY <2>1, <2>3
    <3>2. QED
      BY <2>3, <3>1
  <2>4. QED
    BY <2>2, <2>3
<1>11. QED
  BY <1>9, <1>10 DEF fs

LEMMA NoLabels == LabelsIn(<<>>) = {}
<1>1. LabelsAt(<<>>) = {}
  BY DEF LabelsAt
<1>2. LabelsEverIn(<<>>) = {}
  BY <1>1 DEF LabelsEverIn
<1>3. QED
  BY <1>2 DEF LabelsIn

LEMMA LabelsStep ==
  ASSUME Base, Preps, FileExact, LabelsExact, [Next]_vars
  PROVE  LabelsExact'
<1>1. (faults' = 0 => faults = 0) /\ FileExact'
  BY ExactStep
<1> SUFFICES ASSUME faults' = 0, faults = 0, labels = LabelsIn(entries)
             PROVE  labels' = LabelsIn(entries')
  BY <1>1 DEF LabelsExact
<1>2. created \in Nat /\ Grown(entries, created)
  BY SessionAssumption DEF Base
<1>3. ASSUME NEW e, Adds(e) PROVE labels' = LabelsIn(entries')
  <2>1. Follows(entries, created, e) /\ entries' = Append(entries, e)
    BY <1>3 DEF Adds, AppendEntry
  <2>2. flushed' = HasAssistant(entries')
    BY <1>1 DEF FileExact
  <2>3. ~Threw
    BY <2>2 DEF Threw
  <2>4. \/ e.kind # "label" /\ labels' = labels
        \/ /\ e.kind = "label"
           /\ labels' = IF e.set THEN labels \union {e.target} ELSE labels \ {e.target}
    BY <1>3, <2>3 DEF Adds
  <2>5. QED
    BY <1>2, <2>1, <2>4, LabelsGrow
<1>4. CASE Navigate \/ PrepareCompaction \/ AbandonCompaction \/ UNCHANGED vars
  <2>1. UNCHANGED <<entries, labels>>
    BY <1>4 DEF Navigate, PrepareCompaction, AbandonCompaction, vars, memory
  <2>2. QED
    BY <2>1
<1>5. CASE Reopen
  <2>1. entries' = Loaded /\ labels' = LabelsIn(Loaded)
    BY <1>5 DEF Reopen
  <2>2. QED
    BY <2>1
<1>6. CASE NewSession
  BY <1>6, NoLabels DEF NewSession
<1>7. CASE Fork
  <2>1. PICK target : ForkAt(target)
    BY <1>7 DEF Fork
  <2>2. labels' = LabelsIn(entries')
    BY <2>1, ForkIs
  <2>3. QED
    BY <2>2
<1>8. QED
  BY <1>3, <1>4, <1>5, <1>6, <1>7, Steps, UnreadableFailed

------------------------------------------------------------------------------
(* The theorems *)

IInv ==
  /\ Base /\ Preps /\ Closed /\ FileExact /\ Losses /\ Histories /\ Paired /\ LabelsExact

LEMMA IInvInit ==
  ASSUME Init
  PROVE  IInv
<1>1. /\ entries = <<>> /\ leaf = 0 /\ labels = {} /\ flushed = FALSE /\ exists = FALSE
      /\ file = <<>> /\ torn = FALSE /\ prep = NoPrep /\ created = 0 /\ faults = 0
  BY DEF Init
<1>2. /\ MaxEntries \in Nat /\ 0 \in 0..MaxEntries /\ 0 \in 0..0 /\ 0 \in Nat
      /\ 0 \in 0..MaxFaults /\ DOMAIN <<>> = {}
  BY SessionAssumption
<1>3. Stored
  BY <1>1, <1>2, EmptyBase DEF Stored
<1>4. Base
  <2>1. cleared = {}
    BY DEF Init
  <2>2. QED
    BY <1>1, <1>2, <1>3, <2>1, EmptyBase DEF Base
<1>5. Preps
  BY <1>1 DEF Preps, NoPrep
<1>6. Closed
  BY <1>1, <1>2 DEF Closed
<1>7. FileExact
  BY <1>1, EmptyBase DEF FileExact, HasAssistant
<1>8. Losses
  BY <1>1 DEF Losses
<1>9. Histories
  BY <1>1, <1>2 DEF Histories
<1>10. Paired
  <2>1. ~prep.on
    BY <1>1 DEF NoPrep
  <2>2. QED
    BY <1>1, <2>1, EmptyPaths DEF Paired
<1>11. LabelsExact
  BY <1>1, NoLabels DEF LabelsExact
<1>12. QED
  BY <1>4, <1>5, <1>6, <1>7, <1>8, <1>9, <1>10, <1>11 DEF IInv

LEMMA IInvStep ==
  ASSUME IInv, [Next]_vars
  PROVE  IInv'
<1>1. Base' /\ Losses' /\ Histories' /\ Preps'
  BY BaseStep, LossStep, HistoryStep DEF IInv
<1>2. FileExact' /\ Closed' /\ Paired' /\ LabelsExact'
  BY ExactStep, ClosedStep, PairedStep, LabelsStep DEF IInv
<1>3. QED
  BY <1>1, <1>2 DEF IInv

LEMMA IInvHolds == Spec => []IInv
<1>1. Init => IInv
  BY IInvInit
<1>2. IInv /\ [Next]_vars => IInv'
  BY IInvStep
<1>3. QED
  BY <1>1, <1>2, PTL DEF Spec

\* Every variable has its type: ids are those that were given out and, as long as
\* no write fails, the leaf is an entry of the session.
THEOREM TypesHold == Spec => []TypeOK
<1>1. IInv => TypeOK
  BY TypesImplied DEF IInv
<1>2. QED
  BY <1>1, IInvHolds, PTL

\* As long as no write fails, every entry is new and the child of an earlier one,
\* whatever was appended, forked, compacted or read back.
THEOREM TreeStaysIntact == Spec => []TreeIntact
<1>1. IInv => TreeIntact
  BY TreeImplied DEF IInv
<1>2. QED
  BY <1>1, IInvHolds, PTL

\* As long as no write fails, the file holds the header and the entries of the
\* memory, in their order and once each, from the first assistant message on and
\* not before: deferring the first flush, forks and restarts included.
THEOREM FileStaysExact == Spec => []FileExact
<1>1. IInv => FileExact
  BY DEF IInv
<1>2. QED
  BY <1>1, IInvHolds, PTL

\* As long as no write fails, the index of labels that appendLabelChange keeps up to
\* date is the one that _buildIndex would make of the entries.
THEOREM LabelsStayExact == Spec => []LabelsExact
<1>1. IInv => LabelsExact
  BY DEF IInv
<1>2. QED
  BY <1>1, IInvHolds, PTL

\* A failed write loses at most its own entry and the one after it, whose line is
\* joined to a torn one, unless the header is lost; when a fork starts such a file
\* afresh, that holds again of the entries that come after.
THEOREM LossesBounded == Spec => []LossBounded
<1>1. IInv => LossBounded
  BY LossImplied DEF IInv
<1>2. QED
  BY <1>1, IInvHolds, PTL

\* Of the messages before a compaction that forgets none, each is either in its
\* summary or kept, however often the path was compacted, forked and cut short by
\* lost entries.
THEOREM HistoryKept == Spec => []HistoryAccounted
<1>1. IInv => HistoryAccounted
  BY HistoryImplied DEF IInv
<1>2. QED
  BY <1>1, IInvHolds, PTL

\* As long as no write fails, the context built for the model has no tool result
\* that does not follow its call or another result of it, wherever the path was cut,
\* forked or moved to; but for a summary appended on another branch.
THEOREM ResultsStayPaired == Spec => []ResultsPaired
<1>1. IInv => ResultsPaired
  BY PairedImplied DEF IInv
<1>2. QED
  BY <1>1, IInvHolds, PTL
===============================================================================
