-------------------------- MODULE AgentSessionProofs --------------------------
(***************************************************************************)
(* Proofs about AgentSession for every set of calls of prompt(), every way *)
(* a response may end and every bound.                                     *)
(*                                                                         *)
(* The first half is about sequences alone: what a path shows, how that    *)
(* changes when entries are appended, cut off or summarized, and when a    *)
(* transcript agrees with it.  The second half takes the actions through   *)
(* the parts of the inductive invariant, one part after the other:         *)
(*                                                                         *)
(*   IInv      who runs, and what is aborted and listened to               *)
(*   Data      transcript, path and waiting results fit together           *)
(*   Bashes    every bash result is saved or waits for a call              *)
(*   Begins    the transcript of a run begins with no response             *)
(*   Queued    what is queued waits for a call                             *)
(*   Calls     a run is alone, and its results follow their calls          *)
(*   Recovers  which responses are remembered                              *)
(*   Whole     nothing but failed responses is off the transcript          *)
(*   Ranges    the rest of the types                                       *)
(*                                                                         *)
(* Calls and Whole speak of runs that were not started beside another      *)
(* call.                                                                   *)
(***************************************************************************)
EXTENDS AgentSession, SequenceTheorems, FiniteSetTheorems, WellFoundedInduction, TLAPS

------------------------------------------------------------------------------
(* Entries of a path *)

Nonresult == [id : Nat, kind : {"user", "bash"}]
Plain == [id : Nat, kind : {"user", "toolResult", "bash"}]
Answers == [id : Nat, kind : {"assistant"}, stop : AllStops]
Summaries == [id : Nat, kind : {"compaction"}, kept : Nat, covers : {{}}]
Heardable == Plain \union Answers
Entries == Heardable \union Summaries

LEMMA EntryKinds ==
  /\ \A e \in Heardable : /\ e.id \in Nat /\ InContext(e) /\ ~IsCompaction(e) /\ e \in Entries
  /\ \A e \in Entries : /\ e.id \in Nat
                        /\ IsCompaction(e) => e \in Summaries /\ e.kept \in Nat
                        /\ InContext(e) <=> ~IsCompaction(e)
                        /\ InContext(e) => IsMessage(e)
BY DEF Heardable, Plain, Answers, Summaries, Entries, InContext, IsCompaction, IsMessage,
       MessageKinds

------------------------------------------------------------------------------
(* Numbers *)

LEMMA Least ==
  ASSUME NEW T \in SUBSET Nat, T # {}
  PROVE  \E x \in T : \A y \in T : x <= y
<1> DEFINE Less == {ss \in Nat \X Nat : ss[1] < ss[2]}
<1>1. IsWellFoundedOn(Less, Nat)
  BY NatLessThanWellFounded DEF OpToRel
<1>2. \A x, y \in Nat : <<y, x>> \in Less <=> y < x
  OBVIOUS
<1> HIDE DEF Less
<1>3. PICK x \in T : \A y \in T : ~(<<y, x>> \in Less)
  BY <1>1, WFMin
<1>4. \A y \in T : x <= y
  <2>1. ASSUME NEW y \in T PROVE x <= y
    <3>1. ~(y < x)
      BY <1>2, <1>3
    <3>2. x \in Nat /\ y \in Nat
      OBVIOUS
    <3>3. QED
      BY <3>1, <3>2
  <2>2. QED
    BY <2>1
<1>5. QED
  BY <1>4

\* What holds of a number whenever it holds of those before it holds of all.
LEMMA Below ==
  ASSUME NEW T \in SUBSET Nat, \A n \in Nat : (\A m \in 0..(n - 1) : m \in T) => n \in T
  PROVE  T = Nat
<1> SUFFICES ASSUME Nat \ T # {} PROVE FALSE
  OBVIOUS
<1>1. PICK x \in Nat \ T : \A y \in Nat \ T : x <= y
  BY Least
<1>2. \A m \in 0..(x - 1) : m \in T
  BY <1>1
<1>3. QED
  BY <1>1, <1>2

LEMMA MinIs ==
  ASSUME NEW T \in SUBSET Nat, T # {}
  PROVE  Min(T) \in T /\ \A y \in T : Min(T) <= y
<1>1. \E x \in T : \A y \in T : x =< y
  BY Least
<1>2. QED
  BY <1>1 DEF Min

LEMMA MaxIs ==
  ASSUME NEW T \in SUBSET Nat, T # {}, NEW n \in Nat, \A y \in T : y <= n
  PROVE  Max(T) \in T /\ \A y \in T : Max(T) >= y
<1> DEFINE U == {k \in Nat : \A y \in T : y <= k}
<1>1. PICK x \in U : \A k \in U : x <= k
  <2>1. U \in SUBSET Nat /\ U # {}
    OBVIOUS
  <2> HIDE DEF U
  <2>2. QED
    BY <2>1, Least
<1>2. x \in T
  <2>1. CASE x = 0
    <3>1. PICK y \in T : TRUE
      OBVIOUS
    <3>2. y = 0
      BY <1>1, <2>1, <3>1
    <3>3. QED
      BY <2>1, <3>1, <3>2
  <2>2. CASE x # 0
    <3> SUFFICES ASSUME x \notin T PROVE FALSE
      OBVIOUS
    <3>1. x - 1 \in U
      BY <1>1, <2>2
    <3>2. QED
      BY <1>1, <3>1
  <2>3. QED
    BY <2>1, <2>2
<1>3. \A y \in T : x >= y
  BY <1>1
<1>4. QED
  BY <1>2, <1>3 DEF Max

\* The newest compaction of a path.
LEMMA NewestCompaction ==
  ASSUME NEW path \in Seq(Entries)
  PROVE  /\ LastCompaction(path) \in 0..Len(path)
         /\ LastCompaction(path) # 0 => IsCompaction(path[LastCompaction(path)])
         /\ \A i \in DOMAIN path : IsCompaction(path[i]) => i <= LastCompaction(path)
<1> DEFINE T == {0} \union {i \in DOMAIN path : IsCompaction(path[i])}
<1>1. T \in SUBSET Nat /\ T # {} /\ Len(path) \in Nat /\ DOMAIN path = 1..Len(path)
      /\ \A y \in T : y <= Len(path)
  OBVIOUS
<1>2. LastCompaction(path) = Max(T)
  BY DEF LastCompaction
<1>3. Max(T) \in T /\ \A y \in T : Max(T) >= y
  <2> HIDE DEF T
  <2>1. QED
    BY <1>1, MaxIs
<1>4. QED
  BY <1>1, <1>2, <1>3

LEMMA NoneNewer ==
  ASSUME NEW path \in Seq(Entries), NEW n \in 0..Len(path),
         n # 0 => IsCompaction(path[n]),
         \A i \in DOMAIN path : IsCompaction(path[i]) => i <= n
  PROVE  LastCompaction(path) = n
<1>1. LastCompaction(path) <= n
  BY NewestCompaction
<1>2. n <= LastCompaction(path)
  BY NewestCompaction
<1>3. QED
  BY <1>1, <1>2, NewestCompaction

------------------------------------------------------------------------------
(* What a path shows *)

IsPicked(s, picked, N, f) ==
  f = [i \in 0..N |->
         IF i = 0 THEN <<>>
         ELSE IF i \in picked THEN Append(f[i - 1], s[i])
         ELSE f[i - 1]]

PickedUpTo(s, picked) == CHOOSE f : IsPicked(s, picked, Len(s), f)

LEMMA PickedIsUpTo ==
  ASSUME NEW s, NEW picked
  PROVE  Picked(s, picked) = PickedUpTo(s, picked)[Len(s)]
BY DEF Picked, PickedUpTo, IsPicked

LEMMA PickedExists ==
  ASSUME NEW s, NEW picked, NEW M \in Nat
  PROVE  \E f : IsPicked(s, picked, M, f)
<1> DEFINE T == {N \in Nat : \E f : IsPicked(s, picked, N, f)}
<1>1. ASSUME NEW N \in Nat, \A m \in 0..(N - 1) : m \in T PROVE N \in T
  <2> SUFFICES \E f : IsPicked(s, picked, N, f)
    OBVIOUS
  <2>1. CASE N = 0
    <3>1. IsPicked(s, picked, N, [i \in 0..0 |-> <<>>])
      BY <2>1 DEF IsPicked
    <3>2. QED
      BY <3>1
  <2>2. CASE N # 0
    <3>1. PICK f : IsPicked(s, picked, N - 1, f)
      <4>1. N - 1 \in 0..(N - 1)
        BY <2>2
      <4>2. QED
        BY <1>1, <4>1
    <3> DEFINE g == [i \in 0..N |->
                       IF i = N
                       THEN IF i \in picked THEN Append(f[i - 1], s[i])
                            ELSE f[i - 1]
                       ELSE f[i]]
    <3>2. ASSUME NEW i \in 0..N
          PROVE  g[i] = IF i = 0 THEN <<>>
                        ELSE IF i \in picked THEN Append(g[i - 1], s[i])
                        ELSE g[i - 1]
      <4>1. CASE i = 0
        BY <2>2, <3>1, <4>1 DEF IsPicked
      <4>2. CASE i # 0
        <5>1. i - 1 \in 0..N /\ i - 1 # N /\ i - 1 \in 0..(N - 1)
          BY <4>2
        <5>2. g[i - 1] = f[i - 1]
          BY <5>1
        <5>3. CASE i = N
          BY <4>2, <5>2, <5>3
        <5>4. CASE i # N
          <6>1. i \in 0..(N - 1)
            BY <5>4
          <6>2. f[i] = IF i \in picked THEN Append(f[i - 1], s[i])
                       ELSE f[i - 1]
            BY <3>1, <4>2, <6>1 DEF IsPicked
          <6>3. QED
            BY <4>2, <5>2, <5>4, <6>2
        <5>5. QED
          BY <5>3, <5>4
      <4>3. QED
        BY <4>1, <4>2
    <3>3. IsPicked(s, picked, N, g)
      <4>1. g = [i \in 0..N |-> g[i]]
        OBVIOUS
      <4> HIDE DEF g
      <4>2. QED
        BY <3>2, <4>1 DEF IsPicked
    <3>4. QED
      BY <3>3
  <2>3. QED
    BY <2>1, <2>2
<1> HIDE DEF T
<1>2. T = Nat
  BY <1>1, Below DEF T
<1>3. QED
  BY <1>2 DEF T

LEMMA PickedValue ==
  ASSUME NEW s, NEW picked, NEW N, NEW f, IsPicked(s, picked, N, f), NEW i \in 0..N, i # 0
  PROVE  f[i] = IF i \in picked THEN Append(f[i - 1], s[i])
                ELSE f[i - 1]
BY Zenon DEF IsPicked

LEMMA PickedSteps ==
  ASSUME NEW s, Len(s) \in Nat, NEW picked
  PROVE  /\ PickedUpTo(s, picked)[0] = <<>>
         /\ \A i \in 1..Len(s) :
              PickedUpTo(s, picked)[i] =
                IF i \in picked THEN Append(PickedUpTo(s, picked)[i - 1], s[i])
                ELSE PickedUpTo(s, picked)[i - 1]
<1>1. IsPicked(s, picked, Len(s), PickedUpTo(s, picked))
  BY PickedExists, Zenon DEF PickedUpTo
<1>2. PickedUpTo(s, picked)[0] = <<>>
  BY <1>1 DEF IsPicked
<1> DEFINE u == PickedUpTo(s, picked)
<1>3. ASSUME NEW i \in 1..Len(s)
      PROVE  u[i] = IF i \in picked THEN Append(u[i - 1], s[i]) ELSE u[i - 1]
  <2>1. i \in 0..Len(s) /\ i # 0
    OBVIOUS
  <2>2. IsPicked(s, picked, Len(s), u)
    BY <1>1
  <2> HIDE DEF u
  <2>3. QED
    BY <2>1, <2>2, PickedValue
<1>4. QED
  BY <1>2, <1>3

UpTo(path, first) == PickedUpTo(path, {i \in DOMAIN path : i >= first /\ InContext(path[i])})

LEMMA ShownIsUpTo ==
  ASSUME NEW path, NEW first
  PROVE  Shown(path, first) = UpTo(path, first)[Len(path)]
BY PickedIsUpTo DEF Shown, UpTo

LEMMA UpToSteps ==
  ASSUME NEW path \in Seq(Entries), NEW first
  PROVE  /\ UpTo(path, first)[0] = <<>>
         /\ \A i \in 1..Len(path) :
              UpTo(path, first)[i] =
                IF i >= first /\ InContext(path[i])
                THEN Append(UpTo(path, first)[i - 1], path[i])
                ELSE UpTo(path, first)[i - 1]
<1> DEFINE picked == {i \in DOMAIN path : i >= first /\ InContext(path[i])}
<1>1. Len(path) \in Nat /\ DOMAIN path = 1..Len(path)
  OBVIOUS
<1>2. \A i \in 1..Len(path) : i \in picked <=> i >= first /\ InContext(path[i])
  BY <1>1
<1> HIDE DEF picked
<1>3. QED
  BY <1>1, <1>2, PickedSteps DEF UpTo, picked

\* The entries of a list have different ids.
Once(s) == \A i, j \in DOMAIN s : s[i].id = s[j].id => i = j

LEMMA AppendFacts ==
  ASSUME NEW s \in Seq(Entries), NEW e \in Entries
  PROVE  /\ Append(s, e) \in Seq(Entries) /\ Len(Append(s, e)) = Len(s) + 1
         /\ DOMAIN Append(s, e) = 1..(Len(s) + 1) /\ DOMAIN s = 1..Len(s) /\ Len(s) \in Nat
         /\ \A i \in DOMAIN s : Append(s, e)[i] = s[i]
         /\ Append(s, e)[Len(s) + 1] = e
OBVIOUS

\* What is shown are entries of the path, each once.
LEMMA ShownFromPath ==
  ASSUME NEW path \in Seq(Entries), Once(path), NEW first
  PROVE  /\ Shown(path, first) \in Seq(Entries) /\ Once(Shown(path, first))
         /\ \A k \in DOMAIN Shown(path, first) :
              \E j \in DOMAIN path : Shown(path, first)[k] = path[j] /\ InContext(path[j])
<1> DEFINE u == UpTo(path, first)
           From(n) == \A k \in DOMAIN u[n] : \E j \in 1..n : u[n][k] = path[j] /\ InContext(path[j])
           T == {n \in Nat : n <= Len(path) => u[n] \in Seq(Entries) /\ Once(u[n]) /\ From(n)}
<1>0. Len(path) \in Nat /\ DOMAIN path = 1..Len(path)
  OBVIOUS
<1>1. /\ u[0] = <<>>
      /\ \A i \in 1..Len(path) :
           u[i] = IF i >= first /\ InContext(path[i]) THEN Append(u[i - 1], path[i])
                  ELSE u[i - 1]
  BY UpToSteps
<1> HIDE DEF u
<1>2. ASSUME NEW n \in Nat, \A m \in 0..(n - 1) : m \in T PROVE n \in T
  <2> SUFFICES ASSUME n <= Len(path) PROVE u[n] \in Seq(Entries) /\ Once(u[n]) /\ From(n)
    OBVIOUS
  <2>1. CASE n = 0
    <3>1. u[n] = <<>> /\ DOMAIN <<>> = {}
      BY <1>1, <2>1
    <3>2. QED
      BY <3>1 DEF Once
  <2>2. CASE n # 0
    <3>1. n \in 1..Len(path) /\ n - 1 \in 0..(n - 1) /\ n - 1 <= Len(path)
      BY <1>0, <2>2
    <3>2. u[n - 1] \in Seq(Entries) /\ Once(u[n - 1]) /\ From(n - 1)
      BY <1>2, <3>1
    <3>3. CASE ~(n >= first /\ InContext(path[n]))
      <4>1. u[n] = u[n - 1]
        BY <1>1, <3>1, <3>3
      <4>2. From(n)
        <5>1. ASSUME NEW k \in DOMAIN u[n - 1]
              PROVE  \E j \in 1..n : u[n - 1][k] = path[j] /\ InContext(path[j])
          <6>1. PICK j \in 1..(n - 1) : u[n - 1][k] = path[j] /\ InContext(path[j])
            BY <3>2
          <6>2. j \in 1..n
            BY <1>0, <3>1
          <6>3. QED
            BY <6>1, <6>2
        <5>2. QED
          BY <4>1, <5>1
      <4>3. QED
        BY <3>2, <4>1, <4>2
    <3>4. CASE n >= first /\ InContext(path[n])
      <4>1. u[n] = Append(u[n - 1], path[n]) /\ path[n] \in Entries
        <5>1. u[n] = Append(u[n - 1], path[n])
          BY <1>1, <3>1, <3>4
        <5>2. path[n] \in Entries
          BY <3>1
        <5>3. QED
          BY <5>1, <5>2
      <4>2. /\ u[n] \in Seq(Entries)
            /\ DOMAIN u[n] = 1..(Len(u[n - 1]) + 1) /\ DOMAIN u[n - 1] = 1..Len(u[n - 1])
            /\ Len(u[n - 1]) \in Nat
            /\ \A i \in DOMAIN u[n - 1] : u[n][i] = u[n - 1][i]
            /\ u[n][Len(u[n - 1]) + 1] = path[n]
        BY <3>2, <4>1, AppendFacts
      <4>3. From(n)
        <5>1. ASSUME NEW k \in DOMAIN u[n]
              PROVE  \E j \in 1..n : u[n][k] = path[j] /\ InContext(path[j])
          <6>1. CASE k \in DOMAIN u[n - 1]
            <7>1. \E j \in 1..(n - 1) : u[n - 1][k] = path[j] /\ InContext(path[j])
              BY <3>2, <6>1
            <7>2. u[n][k] = u[n - 1][k] /\ 1..(n - 1) \subseteq 1..n
              BY <4>2, <6>1, <3>1
            <7>3. QED
              BY <7>1, <7>2
          <6>2. CASE k \notin DOMAIN u[n - 1]
            <7>1. k = Len(u[n - 1]) + 1
              BY <4>2, <6>2
            <7>2. u[n][k] = path[n] /\ n \in 1..n
              BY <4>2, <7>1, <3>1
            <7>3. QED
              BY <3>4, <7>2
          <6>3. QED
            BY <6>1, <6>2
        <5>2. QED
          BY <5>1
      <4>4. \A k \in DOMAIN u[n - 1] : u[n][k].id # path[n].id
        <5>1. ASSUME NEW k \in DOMAIN u[n - 1] PROVE u[n][k].id # path[n].id
          <6>1. PICK j \in 1..(n - 1) : u[n - 1][k] = path[j]
            BY <3>2
          <6>2. j \in DOMAIN path /\ n \in DOMAIN path /\ j # n
            BY <1>0, <3>1
          <6>3. path[j].id # path[n].id
            BY <6>2 DEF Once
          <6>4. QED
            BY <4>2, <6>1, <6>3
        <5>2. QED
          BY <5>1
      <4>5. Once(u[n])
        <5>1. ASSUME NEW i \in DOMAIN u[n], NEW j \in DOMAIN u[n], u[n][i].id = u[n][j].id
              PROVE  i = j
          <6>1. CASE i \in DOMAIN u[n - 1] /\ j \in DOMAIN u[n - 1]
            BY <3>2, <4>2, <5>1, <6>1 DEF Once
          <6>2. CASE i \notin DOMAIN u[n - 1] /\ j \notin DOMAIN u[n - 1]
            BY <4>2, <6>2
          <6>3. CASE i \in DOMAIN u[n - 1] /\ j \notin DOMAIN u[n - 1]
            <7>1. u[n][j] = path[n]
              BY <4>2, <6>3
            <7>2. QED
              BY <4>4, <5>1, <6>3, <7>1
          <6>4. CASE i \notin DOMAIN u[n - 1] /\ j \in DOMAIN u[n - 1]
            <7>1. u[n][i] = path[n]
              BY <4>2, <6>4
            <7>2. QED
              BY <4>4, <5>1, <6>4, <7>1
          <6>5. QED
            BY <6>1, <6>2, <6>3, <6>4
        <5>2. QED
          BY <5>1 DEF Once
      <4>6. QED
        BY <4>2, <4>3, <4>5
    <3>5. QED
      BY <3>3, <3>4
  <2>3. QED
    BY <2>1, <2>2
<1>3. T = Nat
  BY <1>2, Below DEF T
<1>4. u[Len(path)] \in Seq(Entries) /\ Once(u[Len(path)]) /\ From(Len(path))
  <2>1. Len(path) \in T /\ Len(path) <= Len(path)
    BY <1>0, <1>3
  <2>2. QED
    BY <2>1
<1>5. Shown(path, first) = u[Len(path)]
  BY ShownIsUpTo DEF u
<1>6. QED
  BY <1>0, <1>4, <1>5

\* Where nothing begins with a result, what is shown keeps results at their calls.
LEMMA ShownPaired ==
  ASSUME NEW path \in Seq(Entries), Paired(path), NEW first \in DOMAIN path,
         path[first].kind # "toolResult"
  PROVE  Paired(Shown(path, first))
<1> DEFINE u == UpTo(path, first)
           Ends(n) == n >= first /\ InContext(path[n]) =>
                        u[n] # <<>> /\ u[n][Len(u[n])] = path[n]
           T == {n \in Nat : n <= Len(path) => u[n] \in Seq(Entries) /\ Paired(u[n]) /\ Ends(n)}
<1>0. Len(path) \in Nat /\ DOMAIN path = 1..Len(path) /\ first \in Nat /\ first >= 1
  OBVIOUS
<1>1. /\ u[0] = <<>>
      /\ \A i \in 1..Len(path) :
           u[i] = IF i >= first /\ InContext(path[i]) THEN Append(u[i - 1], path[i])
                  ELSE u[i - 1]
  BY UpToSteps
<1> HIDE DEF u
<1>2. ASSUME NEW n \in Nat, \A m \in 0..(n - 1) : m \in T PROVE n \in T
  <2> SUFFICES ASSUME n <= Len(path) PROVE u[n] \in Seq(Entries) /\ Paired(u[n]) /\ Ends(n)
    OBVIOUS
  <2>1. CASE n = 0
    <3>1. u[n] = <<>> /\ DOMAIN <<>> = {} /\ ~(n >= first)
      BY <1>0, <1>1, <2>1
    <3>2. QED
      BY <3>1 DEF Paired
  <2>2. CASE n # 0
    <3>1. n \in 1..Len(path) /\ n - 1 \in 0..(n - 1) /\ n - 1 <= Len(path)
      BY <1>0, <2>2
    <3>2. u[n - 1] \in Seq(Entries) /\ Paired(u[n - 1]) /\ Ends(n - 1)
      BY <1>2, <3>1
    <3>3. CASE ~(n >= first /\ InContext(path[n]))
      BY <1>1, <3>1, <3>2, <3>3
    <3>4. CASE n >= first /\ InContext(path[n])
      <4>1. u[n] = Append(u[n - 1], path[n]) /\ path[n] \in Entries
        <5>1. u[n] = Append(u[n - 1], path[n])
          BY <1>1, <3>1, <3>4
        <5>2. path[n] \in Entries
          BY <3>1
        <5>3. QED
          BY <5>1, <5>2
      <4> DEFINE k == Len(u[n - 1])
      <4>2. /\ u[n] \in Seq(Entries) /\ Len(u[n]) = k + 1
            /\ DOMAIN u[n] = 1..(k + 1) /\ DOMAIN u[n - 1] = 1..k
            /\ k \in Nat
            /\ \A i \in DOMAIN u[n - 1] : u[n][i] = u[n - 1][i]
            /\ u[n][k + 1] = path[n]
        BY <3>2, <4>1, AppendFacts
      <4>3. ASSUME path[n].kind = "toolResult"
            PROVE  k >= 1 /\ IsResponse(u[n][k]) /\ u[n][k].stop = "call"
        <5>1. n > 1 /\ IsResponse(path[n - 1]) /\ path[n - 1].stop = "call"
          BY <1>0, <3>1, <4>3 DEF Paired
        <5>2. n # first
          BY <4>3
        <5>3. n - 1 >= first /\ InContext(path[n - 1])
          BY <1>0, <3>4, <5>1, <5>2 DEF IsResponse, InContext, IsMessage, MessageKinds
        <5>4. u[n - 1] # <<>> /\ u[n - 1][k] = path[n - 1]
          BY <3>2, <5>3
        <5>5. k >= 1
          BY <3>2, <5>4, EmptySeq
        <5>6. u[n][k] = path[n - 1]
          <6>1. k \in DOMAIN u[n - 1]
            BY <4>2, <5>5
          <6>2. QED
            BY <4>2, <5>4, <6>1
        <5>7. QED
          BY <5>1, <5>5, <5>6
      <4>4. Paired(u[n])
        <5> HIDE DEF k
        <5>1. ASSUME NEW i \in DOMAIN u[n], u[n][i].kind = "toolResult"
              PROVE  i > 1 /\ IsResponse(u[n][i - 1]) /\ u[n][i - 1].stop = "call"
          <6>1. CASE i \in DOMAIN u[n - 1]
            <7>1. i > 1 /\ IsResponse(u[n - 1][i - 1]) /\ u[n - 1][i - 1].stop = "call"
              BY <3>2, <4>2, <5>1, <6>1 DEF Paired
            <7>2. i - 1 \in DOMAIN u[n - 1]
              BY <4>2, <6>1, <7>1
            <7>3. u[n][i - 1] = u[n - 1][i - 1]
              BY <4>2, <7>2
            <7>4. QED
              BY <7>1, <7>3
          <6>2. CASE i \notin DOMAIN u[n - 1]
            <7>1. i = k + 1 /\ u[n][i] = path[n] /\ i - 1 = k
              BY <4>2, <6>2
            <7>2. QED
              BY <4>2, <4>3, <5>1, <7>1
          <6>3. QED
            BY <6>1, <6>2
        <5>2. QED
          BY <5>1 DEF Paired
      <4>5. Ends(n)
        <5>1. u[n] # <<>> /\ u[n][Len(u[n])] = path[n]
          BY <4>2
        <5>2. QED
          BY <5>1
      <4>6. QED
        BY <4>2, <4>4, <4>5
    <3>5. QED
      BY <3>3, <3>4
  <2>3. QED
    BY <2>1, <2>2
<1>3. T = Nat
  BY <1>2, Below DEF T
<1>4. Paired(u[Len(path)])
  BY <1>0, <1>3
<1>5. Shown(path, first) = u[Len(path)]
  BY ShownIsUpTo DEF u
<1>6. QED
  BY <1>4, <1>5

LEMMA ConcatFacts ==
  ASSUME NEW s \in Seq(Entries), NEW t \in Seq(Entries)
  PROVE  /\ s \o t \in Seq(Entries) /\ Len(s \o t) = Len(s) + Len(t)
         /\ Len(s) \in Nat /\ Len(t) \in Nat /\ DOMAIN s = 1..Len(s) /\ DOMAIN t = 1..Len(t)
         /\ DOMAIN (s \o t) = 1..(Len(s) + Len(t))
         /\ \A i \in 1..Len(s) : (s \o t)[i] = s[i]
         /\ \A i \in 1..Len(t) : (s \o t)[Len(s) + i] = t[i]
         /\ \A i \in (Len(s) + 1)..(Len(s) + Len(t)) : (s \o t)[i] = t[i - Len(s)]
         /\ \A i \in DOMAIN (s \o t) : i \notin DOMAIN s =>
              i - Len(s) \in DOMAIN t /\ (s \o t)[i] = t[i - Len(s)]
<1>1. /\ s \o t \in Seq(Entries) /\ Len(s \o t) = Len(s) + Len(t)
      /\ Len(s) \in Nat /\ Len(t) \in Nat /\ DOMAIN s = 1..Len(s) /\ DOMAIN t = 1..Len(t)
      /\ DOMAIN (s \o t) = 1..(Len(s) + Len(t))
  OBVIOUS
<1>2. \A i \in 1..(Len(s) + Len(t)) :
        (s \o t)[i] = IF i <= Len(s) THEN s[i] ELSE t[i - Len(s)]
  BY ConcatProperties
<1>3. QED
  BY <1>1, <1>2

LEMMA Associates ==
  ASSUME NEW a \in Seq(Entries), NEW b \in Seq(Entries), NEW d \in Seq(Entries)
  PROVE  (a \o b) \o d = a \o (b \o d)
<1> DEFINE ab == a \o b
           bd == b \o d
           x == ab \o d
           y == a \o bd
<1>1. /\ ab \in Seq(Entries) /\ Len(ab) = Len(a) + Len(b) /\ Len(a) \in Nat /\ Len(b) \in Nat
      /\ \A i \in 1..Len(a) : ab[i] = a[i]
      /\ \A i \in 1..Len(b) : ab[Len(a) + i] = b[i]
  BY ConcatFacts
<1>2. /\ bd \in Seq(Entries) /\ Len(bd) = Len(b) + Len(d) /\ Len(d) \in Nat
      /\ \A i \in 1..Len(b) : bd[i] = b[i]
      /\ \A i \in 1..Len(d) : bd[Len(b) + i] = d[i]
  BY ConcatFacts
<1> HIDE DEF ab, bd
<1>3. /\ x \in Seq(Entries) /\ Len(x) = Len(ab) + Len(d)
      /\ \A i \in 1..Len(ab) : x[i] = ab[i]
      /\ \A i \in 1..Len(d) : x[Len(ab) + i] = d[i]
  BY <1>1, ConcatFacts
<1>4. /\ y \in Seq(Entries) /\ Len(y) = Len(a) + Len(bd)
      /\ \A i \in 1..Len(a) : y[i] = a[i]
      /\ \A i \in 1..Len(bd) : y[Len(a) + i] = bd[i]
  BY <1>2, ConcatFacts
<1> HIDE DEF x, y
<1>5. ASSUME NEW i \in 1..Len(x) PROVE x[i] = y[i]
  <2>1. CASE i <= Len(a)
    <3>1. i \in 1..Len(a) /\ i \in 1..Len(ab)
      BY <1>1, <2>1
    <3>2. QED
      BY <1>1, <1>3, <1>4, <3>1
  <2>2. CASE i > Len(a) /\ i <= Len(a) + Len(b)
    <3> DEFINE j == i - Len(a)
    <3>1. j \in 1..Len(b) /\ i \in 1..Len(ab) /\ j \in 1..Len(bd) /\ i = Len(a) + j
      BY <1>1, <1>2, <2>2
    <3> HIDE DEF j
    <3>2. x[i] = b[j]
      BY <1>1, <1>3, <3>1
    <3>3. y[i] = b[j]
      BY <1>2, <1>4, <3>1
    <3>4. QED
      BY <3>2, <3>3
  <2>3. CASE i > Len(a) + Len(b)
    <3> DEFINE j == i - (Len(a) + Len(b))
    <3>1. /\ j \in 1..Len(d) /\ i = Len(ab) + j /\ Len(b) + j \in 1..Len(bd)
          /\ i = Len(a) + (Len(b) + j)
      BY <1>1, <1>2, <1>3, <2>3
    <3> HIDE DEF j
    <3>2. x[i] = d[j]
      BY <1>3, <3>1
    <3>3. y[i] = bd[Len(b) + j]
      BY <1>4, <3>1
    <3>4. bd[Len(b) + j] = d[j]
      BY <1>2, <3>1
    <3>5. QED
      BY <3>2, <3>3, <3>4
  <2>4. QED
    BY <1>1, <2>1, <2>2, <2>3
<1>6. Len(x) = Len(y)
  BY <1>1, <1>2, <1>3, <1>4
<1>7. x = y
  <2>1. x \in Seq(Entries) /\ y \in Seq(Entries) /\ \A i \in 1..Len(x) : x[i] = y[i]
    BY <1>3, <1>4, <1>5
  <2>2. QED
    BY <1>6, <2>1, SeqEqual
<1>8. QED
  BY <1>7 DEF x, y, ab, bd

LEMMA PrefixAppend ==
  ASSUME NEW a \in Seq(Entries), NEW t \in Seq(Entries), NEW k \in 1..Len(t)
  PROVE  Append(a \o SubSeq(t, 1, k - 1), t[k]) = a \o SubSeq(t, 1, k)
<1> DEFINE b == SubSeq(t, 1, k - 1)
           c == SubSeq(t, 1, k)
<1>1. SubSeq(t, 1, k) = SubSeq(t, 1, k - 1) \o <<t[k]>>
  <2>1. 1 \in 1..Len(t) /\ k \in 1..Len(t)
    OBVIOUS
  <2>2. QED
    BY <2>1, SubSeqRecursiveSecond
<1>2. b \in Seq(Entries) /\ <<t[k]>> \in Seq(Entries) /\ t[k] \in Entries
  <2>1. \A i \in 1..(k - 1) : t[i] \in Entries
    OBVIOUS
  <2>2. QED
    BY <2>1, SubSeqProperties
<1>3. Append(a \o b, t[k]) = (a \o b) \o <<t[k]>>
  BY <1>2, AppendIsConcat, ConcatProperties
<1>4. (a \o b) \o <<t[k]>> = a \o (b \o <<t[k]>>)
  <2> DEFINE d == <<t[k]>>
  <2>1. b \in Seq(Entries) /\ d \in Seq(Entries)
    BY <1>2
  <2> HIDE DEF b, d
  <2>2. (a \o b) \o d = a \o (b \o d)
    BY <2>1, Associates
  <2>3. QED
    BY <2>2 DEF d
<1>5. QED
  BY <1>1, <1>3, <1>4

\* Entries that come after are shown after.
LEMMA ShownConcat ==
  ASSUME NEW path \in Seq(Entries), NEW new \in Seq(Entries), Once(path),
         \A i \in DOMAIN new : InContext(new[i]), NEW first \in 1..Len(path)
  PROVE  Shown(path \o new, first) = Shown(path, first) \o new
<1> DEFINE whole == path \o new
           f == UpTo(path, first)
           g == UpTo(whole, first)
           L == Len(path)
           T == {n \in Nat : n <= L => g[n] = f[n]}
           U == {n \in Nat : n <= Len(new) => g[L + n] = f[L] \o SubSeq(new, 1, n)}
<1>0. /\ whole \in Seq(Entries) /\ Len(whole) = L + Len(new) /\ L \in Nat /\ Len(new) \in Nat
      /\ \A i \in 1..L : whole[i] = path[i]
      /\ \A i \in 1..Len(new) : whole[L + i] = new[i]
  BY ConcatFacts
<1> HIDE DEF whole
<1>1. /\ f[0] = <<>>
      /\ \A i \in 1..L : f[i] = IF i >= first /\ InContext(path[i]) THEN Append(f[i - 1], path[i])
                                ELSE f[i - 1]
  BY UpToSteps
<1>2. /\ g[0] = <<>>
      /\ \A i \in 1..(L + Len(new)) :
           g[i] = IF i >= first /\ InContext(whole[i]) THEN Append(g[i - 1], whole[i])
                  ELSE g[i - 1]
  <2>1. /\ g[0] = <<>>
        /\ \A i \in 1..Len(whole) :
             g[i] = IF i >= first /\ InContext(whole[i]) THEN Append(g[i - 1], whole[i])
                    ELSE g[i - 1]
    <3>1. whole \in Seq(Entries)
      BY <1>0
    <3>2. QED
      BY <3>1, UpToSteps
  <2>2. Len(whole) = L + Len(new)
    BY <1>0
  <2> HIDE DEF g
  <2>3. QED
    BY <2>1, <2>2
<1>3. f[L] = Shown(path, first) /\ g[L + Len(new)] = Shown(whole, first)
  BY <1>0, ShownIsUpTo
<1>4. f[L] \in Seq(Entries)
  BY <1>3, ShownFromPath
<1> HIDE DEF f, g
<1>5. ASSUME NEW n \in Nat, \A m \in 0..(n - 1) : m \in T PROVE n \in T
  <2> SUFFICES ASSUME n <= L PROVE g[n] = f[n]
    OBVIOUS
  <2>1. CASE n = 0
    BY <1>1, <1>2, <2>1
  <2>2. CASE n # 0
    <3>1. n \in 1..L /\ n \in 1..(L + Len(new)) /\ n - 1 \in 0..(n - 1) /\ n - 1 <= L
      BY <1>0, <2>2
    <3>2. g[n - 1] = f[n - 1]
      BY <1>5, <3>1
    <3>3. whole[n] = path[n]
      BY <1>0, <3>1
    <3>4. QED
      BY <1>1, <1>2, <3>1, <3>2, <3>3
  <2>3. QED
    BY <2>1, <2>2
<1>6. T = Nat
  BY <1>5, Below DEF T
<1>7. g[L] = f[L]
  <2>1. L \in T
    BY <1>0, <1>6
  <2>2. QED
    BY <2>1
<1>8. ASSUME NEW n \in Nat, \A m \in 0..(n - 1) : m \in U PROVE n \in U
  <2> SUFFICES ASSUME n <= Len(new) PROVE g[L + n] = f[L] \o SubSeq(new, 1, n)
    OBVIOUS
  <2>1. CASE n = 0
    <3>1. SubSeq(new, 1, n) = <<>>
      BY <2>1, SubSeqEmpty
    <3>2. L + n = L
      BY <1>0, <2>1
    <3>3. QED
      BY <1>4, <1>7, <3>1, <3>2, ConcatEmptySeq
  <2>2. CASE n # 0
    <3>1. /\ n \in 1..Len(new) /\ L + n \in 1..(L + Len(new)) /\ n - 1 \in 0..(n - 1)
          /\ n - 1 <= Len(new) /\ L + n >= first /\ (L + n) - 1 = L + (n - 1)
      BY <1>0, <2>2
    <3>2. g[L + (n - 1)] = f[L] \o SubSeq(new, 1, n - 1)
      BY <1>8, <3>1
    <3>3. whole[L + n] = new[n] /\ InContext(new[n])
      BY <1>0, <3>1
    <3>4. g[L + n] = Append(g[L + (n - 1)], new[n])
      BY <1>2, <3>1, <3>3
    <3>5. QED
      BY <1>4, <3>1, <3>2, <3>4, PrefixAppend
  <2>3. QED
    BY <2>1, <2>2
<1>9. U = Nat
  BY <1>8, Below DEF U
<1>10. g[L + Len(new)] = f[L] \o SubSeq(new, 1, Len(new))
  <2>1. Len(new) \in U
    BY <1>0, <1>9
  <2>2. \A n \in U : n <= Len(new) => g[L + n] = f[L] \o SubSeq(new, 1, n)
    OBVIOUS
  <2> DEFINE n == Len(new)
  <2> HIDE DEF U
  <2>3. n \in U /\ n <= Len(new)
    BY <1>0, <2>1
  <2> HIDE DEF n
  <2>4. g[L + n] = f[L] \o SubSeq(new, 1, n)
    BY <2>2, <2>3
  <2>5. QED
    BY <2>4 DEF n
<1>11. SubSeq(new, 1, Len(new)) = new
  BY SubSeqFull
<1>12. QED
  BY <1>3, <1>10, <1>11 DEF whole

------------------------------------------------------------------------------
(* The context of a path *)

\* Where a cut may be: a message on the path that is no tool result.
CutAt(path, j, n) == path[j].id = n /\ InContext(path[j]) /\ path[j].kind # "toolResult"

\* What a compaction kept is earlier on the path.
KeptThere(s) ==
  \A i \in DOMAIN s : IsCompaction(s[i]) => \E j \in 1..(i - 1) : CutAt(s, j, s[i].kept)

LEMMA OneKept ==
  ASSUME NEW path \in Seq(Entries), Once(path), NEW j \in DOMAIN path
  PROVE  Min(At(path, path[j].id)) = j
<1>1. At(path, path[j].id) = {j} /\ j \in Nat
  BY DEF At, Once
<1>2. Min({j}) \in {j}
  BY <1>1, MinIs
<1>3. QED
  BY <1>1, <1>2

LEMMA ContextIs ==
  ASSUME NEW path \in Seq(Entries), Once(path), KeptThere(path)
  PROVE  /\ LastCompaction(path) = 0 => Context(path) = path
         /\ LastCompaction(path) # 0 =>
              \E j \in 1..(LastCompaction(path) - 1) :
                /\ j \in DOMAIN path /\ CutAt(path, j, path[LastCompaction(path)].kept)
                /\ Context(path) = <<path[LastCompaction(path)]>> \o Shown(path, j)
<1> DEFINE n == LastCompaction(path)
<1>1. n \in 0..Len(path) /\ (n # 0 => IsCompaction(path[n]))
  BY NewestCompaction
<1>2. CASE n = 0
  BY <1>2 DEF Context
<1>3. CASE n # 0
  <2>1. n \in DOMAIN path /\ IsCompaction(path[n]) /\ Len(path) \in Nat /\ n \in Nat
        /\ DOMAIN path = 1..Len(path)
    BY <1>1, <1>3
  <2> HIDE DEF n
  <2>2. PICK j \in 1..(n - 1) : CutAt(path, j, path[n].kept)
    BY <2>1 DEF KeptThere
  <2>3. j \in DOMAIN path
    BY <1>1, <2>1
  <2>4. Min(At(path, path[n].kept)) = j
    BY <2>2, <2>3, OneKept DEF CutAt
  <2>5. Context(path) = <<path[n]>> \o Shown(path, j)
    BY <1>3, <2>4 DEF Context, n
  <2>6. QED
    BY <1>3, <2>2, <2>3, <2>5 DEF n
<1>4. QED
  BY <1>2, <1>3

LEMMA KeptThereGrows ==
  ASSUME NEW path \in Seq(Entries), NEW new \in Seq(Entries), KeptThere(path),
         \A i \in DOMAIN new : InContext(new[i])
  PROVE  KeptThere(path \o new)
<1> DEFINE whole == path \o new
<1>0. /\ whole \in Seq(Entries) /\ DOMAIN whole = 1..(Len(path) + Len(new))
      /\ Len(path) \in Nat /\ Len(new) \in Nat /\ DOMAIN path = 1..Len(path)
      /\ DOMAIN new = 1..Len(new)
      /\ \A i \in 1..Len(path) : whole[i] = path[i]
      /\ \A i \in DOMAIN whole : i \notin DOMAIN path =>
           i - Len(path) \in DOMAIN new /\ whole[i] = new[i - Len(path)]
  BY ConcatFacts
<1> HIDE DEF whole
<1>1. ASSUME NEW i \in DOMAIN whole, IsCompaction(whole[i])
      PROVE  \E j \in 1..(i - 1) : CutAt(whole, j, whole[i].kept)
  <2>1. i \in DOMAIN path
    <3> SUFFICES ASSUME i \notin DOMAIN path PROVE FALSE
      OBVIOUS
    <3>1. i - Len(path) \in DOMAIN new /\ whole[i] = new[i - Len(path)]
      BY <1>0
    <3>2. QED
      BY <1>1, <3>1, EntryKinds
  <2>2. whole[i] = path[i]
    BY <1>0, <2>1
  <2>3. PICK j \in 1..(i - 1) : CutAt(path, j, path[i].kept)
    BY <1>1, <2>1, <2>2 DEF KeptThere
  <2>4. j \in 1..Len(path)
    BY <1>0, <2>1
  <2>5. whole[j] = path[j]
    BY <1>0, <2>4
  <2>6. QED
    BY <2>2, <2>3, <2>5 DEF CutAt
<1>2. QED
  BY <1>1 DEF KeptThere, whole

Apart(s, t) == \A i \in DOMAIN s, j \in DOMAIN t : s[i].id # t[j].id

LEMMA OnceGrows ==
  ASSUME NEW s \in Seq(Entries), NEW t \in Seq(Entries), Once(s), Once(t), Apart(s, t)
  PROVE  Once(s \o t)
<1> DEFINE w == s \o t
<1>0. /\ DOMAIN w = 1..(Len(s) + Len(t)) /\ DOMAIN s = 1..Len(s) /\ Len(s) \in Nat
      /\ Len(t) \in Nat
      /\ \A i \in 1..Len(s) : w[i] = s[i]
      /\ \A i \in DOMAIN w : i \notin DOMAIN s =>
           i - Len(s) \in DOMAIN t /\ w[i] = t[i - Len(s)]
  BY ConcatFacts
<1> HIDE DEF w
<1>1. ASSUME NEW i \in DOMAIN w, NEW j \in DOMAIN w, w[i].id = w[j].id PROVE i = j
  <2>1. CASE i \in DOMAIN s /\ j \in DOMAIN s
    BY <1>0, <1>1, <2>1 DEF Once
  <2>2. CASE i \notin DOMAIN s /\ j \notin DOMAIN s
    <3>1. i - Len(s) = j - Len(s)
      BY <1>0, <1>1, <2>2 DEF Once
    <3>2. QED
      BY <1>0, <3>1
  <2>3. CASE i \in DOMAIN s /\ j \notin DOMAIN s
    BY <1>0, <1>1, <2>3 DEF Apart
  <2>4. CASE i \notin DOMAIN s /\ j \in DOMAIN s
    BY <1>0, <1>1, <2>4 DEF Apart
  <2>5. QED
    BY <2>1, <2>2, <2>3, <2>4
<1>2. QED
  BY <1>1 DEF Once, w

\* Messages that are appended to a path are appended to its context.
LEMMA ContextConcat ==
  ASSUME NEW s \in Seq(Entries), NEW t \in Seq(Entries), Once(s), Once(t), Apart(s, t),
         KeptThere(s), \A i \in DOMAIN t : InContext(t[i])
  PROVE  Context(s \o t) = Context(s) \o t
<1> DEFINE w == s \o t
           n == LastCompaction(s)
<1>0. /\ w \in Seq(Entries) /\ Len(w) = Len(s) + Len(t)
      /\ DOMAIN w = 1..(Len(s) + Len(t)) /\ DOMAIN s = 1..Len(s) /\ Len(s) \in Nat
      /\ Len(t) \in Nat
      /\ \A i \in 1..Len(s) : w[i] = s[i]
      /\ \A i \in DOMAIN w : i \notin DOMAIN s =>
           i - Len(s) \in DOMAIN t /\ w[i] = t[i - Len(s)]
  BY ConcatFacts
<1>1. Once(w) /\ KeptThere(w)
  BY OnceGrows, KeptThereGrows
<1>2. /\ n \in 0..Len(s) /\ (n # 0 => IsCompaction(s[n]))
      /\ \A i \in DOMAIN s : IsCompaction(s[i]) => i <= n
  BY NewestCompaction
<1> HIDE DEF w, n
<1>3. LastCompaction(w) = n
  <2>1. n \in 0..Len(w)
    BY <1>0, <1>2
  <2>2. n # 0 => IsCompaction(w[n])
    <3>1. n # 0 => n \in 1..Len(s)
      BY <1>0, <1>2
    <3>2. QED
      BY <1>0, <1>2, <3>1
  <2>3. \A i \in DOMAIN w : IsCompaction(w[i]) => i <= n
    <3>1. ASSUME NEW i \in DOMAIN w, IsCompaction(w[i]) PROVE i <= n
      <4>1. CASE i \in DOMAIN s
        BY <1>0, <1>2, <3>1, <4>1
      <4>2. CASE i \notin DOMAIN s
        <5>1. i - Len(s) \in DOMAIN t /\ w[i] = t[i - Len(s)]
          BY <1>0, <4>2
        <5>2. QED
          BY <3>1, <5>1, EntryKinds
      <4>3. QED
        BY <4>1, <4>2
    <3>2. QED
      BY <3>1
  <2>4. QED
    BY <1>0, <2>1, <2>2, <2>3, NoneNewer
<1>4. CASE n = 0
  BY <1>0, <1>1, <1>3, <1>4, ContextIs DEF w, n
<1>5. CASE n # 0
  <2>1. n \in 1..Len(s) /\ w[n] = s[n] /\ s[n] \in Entries
    BY <1>0, <1>2, <1>5
  <2>2. PICK j \in 1..(n - 1) : /\ j \in DOMAIN s /\ CutAt(s, j, s[n].kept)
                                /\ Context(s) = <<s[n]>> \o Shown(s, j)
    BY <1>5, ContextIs DEF n
  <2>3. PICK k \in 1..(n - 1) : /\ k \in DOMAIN w /\ CutAt(w, k, w[n].kept)
                                /\ Context(w) = <<w[n]>> \o Shown(w, k)
    BY <1>0, <1>1, <1>3, <1>5, ContextIs
  <2>4. k = j
    <3>1. k \in DOMAIN s /\ w[k] = s[k]
      BY <1>0, <2>1
    <3>2. s[k].id = s[j].id
      BY <2>1, <2>2, <2>3, <3>1 DEF CutAt
    <3>3. QED
      BY <2>2, <3>1, <3>2 DEF Once
  <2>5. Shown(w, j) = Shown(s, j) \o t
    BY <1>0, <2>2, ShownConcat DEF w
  <2> DEFINE h == Shown(s, j)
             d == <<s[n]>>
  <2>6. h \in Seq(Entries) /\ d \in Seq(Entries)
    BY <2>1, ShownFromPath
  <2>7. Context(w) = d \o (h \o t) /\ Context(s) = d \o h
    BY <2>1, <2>2, <2>3, <2>4, <2>5
  <2> HIDE DEF h, d
  <2>8. (d \o h) \o t = d \o (h \o t)
    BY <2>6, Associates
  <2>9. QED
    BY <2>7, <2>8 DEF w
<1>6. QED
  BY <1>4, <1>5

\* The context of a path has entries of the path, each once.
LEMMA ContextFromPath ==
  ASSUME NEW s \in Seq(Entries), Once(s), KeptThere(s)
  PROVE  /\ Context(s) \in Seq(Entries) /\ Once(Context(s))
         /\ \A a \in DOMAIN Context(s) : \E j \in DOMAIN s : Context(s)[a] = s[j]
<1> DEFINE n == LastCompaction(s)
<1>1. CASE n = 0
  <2>1. Context(s) = s
    BY <1>1, ContextIs
  <2>2. QED
    BY <2>1
<1>2. CASE n # 0
  <2>1. n \in DOMAIN s /\ s[n] \in Entries /\ IsCompaction(s[n])
    BY <1>2, NewestCompaction
  <2>2. PICK j : Context(s) = <<s[n]>> \o Shown(s, j)
    BY <1>2, ContextIs
  <2> DEFINE h == Shown(s, j)
             d == <<s[n]>>
  <2>3. /\ h \in Seq(Entries) /\ Once(h)
        /\ \A k \in DOMAIN h : \E i \in DOMAIN s : h[k] = s[i] /\ InContext(s[i])
    BY ShownFromPath
  <2>4. d \in Seq(Entries) /\ DOMAIN d = {1} /\ d[1] = s[n] /\ Len(d) = 1
    BY <2>1
  <2>5. Once(d)
    BY <2>4 DEF Once
  <2> HIDE DEF h, d, n
  <2>6. Apart(d, h)
    <3>1. ASSUME NEW k \in DOMAIN h PROVE d[1].id # h[k].id
      <4>1. PICK i \in DOMAIN s : h[k] = s[i] /\ InContext(s[i])
        BY <2>3
      <4>2. s[i] \in Entries
        BY <4>1
      <4>3. i # n
        BY <2>1, <4>1, <4>2, EntryKinds
      <4>4. QED
        BY <2>1, <2>4, <4>1, <4>3 DEF Once
    <3>2. QED
      BY <2>4, <3>1 DEF Apart
  <2>7. Context(s) = d \o h
    BY <2>2 DEF d, h
  <2>8. d \o h \in Seq(Entries) /\ Once(d \o h)
    BY <2>3, <2>4, <2>5, <2>6, OnceGrows, ConcatFacts
  <2>9. ASSUME NEW a \in DOMAIN (d \o h) PROVE \E i \in DOMAIN s : (d \o h)[a] = s[i]
    <3>1. CASE a = 1
      <4>1. (d \o h)[a] = s[n]
        BY <2>3, <2>4, <3>1, ConcatFacts
      <4>2. QED
        BY <2>1, <4>1
    <3>2. CASE a # 1
      <4>1. a - 1 \in DOMAIN h /\ (d \o h)[a] = h[a - 1]
        <5>1. a \in DOMAIN (d \o h) /\ a \notin DOMAIN d
          BY <2>4, <2>9, <3>2
        <5>2. a - Len(d) \in DOMAIN h /\ (d \o h)[a] = h[a - Len(d)]
          BY <2>3, <2>4, <5>1, ConcatFacts
        <5>3. QED
          BY <2>4, <5>2
      <4>2. QED
        BY <2>3, <4>1
    <3>3. QED
      BY <3>1, <3>2
  <2>10. QED
    BY <2>7, <2>8, <2>9
<1>3. QED
  BY <1>1, <1>2

\* A result that is in the context is there with its call.
LEMMA ContextPaired ==
  ASSUME NEW s \in Seq(Entries), Once(s), KeptThere(s), Paired(s)
  PROVE  Paired(Context(s))
<1> DEFINE n == LastCompaction(s)
<1>1. CASE n = 0
  BY <1>1, ContextIs
<1>2. CASE n # 0
  <2>1. n \in DOMAIN s /\ s[n] \in Entries /\ IsCompaction(s[n])
    BY <1>2, NewestCompaction
  <2>2. PICK j \in DOMAIN s : /\ CutAt(s, j, s[n].kept)
                              /\ Context(s) = <<s[n]>> \o Shown(s, j)
    BY <1>2, ContextIs
  <2> DEFINE h == Shown(s, j)
             d == <<s[n]>>
  <2>3. h \in Seq(Entries)
    BY ShownFromPath
  <2>4. d \in Seq(Entries) /\ DOMAIN d = {1} /\ d[1] = s[n] /\ Len(d) = 1
    BY <2>1
  <2>5. Paired(h)
    BY <2>2, ShownPaired DEF CutAt
  <2> HIDE DEF h, d, n
  <2>6. Context(s) = d \o h
    BY <2>2 DEF d, h
  <2>7. /\ DOMAIN (d \o h) = 1..(1 + Len(h)) /\ DOMAIN h = 1..Len(h) /\ Len(h) \in Nat
        /\ (d \o h)[1] = s[n]
        /\ \A i \in DOMAIN h : (d \o h)[1 + i] = h[i]
    <3>1. /\ DOMAIN (d \o h) = 1..(Len(d) + Len(h)) /\ DOMAIN h = 1..Len(h) /\ Len(h) \in Nat
          /\ \A i \in 1..Len(d) : (d \o h)[i] = d[i]
          /\ \A i \in 1..Len(h) : (d \o h)[Len(d) + i] = h[i]
      BY <2>3, <2>4, ConcatFacts
    <3>2. QED
      BY <2>4, <3>1
  <2>8. ASSUME NEW i \in DOMAIN (d \o h), (d \o h)[i].kind = "toolResult"
        PROVE  i > 1 /\ IsResponse((d \o h)[i - 1]) /\ (d \o h)[i - 1].stop = "call"
    <3>1. i # 1
      BY <2>1, <2>7, <2>8 DEF IsCompaction
    <3>2. i - 1 \in DOMAIN h /\ (d \o h)[i] = h[i - 1]
      <4>1. i - 1 \in DOMAIN h /\ 1 + (i - 1) = i
        BY <2>7, <3>1
      <4>2. QED
        BY <2>7, <4>1
    <3>3. i - 1 > 1 /\ IsResponse(h[(i - 1) - 1]) /\ h[(i - 1) - 1].stop = "call"
      BY <2>5, <2>8, <3>2 DEF Paired
    <3>4. (d \o h)[i - 1] = h[(i - 1) - 1]
      <4>1. (i - 1) - 1 \in DOMAIN h /\ 1 + ((i - 1) - 1) = i - 1
        BY <2>7, <3>1, <3>3
      <4>2. QED
        BY <2>7, <4>1
    <3>5. QED
      BY <2>7, <3>1, <3>3, <3>4
  <2>9. QED
    BY <2>6, <2>8 DEF Paired
<1>3. QED
  BY <1>1, <1>2

\* After a compaction the context begins with it.
LEMMA ContextCompacted ==
  ASSUME NEW s \in Seq(Entries), NEW e \in Summaries, Once(Append(s, e)),
         KeptThere(Append(s, e))
  PROVE  /\ Context(Append(s, e)) # <<>> /\ Context(Append(s, e))[1] = e
         /\ Context(Append(s, e)) \in Seq(Entries)
<1> DEFINE w == Append(s, e)
           n == Len(s) + 1
<1>1. e \in Entries /\ IsCompaction(e)
  BY DEF Entries, Summaries, IsCompaction
<1>2. w \in Seq(Entries) /\ n \in 1..Len(w) /\ DOMAIN w = 1..n /\ w[n] = e /\ n # 0
  BY <1>1, AppendFacts
<1> HIDE DEF w, n
<1>3. LastCompaction(w) = n
  BY <1>1, <1>2, NoneNewer
<1>4. PICK j : Context(w) = <<e>> \o Shown(w, j)
  BY <1>2, <1>3, ContextIs DEF w
<1>5. Shown(w, j) \in Seq(Entries) /\ <<e>> \in Seq(Entries)
  <2>1. Once(w)
    BY DEF w
  <2>2. QED
    BY <1>1, <1>2, <2>1, ShownFromPath
<1>6. QED
  BY <1>4, <1>5 DEF w

BashResult == [id : Nat, kind : {"bash"}]

Numbered(s, c) == \A i \in DOMAIN s : s[i].id \in 1..c

\* No entry of s was emitted while nobody listened.
Outside(s, x) == \A i \in DOMAIN s : s[i].id \notin x

\* The first two parts of SavedAgrees, of a transcript and a context.
Agree(m, v, x) ==
  /\ \A i \in DOMAIN m : m[i].id \in x <=> \A a \in DOMAIN v : v[a] # m[i]
  /\ \A i, j \in DOMAIN m, a, b \in DOMAIN v :
       i < j /\ m[i] = v[a] /\ m[j] = v[b] => a < b

LEMMA BashIsEntry ==
  /\ \A e \in BashResult : e \in Heardable /\ e \in Nonresult /\ InContext(e)
  /\ \A b \in Seq(BashResult) : b \in Seq(Entries) /\ \A i \in DOMAIN b : b[i] \in BashResult
<1>1. \A e \in BashResult : e \in Heardable /\ e \in Nonresult /\ e \in Entries /\ InContext(e)
  BY DEF BashResult, Heardable, Plain, Nonresult, Entries, InContext, IsMessage, MessageKinds
<1>2. ASSUME NEW b \in Seq(BashResult)
      PROVE  b \in Seq(Entries) /\ \A i \in DOMAIN b : b[i] \in BashResult
  BY <1>1
<1>3. QED
  BY <1>1, <1>2

LEMMA AgreeConcat ==
  ASSUME NEW m \in Seq(Entries), NEW v \in Seq(Entries), NEW t \in Seq(Entries), NEW x,
         Agree(m, v, x), Once(t), Apart(m, t), Apart(v, t), Outside(t, x)
  PROVE  Agree(m \o t, v \o t, x)
<1> DEFINE w == m \o t
           u == v \o t
<1>1. /\ DOMAIN w = 1..(Len(m) + Len(t)) /\ DOMAIN m = 1..Len(m) /\ Len(m) \in Nat
      /\ Len(t) \in Nat /\ DOMAIN t = 1..Len(t)
      /\ \A i \in 1..Len(m) : w[i] = m[i]
      /\ \A i \in 1..Len(t) : w[Len(m) + i] = t[i]
      /\ \A i \in DOMAIN w : i \notin DOMAIN m =>
           i - Len(m) \in DOMAIN t /\ w[i] = t[i - Len(m)]
  BY ConcatFacts
<1>2. /\ DOMAIN u = 1..(Len(v) + Len(t)) /\ DOMAIN v = 1..Len(v) /\ Len(v) \in Nat
      /\ \A i \in 1..Len(v) : u[i] = v[i]
      /\ \A i \in 1..Len(t) : u[Len(v) + i] = t[i]
      /\ \A i \in DOMAIN u : i \notin DOMAIN v =>
           i - Len(v) \in DOMAIN t /\ u[i] = t[i - Len(v)]
  BY ConcatFacts
<1> HIDE DEF w, u
<1>3. \A i \in DOMAIN m, a \in DOMAIN u : u[a] = m[i] => a \in DOMAIN v
  BY <1>2 DEF Apart
<1>4. \A i \in DOMAIN w, a \in DOMAIN u :
        i \notin DOMAIN m /\ u[a] = w[i] => a \notin DOMAIN v
  BY <1>1, <1>2 DEF Apart
<1>5. ASSUME NEW i \in DOMAIN w
      PROVE  w[i].id \in x <=> \A a \in DOMAIN u : u[a] # w[i]
  <2>1. CASE i \in DOMAIN m
    <3>1. w[i] = m[i]
      BY <1>1, <2>1
    <3>2. (\E a \in DOMAIN u : u[a] = m[i]) <=> (\E a \in DOMAIN v : v[a] = m[i])
      <4>1. \A a \in DOMAIN v : a \in DOMAIN u /\ u[a] = v[a]
        BY <1>1, <1>2
      <4>2. QED
        BY <1>3, <2>1, <4>1
    <3>3. QED
      BY <2>1, <3>1, <3>2 DEF Agree
  <2>2. CASE i \notin DOMAIN m
    <3>1. i - Len(m) \in DOMAIN t /\ w[i] = t[i - Len(m)]
      BY <1>1, <2>2
    <3>2. w[i].id \notin x
      BY <3>1 DEF Outside
    <3>3. Len(v) + (i - Len(m)) \in DOMAIN u /\ u[Len(v) + (i - Len(m))] = w[i]
      BY <1>1, <1>2, <3>1
    <3>4. QED
      BY <3>2, <3>3
  <2>3. QED
    BY <2>1, <2>2
<1>6. ASSUME NEW i \in DOMAIN w, NEW j \in DOMAIN w, NEW a \in DOMAIN u, NEW b \in DOMAIN u,
             i < j, w[i] = u[a], w[j] = u[b]
      PROVE  a < b
  <2>1. CASE j \in DOMAIN m
    <3>1. i \in DOMAIN m /\ w[i] = m[i] /\ w[j] = m[j]
      BY <1>1, <1>6, <2>1
    <3>2. a \in DOMAIN v /\ b \in DOMAIN v
      BY <1>3, <1>6, <2>1, <3>1
    <3>3. u[a] = v[a] /\ u[b] = v[b]
      BY <1>2, <3>2
    <3>4. QED
      BY <1>6, <2>1, <3>1, <3>2, <3>3 DEF Agree
  <2>2. CASE j \notin DOMAIN m /\ i \in DOMAIN m
    <3>1. a \in DOMAIN v
      BY <1>1, <1>3, <1>6, <2>2
    <3>2. b \notin DOMAIN v
      BY <1>4, <1>6, <2>2
    <3>3. QED
      BY <1>2, <3>1, <3>2
  <2>3. CASE j \notin DOMAIN m /\ i \notin DOMAIN m
    <3>1. a \notin DOMAIN v /\ b \notin DOMAIN v
      BY <1>4, <1>6, <2>3
    <3>2. /\ i - Len(m) \in DOMAIN t /\ j - Len(m) \in DOMAIN t
          /\ t[i - Len(m)] = w[i] /\ t[j - Len(m)] = w[j]
      BY <1>1, <2>3
    <3>3. /\ a - Len(v) \in DOMAIN t /\ b - Len(v) \in DOMAIN t
          /\ t[a - Len(v)] = u[a] /\ t[b - Len(v)] = u[b]
      BY <1>2, <3>1
    <3>4. i - Len(m) = a - Len(v) /\ j - Len(m) = b - Len(v)
      BY <1>6, <3>2, <3>3 DEF Once
    <3>5. QED
      BY <1>1, <1>2, <1>6, <3>4
  <2>4. QED
    BY <2>1, <2>2, <2>3
<1>7. QED
  BY <1>5, <1>6 DEF Agree, w, u

\* A context agrees with itself.
LEMMA AgreeSelf ==
  ASSUME NEW v \in Seq(Entries), Once(v), NEW x, Outside(v, x)
  PROVE  Agree(v, v, x)
<1>1. \A i \in DOMAIN v : v[i].id \in x <=> \A a \in DOMAIN v : v[a] # v[i]
  BY DEF Outside
<1>2. \A i, j \in DOMAIN v : v[i] = v[j] => i = j
  BY DEF Once
<1>3. QED
  BY <1>1, <1>2 DEF Agree

LEMMA FrontFacts ==
  ASSUME NEW m \in Seq(Entries), m # <<>>
  PROVE  /\ Front(m) \in Seq(Entries) /\ Len(Front(m)) = Len(m) - 1 /\ Len(m) \in Nat \ {0}
         /\ DOMAIN Front(m) = 1..(Len(m) - 1) /\ DOMAIN m = 1..Len(m)
         /\ \A i \in DOMAIN Front(m) : i \in DOMAIN m /\ Front(m)[i] = m[i]
<1>1. Len(m) \in Nat \ {0} /\ DOMAIN m = 1..Len(m)
  BY EmptySeq
<1>2. \A i \in 1..(Len(m) - 1) : m[i] \in Entries
  BY <1>1
<1>3. 1 \in Int /\ Len(m) - 1 \in Int
  BY <1>1
<1>4. /\ SubSeq(m, 1, Len(m) - 1) \in Seq(Entries)
      /\ Len(SubSeq(m, 1, Len(m) - 1)) = IF 1 <= Len(m) - 1 THEN (Len(m) - 1) - 1 + 1 ELSE 0
      /\ \A i \in 1..((Len(m) - 1) - 1 + 1) : SubSeq(m, 1, Len(m) - 1)[i] = m[1 + i - 1]
  BY <1>2, <1>3, SubSeqProperties
<1>5. Front(m) = SubSeq(m, 1, Len(m) - 1)
  BY DEF Front
<1>6. Front(m) \in Seq(Entries) /\ Len(Front(m)) = Len(m) - 1
  BY <1>1, <1>4, <1>5
<1>7. DOMAIN Front(m) = 1..(Len(m) - 1)
  BY <1>6
<1>8. \A i \in 1..(Len(m) - 1) : Front(m)[i] = m[i]
  BY <1>1, <1>4, <1>5
<1>9. QED
  BY <1>1, <1>6, <1>7, <1>8

------------------------------------------------------------------------------
(* Transcript m, path s, waiting bash results b, number c of entries made, and
   the messages x that were not heard of *)

Sound(m, s, b, c, x) ==
  /\ m \in Seq(Entries) /\ s \in Seq(Entries) /\ b \in Seq(BashResult)
  /\ c \in Nat /\ x \subseteq 1..c
  /\ Numbered(m, c) /\ Numbered(s, c) /\ Numbered(b, c)
  /\ Once(m) /\ Once(s) /\ Once(b) /\ Apart(m, b) /\ Apart(s, b)
  /\ Outside(s, x) /\ Outside(b, x)
  /\ KeptThere(s)
  /\ Agree(m, Context(s), x)

\* Entries that come to the transcript and the path alike.
LEMMA BothGrow ==
  ASSUME NEW m, NEW s, NEW b, NEW c, NEW x, Sound(m, s, b, c, x),
         NEW t \in Seq(Entries), \A i \in DOMAIN t : InContext(t[i]),
         Once(t), Apart(m, t), Apart(s, t), Outside(t, x),
         NEW d \in Nat, d >= c, Numbered(t, d),
         NEW e \in Seq(BashResult), Numbered(e, d), Once(e), Apart(t, e), Apart(m, e), Apart(s, e),
         Outside(e, x)
  PROVE  Sound(m \o t, s \o t, e, d, x)
<1> DEFINE w == m \o t
           u == s \o t
<1>1. /\ m \in Seq(Entries) /\ s \in Seq(Entries) /\ c \in Nat /\ x \subseteq 1..c
      /\ Numbered(m, c) /\ Numbered(s, c) /\ Once(m) /\ Once(s) /\ Outside(s, x) /\ KeptThere(s)
      /\ Agree(m, Context(s), x)
  BY DEF Sound
<1>2. Once(w) /\ Once(u) /\ KeptThere(u)
  BY <1>1, OnceGrows, KeptThereGrows
<1>3. Context(u) = Context(s) \o t
  BY <1>1, ContextConcat
<1>4. Context(s) \in Seq(Entries) /\ \A a \in DOMAIN Context(s) :
        \E j \in DOMAIN s : Context(s)[a] = s[j]
  BY <1>1, ContextFromPath
<1>5. Apart(Context(s), t)
  BY <1>4 DEF Apart
<1>6. Agree(w, Context(u), x)
  BY <1>1, <1>3, <1>4, <1>5, AgreeConcat
<1>7. /\ w \in Seq(Entries) /\ DOMAIN w = 1..(Len(m) + Len(t)) /\ DOMAIN m = 1..Len(m)
      /\ Len(m) \in Nat /\ Len(t) \in Nat /\ DOMAIN t = 1..Len(t)
      /\ \A i \in 1..Len(m) : w[i] = m[i]
      /\ \A i \in DOMAIN w : i \notin DOMAIN m =>
           i - Len(m) \in DOMAIN t /\ w[i] = t[i - Len(m)]
  BY <1>1, ConcatFacts
<1>8. /\ u \in Seq(Entries) /\ DOMAIN u = 1..(Len(s) + Len(t)) /\ DOMAIN s = 1..Len(s)
      /\ Len(s) \in Nat
      /\ \A i \in 1..Len(s) : u[i] = s[i]
      /\ \A i \in DOMAIN u : i \notin DOMAIN s =>
           i - Len(s) \in DOMAIN t /\ u[i] = t[i - Len(s)]
  BY <1>1, ConcatFacts
<1> HIDE DEF w, u
<1>9. \A i \in DOMAIN w : (\E j \in DOMAIN m : w[i] = m[j]) \/ \E j \in DOMAIN t : w[i] = t[j]
  BY <1>7
<1>10. \A i \in DOMAIN u : (\E j \in DOMAIN s : u[i] = s[j]) \/ \E j \in DOMAIN t : u[i] = t[j]
  BY <1>8
<1>11. Numbered(w, d) /\ Apart(w, e)
  <2>1. 1..c \subseteq 1..d
    BY <1>1
  <2>2. Numbered(w, d)
    BY <1>1, <1>9, <2>1 DEF Numbered
  <2>3. Apart(w, e)
    BY <1>9 DEF Apart
  <2>4. QED
    BY <2>2, <2>3
<1>12. Numbered(u, d) /\ Apart(u, e) /\ Outside(u, x)
  <2>1. 1..c \subseteq 1..d
    BY <1>1
  <2>2. Numbered(u, d)
    BY <1>1, <1>10, <2>1 DEF Numbered
  <2>3. Apart(u, e) /\ Outside(u, x)
    <3>1. Apart(u, e)
      BY <1>10 DEF Apart
    <3>2. Outside(u, x)
      BY <1>1, <1>10 DEF Outside
    <3>3. QED
      BY <3>1, <3>2
  <2>4. QED
    BY <2>2, <2>3
<1>13. x \subseteq 1..d
  BY <1>1
<1>14. QED
  BY <1>2, <1>6, <1>7, <1>8, <1>11, <1>12, <1>13 DEF Sound, w, u

\* The waiting bash results are flushed.
LEMMA SoundFlushed ==
  ASSUME NEW m, NEW s, NEW b, NEW c, NEW x, Sound(m, s, b, c, x)
  PROVE  Sound(m \o b, s \o b, <<>>, c, x)
<1>1. /\ b \in Seq(Entries) /\ \A i \in DOMAIN b : InContext(b[i])
      /\ Once(b) /\ Apart(m, b) /\ Apart(s, b) /\ Outside(b, x) /\ Numbered(b, c) /\ c \in Nat
      /\ c >= c
  BY BashIsEntry DEF Sound
<1>2. /\ <<>> \in Seq(BashResult) /\ DOMAIN <<>> = {}
  OBVIOUS
<1>3. Numbered(<<>>, c) /\ Once(<<>>) /\ Apart(b, <<>>) /\ Apart(m, <<>>) /\ Apart(s, <<>>)
      /\ Outside(<<>>, x)
  BY <1>2 DEF Numbered, Once, Apart, Outside
<1>4. QED
  BY <1>1, <1>2, <1>3, BothGrow

\* A new entry that is heard of.
LEMMA SoundHeard ==
  ASSUME NEW m, NEW s, NEW b, NEW c, NEW x, Sound(m, s, b, c, x),
         NEW e \in Heardable, e.id = c + 1
  PROVE  Sound(m \o <<e>>, s \o <<e>>, b, c + 1, x)
<1> DEFINE t == <<e>>
<1>1. e \in Entries /\ InContext(e)
  BY EntryKinds
<1>2. t \in Seq(Entries) /\ DOMAIN t = {1} /\ t[1] = e
  BY <1>1
<1>3. /\ c \in Nat /\ x \subseteq 1..c /\ Numbered(m, c) /\ Numbered(s, c) /\ Numbered(b, c)
      /\ b \in Seq(BashResult) /\ Once(b) /\ Apart(m, b) /\ Apart(s, b) /\ Outside(b, x)
  BY DEF Sound
<1> HIDE DEF t
<1>4. c + 1 \in Nat /\ c + 1 >= c /\ c + 1 \in 1..(c + 1) /\ c + 1 \notin 1..c
      /\ 1..c \subseteq 1..(c + 1)
  BY <1>3
<1>5. /\ \A i \in DOMAIN t : InContext(t[i])
      /\ Once(t) /\ Apart(m, t) /\ Apart(s, t) /\ Outside(t, x) /\ Numbered(t, c + 1)
      /\ Apart(t, b) /\ Numbered(b, c + 1)
  BY <1>1, <1>2, <1>3, <1>4 DEF Once, Apart, Outside, Numbered
<1>6. QED
  BY <1>2, <1>3, <1>4, <1>5, BothGrow DEF t

\* A new message that nobody hears of.
LEMMA SoundUnheard ==
  ASSUME NEW m, NEW s, NEW b, NEW c, NEW x, Sound(m, s, b, c, x),
         NEW e \in Heardable, e.id = c + 1
  PROVE  Sound(m \o <<e>>, s, b, c + 1, x \union {c + 1})
<1> DEFINE t == <<e>>
           w == m \o t
           v == Context(s)
           y == x \union {c + 1}
<1>1. e \in Entries
  BY EntryKinds
<1>2. t \in Seq(Entries) /\ DOMAIN t = {1} /\ t[1] = e /\ Len(t) = 1
  BY <1>1
<1>3. /\ m \in Seq(Entries) /\ s \in Seq(Entries) /\ b \in Seq(BashResult)
      /\ c \in Nat /\ x \subseteq 1..c /\ Numbered(m, c) /\ Numbered(s, c) /\ Numbered(b, c)
      /\ Once(m) /\ Once(s) /\ Once(b) /\ Apart(m, b) /\ Apart(s, b)
      /\ Outside(s, x) /\ Outside(b, x) /\ KeptThere(s) /\ Agree(m, v, x)
  BY DEF Sound
<1>4. c + 1 \in Nat /\ c + 1 \in 1..(c + 1) /\ c + 1 \notin 1..c /\ 1..c \subseteq 1..(c + 1)
  BY <1>3
<1> HIDE DEF t
<1>5. Once(t) /\ Apart(m, t)
  BY <1>2, <1>3, <1>4 DEF Once, Apart, Numbered
<1>6. w \in Seq(Entries) /\ Once(w)
  BY <1>2, <1>3, <1>5, OnceGrows, ConcatFacts
<1>7. /\ DOMAIN w = 1..(Len(m) + 1) /\ DOMAIN m = 1..Len(m) /\ Len(m) \in Nat
      /\ \A i \in DOMAIN m : w[i] = m[i]
      /\ w[Len(m) + 1] = e
  <2>1. /\ DOMAIN w = 1..(Len(m) + Len(t)) /\ DOMAIN m = 1..Len(m) /\ Len(m) \in Nat
        /\ \A i \in 1..Len(m) : w[i] = m[i]
        /\ \A i \in 1..Len(t) : w[Len(m) + i] = t[i]
    BY <1>2, <1>3, ConcatFacts
  <2> HIDE DEF w
  <2>2. QED
    BY <1>2, <2>1
<1>8. /\ Context(s) \in Seq(Entries)
      /\ \A a \in DOMAIN v : \E j \in DOMAIN s : v[a] = s[j]
  BY <1>3, ContextFromPath
<1> HIDE DEF w, v, y
<1>9. Numbered(w, c + 1) /\ Apart(w, b)
  <2>1. \A i \in DOMAIN w : (i \in DOMAIN m /\ w[i] = m[i]) \/ w[i].id = c + 1
    BY <1>1, <1>7
  <2>2. Numbered(w, c + 1)
    BY <1>3, <1>4, <2>1 DEF Numbered
  <2>3. Apart(w, b)
    BY <1>3, <1>4, <2>1 DEF Apart, Numbered
  <2>4. QED
    BY <2>2, <2>3
<1>10. Numbered(s, c + 1) /\ Numbered(b, c + 1) /\ Outside(s, y) /\ Outside(b, y)
       /\ y \subseteq 1..(c + 1)
  BY <1>3, <1>4 DEF Numbered, Outside, y
<1>11. \A a \in DOMAIN v : v[a] # e
  BY <1>3, <1>4, <1>8 DEF Numbered
<1>12. Agree(w, v, y)
  <2>1. ASSUME NEW i \in DOMAIN w PROVE w[i].id \in y <=> \A a \in DOMAIN v : v[a] # w[i]
    <3>1. CASE i \in DOMAIN m
      <4>1. w[i] = m[i] /\ m[i].id # c + 1
        BY <1>3, <1>4, <1>7, <3>1 DEF Numbered
      <4>2. QED
        <5>1. m[i].id \in x <=> \A a \in DOMAIN v : v[a] # m[i]
          BY <1>3, <3>1 DEF Agree
        <5>2. m[i].id \in y <=> m[i].id \in x
          BY <4>1 DEF y
        <5>3. QED
          BY <4>1, <5>1, <5>2
    <3>2. CASE i \notin DOMAIN m
      <4>1. w[i] = e
        BY <1>7, <3>2
      <4>2. QED
        BY <1>11, <4>1 DEF y
    <3>3. QED
      BY <3>1, <3>2
  <2>2. ASSUME NEW i \in DOMAIN w, NEW j \in DOMAIN w, NEW a \in DOMAIN v, NEW k \in DOMAIN v,
               i < j, w[i] = v[a], w[j] = v[k]
        PROVE  a < k
    <3>1. j \in DOMAIN m
      BY <1>7, <1>11, <2>2
    <3>2. i \in DOMAIN m
      BY <1>7, <2>2, <3>1
    <3>3. QED
      BY <1>3, <1>7, <2>2, <3>1, <3>2 DEF Agree
  <2>3. QED
    BY <2>1, <2>2 DEF Agree
<1>13. QED
  BY <1>3, <1>4, <1>6, <1>9, <1>10, <1>12 DEF Sound, w, t, v, y

\* A bash result that waits.
LEMMA SoundDeferred ==
  ASSUME NEW m, NEW s, NEW b, NEW c, NEW x, Sound(m, s, b, c, x),
         NEW e \in BashResult, e.id = c + 1
  PROVE  Sound(m, s, Append(b, e), c + 1, x)
<1> DEFINE w == Append(b, e)
<1>1. /\ m \in Seq(Entries) /\ s \in Seq(Entries) /\ b \in Seq(BashResult)
      /\ c \in Nat /\ x \subseteq 1..c /\ Numbered(m, c) /\ Numbered(s, c) /\ Numbered(b, c)
      /\ Once(m) /\ Once(s) /\ Once(b) /\ Apart(m, b) /\ Apart(s, b)
      /\ Outside(s, x) /\ Outside(b, x) /\ KeptThere(s) /\ Agree(m, Context(s), x)
  BY DEF Sound
<1>2. c + 1 \in Nat /\ c + 1 \in 1..(c + 1) /\ c + 1 \notin 1..c /\ 1..c \subseteq 1..(c + 1)
  BY <1>1
<1>3. /\ w \in Seq(BashResult) /\ DOMAIN w = 1..(Len(b) + 1) /\ DOMAIN b = 1..Len(b)
      /\ Len(b) \in Nat
      /\ \A i \in DOMAIN b : w[i] = b[i]
      /\ w[Len(b) + 1] = e
  BY <1>1
<1> HIDE DEF w
<1>4. \A i \in DOMAIN w : (i \in DOMAIN b /\ w[i] = b[i]) \/ (i = Len(b) + 1 /\ w[i].id = c + 1)
  BY <1>3
<1>5. Numbered(m, c + 1) /\ Numbered(s, c + 1)
  BY <1>1, <1>2 DEF Numbered
<1>6. Numbered(w, c + 1)
  BY <1>1, <1>2, <1>4 DEF Numbered
<1>7. Apart(m, w)
  BY <1>1, <1>2, <1>4 DEF Apart, Numbered
<1>8. Apart(s, w)
  BY <1>1, <1>2, <1>4 DEF Apart, Numbered
<1>9. Outside(w, x)
  BY <1>1, <1>2, <1>4 DEF Outside
<1>10. Once(w)
  BY <1>1, <1>2, <1>4 DEF Once, Numbered
<1>11. x \subseteq 1..(c + 1)
  BY <1>1, <1>2
<1>12. QED
  BY <1>1, <1>2, <1>3, <1>5, <1>6, <1>7, <1>8, <1>9, <1>10, <1>11 DEF Sound, w

\* The last message is taken off the transcript.
LEMMA SoundFront ==
  ASSUME NEW m, NEW s, NEW b, NEW c, NEW x, Sound(m, s, b, c, x), m # <<>>
  PROVE  Sound(Front(m), s, b, c, x)
<1> DEFINE w == Front(m)
<1>1. /\ m \in Seq(Entries) /\ s \in Seq(Entries) /\ b \in Seq(BashResult)
      /\ c \in Nat /\ x \subseteq 1..c /\ Numbered(m, c) /\ Numbered(s, c) /\ Numbered(b, c)
      /\ Once(m) /\ Once(s) /\ Once(b) /\ Apart(m, b) /\ Apart(s, b)
      /\ Outside(s, x) /\ Outside(b, x) /\ KeptThere(s) /\ Agree(m, Context(s), x)
  BY DEF Sound
<1>2. w \in Seq(Entries) /\ \A i \in DOMAIN w : i \in DOMAIN m /\ w[i] = m[i]
  BY <1>1, FrontFacts
<1> HIDE DEF w
<1>3. Numbered(w, c) /\ Apart(w, b) /\ Once(w)
  BY <1>1, <1>2 DEF Numbered, Apart, Once
<1>4. Agree(w, Context(s), x)
  BY <1>1, <1>2 DEF Agree
<1>5. QED
  BY <1>1, <1>2, <1>3, <1>4 DEF Sound, w

LEMMA SoundDropResponse ==
  ASSUME NEW m, NEW s, NEW b, NEW c, NEW x, Sound(m, s, b, c, x)
  PROVE  Sound(DropResponse(m), s, b, c, x)
BY SoundFront DEF DropResponse

\* A summary is appended and the transcript is rebuilt.
LEMMA SoundCompacted ==
  ASSUME NEW m, NEW s, NEW b, NEW c, NEW x, Sound(m, s, b, c, x),
         NEW e \in Summaries, e.id = c + 1, NEW j \in DOMAIN s, CutAt(s, j, e.kept)
  PROVE  Sound(Context(Append(s, e)), Append(s, e), b, c + 1, x)
<1> DEFINE w == Append(s, e)
           v == Context(w)
<1>1. /\ s \in Seq(Entries) /\ b \in Seq(BashResult)
      /\ c \in Nat /\ x \subseteq 1..c /\ Numbered(s, c) /\ Numbered(b, c)
      /\ Once(s) /\ Once(b) /\ Apart(s, b) /\ Outside(s, x) /\ Outside(b, x) /\ KeptThere(s)
  BY DEF Sound
<1>2. c + 1 \in Nat /\ c + 1 \in 1..(c + 1) /\ c + 1 \notin 1..c /\ 1..c \subseteq 1..(c + 1)
  BY <1>1
<1>3. e \in Entries
  BY DEF Entries
<1>4. /\ w \in Seq(Entries) /\ DOMAIN w = 1..(Len(s) + 1) /\ DOMAIN s = 1..Len(s)
      /\ Len(s) \in Nat
      /\ \A i \in DOMAIN s : w[i] = s[i]
      /\ w[Len(s) + 1] = e
  BY <1>1, <1>3, AppendFacts
<1> HIDE DEF w, v
<1>5. \A i \in DOMAIN w : (i \in DOMAIN s /\ w[i] = s[i]) \/ (i = Len(s) + 1 /\ w[i].id = c + 1)
  BY <1>4
<1>6. Numbered(w, c + 1)
  BY <1>1, <1>2, <1>5 DEF Numbered
<1>7. Once(w)
  BY <1>1, <1>2, <1>5 DEF Once, Numbered
<1>8. Apart(w, b)
  BY <1>1, <1>2, <1>5 DEF Apart, Numbered
<1>9. Outside(w, x)
  BY <1>1, <1>2, <1>5 DEF Outside
<1>10. KeptThere(w)
  <2>1. ASSUME NEW i \in DOMAIN w, IsCompaction(w[i])
        PROVE  \E k \in 1..(i - 1) : CutAt(w, k, w[i].kept)
    <3>1. CASE i \in DOMAIN s
      <4>1. w[i] = s[i]
        BY <1>4, <3>1
      <4>2. PICK k \in 1..(i - 1) : CutAt(s, k, s[i].kept)
        BY <1>1, <2>1, <3>1, <4>1 DEF KeptThere
      <4>3. k \in DOMAIN s
        BY <1>4, <3>1
      <4>4. w[k] = s[k]
        BY <1>4, <4>3
      <4>5. QED
        BY <4>1, <4>2, <4>4 DEF CutAt
    <3>2. CASE i \notin DOMAIN s
      <4>1. i = Len(s) + 1 /\ w[i] = e
        BY <1>4, <3>2
      <4>2. j \in 1..(i - 1) /\ w[j] = s[j]
        BY <1>4, <4>1
      <4>3. QED
        BY <4>1, <4>2 DEF CutAt
    <3>3. QED
      BY <3>1, <3>2
  <2>2. QED
    BY <2>1 DEF KeptThere
<1>11. /\ v \in Seq(Entries) /\ Once(v)
       /\ \A a \in DOMAIN v : \E k \in DOMAIN w : v[a] = w[k]
  BY <1>4, <1>7, <1>10, ContextFromPath DEF v
<1>12. Numbered(v, c + 1)
  BY <1>6, <1>11 DEF Numbered
<1>13. Apart(v, b) /\ Outside(v, x)
  <2>1. Apart(v, b)
    BY <1>8, <1>11 DEF Apart
  <2>2. Outside(v, x)
    BY <1>9, <1>11 DEF Outside
  <2>3. QED
    BY <2>1, <2>2
<1>14. Agree(v, v, x)
  BY <1>11, <1>13, AgreeSelf
<1>15. Numbered(b, c + 1) /\ x \subseteq 1..(c + 1)
  BY <1>1, <1>2 DEF Numbered
<1>16. QED
  BY <1>1, <1>2, <1>4, <1>6, <1>7, <1>8, <1>9, <1>10, <1>11, <1>12, <1>13, <1>14, <1>15
     DEF Sound, w, v

------------------------------------------------------------------------------
(* Results and their calls *)

NoResult(t) == \A i \in DOMAIN t : t[i].kind # "toolResult"

LastCall(s) == s # <<>> /\ IsResponse(s[Len(s)]) /\ s[Len(s)].stop = "call"

LEMMA PairedGrows ==
  ASSUME NEW m \in Seq(Entries), NEW t \in Seq(Entries), Paired(m), NoResult(t)
  PROVE  Paired(m \o t)
<1> DEFINE w == m \o t
<1>1. /\ DOMAIN m = 1..Len(m) /\ Len(m) \in Nat
      /\ \A i \in 1..Len(m) : w[i] = m[i]
      /\ \A i \in DOMAIN w : i \notin DOMAIN m =>
           i - Len(m) \in DOMAIN t /\ w[i] = t[i - Len(m)]
  BY ConcatFacts
<1> HIDE DEF w
<1>2. ASSUME NEW i \in DOMAIN w, w[i].kind = "toolResult"
      PROVE  i > 1 /\ IsResponse(w[i - 1]) /\ w[i - 1].stop = "call"
  <2>1. i \in DOMAIN m
    BY <1>1, <1>2 DEF NoResult
  <2>2. i > 1 /\ IsResponse(m[i - 1]) /\ m[i - 1].stop = "call"
    BY <1>1, <1>2, <2>1 DEF Paired
  <2>3. w[i - 1] = m[i - 1]
    BY <1>1, <2>1, <2>2
  <2>4. QED
    BY <2>2, <2>3
<1>3. QED
  BY <1>2 DEF Paired, w

\* A result right after its call.
LEMMA PairedByCall ==
  ASSUME NEW m \in Seq(Entries), NEW e \in Entries, Paired(m), LastCall(m)
  PROVE  Paired(m \o <<e>>)
<1> DEFINE t == <<e>>
           w == m \o t
<1>1. t \in Seq(Entries) /\ DOMAIN t = {1} /\ Len(t) = 1
  OBVIOUS
<1>2. /\ DOMAIN w = 1..(Len(m) + Len(t)) /\ DOMAIN m = 1..Len(m) /\ Len(m) \in Nat
      /\ \A i \in 1..Len(m) : w[i] = m[i]
  BY <1>1, ConcatFacts
<1>3. Len(m) # 0
  BY DEF LastCall
<1> HIDE DEF w, t
<1>4. ASSUME NEW i \in DOMAIN w, w[i].kind = "toolResult"
      PROVE  i > 1 /\ IsResponse(w[i - 1]) /\ w[i - 1].stop = "call"
  <2>1. CASE i \in DOMAIN m
    <3>1. i > 1 /\ IsResponse(m[i - 1]) /\ m[i - 1].stop = "call"
      BY <1>2, <1>4, <2>1 DEF Paired
    <3>2. w[i - 1] = m[i - 1]
      BY <1>2, <2>1, <3>1
    <3>3. QED
      BY <3>1, <3>2
  <2>2. CASE i \notin DOMAIN m
    <3>1. i - 1 = Len(m) /\ i > 1 /\ Len(m) \in 1..Len(m)
      BY <1>1, <1>2, <1>3, <2>2
    <3>2. w[i - 1] = m[Len(m)]
      BY <1>2, <3>1
    <3>3. QED
      BY <3>1, <3>2 DEF LastCall
  <2>3. QED
    BY <2>1, <2>2
<1>5. QED
  BY <1>4 DEF Paired, w, t

LEMMA PairedFront ==
  ASSUME NEW m \in Seq(Entries), m # <<>>, Paired(m)
  PROVE  Paired(Front(m))
<1>1. /\ DOMAIN Front(m) = 1..(Len(m) - 1) /\ DOMAIN m = 1..Len(m) /\ Len(m) \in Nat
      /\ \A i \in DOMAIN Front(m) : i \in DOMAIN m /\ Front(m)[i] = m[i]
  BY FrontFacts
<1>2. ASSUME NEW i \in DOMAIN Front(m), Front(m)[i].kind = "toolResult"
      PROVE  i > 1 /\ IsResponse(Front(m)[i - 1]) /\ Front(m)[i - 1].stop = "call"
  <2>1. i > 1 /\ IsResponse(m[i - 1]) /\ m[i - 1].stop = "call"
    BY <1>1, <1>2 DEF Paired
  <2>2. i - 1 \in DOMAIN Front(m)
    BY <1>1, <2>1
  <2>3. QED
    BY <1>1, <2>1, <2>2
<1>3. QED
  BY <1>2 DEF Paired

------------------------------------------------------------------------------
(* What a transcript has of a context *)

Complete(m, v) == \A a \in DOMAIN v : v[a] \in ToSet(m) \/ Failed(v[a])

LEMMA CompleteGrows ==
  ASSUME NEW m \in Seq(Entries), NEW v \in Seq(Entries), NEW t \in Seq(Entries), Complete(m, v)
  PROVE  Complete(m \o t, v \o t) /\ Complete(m \o t, v)
<1> DEFINE w == m \o t
           u == v \o t
<1>1. /\ DOMAIN w = 1..(Len(m) + Len(t)) /\ DOMAIN m = 1..Len(m) /\ Len(m) \in Nat
      /\ DOMAIN t = 1..Len(t) /\ Len(t) \in Nat
      /\ \A i \in 1..Len(m) : w[i] = m[i]
      /\ \A i \in 1..Len(t) : w[Len(m) + i] = t[i]
  BY ConcatFacts
<1>2. /\ DOMAIN v = 1..Len(v)
      /\ \A i \in 1..Len(v) : u[i] = v[i]
      /\ \A i \in DOMAIN u : i \notin DOMAIN v =>
           i - Len(v) \in DOMAIN t /\ u[i] = t[i - Len(v)]
  BY ConcatFacts
<1> HIDE DEF w, u
<1>3. ToSet(m) \subseteq ToSet(w) /\ ToSet(t) \subseteq ToSet(w)
  <2>1. ASSUME NEW i \in DOMAIN m PROVE m[i] \in ToSet(w)
    BY <1>1 DEF ToSet
  <2>2. ASSUME NEW i \in DOMAIN t PROVE t[i] \in ToSet(w)
    <3>1. Len(m) + i \in DOMAIN w /\ w[Len(m) + i] = t[i]
      BY <1>1
    <3>2. QED
      BY <3>1 DEF ToSet
  <2>3. QED
    BY <2>1, <2>2 DEF ToSet
<1>4. Complete(w, v)
  BY <1>3 DEF Complete
<1>5. ASSUME NEW a \in DOMAIN u PROVE u[a] \in ToSet(w) \/ Failed(u[a])
  <2>1. CASE a \in DOMAIN v
    BY <1>2, <1>3, <2>1 DEF Complete
  <2>2. CASE a \notin DOMAIN v
    <3>1. u[a] \in ToSet(t)
      BY <1>2, <2>2 DEF ToSet
    <3>2. QED
      BY <1>3, <3>1
  <2>3. QED
    BY <2>1, <2>2
<1>6. QED
  BY <1>4, <1>5 DEF Complete, w, u

LEMMA CompleteSelf ==
  ASSUME NEW v
  PROVE  Complete(v, v)
BY DEF Complete, ToSet

\* A message that is taken off has failed or was not heard of.
LEMMA CompleteFront ==
  ASSUME NEW m \in Seq(Entries), m # <<>>, NEW v, Complete(m, v),
         Failed(m[Len(m)]) \/ \A a \in DOMAIN v : v[a] # m[Len(m)]
  PROVE  Complete(Front(m), v)
<1>1. /\ DOMAIN Front(m) = 1..(Len(m) - 1) /\ DOMAIN m = 1..Len(m) /\ Len(m) \in Nat
      /\ \A i \in DOMAIN Front(m) : i \in DOMAIN m /\ Front(m)[i] = m[i]
  BY FrontFacts
<1>2. ASSUME NEW a \in DOMAIN v PROVE v[a] \in ToSet(Front(m)) \/ Failed(v[a])
  <2>1. CASE Failed(v[a])
    BY <2>1
  <2>2. CASE v[a] \in ToSet(m)
    <3>1. PICK i \in DOMAIN m : v[a] = m[i]
      BY <2>2 DEF ToSet
    <3>2. CASE i = Len(m)
      BY <3>1, <3>2
    <3>3. CASE i # Len(m)
      <4>1. i \in DOMAIN Front(m)
        BY <1>1, <3>3
      <4>2. Front(m)[i] = v[a]
        BY <1>1, <3>1, <4>1
      <4>3. QED
        BY <4>1, <4>2 DEF ToSet
    <3>4. QED
      BY <3>2, <3>3
  <2>3. QED
    BY <2>1, <2>2 DEF Complete
<1>3. QED
  BY <1>2 DEF Complete

------------------------------------------------------------------------------
(* Where a path may be cut *)

Plans == {NoPlan} \union [on : {TRUE}, again : BOOLEAN, kept : Nat]

Cuts(path, pl) == pl.on => \E j \in DOMAIN path : CutAt(path, j, pl.kept)

LEMMA BoundaryIsPosition ==
  ASSUME NEW path \in Seq(Entries)
  PROVE  BoundaryStart(path) \in Nat \ {0}
<1> DEFINE n == LastCompaction(path)
           T == At(path, path[n].kept)
<1>1. n \in Nat
  BY NewestCompaction
<1>2. T \subseteq Nat \ {0}
  BY DEF At
<1> HIDE DEF n, T
<1>3. T # {} => Min(T) \in T
  BY <1>2, MinIs
<1>4. BoundaryStart(path) = IF n = 0 THEN 1 ELSE IF T # {} THEN Min(T) ELSE n + 1
  BY DEF BoundaryStart, n, T
<1>5. CASE n # 0 /\ T # {}
  <2>1. BoundaryStart(path) \in T
    BY <1>3, <1>4, <1>5
  <2>2. QED
    BY <1>2, <2>1
<1>6. CASE n = 0 \/ T = {}
  BY <1>1, <1>4, <1>6
<1>7. QED
  BY <1>5, <1>6

\* Among messages and summaries the cut is where the budget puts it.
LEMMA CutIsMessage ==
  ASSUME NEW path \in Seq(Entries), NEW start \in Nat \ {0}, NEW reached \in Nat,
         CutPoints(path, start) # {}
  PROVE  LET cut == FirstKept(path, start, reached)
         IN  cut \in DOMAIN path /\ CutAt(path, cut, path[cut].id)
<1> DEFINE C == CutPoints(path, start)
           L == {i \in C : i >= reached}
           b == BudgetCut(path, start, reached)
           B == {i \in start..b : \A j \in i..(b - 1) :
                                      ~IsMessage(path[j]) /\ ~IsCompaction(path[j])}
<1>1. /\ C \subseteq Nat /\ L \subseteq Nat
      /\ \A i \in C : /\ i \in start..Len(path) /\ i \in DOMAIN path /\ InContext(path[i])
                      /\ path[i].kind # "toolResult"
  BY DEF CutPoints
<1>2. b = IF reached # 0 /\ L # {} THEN Min(L) ELSE Min(C)
  BY DEF BudgetCut
<1> HIDE DEF C, L, b
<1>3. b \in C
  <2>1. L # {} => Min(L) \in L
    BY <1>1, MinIs
  <2>2. Min(C) \in C
    BY <1>1, MinIs DEF C
  <2>3. L \subseteq C
    BY DEF L
  <2>4. QED
    BY <1>2, <2>1, <2>2, <2>3
<1>4. b \in start..Len(path) /\ b \in DOMAIN path /\ DOMAIN path = 1..Len(path) /\ Len(path) \in Nat
  BY <1>1, <1>3
<1>5. B = {b}
  <2>1. b \in B
    BY <1>4
  <2>2. ASSUME NEW i \in B, i # b PROVE FALSE
    <3>1. i \in i..(b - 1) /\ i \in DOMAIN path
      BY <1>4, <2>2
    <3>2. path[i] \in Entries
      BY <3>1
    <3>3. ~IsMessage(path[i]) /\ ~IsCompaction(path[i])
      BY <2>2, <3>1
    <3>4. QED
      BY <3>2, <3>3, EntryKinds
  <2>3. QED
    BY <2>1, <2>2
<1>6. ScanBack(path, start, b) = b
  <2>1. ScanBack(path, start, b) = Min(B)
    BY DEF ScanBack
  <2>2. Min({b}) \in {b}
    <3>1. {b} \in SUBSET Nat
      BY <1>4
    <3>2. QED
      BY <3>1, MinIs
  <2>3. QED
    BY <1>5, <2>1, <2>2
<1>7. FirstKept(path, start, reached) = b
  BY <1>6 DEF FirstKept, b
<1>8. QED
  BY <1>1, <1>3, <1>7 DEF CutAt

LEMMA CompactsAtMessage ==
  ASSUME NEW path \in Seq(Entries), NEW r \in Nat, CanCompact(path, r)
  PROVE  \E j \in DOMAIN path : CutAt(path, j, Prepared(path, r).kept)
<1> DEFINE start == BoundaryStart(path)
           cut == FirstKept(path, start, r)
           p == Prepared(path, r)
           end == IF IsSplitTurn(path, start, cut) THEN TurnStart(path, start, cut) ELSE cut
<1>1. start \in Nat \ {0}
  BY BoundaryIsPosition
<1>2. /\ p.kept = path[cut].id
      /\ p.toSummarize = MessageIds(path, start, end)
      /\ p.turnPrefix = IF IsSplitTurn(path, start, cut) THEN MessageIds(path, end, cut) ELSE {}
  BY DEF Prepared
<1>3. p.toSummarize \union p.turnPrefix # {}
  BY DEF CanCompact
<1> HIDE DEF p
<1>4. CutPoints(path, start) # {}
  <2> SUFFICES ASSUME CutPoints(path, start) = {} PROVE FALSE
    OBVIOUS
  <2>1. cut = start /\ ~IsSplitTurn(path, start, cut)
    BY DEF FirstKept, IsSplitTurn
  <2>2. MessageIds(path, start, start) = {}
    BY <1>1 DEF MessageIds
  <2>3. QED
    BY <1>2, <1>3, <2>1, <2>2
<1> HIDE DEF start
<1>5. cut \in DOMAIN path /\ CutAt(path, cut, path[cut].id)
  BY <1>1, <1>4, CutIsMessage
<1>6. QED
  BY <1>2, <1>5 DEF p

LEMMA PlannedCuts ==
  ASSUME NEW path \in Seq(Entries), NEW r \in BudgetPoints(path), NEW again \in BOOLEAN
  PROVE  Planned(path, r, again) \in Plans /\ Cuts(path, Planned(path, r, again))
<1>1. r \in Nat
  BY BoundaryIsPosition DEF BudgetPoints
<1>2. CASE CanCompact(path, r)
  <2> DEFINE kept == Prepared(path, r).kept
  <2>1. PICK j \in DOMAIN path : CutAt(path, j, kept)
    BY <1>1, <1>2, CompactsAtMessage
  <2>2. path[j] \in Entries /\ path[j].id = kept
    BY <2>1 DEF CutAt
  <2>3. kept \in Nat
    BY <2>2, EntryKinds
  <2>4. Planned(path, r, again) = [on |-> TRUE, again |-> again, kept |-> kept]
    BY <1>2 DEF Planned
  <2> HIDE DEF kept
  <2>5. QED
    BY <2>1, <2>3, <2>4 DEF Plans, Cuts
<1>3. CASE ~CanCompact(path, r)
  BY <1>3 DEF Planned, Plans, Cuts, NoPlan
<1>4. QED
  BY <1>2, <1>3

LEMMA CutsGrow ==
  ASSUME NEW s, NEW w, DOMAIN s \subseteq DOMAIN w, \A i \in DOMAIN s : w[i] = s[i],
         NEW pl, Cuts(s, pl)
  PROVE  Cuts(w, pl)
BY DEF Cuts, CutAt

------------------------------------------------------------------------------
(* Who runs *)

\* The types of what decides who runs.
Types ==
  /\ at \in [Prompts -> Steps]
  /\ run \in Prompts \union {None} /\ retrier \in Prompts \union {None}
  /\ stage \in {"off", "model", "cancelled", "tool", "turn", "over", "end"}
  /\ aborted \in BOOLEAN /\ connected \in BOOLEAN
  /\ controller \in BOOLEAN
  /\ manual \in [Compacts -> {"new", "aborting", "ready", "summarizing", "over"}]

IInv == Types /\ OneRun

(* Steps of a call *)

\* Where a call may be that is not waiting for a run of its own.
Resting == Steps \ {"running"}

\* Call p goes from a place where it does not wait for a run to another, or to
\* its end, and nothing that OneRun speaks of changes.
LEMMA MovesKeep ==
  ASSUME IInv, NEW p \in Prompts, at[p] # "running", NEW s \in Resting,
         at' = [at EXCEPT ![p] = s], UNCHANGED <<agent, connected, manual, controller>>,
         retrier' \in {retrier, None, p}
  PROVE  IInv'
BY DEF IInv, Types, OneRun, Resting, Steps, agent, CompactOpen

LEMMA ProceedMoves ==
  ASSUME NEW p \in Prompts, NEW msgs, NEW path, Proceed(p, msgs, path)
  PROVE  \E s \in Resting : at' = [at EXCEPT ![p] = s]
<1>1. (IF p \in before THEN "asking" ELSE "done") \in Resting
  BY DEF Resting, Steps
<1>2. QED
  BY <1>1 DEF Proceed

LEMMA AfterRetriesMoves ==
  ASSUME NEW p \in Prompts, NEW m, NEW msgs, AfterRetries(p, m, msgs)
  PROVE  \E s \in Resting : at' = [at EXCEPT ![p] = s]
<1>1. PICK c \in Checked(m, FALSE, msgs, saved) :
        IF ~c.plan.on /\ ~Waiting
        THEN Proceed(p, c.messages, saved)
        ELSE at' = [at EXCEPT ![p] = IF c.plan.on THEN "compacting" ELSE "continue"]
  BY DEF AfterRetries
<1>2. CASE Proceed(p, c.messages, saved)
  BY <1>2, ProceedMoves
<1>3. CASE at' = [at EXCEPT ![p] = IF c.plan.on THEN "compacting" ELSE "continue"]
  <2>1. (IF c.plan.on THEN "compacting" ELSE "continue") \in Resting
    BY DEF Resting, Steps
  <2>2. QED
    BY <1>3, <2>1
<1>4. QED
  BY <1>1, <1>2, <1>3

LEMMA RejectsMoves ==
  ASSUME NEW p \in Prompts, Rejects(p)
  PROVE  \E s \in Resting : at' = [at EXCEPT ![p] = s]
BY DEF Rejects, Resting, Steps

\* A run is only started when there is none.
LEMMA StartRunKeeps ==
  ASSUME IInv, NEW p \in Prompts, run = None, NEW first \in {"model", "turn"},
         StartRun(p, first), UNCHANGED <<connected, manual, controller, retrier>>
  PROVE  IInv'
BY AgentSessionAssumption DEF IInv, Types, OneRun, Steps, StartRun, CompactOpen

\* The agent's own steps.
LEMMA RunsOn ==
  ASSUME IInv, stage # "off",
         UNCHANGED <<run, aborted, at, retrier, connected, manual, controller>>,
         stage' \in {"model", "cancelled", "tool", "turn", "over", "end"}
  PROVE  IInv'
BY DEF IInv, Types, OneRun, CompactOpen

\* The steps of compact().
LEMMA CompactionsKeep ==
  ASSUME IInv, NEW c \in Compacts, UNCHANGED <<agent, at, retrier>>,
         \/ /\ manual[c] = "ready" /\ manual' = [manual EXCEPT ![c] = "summarizing"]
            /\ UNCHANGED <<controller, connected>>
         \/ Reconnects(c)
  PROVE  IInv'
<1>1. CASE /\ manual[c] = "ready" /\ manual' = [manual EXCEPT ![c] = "summarizing"]
           /\ UNCHANGED <<controller, connected>>
  <2>1. CompactOpen(c)' /\ manual'[c] \in {"ready", "summarizing"}
    BY <1>1 DEF CompactOpen, IInv, Types
  <2>2. QED
    BY <1>1, <2>1 DEF IInv, Types, OneRun, agent
<1>2. CASE Reconnects(c)
  BY <1>2 DEF Reconnects, IInv, Types, OneRun, agent
<1>3. QED
  BY <1>1, <1>2

LEMMA HearingKeepsRetrier ==
  ASSUME HearUser \/ \E m : HearResponse(m)
  PROVE  retrier' = retrier
BY DEF HearUser, HearResponse

LEMMA IInvInit == Init => IInv
<1> SUFFICES ASSUME Init PROVE IInv
  OBVIOUS
<1>1. manual \in [Compacts -> {"new", "aborting", "ready", "summarizing", "over"}]
  BY DEF Init
<1>2. at \in [Prompts -> Steps] /\ \A p \in Prompts : at[p] # "running"
  BY DEF Init, Steps
<1>3. QED
  BY <1>1, <1>2, AgentSessionAssumption DEF Init, IInv, Types, OneRun

LEMMA IInvStep == IInv /\ [Next]_vars => IInv'
<1> SUFFICES ASSUME IInv, [Next]_vars PROVE IInv'
  OBVIOUS
<1>1. CASE Respond
  <2>1. PICK stop \in Stops \union {"call", "aborted"} :
          /\ stage \in {"model", "cancelled"}
          /\ HearResponse(Response(created + 1, stop))
          /\ stage' = IF stop = "call" THEN "tool"
                      ELSE IF stop \in FailedStops \union {"aborted"} THEN "end" ELSE "over"
          /\ UNCHANGED <<run, aborted, callers, connected, manual, controller>>
    BY <1>1 DEF Respond, compactions
  <2>2. QED
    BY <2>1, RunsOn, HearingKeepsRetrier DEF callers
<1>2. CASE ToolResult
  BY <1>2, RunsOn DEF ToolResult, callers, recovery, compactions
<1>3. CASE Poll
  <2>1. stage \in {"turn", "over"} /\ stage' \in {"model", "cancelled", "end"}
    BY <1>3 DEF Poll, Inject, CallsModel
  <2>2. retrier' = retrier
    BY <1>3, HearingKeepsRetrier DEF Poll, Inject, recovery
  <2>3. QED
    BY <1>3, <2>1, <2>2, RunsOn DEF Poll, callers, compactions
<1>4. ASSUME NEW c \in Compacts, CompactPrepares(c) PROVE IInv'
  <2>1. UNCHANGED <<agent, at, retrier>>
    BY <1>4 DEF CompactPrepares, callers, recovery
  <2>2. QED
    BY <1>4, <2>1, CompactionsKeep DEF CompactPrepares
<1>5. ASSUME NEW c \in Compacts, CompactDone(c) PROVE IInv'
  BY <1>5, CompactionsKeep DEF CompactDone, callers, recovery
<1>6. ASSUME NEW c \in Compacts, CompactFailed(c) PROVE IInv'
  BY <1>6, CompactionsKeep DEF CompactFailed, callers, recovery
<1>7. ASSUME NEW p \in Prompts, Enter(p) PROVE IInv'
  BY <1>7, MovesKeep DEF Enter, recovery, compactions, Resting, Steps
<1>8. ASSUME NEW p \in Prompts, EnterIdle(p) PROVE IInv'
  <2>1. \E s \in Resting : at' = [at EXCEPT ![p] = s]
    BY <1>8 DEF EnterIdle, Resting, Steps
  <2>2. QED
    BY <1>8, <2>1, MovesKeep DEF EnterIdle, compactions
<1>9. CASE Steer
  BY <1>9 DEF Steer, agent, callers, recovery, compactions, IInv, Types, OneRun, CompactOpen
<1>10. CASE RecordBash
  BY <1>10 DEF RecordBash, agent, callers, recovery, compactions, IInv, Types, OneRun, CompactOpen
<1>11. CASE Abort
  BY <1>11 DEF Abort, StopAll, recovery, compactions, IInv, Types, OneRun, Steps, CompactOpen
<1>12. ASSUME NEW c \in Compacts, Compact(c) PROVE IInv'
  <2>1. manual'[c] = IF run # None THEN "aborting" ELSE "ready"
    BY <1>12 DEF Compact, IInv, Types
  <2>2. /\ UNCHANGED <<run, stage, retrier>> /\ aborted' = (run # None)
        /\ at' \in [Prompts -> Steps] /\ \A p \in Prompts : at'[p] = "running" <=> at[p] = "running"
    BY <1>12 DEF Compact, StopAll, recovery, IInv, Types, Steps
  <2>3. manual' \in [Compacts -> {"new", "aborting", "ready", "summarizing", "over"}]
    BY <1>12 DEF Compact, IInv, Types
  <2>4. /\ connected' = FALSE /\ controller' = (controller \/ run = None)
        /\ \A d \in Compacts : manual[d] \in {"ready", "summarizing"} => manual'[d] = manual[d]
    BY <1>12 DEF Compact, IInv, Types
  <2>5. CompactOpen(c)'
    BY <2>1 DEF CompactOpen
  <2>6. controller' => \E d \in Compacts : manual'[d] \in {"ready", "summarizing"}
    BY <2>1, <2>4 DEF IInv, OneRun
  <2>7. QED
    BY <2>2, <2>3, <2>4, <2>5, <2>6 DEF IInv, Types, OneRun
<1>13. ASSUME NEW p \in Prompts, Continue(p) PROVE IInv'
  <2>1. CASE Rejects(p) /\ UNCHANGED <<agent, recovery>>
    BY <1>13, <2>1, RejectsMoves, MovesKeep DEF Continue, recovery, compactions
  <2>2. CASE run = None /\ \E first \in {"model", "turn"} : StartRun(p, first)
    <3>1. retrier' = retrier
      BY <1>13, <2>2, HearingKeepsRetrier DEF Continue, recovery
    <3>2. QED
      BY <1>13, <2>2, <3>1, StartRunKeeps DEF Continue, compactions
  <2>3. QED
    BY <1>13, <2>1, <2>2 DEF Continue
<1>14. ASSUME NEW p \in Prompts, EndRun(p) PROVE IInv'
  <2>1. \E s \in Resting : at' = [at EXCEPT ![p] = s]
    BY <1>14, ProceedMoves, AfterRetriesMoves DEF EndRun, Resting, Steps
  <2>2. retrier' \in {retrier, p}
    BY <1>14 DEF EndRun
  <2>3. /\ run = p /\ run' = None /\ stage' = "off" /\ aborted' = FALSE
        /\ manual' = RunOver /\ connected' = connected
        /\ controller' = (controller \/ RunOver # manual)
    BY <1>14 DEF EndRun
  <2>4. \A c \in Compacts : manual'[c] = IF manual[c] = "aborting" THEN "ready" ELSE manual[c]
    BY <2>3 DEF RunOver
  <2>5. Types'
    <3>1. at' \in [Prompts -> Steps]
      BY <2>1 DEF IInv, Types, Resting
    <3>2. manual' \in [Compacts -> {"new", "aborting", "ready", "summarizing", "over"}]
      BY <2>3 DEF RunOver, IInv, Types
    <3>3. retrier' \in Prompts \union {None}
      BY <2>2 DEF IInv, Types
    <3>4. QED
      BY <2>3, <3>1, <3>2, <3>3 DEF IInv, Types
  <2>6. OneRun'
    <3>1. \A q \in Prompts : at'[q] = "running" <=> run' = q
      BY <2>1, <2>3, AgentSessionAssumption DEF IInv, Types, OneRun, Resting
    <3>2. \A c \in Compacts : CompactOpen(c) => CompactOpen(c)'
      BY <2>4 DEF CompactOpen
    <3>3. controller' => \E c \in Compacts : manual'[c] \in {"ready", "summarizing"}
      <4>1. CASE controller
        BY <2>4, <4>1 DEF IInv, OneRun
      <4>2. CASE RunOver # manual
        <5>1. \E c \in Compacts : manual[c] = "aborting"
          BY <4>2 DEF RunOver, IInv, Types
        <5>2. QED
          BY <2>4, <5>1
      <4>3. QED
        BY <2>3, <4>1, <4>2
    <3>4. QED
      BY <2>3, <3>1, <3>2, <3>3 DEF IInv, OneRun
  <2>7. QED
    BY <2>5, <2>6 DEF IInv
<1>15. ASSUME NEW p \in Prompts, RetryCancelled(p) PROVE IInv'
  BY <1>15, AfterRetriesMoves, MovesKeep DEF RetryCancelled, compactions
<1>16. ASSUME NEW p \in Prompts, RetryWaited(p) PROVE IInv'
  BY <1>16, MovesKeep DEF RetryWaited, compactions, Resting, Steps
<1>17. ASSUME NEW p \in Prompts, Compacted(p) PROVE IInv'
  <2>1. \E s \in Resting : at' = [at EXCEPT ![p] = s]
    BY <1>17, ProceedMoves DEF Compacted, Resting, Steps
  <2>2. QED
    BY <1>17, <2>1, MovesKeep DEF Compacted, recovery, compactions
<1>18. ASSUME NEW p \in Prompts, CompactionFailed(p) PROVE IInv'
  <2>1. \E s \in Resting : at' = [at EXCEPT ![p] = s]
    BY <1>18, ProceedMoves DEF CompactionFailed, Resting, Steps
  <2>2. QED
    BY <1>18, <2>1, MovesKeep DEF CompactionFailed, recovery, compactions
<1>19. ASSUME NEW p \in Prompts, Launch(p) PROVE IInv'
  <2>1. CASE run # None
    BY <1>19, <2>1, RejectsMoves, MovesKeep DEF Launch, recovery, compactions
  <2>2. CASE run = None
    BY <1>19, <2>2, HearingKeepsRetrier, StartRunKeeps DEF Launch, compactions
  <2>3. QED
    BY <2>1, <2>2
<1>20. CASE UNCHANGED vars
  BY <1>20 DEF vars, agent, callers, recovery, compactions, IInv, Types, OneRun, CompactOpen
<1>21. QED
  BY <1>1, <1>2, <1>3, <1>4, <1>5, <1>6, <1>7, <1>8, <1>9, <1>10, <1>11, <1>12, <1>13,
     <1>14, <1>15, <1>16, <1>17, <1>18, <1>19, <1>20
     DEF Next, Run, Manual, User, Call

------------------------------------------------------------------------------
(* What is planned *)

\* Path w goes on from path s.
Extends(s, w) == DOMAIN s \subseteq DOMAIN w /\ \A i \in DOMAIN s : w[i] = s[i]

Compacting == {"precompacting", "compacting"}

\* What is planned can be done on the path there is.
PlansFit ==
  /\ plan \in [Prompts -> Plans]
  /\ \A p \in Prompts : Cuts(saved, plan[p]) /\ (at[p] \in Compacting => plan[p].on)

ManualFits ==
  /\ manualPlan \in [Compacts -> Plans]
  /\ \A c \in Compacts : Cuts(saved, manualPlan[c])
                        /\ (manual[c] = "summarizing" => manualPlan[c].on)

Data == Sound(messages, saved, pendingBash, created, missed) /\ PlansFit /\ ManualFits

LEMMA ExtendsConcat ==
  ASSUME NEW s \in Seq(Entries), NEW t \in Seq(Entries)
  PROVE  Extends(s, s \o t)
BY ConcatFacts DEF Extends

LEMMA ExtendsAppend ==
  ASSUME NEW s \in Seq(Entries), NEW e \in Entries
  PROVE  Extends(s, Append(s, e))
BY AppendFacts DEF Extends

LEMMA ExtendsTrans ==
  ASSUME NEW s, NEW w, NEW u, Extends(s, w), Extends(w, u)
  PROVE  Extends(s, u)
BY DEF Extends

LEMMA PlansKept ==
  ASSUME PlansFit, Extends(saved, saved'), plan' \in [Prompts -> Plans],
         \A q \in Prompts :
           \/ plan'[q] = plan[q] /\ (at'[q] \in Compacting => at'[q] = at[q])
           \/ Cuts(saved', plan'[q]) /\ (at'[q] \in Compacting => plan'[q].on)
  PROVE  PlansFit'
<1>1. ASSUME NEW q \in Prompts
      PROVE  Cuts(saved', plan'[q]) /\ (at'[q] \in Compacting => plan'[q].on)
  <2>1. CASE plan'[q] = plan[q] /\ (at'[q] \in Compacting => at'[q] = at[q])
    <3>1. Cuts(saved', plan[q])
      BY CutsGrow DEF PlansFit, Extends
    <3>2. QED
      BY <2>1, <3>1 DEF PlansFit
  <2>2. CASE Cuts(saved', plan'[q]) /\ (at'[q] \in Compacting => plan'[q].on)
    BY <2>2
  <2>3. QED
    BY <2>1, <2>2
<1>2. QED
  BY <1>1 DEF PlansFit

\* Call p goes to s with the plan pl.
LEMMA PlansMove ==
  ASSUME IInv, PlansFit, Extends(saved, saved'), NEW p \in Prompts, NEW s, NEW pl \in Plans,
         at' = [at EXCEPT ![p] = s], plan' = [plan EXCEPT ![p] = pl],
         Cuts(saved', pl), s \in Compacting => pl.on
  PROVE  PlansFit'
<1>1. plan \in [Prompts -> Plans] /\ at \in [Prompts -> Steps]
  BY DEF IInv, Types, PlansFit
<1>2. plan' \in [Prompts -> Plans]
  BY <1>1
<1>3. \A q \in Prompts : q # p => plan'[q] = plan[q] /\ at'[q] = at[q]
  BY <1>1
<1>4. plan'[p] = pl /\ at'[p] = s
  BY <1>1
<1>5. QED
  BY <1>2, <1>3, <1>4, PlansKept

\* Call p goes to s and plans nothing else.
LEMMA PlansStay ==
  ASSUME IInv, PlansFit, Extends(saved, saved'), NEW p \in Prompts, NEW s,
         at' = [at EXCEPT ![p] = s], plan' = plan, s \notin Compacting
  PROVE  PlansFit'
<1>1. plan \in [Prompts -> Plans] /\ at \in [Prompts -> Steps]
  BY DEF IInv, Types, PlansFit
<1>2. \A q \in Prompts : q # p => at'[q] = at[q]
  BY <1>1
<1>3. at'[p] = s
  BY <1>1
<1>4. QED
  BY <1>1, <1>2, <1>3, PlansKept

LEMMA PlansUnchanged ==
  ASSUME PlansFit, Extends(saved, saved'), UNCHANGED <<at, plan>>
  PROVE  PlansFit'
BY PlansKept DEF PlansFit

LEMMA NoPlanFits == NoPlan \in Plans /\ NoPlan.on = FALSE /\ \A s : Cuts(s, NoPlan)
BY DEF NoPlan, Plans, Cuts

\* No compaction by the user comes to its summary.
LEMMA ManualGoesOn ==
  ASSUME ManualFits, Extends(saved, saved'), manualPlan' = manualPlan,
         \A c \in Compacts : manual'[c] = "summarizing" => manual[c] = "summarizing"
  PROVE  ManualFits'
<1>1. ASSUME NEW c \in Compacts PROVE Cuts(saved', manualPlan[c])
  BY CutsGrow DEF ManualFits, Extends
<1>2. QED
  BY <1>1 DEF ManualFits

LEMMA ManualKept ==
  ASSUME ManualFits, Extends(saved, saved'), UNCHANGED compactions
  PROVE  ManualFits'
BY ManualGoesOn DEF compactions

\* A compaction by the user ends.
LEMMA ManualEnds ==
  ASSUME IInv, ManualFits, Extends(saved, saved'), NEW c \in Compacts, Reconnects(c)
  PROVE  ManualFits'
<1>1. /\ manualPlan' = [manualPlan EXCEPT ![c] = NoPlan] /\ NoPlan \in Plans
      /\ manual' = [manual EXCEPT ![c] = "over"]
  BY NoPlanFits DEF Reconnects
<1>2. manualPlan' \in [Compacts -> Plans]
  BY <1>1 DEF ManualFits
<1>3. ASSUME NEW d \in Compacts
      PROVE  Cuts(saved', manualPlan'[d]) /\ (manual'[d] = "summarizing" => manualPlan'[d].on)
  <2>1. CASE d = c
    BY <1>1, <2>1, NoPlanFits DEF ManualFits, IInv, Types
  <2>2. CASE d # c
    <3>1. manualPlan'[d] = manualPlan[d] /\ manual'[d] = manual[d]
      BY <1>1, <2>2 DEF ManualFits, IInv, Types
    <3>2. Cuts(saved', manualPlan[d])
      BY CutsGrow DEF ManualFits, Extends
    <3>3. QED
      BY <3>1, <3>2 DEF ManualFits
  <2>3. QED
    BY <2>1, <2>2
<1>4. QED
  BY <1>2, <1>3 DEF ManualFits

LEMMA SavedSame == saved' = saved => Extends(saved, saved')
BY DEF Extends

------------------------------------------------------------------------------
(* The parts of steps *)

LEMMA EmitSound ==
  ASSUME Sound(messages, saved, pendingBash, created, missed),
         NEW e \in Heardable, e.id = created + 1, Emit(<<e>>), pendingBash' = pendingBash
  PROVE  Sound(messages', saved', pendingBash', created', missed') /\ Extends(saved, saved')
<1>1. e \in Entries /\ Len(<<e>>) = 1 /\ <<e>> \in Seq(Entries)
  BY EntryKinds
<1>2. messages' = messages \o <<e>> /\ created' = created + 1
  BY <1>1 DEF Emit
<1>3. CASE connected
  <2>1. saved' = saved \o <<e>> /\ missed' = missed
    BY <1>3 DEF Emit
  <2>2. Extends(saved, saved \o <<e>>)
    BY <1>1, ExtendsConcat DEF Sound
  <2>3. Sound(messages \o <<e>>, saved \o <<e>>, pendingBash, created + 1, missed)
    BY SoundHeard
  <2>4. QED
    BY <1>2, <2>1, <2>2, <2>3
<1>4. CASE ~connected
  <2>1. ToSet(<<e>>) = {e}
    BY <1>1 DEF ToSet
  <2>2. saved' = saved /\ missed' = missed \union {created + 1}
    BY <1>4, <2>1 DEF Emit
  <2>3. Sound(messages \o <<e>>, saved, pendingBash, created + 1, missed \union {created + 1})
    BY SoundUnheard
  <2>4. QED
    BY <1>2, <2>2, <2>3, SavedSame
<1>5. QED
  BY <1>3, <1>4

LEMMA FlushSound ==
  ASSUME NEW m, NEW s, NEW c, NEW x, Sound(m, s, pendingBash, c, x)
  PROVE  Sound(Flushed(m), Flushed(s), <<>>, c, x) /\ Extends(s, Flushed(s))
<1>1. Sound(m \o pendingBash, s \o pendingBash, <<>>, c, x)
  BY SoundFlushed
<1>2. s \in Seq(Entries) /\ pendingBash \in Seq(Entries)
  BY BashIsEntry DEF Sound
<1>3. Extends(s, s \o pendingBash)
  BY <1>2, ExtendsConcat
<1>4. QED
  BY <1>1, <1>3 DEF Flushed

LEMMA ProceedSound ==
  ASSUME NEW m, NEW s, NEW p, Sound(m, s, pendingBash, created', missed'), Proceed(p, m, s)
  PROVE  Sound(messages', saved', pendingBash', created', missed') /\ Extends(s, saved')
BY FlushSound DEF Proceed

LEMMA RejectsSound ==
  ASSUME NEW p, Sound(messages, saved, pendingBash, created, missed), Rejects(p),
         UNCHANGED <<created, missed>>
  PROVE  Sound(messages', saved', pendingBash', created', missed') /\ Extends(saved, saved')
BY FlushSound DEF Rejects

\* What is left of a transcript after response m.
LeftOf(m, msgs, left) ==
  \/ left = msgs
  \/ left = DropResponse(msgs) /\ m.stop \in {"overflow", "length"}

\* What _checkCompaction plans and leaves.
LEMMA CheckedFacts ==
  ASSUME NEW m, NEW ahead, NEW msgs, NEW path \in Seq(Entries),
         NEW c \in Checked(m, ahead, msgs, path)
  PROVE  /\ c.plan \in Plans /\ Cuts(path, c.plan)
         /\ LeftOf(m, msgs, c.messages)
<1> DEFINE reason == Reason(m, ahead, msgs, path)
           recover == reason = "overflow"
<1>1. PICK pl \in IF reason = "none" THEN {NoPlan}
                  ELSE {Planned(path, r, recover) : r \in BudgetPoints(path)} :
        c = [plan |-> pl, messages |-> IF recover THEN DropResponse(msgs) ELSE msgs,
             tried |-> overflowTried \/ recover]
  BY DEF Checked
<1>2. c.plan = pl /\ c.messages = IF recover THEN DropResponse(msgs) ELSE msgs
  BY <1>1
<1>3. pl \in Plans /\ Cuts(path, pl)
  <2>1. CASE reason = "none"
    BY <1>1, <2>1, NoPlanFits
  <2>2. CASE reason # "none"
    <3>1. PICK r \in BudgetPoints(path) : pl = Planned(path, r, recover)
      BY <1>1, <2>2
    <3>2. recover \in BOOLEAN
      OBVIOUS
    <3> HIDE DEF recover
    <3>3. QED
      BY <3>1, <3>2, PlannedCuts
  <2>3. QED
    BY <2>1, <2>2
<1>4. recover => m.stop \in {"overflow", "length"}
  BY DEF Reason
<1>5. LeftOf(m, msgs, c.messages)
  BY <1>2, <1>4 DEF LeftOf
<1>6. QED
  BY <1>2, <1>3, <1>5

------------------------------------------------------------------------------
(* Each action keeps the data *)

SoundNow == Sound(messages, saved, pendingBash, created, missed)

LEMMA AfterRetriesData ==
  ASSUME IInv, PlansFit, NEW msgs, Sound(msgs, saved, pendingBash, created, missed),
         NEW p \in Prompts, NEW m, AfterRetries(p, m, msgs)
  PROVE  SoundNow' /\ PlansFit' /\ Extends(saved, saved')
<1>1. PICK c \in Checked(m, FALSE, msgs, saved) :
        /\ plan' = [plan EXCEPT ![p] = c.plan]
        /\ UNCHANGED <<created, missed>>
        /\ IF ~c.plan.on /\ ~Waiting
           THEN Proceed(p, c.messages, saved)
           ELSE /\ messages' = c.messages
                /\ at' = [at EXCEPT ![p] = IF c.plan.on THEN "compacting" ELSE "continue"]
                /\ UNCHANGED <<saved, pendingBash, before>>
  BY DEF AfterRetries
<1>2. saved \in Seq(Entries)
  BY DEF Sound
<1>3. c.plan \in Plans /\ Cuts(saved, c.plan)
  BY <1>2, CheckedFacts
<1>4. Sound(c.messages, saved, pendingBash, created', missed')
  <2>1. c.messages = msgs \/ c.messages = DropResponse(msgs)
    <3>1. LeftOf(m, msgs, c.messages)
      BY <1>2, CheckedFacts
    <3>2. QED
      BY <3>1 DEF LeftOf
  <2>2. QED
    BY <1>1, <2>1, SoundDropResponse
<1>5. CASE ~c.plan.on /\ ~Waiting
  <2>1. Proceed(p, c.messages, saved)
    BY <1>1, <1>5
  <2>2. SoundNow' /\ Extends(saved, saved')
    BY <1>4, <2>1, ProceedSound DEF SoundNow
  <2>3. PICK s \in {"asking", "done"} : at' = [at EXCEPT ![p] = s]
    BY <2>1 DEF Proceed
  <2>4. Cuts(saved', c.plan)
    BY <1>3, <2>2, CutsGrow DEF Extends
  <2>5. QED
    BY <1>1, <1>3, <2>2, <2>3, <2>4, PlansMove DEF Compacting
<1>6. CASE ~(~c.plan.on /\ ~Waiting)
  <2>1. /\ messages' = c.messages /\ UNCHANGED <<saved, pendingBash, created, missed>>
        /\ at' = [at EXCEPT ![p] = IF c.plan.on THEN "compacting" ELSE "continue"]
    BY <1>1, <1>6
  <2>2. SoundNow' /\ Extends(saved, saved')
    BY <1>4, <2>1, SavedSame DEF SoundNow
  <2> DEFINE s == IF c.plan.on THEN "compacting" ELSE "continue"
  <2>3. s \in Compacting => c.plan.on
    BY DEF Compacting
  <2>4. at' = [at EXCEPT ![p] = s] /\ saved' = saved
    BY <2>1
  <2> HIDE DEF s
  <2>5. QED
    BY <1>1, <1>3, <2>2, <2>3, <2>4, PlansMove
<1>7. QED
  BY <1>5, <1>6

LEMMA MessageHeardable ==
  ASSUME NEW n \in Nat
  PROVE  /\ \A k \in {"user", "toolResult", "bash"} : Message(n, k) \in Heardable
                                                     /\ Message(n, k).id = n
         /\ \A s \in AllStops : Response(n, s) \in Heardable /\ Response(n, s) \in Answers
                                /\ Response(n, s).id = n
         /\ Message(n, "bash") \in BashResult
BY DEF Message, Response, Heardable, Plain, Answers, BashResult

LEMMA StopsKnown == Stops \union {"call", "aborted"} \subseteq AllStops
BY AgentSessionAssumption DEF AllStops, FailedStops

LEMMA CreatedNat == SoundNow => created \in Nat /\ created + 1 \in Nat
BY DEF SoundNow, Sound

LEMMA RespondData == IInv /\ Data /\ Respond => Data'
<1> SUFFICES ASSUME IInv, Data, Respond PROVE Data'
  OBVIOUS
<1>1. PICK stop \in Stops \union {"call", "aborted"} :
        /\ Emit(<<Response(created + 1, stop)>>)
        /\ UNCHANGED <<callers, pendingBash, compactions>>
  BY DEF Respond
<1>2. Response(created + 1, stop) \in Heardable /\ Response(created + 1, stop).id = created + 1
  BY StopsKnown, MessageHeardable, CreatedNat DEF Data, SoundNow
<1>3. SoundNow' /\ Extends(saved, saved')
  BY <1>1, <1>2, EmitSound DEF Data, SoundNow
<1>4. QED
  BY <1>1, <1>3, PlansUnchanged, ManualKept DEF Data, SoundNow, callers

LEMMA ToolResultData == IInv /\ Data /\ ToolResult => Data'
<1> SUFFICES ASSUME IInv, Data, ToolResult PROVE Data'
  OBVIOUS
<1>1. /\ Emit(<<Message(created + 1, "toolResult")>>)
      /\ UNCHANGED <<callers, pendingBash, compactions>>
  BY DEF ToolResult
<1>2. /\ Message(created + 1, "toolResult") \in Heardable
      /\ Message(created + 1, "toolResult").id = created + 1
  BY MessageHeardable, CreatedNat DEF Data, SoundNow
<1>3. SoundNow' /\ Extends(saved, saved')
  BY <1>1, <1>2, EmitSound DEF Data, SoundNow
<1>4. QED
  BY <1>1, <1>3, PlansUnchanged, ManualKept DEF Data, SoundNow, callers

LEMMA UserEmitted ==
  ASSUME SoundNow, Emit(<<Message(created + 1, "user")>>), pendingBash' = pendingBash
  PROVE  SoundNow' /\ Extends(saved, saved')
<1>1. Message(created + 1, "user") \in Heardable /\ Message(created + 1, "user").id = created + 1
  BY MessageHeardable, CreatedNat
<1>2. QED
  BY <1>1, EmitSound DEF SoundNow

LEMMA PollData == IInv /\ Data /\ Poll => Data'
<1> SUFFICES ASSUME IInv, Data, Poll PROVE Data'
  OBVIOUS
<1>1. UNCHANGED <<callers, pendingBash, compactions>>
  BY DEF Poll
<1>2. SoundNow' /\ Extends(saved, saved')
  <2>1. CASE Inject
    BY <1>1, <2>1, UserEmitted DEF Inject, Data, SoundNow
  <2>2. CASE UNCHANGED transcript
    BY <1>1, <2>2, SavedSame DEF transcript, Data, SoundNow
  <2>3. QED
    BY <2>1, <2>2 DEF Poll
<1>3. QED
  BY <1>1, <1>2, PlansUnchanged, ManualKept DEF Data, SoundNow, callers

LEMMA EndRunData == ASSUME NEW p \in Prompts PROVE IInv /\ Data /\ EndRun(p) => Data'
<1> SUFFICES ASSUME IInv, Data, EndRun(p) PROVE Data'
  OBVIOUS
<1>0. SoundNow /\ PlansFit
  BY DEF Data, SoundNow
<1>1. SoundNow' /\ PlansFit' /\ Extends(saved, saved')
  <2>1. CASE Proceed(p, messages, saved) /\ UNCHANGED <<created, missed, plan>>
    <3>1. SoundNow' /\ Extends(saved, saved')
      BY <1>0, <2>1, ProceedSound DEF SoundNow
    <3>2. PICK s \in {"asking", "done"} : at' = [at EXCEPT ![p] = s]
      BY <2>1 DEF Proceed
    <3>3. QED
      BY <1>0, <2>1, <3>1, <3>2, PlansStay DEF Compacting
  <2>2. CASE /\ messages' = DropResponse(messages)
             /\ at' = [at EXCEPT ![p] = "waiting"]
             /\ UNCHANGED <<saved, created, missed, plan, pendingBash>>
    <3>1. SoundNow' /\ Extends(saved, saved')
      BY <1>0, <2>2, SoundDropResponse, SavedSame DEF SoundNow
    <3>2. QED
      BY <1>0, <2>2, <3>1, PlansStay DEF Compacting
  <2>3. CASE AfterRetries(p, lastAssistant, messages)
    BY <1>0, <2>3, AfterRetriesData DEF SoundNow
  <2>4. QED
    BY <2>1, <2>2, <2>3 DEF EndRun
<1>2. /\ manualPlan' = manualPlan
      /\ \A c \in Compacts : manual'[c] = "summarizing" => manual[c] = "summarizing"
  BY DEF EndRun, RunOver
<1>3. ManualFits'
  BY <1>1, <1>2, ManualGoesOn DEF Data
<1>4. QED
  BY <1>1, <1>3 DEF Data, SoundNow

LEMMA RetryCancelledData ==
  ASSUME NEW p \in Prompts PROVE IInv /\ Data /\ RetryCancelled(p) => Data'
<1> SUFFICES ASSUME IInv, Data, RetryCancelled(p) PROVE Data'
  OBVIOUS
<1>1. SoundNow' /\ PlansFit' /\ Extends(saved, saved')
  BY AfterRetriesData DEF RetryCancelled, Data
<1>2. QED
  BY <1>1, ManualKept DEF RetryCancelled, Data, SoundNow

LEMMA RetryWaitedData ==
  ASSUME NEW p \in Prompts PROVE IInv /\ Data /\ RetryWaited(p) => Data'
<1> SUFFICES ASSUME IInv, Data, RetryWaited(p) PROVE Data'
  OBVIOUS
<1>1. /\ at' = [at EXCEPT ![p] = "continue"] /\ plan' = plan
      /\ UNCHANGED <<messages, saved, created, missed, pendingBash, compactions>>
  BY DEF RetryWaited, transcript
<1>2. Extends(saved, saved')
  BY <1>1, SavedSame
<1>3. PlansFit'
  BY <1>1, <1>2, PlansStay DEF Data, Compacting
<1>4. QED
  BY <1>1, <1>2, <1>3, ManualKept DEF Data

LEMMA ContinueData ==
  ASSUME NEW p \in Prompts PROVE IInv /\ Data /\ Continue(p) => Data'
<1> SUFFICES ASSUME IInv, Data, Continue(p) PROVE Data'
  OBVIOUS
<1>1. plan' = [plan EXCEPT ![p] = NoPlan] /\ UNCHANGED compactions
  BY DEF Continue
<1>2. SoundNow' /\ Extends(saved, saved')
  <2>1. CASE Rejects(p) /\ UNCHANGED <<created, missed>>
    BY <2>1, RejectsSound DEF Data, SoundNow
  <2>2. CASE pendingBash' = pendingBash /\ Emit(<<Message(created + 1, "user")>>)
    BY <2>2, UserEmitted DEF Data, SoundNow
  <2>3. CASE UNCHANGED <<pendingBash, transcript>>
    BY <2>3, SavedSame DEF transcript, Data, SoundNow
  <2>4. QED
    BY <2>1, <2>2, <2>3 DEF Continue
<1>3. PICK s \in {"rejected", "running"} : at' = [at EXCEPT ![p] = s]
  BY DEF Continue, Rejects, StartRun
<1>4. PlansFit'
  BY <1>1, <1>2, <1>3, NoPlanFits, PlansMove DEF Data, Compacting
<1>5. QED
  BY <1>1, <1>2, <1>4, ManualKept DEF Data, SoundNow

\* The entry of a plan, and what comes of path and transcript.
LEMMA CompactionSound ==
  ASSUME NEW m, Sound(m, saved, pendingBash, created, missed),
         NEW pl \in Plans, pl.on, Cuts(saved, pl)
  PROVE  LET e == CompactionEntry(pl)
             w == Append(saved, e)
         IN  /\ Sound(Context(w), w, pendingBash, created + 1, missed) /\ Extends(saved, w)
             /\ Context(w) # <<>> /\ Context(w)[1] = e /\ e \in Summaries
<1> DEFINE e == CompactionEntry(pl)
           w == Append(saved, e)
<1>1. pl.kept \in Nat
  <2>1. pl # NoPlan
    BY NoPlanFits
  <2>2. pl \in [on : {TRUE}, again : BOOLEAN, kept : Nat]
    BY <2>1 DEF Plans
  <2>3. QED
    BY <2>2
<1>2. created \in Nat /\ saved \in Seq(Entries)
  BY DEF Sound
<1>3. e \in Summaries /\ e.id = created + 1 /\ e.kept = pl.kept
  BY <1>1, <1>2 DEF CompactionEntry, Summaries
<1>4. PICK j \in DOMAIN saved : CutAt(saved, j, pl.kept)
  BY DEF Cuts
<1> HIDE DEF e
<1>5. Sound(Context(w), w, pendingBash, created + 1, missed)
  BY <1>3, <1>4, SoundCompacted
<1>6. e \in Entries
  BY <1>3 DEF Entries
<1>7. Extends(saved, w)
  BY <1>2, <1>6, ExtendsAppend
<1>8. Once(w) /\ KeptThere(w)
  BY <1>5 DEF Sound
<1>9. Context(w) # <<>> /\ Context(w)[1] = e
  BY <1>2, <1>3, <1>8, ContextCompacted
<1>10. QED
  BY <1>3, <1>5, <1>7, <1>9 DEF e

LEMMA CompactedData ==
  ASSUME NEW p \in Prompts PROVE IInv /\ Data /\ Compacted(p) => Data'
<1> SUFFICES ASSUME IInv, Data, Compacted(p) PROVE Data'
  OBVIOUS
<1> DEFINE e == CompactionEntry(plan[p])
           w == Append(saved, e)
           new == Context(w)
<1>0. SoundNow /\ PlansFit /\ ManualFits
  BY DEF Data, SoundNow
<1>1. plan[p] \in Plans /\ plan[p].on /\ Cuts(saved, plan[p])
  BY <1>0 DEF Compacted, PlansFit, Compacting
<1>2. Sound(new, w, pendingBash, created + 1, missed) /\ Extends(saved, w) /\ new # <<>>
  BY <1>0, <1>1, CompactionSound DEF SoundNow
<1>3. created' = created + 1 /\ missed' = missed /\ UNCHANGED compactions
  BY DEF Compacted
<1> HIDE DEF e, w, new
<1>4. CASE /\ saved' = w /\ messages' \in {Front(new), new}
           /\ at' = [at EXCEPT ![p] = "continue"]
           /\ UNCHANGED <<plan, pendingBash>>
  <2>1. Sound(messages', w, pendingBash, created + 1, missed)
    BY <1>2, <1>4, SoundFront
  <2>2. PlansFit'
    BY <1>0, <1>2, <1>4, PlansStay DEF Compacting
  <2>3. ManualFits'
    BY <1>0, <1>2, <1>3, <1>4, ManualKept
  <2>4. QED
    BY <1>3, <1>4, <2>1, <2>2, <2>3 DEF Data
<1>5. CASE /\ plan' = [plan EXCEPT ![p] = NoPlan]
           /\ \/ /\ saved' = w /\ messages' = new
                 /\ at' = [at EXCEPT ![p] = "asking"]
                 /\ pendingBash' = pendingBash
              \/ Proceed(p, new, w)
  <2>1. SoundNow' /\ Extends(saved, saved')
    <3>1. CASE saved' = w /\ messages' = new /\ pendingBash' = pendingBash
      BY <1>2, <1>3, <3>1 DEF SoundNow
    <3>2. CASE Proceed(p, new, w)
      <4>1. Sound(new, w, pendingBash, created', missed')
        BY <1>2, <1>3
      <4>2. Sound(messages', saved', pendingBash', created', missed') /\ Extends(w, saved')
        BY <3>2, <4>1, ProceedSound
      <4>3. Extends(saved, saved')
        BY <1>2, <4>2, ExtendsTrans
      <4>4. QED
        BY <4>2, <4>3 DEF SoundNow
    <3>3. QED
      BY <1>5, <3>1, <3>2
  <2>2. PICK s \in {"asking", "done"} : at' = [at EXCEPT ![p] = s]
    BY <1>5 DEF Proceed
  <2>3. PlansFit'
    BY <1>0, <1>5, <2>1, <2>2, NoPlanFits, PlansMove DEF Compacting
  <2>4. ManualFits'
    BY <1>0, <1>3, <2>1, ManualKept
  <2>5. QED
    BY <2>1, <2>3, <2>4 DEF Data, SoundNow
<1>6. QED
  <2>1. CASE GoesOn(plan[p].again)
    <3>1. /\ saved' = w /\ messages' \in {Front(new), new}
          /\ at' = [at EXCEPT ![p] = "continue"]
          /\ UNCHANGED <<plan, pendingBash>>
      BY <2>1 DEF Compacted, Rebuilt, e, w, new
    <3>2. QED
      BY <1>4, <3>1
  <2>2. CASE ~GoesOn(plan[p].again)
    <3>1. /\ plan' = [plan EXCEPT ![p] = NoPlan]
          /\ \/ /\ saved' = w /\ messages' = new
                /\ at' = [at EXCEPT ![p] = "asking"]
                /\ pendingBash' = pendingBash
             \/ Proceed(p, new, w)
      BY <2>2 DEF Compacted, Rebuilt, e, w, new
    <3>2. QED
      BY <1>5, <3>1
  <2>3. QED
    BY <2>1, <2>2

LEMMA CompactionFailedData ==
  ASSUME NEW p \in Prompts PROVE IInv /\ Data /\ CompactionFailed(p) => Data'
<1> SUFFICES ASSUME IInv, Data, CompactionFailed(p) PROVE Data'
  OBVIOUS
<1>1. /\ plan' = [plan EXCEPT ![p] = NoPlan]
      /\ UNCHANGED <<created, missed, compactions>>
  BY DEF CompactionFailed
<1>2. SoundNow' /\ Extends(saved, saved')
  <2>1. CASE Proceed(p, messages, saved)
    BY <1>1, <2>1, ProceedSound DEF Data, SoundNow
  <2>2. CASE UNCHANGED <<messages, saved, pendingBash>>
    BY <1>1, <2>2, SavedSame DEF Data, SoundNow
  <2>3. QED
    BY <2>1, <2>2 DEF CompactionFailed
<1>3. PICK s \in {"asking", "done", "continue"} : at' = [at EXCEPT ![p] = s]
  BY DEF CompactionFailed, Proceed
<1>4. PlansFit'
  BY <1>1, <1>2, <1>3, NoPlanFits, PlansMove DEF Data, Compacting
<1>5. QED
  BY <1>1, <1>2, <1>4, ManualKept DEF Data, SoundNow

LEMMA EnterData == ASSUME NEW p \in Prompts PROVE IInv /\ Data /\ Enter(p) => Data'
<1> SUFFICES ASSUME IInv, Data, Enter(p) PROVE Data'
  OBVIOUS
<1>1. /\ at' = [at EXCEPT ![p] = "done"] /\ plan' = plan
      /\ UNCHANGED <<messages, saved, created, missed, pendingBash, compactions>>
  BY DEF Enter, transcript
<1>2. Extends(saved, saved')
  BY <1>1, SavedSame
<1>3. PlansFit'
  BY <1>1, <1>2, PlansStay DEF Data, Compacting
<1>4. QED
  BY <1>1, <1>2, <1>3, ManualKept DEF Data

LEMMA EnterIdleData == ASSUME NEW p \in Prompts PROVE IInv /\ Data /\ EnterIdle(p) => Data'
<1> SUFFICES ASSUME IInv, Data, EnterIdle(p) PROVE Data'
  OBVIOUS
<1> DEFINE msgs == Flushed(messages)
<1>1. /\ saved' = Flushed(saved) /\ pendingBash' = <<>>
      /\ UNCHANGED <<created, missed, compactions>>
  BY DEF EnterIdle
<1>2. Sound(msgs, saved', <<>>, created, missed) /\ Extends(saved, saved')
  BY <1>1, FlushSound DEF Data
<1>3. saved' \in Seq(Entries)
  BY <1>2 DEF Sound
<1> HIDE DEF msgs
<1>4. SoundNow' /\ PlansFit'
  <2>1. CASE messages' = msgs /\ at' = [at EXCEPT ![p] = "asking"] /\ plan' = plan
    <3>1. SoundNow'
      BY <1>1, <1>2, <2>1 DEF SoundNow
    <3>2. PlansFit'
      BY <1>2, <2>1, PlansStay DEF Data, Compacting
    <3>3. QED
      BY <3>1, <3>2
  <2>2. ASSUME NEW path, path = saved', NEW m, NEW c \in Checked(m, TRUE, msgs, path),
               messages' = c.messages, plan' = [plan EXCEPT ![p] = c.plan],
               at' = [at EXCEPT ![p] = IF c.plan.on THEN "precompacting" ELSE "asking"]
        PROVE  SoundNow' /\ PlansFit'
    <3>1. c.plan \in Plans /\ Cuts(path, c.plan) /\ LeftOf(m, msgs, c.messages)
      BY <1>3, <2>2, CheckedFacts
    <3>2. Sound(c.messages, saved', <<>>, created, missed)
      BY <1>2, <3>1, SoundDropResponse DEF LeftOf
    <3>3. SoundNow'
      BY <1>1, <2>2, <3>2 DEF SoundNow
    <3> DEFINE s == IF c.plan.on THEN "precompacting" ELSE "asking"
    <3>4. s \in Compacting => c.plan.on
      BY DEF Compacting
    <3>5. at' = [at EXCEPT ![p] = s]
      BY <2>2
    <3> HIDE DEF s
    <3>6. PlansFit'
      BY <1>2, <2>2, <3>1, <3>4, <3>5, PlansMove DEF Data
    <3>7. QED
      BY <3>3, <3>6
  <2>3. QED
    <3>1. CASE Responses(msgs) = {}
      BY <2>1, <3>1 DEF EnterIdle, msgs
    <3>2. CASE Responses(msgs) # {}
      <4>1. PICK c \in Checked(msgs[Max(Responses(msgs))], TRUE, msgs, saved') :
              /\ messages' = c.messages /\ plan' = [plan EXCEPT ![p] = c.plan]
              /\ at' = [at EXCEPT ![p] = IF c.plan.on THEN "precompacting" ELSE "asking"]
        BY <3>2 DEF EnterIdle, msgs
      <4>2. QED
        BY <2>2, <4>1
    <3>3. QED
      BY <3>1, <3>2
<1>5. QED
  BY <1>1, <1>2, <1>4, ManualKept DEF Data, SoundNow

LEMMA LaunchData == ASSUME NEW p \in Prompts PROVE IInv /\ Data /\ Launch(p) => Data'
<1> SUFFICES ASSUME IInv, Data, Launch(p) PROVE Data'
  OBVIOUS
<1>1. UNCHANGED <<plan, compactions>>
  BY DEF Launch
<1>2. SoundNow' /\ Extends(saved, saved')
  <2>1. CASE Rejects(p) /\ UNCHANGED <<created, missed>>
    BY <2>1, RejectsSound DEF Data, SoundNow
  <2>2. CASE pendingBash' = pendingBash /\ Emit(<<Message(created + 1, "user")>>)
    BY <2>2, UserEmitted DEF Data, SoundNow
  <2>3. QED
    BY <2>1, <2>2 DEF Launch
<1>3. PICK s \in {"rejected", "running"} : at' = [at EXCEPT ![p] = s]
  BY DEF Launch, Rejects, StartRun
<1>4. PlansFit'
  BY <1>1, <1>2, <1>3, PlansStay DEF Data, Compacting
<1>5. QED
  BY <1>1, <1>2, <1>4, ManualKept DEF Data, SoundNow

LEMMA RecordBashData == IInv /\ Data /\ RecordBash => Data'
<1> SUFFICES ASSUME IInv, Data, RecordBash PROVE Data'
  OBVIOUS
<1> DEFINE m == Message(created + 1, "bash")
<1>0. SoundNow
  BY DEF Data, SoundNow
<1>1. created' = created + 1 /\ UNCHANGED <<callers, missed, compactions>>
  BY DEF RecordBash
<1>2. m \in Heardable /\ m \in BashResult /\ m.id = created + 1 /\ m \in Entries
  BY <1>0, MessageHeardable, CreatedNat, EntryKinds
<1> HIDE DEF m
<1>3. SoundNow' /\ Extends(saved, saved')
  <2>1. CASE pendingBash' = Append(pendingBash, m) /\ UNCHANGED <<messages, saved>>
    BY <1>0, <1>1, <1>2, <2>1, SoundDeferred, SavedSame DEF SoundNow
  <2>2. CASE /\ messages' = Append(messages, m) /\ saved' = Append(saved, m)
             /\ pendingBash' = pendingBash
    <3>1. messages \in Seq(Entries) /\ saved \in Seq(Entries)
      BY <1>0 DEF SoundNow, Sound
    <3>2. messages' = messages \o <<m>> /\ saved' = saved \o <<m>>
      BY <1>2, <2>2, <3>1, AppendIsConcat
    <3>3. Sound(messages \o <<m>>, saved \o <<m>>, pendingBash, created + 1, missed)
      BY <1>0, <1>2, SoundHeard DEF SoundNow
    <3>4. Extends(saved, saved')
      BY <1>2, <2>2, <3>1, ExtendsAppend
    <3>5. QED
      BY <1>1, <2>2, <3>2, <3>3, <3>4 DEF SoundNow
  <2>3. QED
    BY <2>1, <2>2 DEF RecordBash, m
<1>4. QED
  BY <1>1, <1>3, PlansUnchanged, ManualKept DEF Data, SoundNow, callers

\* Steps that touch no transcript and let no call compact.
LEMMA StillData ==
  ASSUME IInv, Data, UNCHANGED <<transcript, pendingBash, plan>>,
         \A q \in Prompts : at'[q] \in Compacting => at'[q] = at[q],
         ManualFits'
  PROVE  Data'
<1>1. PlansFit'
  BY SavedSame, PlansKept DEF Data, PlansFit, transcript
<1>2. QED
  BY <1>1 DEF Data, transcript

LEMMA StopAllStill ==
  ASSUME IInv, StopAll
  PROVE  \A q \in Prompts : at'[q] \in Compacting => at'[q] = at[q]
BY DEF StopAll, IInv, Types, Compacting

LEMMA AbortData == IInv /\ Data /\ Abort => Data'
<1> SUFFICES ASSUME IInv, Data, Abort PROVE Data'
  OBVIOUS
<1>1. StopAll /\ UNCHANGED <<plan, transcript, pendingBash, compactions>>
  BY DEF Abort
<1>2. ManualFits'
  BY <1>1, SavedSame, ManualKept DEF Data, transcript
<1>3. QED
  BY <1>1, <1>2, StillData, StopAllStill

LEMMA CompactData == ASSUME NEW c \in Compacts PROVE IInv /\ Data /\ Compact(c) => Data'
<1> SUFFICES ASSUME IInv, Data, Compact(c) PROVE Data'
  OBVIOUS
<1>1. /\ StopAll /\ UNCHANGED <<plan, transcript, pendingBash, manualPlan>>
      /\ manual' = [manual EXCEPT ![c] = IF run # None THEN "aborting" ELSE "ready"]
  BY DEF Compact
<1>2. \A d \in Compacts : manual'[d] = "summarizing" => manual[d] = "summarizing"
  BY <1>1 DEF IInv, Types
<1>3. ManualFits'
  BY <1>1, <1>2, SavedSame, ManualGoesOn DEF Data, transcript
<1>4. QED
  BY <1>1, <1>3, StillData, StopAllStill

LEMMA SteerData == IInv /\ Data /\ Steer => Data'
<1> SUFFICES ASSUME IInv, Data, Steer PROVE Data'
  OBVIOUS
<1>1. UNCHANGED <<callers, transcript, pendingBash, compactions>>
  BY DEF Steer
<1>2. ManualFits'
  BY <1>1, SavedSame, ManualKept DEF Data, transcript
<1>3. QED
  BY <1>1, <1>2, StillData DEF callers

LEMMA CompactPreparesData ==
  ASSUME NEW c \in Compacts PROVE IInv /\ Data /\ CompactPrepares(c) => Data'
<1> SUFFICES ASSUME IInv, Data, CompactPrepares(c) PROVE Data'
  OBVIOUS
<1>1. UNCHANGED <<callers, transcript, pendingBash>> /\ Extends(saved, saved')
  BY SavedSame DEF CompactPrepares, transcript
<1>2. PICK r \in BudgetPoints(saved) :
        LET pl == Planned(saved, r, FALSE)
        IN  IF pl.on /\ controller
            THEN /\ manual' = [manual EXCEPT ![c] = "summarizing"]
                 /\ manualPlan' = [manualPlan EXCEPT ![c] = pl]
            ELSE Reconnects(c)
  BY DEF CompactPrepares
<1> DEFINE pl == Planned(saved, r, FALSE)
<1>3. pl \in Plans /\ Cuts(saved, pl)
  BY PlannedCuts DEF Data, Sound
<1> HIDE DEF pl
<1>4. ManualFits'
  <2>1. CASE pl.on /\ controller
    <3>1. /\ manual' = [manual EXCEPT ![c] = "summarizing"]
          /\ manualPlan' = [manualPlan EXCEPT ![c] = pl]
      BY <1>2, <2>1 DEF pl
    <3>2. manualPlan' \in [Compacts -> Plans] /\ manualPlan'[c] = pl
      BY <1>3, <3>1 DEF Data, ManualFits
    <3>3. \A d \in Compacts : d # c => manual'[d] = manual[d] /\ manualPlan'[d] = manualPlan[d]
      BY <3>1 DEF Data, ManualFits, IInv, Types
    <3>4. QED
      BY <1>1, <1>3, <2>1, <3>2, <3>3 DEF Data, ManualFits, transcript
  <2>2. CASE ~(pl.on /\ controller)
    <3>1. Reconnects(c)
      BY <1>2, <2>2 DEF pl
    <3>2. QED
      BY <1>1, <3>1, ManualEnds DEF Data
  <2>3. QED
    BY <2>1, <2>2
<1>5. QED
  BY <1>1, <1>4, StillData DEF callers

LEMMA CompactDoneData ==
  ASSUME NEW c \in Compacts PROVE IInv /\ Data /\ CompactDone(c) => Data'
<1> SUFFICES ASSUME IInv, Data, CompactDone(c) PROVE Data'
  OBVIOUS
<1> DEFINE w == Append(saved, CompactionEntry(manualPlan[c]))
<1>1. /\ saved' = w /\ created' = created + 1 /\ messages' = Context(w) /\ Reconnects(c)
      /\ UNCHANGED <<callers, missed, pendingBash>>
  BY DEF CompactDone, Rebuilt
<1>2. manualPlan[c] \in Plans /\ manualPlan[c].on /\ Cuts(saved, manualPlan[c])
  BY DEF CompactDone, Data, ManualFits
<1>3. Sound(Context(w), w, pendingBash, created + 1, missed) /\ Extends(saved, w)
  BY <1>2, CompactionSound DEF Data
<1> HIDE DEF w
<1>4. PlansFit'
  BY <1>1, <1>3, PlansUnchanged DEF Data, callers
<1>5. ManualFits'
  BY <1>1, <1>3, ManualEnds DEF Data
<1>6. QED
  BY <1>1, <1>3, <1>4, <1>5 DEF Data

LEMMA CompactFailedData ==
  ASSUME NEW c \in Compacts PROVE IInv /\ Data /\ CompactFailed(c) => Data'
<1> SUFFICES ASSUME IInv, Data, CompactFailed(c) PROVE Data'
  OBVIOUS
<1>1. UNCHANGED <<callers, transcript, pendingBash>> /\ Reconnects(c)
  BY DEF CompactFailed
<1>2. ManualFits'
  BY <1>1, SavedSame, ManualEnds DEF Data, transcript
<1>3. QED
  BY <1>1, <1>2, StillData DEF callers

LEMMA VarsData == IInv /\ Data /\ UNCHANGED vars => Data'
<1> SUFFICES ASSUME IInv, Data, UNCHANGED vars PROVE Data'
  OBVIOUS
<1>1. UNCHANGED <<callers, transcript, pendingBash, compactions>>
  BY DEF vars
<1>2. ManualFits'
  BY <1>1, SavedSame, ManualKept DEF Data, transcript
<1>3. QED
  BY <1>1, <1>2, StillData DEF callers

LEMMA DataInit == Init => Data
<1> SUFFICES ASSUME Init PROVE Data
  OBVIOUS
<1>1. /\ messages = <<>> /\ saved = <<>> /\ pendingBash = <<>> /\ created = 0 /\ missed = {}
      /\ manualPlan = [c \in Compacts |-> NoPlan] /\ plan = [p \in Prompts |-> NoPlan]
      /\ \A c \in Compacts : manual[c] = "new"
      /\ \A p \in Prompts : at[p] \notin Compacting
  BY DEF Init, Compacting
<1> DEFINE z == <<>>
<1>2. z \in Seq(Entries) /\ z \in Seq(BashResult) /\ DOMAIN z = {}
  OBVIOUS
<1> HIDE DEF z
<1>3. Once(z) /\ KeptThere(z)
  BY <1>2 DEF Once, KeptThere
<1>4. Context(z) \in Seq(Entries) /\ \A a \in DOMAIN Context(z) : \E j \in DOMAIN z : TRUE
  BY <1>2, <1>3, ContextFromPath
<1>5. Sound(z, z, z, 0, {})
  BY <1>2, <1>3, <1>4 DEF Sound, Numbered, Apart, Outside, Agree
<1>6. PlansFit
  BY <1>1, NoPlanFits DEF PlansFit
<1>7. ManualFits
  BY <1>1, NoPlanFits DEF ManualFits
<1>8. QED
  BY <1>1, <1>5, <1>6, <1>7 DEF Data, z

LEMMA DataStep == IInv /\ Data /\ [Next]_vars => Data'
BY RespondData, ToolResultData, PollData, EndRunData, RetryCancelledData, RetryWaitedData,
   ContinueData, CompactedData, CompactionFailedData, EnterData, EnterIdleData, LaunchData,
   RecordBashData, AbortData, CompactData, SteerData, CompactPreparesData, CompactDoneData,
   CompactFailedData, VarsData
   DEF Next, Run, Manual, User, Call

------------------------------------------------------------------------------
(* Bash results *)

Counts == [call : Nat, steer : Nat, bash : Nat, abort : Nat]

\* Every bash result is saved or waits, and one waits only while a call is in
\* progress.
Bashes ==
  /\ used \in Counts
  /\ Cardinality(BashResults(saved)) + Len(pendingBash) = used.bash
  /\ pendingBash # <<>> => InProgress

Settling == {"new", "done", "rejected"}

LEMMA GoesOnInProgress ==
  ASSUME IInv, NEW p \in Prompts, NEW s \in Steps \ Settling, at' = [at EXCEPT ![p] = s]
  PROVE  InProgress'
<1>1. at'[p] = s
  BY DEF IInv, Types
<1>2. QED
  BY <1>1 DEF InProgress, Settled, Settling

LEMMA RunInProgress ==
  ASSUME IInv, run # None
  PROVE  run \in Prompts /\ at[run] = "running" /\ InProgress
BY DEF IInv, Types, OneRun, InProgress, Settled

LEMMA StopAllInProgress ==
  ASSUME IInv, StopAll, InProgress
  PROVE  InProgress'
<1>1. PICK p \in Prompts : ~Settled(p)
  BY DEF InProgress
<1>2. at'[p] = at[p] \/ at'[p] = "cancelled"
  BY DEF StopAll, IInv, Types
<1>3. QED
  BY <1>1, <1>2 DEF InProgress, Settled

LEMMA SameInProgress == InProgress /\ at' = at => InProgress'
BY DEF InProgress, Settled

LEMMA MayCounts ==
  ASSUME used \in Counts, NEW w \in {"call", "steer", "abort"}, NEW max, May(w, max)
  PROVE  used' \in Counts /\ used'.bash = used.bash
BY DEF Counts, May

LEMMA MayBash ==
  ASSUME used \in Counts, NEW max, May("bash", max)
  PROVE  used' \in Counts /\ used'.bash = used.bash + 1
BY DEF Counts, May

------------------------------------------------------------------------------
(* Counting bash results *)

LEMMA BashResultsFinite ==
  ASSUME NEW s \in Seq(Entries)
  PROVE  IsFiniteSet(BashResults(s)) /\ Cardinality(BashResults(s)) \in Nat
<1>1. IsFiniteSet(1..Len(s))
  BY FS_Interval
<1>2. BashResults(s) \subseteq 1..Len(s)
  BY DEF BashResults
<1>3. QED
  BY <1>1, <1>2, FS_Subset, FS_CardinalityType

LEMMA NoneCounted ==
  ASSUME NEW s \in Seq(Entries), NEW t \in Seq(Entries), \A i \in DOMAIN t : t[i].kind # "bash"
  PROVE  BashResults(s \o t) = BashResults(s)
<1> DEFINE w == s \o t
<1>1. /\ DOMAIN w = 1..(Len(s) + Len(t)) /\ DOMAIN s = 1..Len(s) /\ Len(s) \in Nat
      /\ Len(t) \in Nat
      /\ \A i \in 1..Len(s) : w[i] = s[i]
      /\ \A i \in DOMAIN w : i \notin DOMAIN s =>
           i - Len(s) \in DOMAIN t /\ w[i] = t[i - Len(s)]
  BY ConcatFacts
<1> HIDE DEF w
<1>2. QED
  BY <1>1 DEF BashResults, w

LEMMA AllCounted ==
  ASSUME NEW s \in Seq(Entries), NEW t \in Seq(Entries), \A i \in DOMAIN t : t[i].kind = "bash"
  PROVE  Cardinality(BashResults(s \o t)) = Cardinality(BashResults(s)) + Len(t)
<1> DEFINE w == s \o t
           L == Len(s)
           N == Len(t)
           J == (L + 1)..(L + N)
<1>1. /\ DOMAIN w = 1..(L + N) /\ DOMAIN s = 1..L /\ L \in Nat /\ N \in Nat
      /\ \A i \in 1..L : w[i] = s[i]
      /\ \A i \in DOMAIN w : i \notin DOMAIN s => i - L \in DOMAIN t /\ w[i] = t[i - L]
  BY ConcatFacts
<1> HIDE DEF w, L, N
<1>2. BashResults(w) = BashResults(s) \union J
  BY <1>1 DEF BashResults
<1>3. BashResults(s) \cap J = {}
  BY <1>1 DEF BashResults
<1>4. IsFiniteSet(J) /\ Cardinality(J) = N
  BY <1>1, FS_Interval
<1>5. IsFiniteSet(BashResults(s)) /\ Cardinality(BashResults(s)) \in Nat
  BY BashResultsFinite
<1>6. Cardinality(BashResults(s) \cap J) = 0
  BY <1>3, FS_EmptySet
<1> HIDE DEF J
<1>7. Cardinality(BashResults(s) \union J) =
        Cardinality(BashResults(s)) + Cardinality(J) - Cardinality(BashResults(s) \cap J)
  BY <1>4, <1>5, FS_Union
<1>8. QED
  BY <1>1, <1>2, <1>4, <1>5, <1>6, <1>7 DEF w, N

LEMMA EmitCounts ==
  ASSUME SoundNow, NEW e \in Heardable, e.kind # "bash", Emit(<<e>>)
  PROVE  BashResults(saved') = BashResults(saved)
<1>1. saved \in Seq(Entries) /\ e \in Entries
  BY EntryKinds DEF SoundNow, Sound
<1>2. <<e>> \in Seq(Entries) /\ \A i \in DOMAIN <<e>> : <<e>>[i].kind # "bash"
  BY <1>1
<1>3. BashResults(saved \o <<e>>) = BashResults(saved)
  BY <1>1, <1>2, NoneCounted
<1>4. QED
  BY <1>3 DEF Emit

\* A step that flushes, after which path s has the bash results there were.
LEMMA FlushCounts ==
  ASSUME SoundNow, Bashes, NEW s \in Seq(Entries), BashResults(s) = BashResults(saved),
         saved' = Flushed(s), pendingBash' = <<>>, used' = used
  PROVE  Bashes'
<1>1. pendingBash \in Seq(Entries) /\ \A i \in DOMAIN pendingBash : pendingBash[i].kind = "bash"
  BY BashIsEntry DEF SoundNow, Sound, BashResult
<1>2. Cardinality(BashResults(saved')) = Cardinality(BashResults(s)) + Len(pendingBash)
  BY <1>1, AllCounted DEF Flushed
<1>3. Len(pendingBash') = 0 /\ Cardinality(BashResults(s)) \in Nat /\ Len(pendingBash) \in Nat
  BY <1>1, BashResultsFinite
<1>4. QED
  BY <1>2, <1>3 DEF Bashes

\* A step that saves no bash result and goes on with a call if one waits.
LEMMA OthersCount ==
  ASSUME Bashes, BashResults(saved') = BashResults(saved), pendingBash' = pendingBash,
         used' \in Counts, used'.bash = used.bash, InProgress => InProgress'
  PROVE  Bashes'
BY DEF Bashes

LEMMA SavedCounts == saved' = saved => BashResults(saved') = BashResults(saved)
OBVIOUS

LEMMA CompactionCounts ==
  ASSUME NEW s \in Seq(Entries), NEW e \in Summaries
  PROVE  BashResults(Append(s, e)) = BashResults(s) /\ Append(s, e) \in Seq(Entries)
<1>1. e \in Entries /\ e.kind # "bash"
  BY DEF Entries, Summaries
<1>2. <<e>> \in Seq(Entries) /\ \A i \in DOMAIN <<e>> : <<e>>[i].kind # "bash"
  BY <1>1
<1>3. Append(s, e) = s \o <<e>>
  BY <1>1, AppendIsConcat
<1>4. Append(s, e) \in Seq(Entries)
  BY <1>1, AppendFacts
<1>5. QED
  BY <1>2, <1>3, <1>4, NoneCounted

LEMMA RespondBashes == IInv /\ Data /\ Bashes /\ Respond => Bashes'
<1> SUFFICES ASSUME IInv, Data, Bashes, Respond PROVE Bashes'
  OBVIOUS
<1>1. PICK stop \in Stops \union {"call", "aborted"} :
        /\ IF stop = "call" THEN May("call", MaxCalls) ELSE UNCHANGED used
        /\ Emit(<<Response(created + 1, stop)>>)
        /\ UNCHANGED <<callers, pendingBash>>
  BY DEF Respond
<1>2. Response(created + 1, stop) \in Heardable /\ Response(created + 1, stop).kind # "bash"
  BY StopsKnown, MessageHeardable, CreatedNat DEF Data, SoundNow, Response
<1>3. BashResults(saved') = BashResults(saved)
  BY <1>1, <1>2, EmitCounts DEF Data, SoundNow
<1>4. used' \in Counts /\ used'.bash = used.bash
  BY <1>1, MayCounts DEF Bashes
<1>5. QED
  BY <1>1, <1>3, <1>4, OthersCount, SameInProgress DEF callers

LEMMA MessageCounts ==
  ASSUME SoundNow, NEW k \in {"user", "toolResult"}, Emit(<<Message(created + 1, k)>>)
  PROVE  BashResults(saved') = BashResults(saved)
<1>1. Message(created + 1, k) \in Heardable /\ Message(created + 1, k).kind # "bash"
  BY MessageHeardable, CreatedNat DEF Message
<1>2. QED
  BY <1>1, EmitCounts

LEMMA ToolResultBashes == IInv /\ Data /\ Bashes /\ ToolResult => Bashes'
<1> SUFFICES ASSUME IInv, Data, Bashes, ToolResult PROVE Bashes'
  OBVIOUS
<1>1. /\ Emit(<<Message(created + 1, "toolResult")>>)
      /\ UNCHANGED <<callers, pendingBash, used>>
  BY DEF ToolResult
<1>2. QED
  BY <1>1, MessageCounts, OthersCount, SameInProgress DEF callers, Data, SoundNow, Bashes

LEMMA PollBashes == IInv /\ Data /\ Bashes /\ Poll => Bashes'
<1> SUFFICES ASSUME IInv, Data, Bashes, Poll PROVE Bashes'
  OBVIOUS
<1>1. UNCHANGED <<callers, pendingBash, used>>
  BY DEF Poll
<1>2. BashResults(saved') = BashResults(saved)
  <2>1. CASE Inject
    BY <2>1, MessageCounts DEF Inject, Data, SoundNow
  <2>2. CASE UNCHANGED transcript
    BY <2>2 DEF transcript
  <2>3. QED
    BY <2>1, <2>2 DEF Poll
<1>3. QED
  BY <1>1, <1>2, OthersCount, SameInProgress DEF callers, Bashes

LEMMA ProceedBashes ==
  ASSUME SoundNow, Bashes, NEW m, NEW p, NEW s \in Seq(Entries), Proceed(p, m, s),
         BashResults(s) = BashResults(saved), used' = used
  PROVE  Bashes'
BY FlushCounts DEF Proceed

LEMMA RejectsBashes ==
  ASSUME SoundNow, Bashes, NEW p, Rejects(p), used' = used
  PROVE  Bashes'
BY FlushCounts DEF Rejects, SoundNow, Sound

\* Call p goes on without a change to bash results.
LEMMA GoesOnBashes ==
  ASSUME IInv, Bashes, NEW p \in Prompts, NEW s \in Steps \ Settling,
         at' = [at EXCEPT ![p] = s], BashResults(saved') = BashResults(saved),
         UNCHANGED <<pendingBash, used>>
  PROVE  Bashes'
BY GoesOnInProgress, OthersCount DEF Bashes

LEMMA AfterRetriesBashes ==
  ASSUME IInv, SoundNow, Bashes, NEW msgs, NEW p \in Prompts, NEW m, AfterRetries(p, m, msgs),
         used' = used
  PROVE  Bashes'
<1>1. PICK c \in Checked(m, FALSE, msgs, saved) :
        IF ~c.plan.on /\ ~Waiting
        THEN Proceed(p, c.messages, saved)
        ELSE /\ at' = [at EXCEPT ![p] = IF c.plan.on THEN "compacting" ELSE "continue"]
             /\ UNCHANGED <<saved, pendingBash, before>>
  BY DEF AfterRetries
<1>2. CASE Proceed(p, c.messages, saved)
  BY <1>2, ProceedBashes DEF SoundNow, Sound
<1>3. CASE /\ at' = [at EXCEPT ![p] = IF c.plan.on THEN "compacting" ELSE "continue"]
           /\ UNCHANGED <<saved, pendingBash, before>>
  <2>1. (IF c.plan.on THEN "compacting" ELSE "continue") \in Steps \ Settling
    BY DEF Steps, Settling
  <2>2. QED
    BY <1>3, <2>1, GoesOnBashes, SavedCounts
<1>4. QED
  BY <1>1, <1>2, <1>3

LEMMA EndRunBashes == ASSUME NEW p \in Prompts PROVE IInv /\ Data /\ Bashes /\ EndRun(p) => Bashes'
<1> SUFFICES ASSUME IInv, Data, Bashes, EndRun(p) PROVE Bashes'
  OBVIOUS
<1>0. SoundNow /\ used' = used /\ saved \in Seq(Entries)
  BY DEF Data, SoundNow, Sound, EndRun
<1>1. CASE Proceed(p, messages, saved)
  BY <1>0, <1>1, ProceedBashes
<1>2. CASE at' = [at EXCEPT ![p] = "waiting"] /\ UNCHANGED <<saved, pendingBash>>
  <2>1. "waiting" \in Steps \ Settling
    BY DEF Steps, Settling
  <2>2. QED
    BY <1>0, <1>2, <2>1, GoesOnBashes, SavedCounts
<1>3. CASE AfterRetries(p, lastAssistant, messages)
  BY <1>0, <1>3, AfterRetriesBashes
<1>4. QED
  BY <1>1, <1>2, <1>3 DEF EndRun

LEMMA RetryCancelledBashes ==
  ASSUME NEW p \in Prompts PROVE IInv /\ Data /\ Bashes /\ RetryCancelled(p) => Bashes'
BY AfterRetriesBashes DEF RetryCancelled, Data, SoundNow

LEMMA RetryWaitedBashes ==
  ASSUME NEW p \in Prompts PROVE IInv /\ Data /\ Bashes /\ RetryWaited(p) => Bashes'
<1>1. "continue" \in Steps \ Settling
  BY DEF Steps, Settling
<1>2. QED
  BY <1>1, GoesOnBashes, SavedCounts DEF RetryWaited, transcript

LEMMA StartBashes ==
  ASSUME IInv, SoundNow, Bashes, NEW p \in Prompts, NEW first, StartRun(p, first),
         UNCHANGED saved \/ Emit(<<Message(created + 1, "user")>>),
         UNCHANGED <<pendingBash, used>>
  PROVE  Bashes'
<1>1. "running" \in Steps \ Settling
  BY DEF Steps, Settling
<1>2. BashResults(saved') = BashResults(saved)
  BY MessageCounts
<1>3. QED
  BY <1>1, <1>2, GoesOnBashes DEF StartRun

LEMMA ContinueBashes ==
  ASSUME NEW p \in Prompts PROVE IInv /\ Data /\ Bashes /\ Continue(p) => Bashes'
<1> SUFFICES ASSUME IInv, Data, Bashes, Continue(p) PROVE Bashes'
  OBVIOUS
<1>0. SoundNow /\ used' = used
  BY DEF Data, SoundNow, Continue
<1>1. CASE Rejects(p)
  BY <1>0, <1>1, RejectsBashes
<1>2. CASE /\ \E first : StartRun(p, first)
           /\ UNCHANGED saved \/ Emit(<<Message(created + 1, "user")>>)
           /\ pendingBash' = pendingBash
  BY <1>0, <1>2, StartBashes
<1>3. QED
  BY <1>1, <1>2 DEF Continue, transcript

LEMMA LaunchBashes == ASSUME NEW p \in Prompts PROVE IInv /\ Data /\ Bashes /\ Launch(p) => Bashes'
<1> SUFFICES ASSUME IInv, Data, Bashes, Launch(p) PROVE Bashes'
  OBVIOUS
<1>0. SoundNow /\ used' = used
  BY DEF Data, SoundNow, Launch
<1>1. CASE Rejects(p)
  BY <1>0, <1>1, RejectsBashes
<1>2. CASE /\ StartRun(p, "turn") /\ Emit(<<Message(created + 1, "user")>>)
           /\ pendingBash' = pendingBash
  BY <1>0, <1>2, StartBashes
<1>3. QED
  BY <1>1, <1>2 DEF Launch

LEMMA CompactedBashes ==
  ASSUME NEW p \in Prompts PROVE IInv /\ Data /\ Bashes /\ Compacted(p) => Bashes'
<1> SUFFICES ASSUME IInv, Data, Bashes, Compacted(p) PROVE Bashes'
  OBVIOUS
<1> DEFINE e == CompactionEntry(plan[p])
           w == Append(saved, e)
           new == Context(w)
<1>0. SoundNow /\ used' = used /\ saved \in Seq(Entries) /\ PlansFit
  BY DEF Data, SoundNow, Sound, Compacted
<1>1. e \in Summaries
  <2>1. plan[p] \in Plans /\ plan[p].on /\ Cuts(saved, plan[p])
    BY <1>0 DEF Compacted, PlansFit, Compacting
  <2>2. QED
    BY <1>0, <2>1, CompactionSound DEF SoundNow
<1> HIDE DEF e
<1>2. BashResults(w) = BashResults(saved) /\ w \in Seq(Entries)
  BY <1>0, <1>1, CompactionCounts
<1> HIDE DEF w, new
<1>3. CASE /\ saved' = w /\ pendingBash' = pendingBash
           /\ \E s \in {"continue", "asking"} : at' = [at EXCEPT ![p] = s]
  <2>1. {"continue", "asking"} \subseteq Steps \ Settling
    BY DEF Steps, Settling
  <2>2. QED
    BY <1>0, <1>2, <1>3, <2>1, GoesOnBashes
<1>4. CASE Proceed(p, new, w)
  BY <1>0, <1>2, <1>4, ProceedBashes
<1>5. QED
  BY <1>3, <1>4 DEF Compacted, Rebuilt, e, w, new

LEMMA CompactionFailedBashes ==
  ASSUME NEW p \in Prompts PROVE IInv /\ Data /\ Bashes /\ CompactionFailed(p) => Bashes'
<1> SUFFICES ASSUME IInv, Data, Bashes, CompactionFailed(p) PROVE Bashes'
  OBVIOUS
<1>0. SoundNow /\ used' = used /\ saved \in Seq(Entries)
  BY DEF Data, SoundNow, Sound, CompactionFailed
<1>1. CASE Proceed(p, messages, saved)
  BY <1>0, <1>1, ProceedBashes
<1>2. CASE /\ UNCHANGED <<saved, pendingBash>>
           /\ at' = [at EXCEPT ![p] = IF @ = "compacting" THEN "continue" ELSE "asking"]
  <2>1. PICK s \in {"continue", "asking"} : at' = [at EXCEPT ![p] = s]
    BY <1>2
  <2>2. s \in Steps \ Settling
    BY DEF Steps, Settling
  <2>3. QED
    BY <1>0, <1>2, <2>1, <2>2, GoesOnBashes, SavedCounts
<1>3. QED
  BY <1>1, <1>2 DEF CompactionFailed

LEMMA EnterBashes == ASSUME NEW p \in Prompts PROVE IInv /\ Data /\ Bashes /\ Enter(p) => Bashes'
<1> SUFFICES ASSUME IInv, Data, Bashes, Enter(p) PROVE Bashes'
  OBVIOUS
<1>1. at[p] = "new" /\ run # None /\ at' = [at EXCEPT ![p] = "done"]
      /\ UNCHANGED <<saved, pendingBash, used>>
  BY DEF Enter, transcript
<1>2. run \in Prompts /\ at[run] = "running"
  BY <1>1, RunInProgress
<1>3. at'[run] = "running"
  BY <1>1, <1>2 DEF IInv, Types
<1>4. InProgress'
  BY <1>2, <1>3 DEF InProgress, Settled
<1>5. QED
  BY <1>1, <1>4, OthersCount, SavedCounts DEF Bashes

LEMMA EnterIdleBashes ==
  ASSUME NEW p \in Prompts PROVE IInv /\ Data /\ Bashes /\ EnterIdle(p) => Bashes'
<1> SUFFICES ASSUME IInv, Data, Bashes, EnterIdle(p) PROVE Bashes'
  OBVIOUS
<1>1. saved' = Flushed(saved) /\ pendingBash' = <<>> /\ used' = used /\ saved \in Seq(Entries)
      /\ SoundNow
  BY DEF EnterIdle, Data, SoundNow, Sound
<1>2. QED
  BY <1>1, FlushCounts

LEMMA RecordBashBashes == IInv /\ Data /\ Bashes /\ RecordBash => Bashes'
<1> SUFFICES ASSUME IInv, Data, Bashes, RecordBash PROVE Bashes'
  OBVIOUS
<1> DEFINE m == Message(created + 1, "bash")
<1>0. SoundNow /\ saved \in Seq(Entries) /\ pendingBash \in Seq(BashResult) /\ at' = at
  BY DEF Data, SoundNow, Sound, RecordBash, callers
<1>1. used' \in Counts /\ used'.bash = used.bash + 1
  BY MayBash DEF RecordBash, Bashes
<1>2. m \in BashResult /\ m \in Entries /\ m.kind = "bash"
  BY <1>0, MessageHeardable, CreatedNat, EntryKinds DEF BashResult
<1>3. Cardinality(BashResults(saved)) \in Nat
  BY <1>0, BashResultsFinite
<1> HIDE DEF m
<1>4. CASE run # None /\ pendingBash' = Append(pendingBash, m) /\ saved' = saved
  <2>1. InProgress'
    BY <1>0, <1>4, RunInProgress, SameInProgress
  <2>2. Len(pendingBash') = Len(pendingBash) + 1 /\ Len(pendingBash) \in Nat
    BY <1>0, <1>2, <1>4
  <2>3. Cardinality(BashResults(saved')) + Len(pendingBash') = used'.bash
    BY <1>1, <1>3, <1>4, <2>2 DEF Bashes
  <2>4. QED
    BY <1>1, <2>1, <2>3 DEF Bashes
<1>5. CASE saved' = Append(saved, m) /\ pendingBash' = pendingBash
  <2>1. <<m>> \in Seq(Entries) /\ Len(<<m>>) = 1 /\ \A i \in DOMAIN <<m>> : <<m>>[i].kind = "bash"
    BY <1>2
  <2>2. saved' = saved \o <<m>>
    BY <1>0, <1>2, <1>5, AppendIsConcat
  <2>3. Cardinality(BashResults(saved')) = Cardinality(BashResults(saved)) + 1
    BY <1>0, <2>1, <2>2, AllCounted
  <2>4. Len(pendingBash) \in Nat
    BY <1>0
  <2>5. Cardinality(BashResults(saved')) + Len(pendingBash') = used'.bash
    BY <1>1, <1>3, <1>5, <2>3, <2>4 DEF Bashes
  <2>6. pendingBash' # <<>> => InProgress'
    BY <1>0, <1>5, SameInProgress DEF Bashes
  <2>7. QED
    BY <1>1, <2>5, <2>6 DEF Bashes
<1>6. QED
  BY <1>4, <1>5 DEF RecordBash, Defers, m

LEMMA StillBashes ==
  ASSUME IInv, Bashes, UNCHANGED <<saved, pendingBash>>,
         used' = used \/ \E max : \E w \in {"call", "steer", "abort"} : May(w, max),
         at' = at \/ StopAll
  PROVE  Bashes'
<1>1. used' \in Counts /\ used'.bash = used.bash
  BY MayCounts DEF Bashes
<1>2. InProgress => InProgress'
  BY SameInProgress, StopAllInProgress
<1>3. QED
  BY <1>1, <1>2, OthersCount, SavedCounts

LEMMA OtherBashes ==
  ASSUME IInv, Bashes,
         \/ Abort \/ Steer \/ UNCHANGED vars
         \/ \E c \in Compacts : Compact(c) \/ CompactPrepares(c) \/ CompactFailed(c)
  PROVE  Bashes'
<1>1. UNCHANGED <<saved, pendingBash>>
  BY DEF Abort, Compact, Steer, CompactPrepares, CompactFailed, vars, transcript
<1>2. at' = at \/ StopAll
  BY DEF Abort, Compact, Steer, CompactPrepares, CompactFailed, vars, callers
<1>3. used' = used \/ May("abort", MaxAborts) \/ May("steer", MaxSteers)
  BY DEF Abort, Compact, Steer, CompactPrepares, CompactFailed, vars
<1>4. used' = used \/ \E max : \E w \in {"call", "steer", "abort"} : May(w, max)
  BY <1>3
<1>5. QED
  BY <1>1, <1>2, <1>4, StillBashes

LEMMA CompactDoneBashes ==
  ASSUME NEW c \in Compacts PROVE IInv /\ Data /\ Bashes /\ CompactDone(c) => Bashes'
<1> SUFFICES ASSUME IInv, Data, Bashes, CompactDone(c) PROVE Bashes'
  OBVIOUS
<1> DEFINE e == CompactionEntry(manualPlan[c])
<1>1. saved' = Append(saved, e) /\ UNCHANGED <<at, pendingBash, used>>
  BY DEF CompactDone, callers
<1>2. manualPlan[c] \in Plans /\ manualPlan[c].on /\ Cuts(saved, manualPlan[c])
  BY DEF CompactDone, Data, ManualFits
<1>3. e \in Summaries /\ saved \in Seq(Entries)
  <2>1. e \in Summaries
    BY <1>2, CompactionSound DEF Data
  <2>2. QED
    BY <2>1 DEF Data, Sound
<1> HIDE DEF e
<1>4. BashResults(saved') = BashResults(saved)
  BY <1>1, <1>3, CompactionCounts
<1>5. QED
  BY <1>1, <1>4, OthersCount, SameInProgress DEF Bashes

LEMMA BashesInit == Init => Bashes
<1> SUFFICES ASSUME Init PROVE Bashes
  OBVIOUS
<1>1. /\ saved = <<>> /\ pendingBash = <<>>
      /\ used = [call |-> 0, steer |-> 0, bash |-> 0, abort |-> 0]
  BY DEF Init
<1>2. BashResults(saved) = {}
  BY <1>1 DEF BashResults
<1>3. Cardinality(BashResults(saved)) = 0
  BY <1>2, FS_EmptySet
<1>4. used \in Counts /\ used.bash = 0 /\ Len(pendingBash) = 0
  BY <1>1 DEF Counts
<1>5. QED
  BY <1>1, <1>3, <1>4 DEF Bashes

LEMMA BashesStep == IInv /\ Data /\ Bashes /\ [Next]_vars => Bashes'
BY RespondBashes, ToolResultBashes, PollBashes, EndRunBashes, RetryCancelledBashes,
   RetryWaitedBashes, ContinueBashes, CompactedBashes, CompactionFailedBashes, EnterBashes,
   EnterIdleBashes, LaunchBashes, RecordBashBashes, OtherBashes, CompactDoneBashes
   DEF Next, Run, Manual, User, Call

LEMMA BashesSaved ==
  ASSUME Data, Bashes
  PROVE  BashSavedOnce
<1>1. SavedOnce
  BY DEF Data, Sound, Once, SavedOnce
<1>2. AtRest => pendingBash = <<>>
  BY DEF Bashes, AtRest
<1>3. QED
  BY <1>1, <1>2 DEF Bashes, BashSavedOnce

------------------------------------------------------------------------------
(* How a transcript begins *)

Begun(m) == m # <<>> /\ ~IsResponse(m[1])
Start(m) == m = <<>> \/ Begun(m)

\* Where a call has had a message of its own on the transcript.
Past == {"running", "waiting", "cancelled", "compacting", "continue"}

\* The transcript begins with no response, and with something once a call runs.
Begins == Start(messages) /\ \A p \in Prompts : at[p] \in Past => messages # <<>>

LEMMA StartGrows ==
  ASSUME NEW m \in Seq(Entries), NEW t \in Seq(Entries), Start(m), m # <<>> \/ Start(t)
  PROVE  Start(m \o t) /\ (m # <<>> \/ t # <<>> => m \o t # <<>>)
<1>1. CASE m # <<>>
  <2>1. 1 \in 1..Len(m) /\ Len(m \o t) = Len(m) + Len(t) /\ Len(m) # 0 /\ Len(t) \in Nat
        /\ Len(m) \in Nat
    BY <1>1, EmptySeq, ConcatFacts
  <2>2. (m \o t)[1] = m[1]
    BY <2>1, ConcatFacts
  <2>3. m \o t # <<>>
    BY <2>1
  <2>4. QED
    BY <1>1, <2>2, <2>3 DEF Start, Begun
<1>2. CASE m = <<>>
  BY <1>2, ConcatEmptySeq
<1>3. QED
  BY <1>1, <1>2

LEMMA StartFront ==
  ASSUME NEW m \in Seq(Entries), Begun(m), IsResponse(m[Len(m)])
  PROVE  Begun(Front(m))
<1>1. /\ Len(Front(m)) = Len(m) - 1 /\ Len(m) \in Nat \ {0} /\ Front(m) \in Seq(Entries)
      /\ DOMAIN Front(m) = 1..(Len(m) - 1)
      /\ \A i \in DOMAIN Front(m) : Front(m)[i] = m[i]
  BY FrontFacts DEF Begun
<1>2. Len(m) # 1
  BY DEF Begun
<1>3. 1 \in DOMAIN Front(m) /\ Len(Front(m)) # 0
  BY <1>1, <1>2
<1>4. Front(m) # <<>> /\ Front(m)[1] = m[1]
  BY <1>1, <1>3
<1>5. QED
  BY <1>4 DEF Begun

LEMMA StartDropResponse ==
  ASSUME NEW m \in Seq(Entries), Start(m)
  PROVE  Start(DropResponse(m)) /\ (m # <<>> => DropResponse(m) # <<>>)
<1>1. CASE m # <<>> /\ IsResponse(m[Len(m)])
  BY <1>1, StartFront DEF Start, DropResponse, Begun
<1>2. CASE ~(m # <<>> /\ IsResponse(m[Len(m)]))
  BY <1>2 DEF DropResponse
<1>3. QED
  BY <1>1, <1>2

LEMMA StartFlushed ==
  ASSUME SoundNow, NEW m \in Seq(Entries), Start(m)
  PROVE  Start(Flushed(m)) /\ (m # <<>> => Flushed(m) # <<>>)
<1>1. pendingBash \in Seq(Entries) /\ \A i \in DOMAIN pendingBash : pendingBash[i] \in BashResult
  BY BashIsEntry DEF SoundNow, Sound
<1>2. Start(pendingBash)
  BY <1>1 DEF Start, Begun, BashResult, IsResponse
<1>3. QED
  BY <1>1, <1>2, StartGrows DEF Flushed

LEMMA StartUser ==
  ASSUME SoundNow, Start(messages), NEW k \in {"user", "bash"}
  PROVE  /\ Start(messages \o <<Message(created + 1, k)>>)
         /\ messages \o <<Message(created + 1, k)>> # <<>>
<1> DEFINE t == <<Message(created + 1, k)>>
<1>1. Message(created + 1, k) \in Entries /\ ~IsResponse(Message(created + 1, k))
  BY MessageHeardable, CreatedNat, EntryKinds DEF Message, IsResponse
<1>2. t \in Seq(Entries) /\ Start(t) /\ t # <<>>
  BY <1>1 DEF Start, Begun
<1>3. messages \in Seq(Entries)
  BY DEF SoundNow, Sound
<1> HIDE DEF t
<1>4. QED
  BY <1>2, <1>3, StartGrows DEF t

LEMMA StartCompacted ==
  ASSUME SoundNow, NEW pl \in Plans, pl.on, Cuts(saved, pl)
  PROVE  LET new == Context(Append(saved, CompactionEntry(pl)))
         IN  new \in Seq(Entries) /\ Begun(new)
<1> DEFINE e == CompactionEntry(pl)
           new == Context(Append(saved, e))
<1>1. /\ Sound(new, Append(saved, e), pendingBash, created + 1, missed) /\ new # <<>>
      /\ new[1] = e /\ e \in Summaries
  BY CompactionSound DEF SoundNow
<1> HIDE DEF e, new
<1>2. ~IsResponse(e)
  BY <1>1 DEF Summaries, IsResponse
<1>3. QED
  BY <1>1, <1>2 DEF Begun, Sound, e, new

\* The transcript goes on from one that began.
LEMMA BeginsKept ==
  ASSUME Begins, Start(messages'), messages # <<>> => messages' # <<>>,
         \A q \in Prompts : at'[q] \in Past => at[q] \in Past \/ messages' # <<>>
  PROVE  Begins'
BY DEF Begins

LEMMA BeginsMove ==
  ASSUME IInv, Begins, Start(messages'), messages # <<>> => messages' # <<>>,
         NEW p \in Prompts, NEW s, at' = [at EXCEPT ![p] = s],
         s \in Past => at[p] \in Past \/ messages' # <<>>
  PROVE  Begins'
<1>1. \A q \in Prompts : q # p => at'[q] = at[q]
  BY DEF IInv, Types
<1>2. at'[p] = s
  BY DEF IInv, Types
<1>3. QED
  BY <1>1, <1>2, BeginsKept

LEMMA BeginsStill ==
  ASSUME IInv, Begins, messages' = messages, at' = at \/ StopAll
  PROVE  Begins'
<1>1. ASSUME NEW q \in Prompts, at'[q] \in Past PROVE at[q] \in Past
  BY <1>1 DEF StopAll, IInv, Types, Past
<1>2. QED
  BY <1>1, BeginsKept DEF Begins

LEMMA ProceedBegins ==
  ASSUME IInv, Begins, SoundNow, NEW m \in Seq(Entries), NEW s, NEW p \in Prompts,
         Proceed(p, m, s), Start(m), messages # <<>> => m # <<>>
  PROVE  Begins'
<1>1. PICK t \in {"asking", "done"} : at' = [at EXCEPT ![p] = t]
  BY DEF Proceed
<1>2. messages' = Flushed(m)
  BY DEF Proceed
<1>3. Start(messages') /\ (messages # <<>> => messages' # <<>>)
  BY <1>2, StartFlushed
<1>4. QED
  BY <1>1, <1>3, BeginsMove DEF Past

LEMMA RejectsBegins ==
  ASSUME IInv, Begins, SoundNow, NEW p \in Prompts, Rejects(p)
  PROVE  Begins'
<1>1. at' = [at EXCEPT ![p] = "rejected"] /\ messages' = Flushed(messages)
  BY DEF Rejects
<1>2. Start(messages') /\ (messages # <<>> => messages' # <<>>)
  BY <1>1, StartFlushed DEF SoundNow, Sound, Begins
<1>3. QED
  BY <1>1, <1>2, BeginsMove DEF Past

LEMMA AfterRetriesBegins ==
  ASSUME IInv, Begins, SoundNow, NEW msgs \in Seq(Entries), Start(msgs), msgs # <<>>,
         NEW p \in Prompts, NEW m, AfterRetries(p, m, msgs)
  PROVE  Begins'
<1>1. PICK c \in Checked(m, FALSE, msgs, saved) :
        IF ~c.plan.on /\ ~Waiting
        THEN Proceed(p, c.messages, saved)
        ELSE /\ messages' = c.messages
             /\ at' = [at EXCEPT ![p] = IF c.plan.on THEN "compacting" ELSE "continue"]
  BY DEF AfterRetries
<1>2. LeftOf(m, msgs, c.messages)
  BY CheckedFacts DEF SoundNow, Sound
<1>3. c.messages \in Seq(Entries) /\ Start(c.messages) /\ c.messages # <<>>
  <2>1. DropResponse(msgs) \in Seq(Entries)
    BY FrontFacts DEF DropResponse
  <2>2. QED
    BY <1>2, <2>1, StartDropResponse DEF LeftOf
<1>4. CASE Proceed(p, c.messages, saved)
  BY <1>3, <1>4, ProceedBegins
<1>5. CASE /\ messages' = c.messages
           /\ at' = [at EXCEPT ![p] = IF c.plan.on THEN "compacting" ELSE "continue"]
  BY <1>3, <1>5, BeginsMove
<1>6. QED
  BY <1>1, <1>4, <1>5

LEMMA EmitBegins ==
  ASSUME SoundNow, Start(messages), NEW e \in Heardable, Emit(<<e>>),
         messages # <<>> \/ ~IsResponse(e)
  PROVE  Start(messages') /\ messages' # <<>>
<1>1. e \in Entries /\ messages \in Seq(Entries)
  BY EntryKinds DEF SoundNow, Sound
<1> DEFINE t == <<e>>
<1>2. t \in Seq(Entries) /\ t # <<>> /\ (~IsResponse(e) => Start(t))
  BY <1>1 DEF Start, Begun
<1>3. messages' = messages \o t
  BY DEF Emit
<1> HIDE DEF t
<1>4. QED
  BY <1>1, <1>2, <1>3, StartGrows

LEMMA UserBegins ==
  ASSUME SoundNow, Start(messages), Emit(<<Message(created + 1, "user")>>)
  PROVE  Start(messages') /\ messages' # <<>>
<1>1. Message(created + 1, "user") \in Heardable /\ ~IsResponse(Message(created + 1, "user"))
  BY MessageHeardable, CreatedNat DEF Message, IsResponse
<1>2. QED
  BY <1>1, EmitBegins

LEMMA RunHasBegun ==
  ASSUME IInv, Begins, stage # "off"
  PROVE  run # None /\ messages # <<>>
<1>1. run # None
  BY DEF IInv, OneRun
<1>2. QED
  BY <1>1, RunInProgress DEF Begins, Past

LEMMA RunBegins == IInv /\ Data /\ Begins /\ (Respond \/ ToolResult \/ Poll) => Begins'
<1> SUFFICES ASSUME IInv, Data, Begins, Respond \/ ToolResult \/ Poll PROVE Begins'
  OBVIOUS
<1>0. SoundNow /\ Start(messages) /\ messages # <<>> /\ at' = at
  BY RunHasBegun DEF Data, SoundNow, Begins, Respond, ToolResult, Poll, callers
<1>1. CASE Respond
  <2>1. PICK stop \in Stops \union {"call", "aborted"} : Emit(<<Response(created + 1, stop)>>)
    BY <1>1 DEF Respond
  <2>2. Response(created + 1, stop) \in Heardable
    BY <1>0, StopsKnown, MessageHeardable, CreatedNat
  <2>3. Start(messages') /\ messages' # <<>>
    BY <1>0, <2>1, <2>2, EmitBegins
  <2>4. QED
    BY <1>0, <2>3, BeginsKept
<1>2. CASE ToolResult
  <2>1. Message(created + 1, "toolResult") \in Heardable
    BY <1>0, MessageHeardable, CreatedNat
  <2>2. Start(messages') /\ messages' # <<>>
    BY <1>0, <1>2, <2>1, EmitBegins DEF ToolResult
  <2>3. QED
    BY <1>0, <2>2, BeginsKept
<1>3. CASE Poll /\ Inject
  BY <1>0, <1>3, UserBegins, BeginsKept DEF Inject
<1>4. CASE Poll /\ UNCHANGED transcript
  BY <1>0, <1>4, BeginsStill DEF transcript
<1>5. QED
  BY <1>1, <1>2, <1>3, <1>4 DEF Poll

LEMMA EndRunBegins == ASSUME NEW p \in Prompts PROVE IInv /\ Data /\ Begins /\ EndRun(p) => Begins'
<1> SUFFICES ASSUME IInv, Data, Begins, EndRun(p) PROVE Begins'
  OBVIOUS
<1>0. /\ SoundNow /\ Start(messages) /\ messages # <<>> /\ messages \in Seq(Entries)
      /\ at[p] \in Past
  <2>1. stage # "off" /\ run = p
    BY DEF EndRun
  <2>2. run # None /\ messages # <<>>
    BY <2>1, RunHasBegun
  <2>3. at[p] = "running"
    BY <2>1, <2>2, RunInProgress
  <2>4. QED
    BY <2>2, <2>3 DEF Data, SoundNow, Sound, Begins, Past
<1>1. CASE Proceed(p, messages, saved)
  BY <1>0, <1>1, ProceedBegins
<1>2. CASE messages' = DropResponse(messages) /\ at' = [at EXCEPT ![p] = "waiting"]
  <2>1. Start(messages') /\ messages' # <<>>
    BY <1>0, <1>2, StartDropResponse
  <2>2. QED
    BY <1>0, <1>2, <2>1, BeginsMove
<1>3. CASE AfterRetries(p, lastAssistant, messages)
  BY <1>0, <1>3, AfterRetriesBegins
<1>4. QED
  BY <1>1, <1>2, <1>3 DEF EndRun

LEMMA RetryBegins ==
  ASSUME NEW p \in Prompts
  PROVE  IInv /\ Data /\ Begins /\ (RetryCancelled(p) \/ RetryWaited(p)) => Begins'
<1> SUFFICES ASSUME IInv, Data, Begins, RetryCancelled(p) \/ RetryWaited(p) PROVE Begins'
  OBVIOUS
<1>0. at[p] \in Past
  BY DEF RetryCancelled, RetryWaited, Past
<1>1. /\ SoundNow /\ Start(messages) /\ messages # <<>> /\ messages \in Seq(Entries)
  BY <1>0 DEF Data, SoundNow, Sound, Begins
<1>2. CASE RetryCancelled(p)
  BY <1>1, <1>2, AfterRetriesBegins DEF RetryCancelled
<1>3. CASE RetryWaited(p)
  <2>1. at' = [at EXCEPT ![p] = "continue"] /\ messages' = messages
    BY <1>3 DEF RetryWaited, transcript
  <2>2. QED
    BY <1>0, <1>1, <2>1, BeginsMove
<1>4. QED
  BY <1>2, <1>3

LEMMA ContinueBegins ==
  ASSUME NEW p \in Prompts PROVE IInv /\ Data /\ Begins /\ Continue(p) => Begins'
<1> SUFFICES ASSUME IInv, Data, Begins, Continue(p) PROVE Begins'
  OBVIOUS
<1>0. SoundNow /\ Start(messages) /\ at[p] \in Past /\ messages # <<>>
  BY DEF Data, SoundNow, Begins, Continue, Past
<1>1. CASE Rejects(p)
  BY <1>0, <1>1, RejectsBegins
<1>2. CASE /\ at' = [at EXCEPT ![p] = "running"]
           /\ messages' = messages \/ Emit(<<Message(created + 1, "user")>>)
  <2>1. Start(messages') /\ messages' # <<>>
    BY <1>0, <1>2, UserBegins
  <2>2. QED
    BY <1>0, <1>2, <2>1, BeginsMove
<1>3. QED
  BY <1>1, <1>2 DEF Continue, transcript, StartRun

LEMMA LaunchBegins == ASSUME NEW p \in Prompts PROVE IInv /\ Data /\ Begins /\ Launch(p) => Begins'
<1> SUFFICES ASSUME IInv, Data, Begins, Launch(p) PROVE Begins'
  OBVIOUS
<1>0. SoundNow /\ Start(messages)
  BY DEF Data, SoundNow, Begins
<1>1. CASE Rejects(p)
  BY <1>0, <1>1, RejectsBegins
<1>2. CASE /\ at' = [at EXCEPT ![p] = "running"]
           /\ Emit(<<Message(created + 1, "user")>>)
  <2>1. Start(messages') /\ messages' # <<>>
    BY <1>0, <1>2, UserBegins
  <2>2. QED
    BY <1>0, <1>2, <2>1, BeginsMove
<1>3. QED
  BY <1>1, <1>2 DEF Launch, StartRun

LEMMA CompactedBegins ==
  ASSUME NEW p \in Prompts PROVE IInv /\ Data /\ Begins /\ Compacted(p) => Begins'
<1> SUFFICES ASSUME IInv, Data, Begins, Compacted(p) PROVE Begins'
  OBVIOUS
<1> DEFINE w == Append(saved, CompactionEntry(plan[p]))
           new == Context(w)
<1>0. SoundNow
  BY DEF Data, SoundNow
<1>1. new \in Seq(Entries) /\ Begun(new)
  <2>1. plan[p] \in Plans /\ plan[p].on /\ Cuts(saved, plan[p])
    BY DEF Compacted, PlansFit, Compacting, Data
  <2>2. QED
    BY <1>0, <2>1, StartCompacted
<1> HIDE DEF w, new
<1>2. new # <<>> /\ Start(new)
  BY <1>1 DEF Begun, Start
<1>3. ASSUME NEW s, at' = [at EXCEPT ![p] = s],
             messages' = new \/ (messages' = Front(new) /\ IsResponse(new[Len(new)]))
      PROVE  Begins'
  <2>1. Start(messages') /\ messages' # <<>>
    BY <1>1, <1>2, <1>3, StartFront DEF Start, Begun
  <2>2. QED
    BY <1>3, <2>1, BeginsMove
<1>4. CASE Proceed(p, new, w)
  BY <1>0, <1>1, <1>2, <1>4, ProceedBegins
<1>5. QED
  <2>1. CASE GoesOn(plan[p].again)
    <3>1. /\ at' = [at EXCEPT ![p] = "continue"]
          /\ messages' = new \/ (messages' = Front(new) /\ IsResponse(new[Len(new)]))
      BY <2>1 DEF Compacted, Rebuilt, w, new
    <3>2. QED
      BY <1>3, <3>1
  <2>2. CASE ~GoesOn(plan[p].again)
    <3>1. \/ messages' = new /\ at' = [at EXCEPT ![p] = "asking"]
          \/ Proceed(p, new, w)
      BY <2>2 DEF Compacted, Rebuilt, w, new
    <3>2. QED
      BY <1>3, <1>4, <3>1
  <2>3. QED
    BY <2>1, <2>2

LEMMA CompactionFailedBegins ==
  ASSUME NEW p \in Prompts PROVE IInv /\ Data /\ Begins /\ CompactionFailed(p) => Begins'
<1> SUFFICES ASSUME IInv, Data, Begins, CompactionFailed(p) PROVE Begins'
  OBVIOUS
<1>0. SoundNow /\ Start(messages) /\ messages \in Seq(Entries)
  BY DEF Data, SoundNow, Begins, Sound
<1>1. CASE Proceed(p, messages, saved)
  BY <1>0, <1>1, ProceedBegins
<1>2. CASE /\ messages' = messages
           /\ at' = [at EXCEPT ![p] = IF @ = "compacting" THEN "continue" ELSE "asking"]
  <2> DEFINE s == IF at[p] = "compacting" THEN "continue" ELSE "asking"
  <2>1. s \in Past => at[p] \in Past
    BY DEF Past
  <2>2. at' = [at EXCEPT ![p] = s]
    BY <1>2 DEF IInv, Types
  <2> HIDE DEF s
  <2>3. QED
    BY <1>0, <1>2, <2>1, <2>2, BeginsMove
<1>3. QED
  BY <1>1, <1>2 DEF CompactionFailed

LEMMA EnterBegins == ASSUME NEW p \in Prompts PROVE IInv /\ Data /\ Begins /\ Enter(p) => Begins'
<1> SUFFICES ASSUME IInv, Data, Begins, Enter(p) PROVE Begins'
  OBVIOUS
<1>1. at' = [at EXCEPT ![p] = "done"] /\ messages' = messages
  BY DEF Enter, transcript
<1>2. QED
  BY <1>1, BeginsMove DEF Past, Begins

LEMMA EnterIdleBegins ==
  ASSUME NEW p \in Prompts PROVE IInv /\ Data /\ Begins /\ EnterIdle(p) => Begins'
<1> SUFFICES ASSUME IInv, Data, Begins, EnterIdle(p) PROVE Begins'
  OBVIOUS
<1> DEFINE msgs == Flushed(messages)
<1>1. msgs \in Seq(Entries) /\ Start(msgs) /\ (messages # <<>> => msgs # <<>>)
  <2>1. messages \in Seq(Entries) /\ SoundNow /\ pendingBash \in Seq(Entries)
    BY BashIsEntry DEF Data, Sound, SoundNow
  <2>2. QED
    BY <2>1, StartFlushed, ConcatFacts DEF Begins, Flushed
<1> HIDE DEF msgs
<1>2. messages' = msgs \/ messages' = DropResponse(msgs)
  <2>1. CASE Responses(msgs) = {}
    BY <2>1 DEF EnterIdle, msgs
  <2>2. CASE Responses(msgs) # {}
    <3>1. saved' \in Seq(Entries)
      <4>1. saved' = Flushed(saved)
        BY DEF EnterIdle
      <4>2. saved \in Seq(Entries) /\ pendingBash \in Seq(Entries)
        BY BashIsEntry DEF Data, Sound
      <4>3. QED
        BY <4>1, <4>2, ConcatFacts DEF Flushed
    <3>2. PICK c \in Checked(msgs[Max(Responses(msgs))], TRUE, msgs, saved') :
            messages' = c.messages
      BY <2>2 DEF EnterIdle, msgs
    <3>3. LeftOf(msgs[Max(Responses(msgs))], msgs, c.messages)
      <4> DEFINE path == saved'
      <4>1. c \in Checked(msgs[Max(Responses(msgs))], TRUE, msgs, path) /\ path \in Seq(Entries)
        BY <3>1, <3>2
      <4> HIDE DEF path
      <4>2. QED
        BY <4>1, CheckedFacts
    <3>4. QED
      BY <3>2, <3>3 DEF LeftOf
  <2>3. QED
    BY <2>1, <2>2
<1>3. Start(messages') /\ (messages # <<>> => messages' # <<>>)
  BY <1>1, <1>2, StartDropResponse
<1>4. PICK s \in {"asking", "precompacting"} : at' = [at EXCEPT ![p] = s]
  BY DEF EnterIdle
<1>5. QED
  BY <1>3, <1>4, BeginsMove DEF Past

LEMMA RecordBashBegins == IInv /\ Data /\ Begins /\ RecordBash => Begins'
<1> SUFFICES ASSUME IInv, Data, Begins, RecordBash PROVE Begins'
  OBVIOUS
<1> DEFINE m == Message(created + 1, "bash")
<1>1. at' = at
  BY DEF RecordBash, callers
<1>2. CASE messages' = messages
  BY <1>1, <1>2, BeginsStill
<1>3. CASE messages' = Append(messages, m)
  <2>1. SoundNow /\ Start(messages) /\ messages \in Seq(Entries) /\ m \in Entries
    BY MessageHeardable, CreatedNat, EntryKinds DEF Data, SoundNow, Sound, Begins
  <2>2. Start(messages \o <<m>>) /\ messages \o <<m>> # <<>>
    BY <2>1, StartUser
  <2> HIDE DEF m
  <2>3. messages' = messages \o <<m>>
    BY <1>3, <2>1, AppendIsConcat
  <2>4. QED
    BY <1>1, <2>2, <2>3, BeginsKept
<1>4. QED
  BY <1>2, <1>3 DEF RecordBash

LEMMA CompactDoneBegins ==
  ASSUME NEW c \in Compacts PROVE IInv /\ Data /\ Begins /\ CompactDone(c) => Begins'
<1> SUFFICES ASSUME IInv, Data, Begins, CompactDone(c) PROVE Begins'
  OBVIOUS
<1> DEFINE new == Context(Append(saved, CompactionEntry(manualPlan[c])))
<1>1. messages' = new /\ at' = at
  BY DEF CompactDone, Rebuilt, callers
<1>2. manualPlan[c] \in Plans /\ manualPlan[c].on /\ Cuts(saved, manualPlan[c])
  BY DEF CompactDone, Data, ManualFits
<1>3. Begun(new)
  BY <1>2, StartCompacted DEF Data, SoundNow
<1> HIDE DEF new
<1>4. QED
  BY <1>1, <1>3, BeginsKept DEF Begun, Start

LEMMA OtherBegins ==
  ASSUME IInv, Begins,
         \/ Abort \/ Steer \/ UNCHANGED vars
         \/ \E c \in Compacts : Compact(c) \/ CompactPrepares(c) \/ CompactFailed(c)
  PROVE  Begins'
<1>1. messages' = messages
  BY DEF Abort, Compact, Steer, CompactPrepares, CompactFailed, vars, transcript
<1>2. at' = at \/ StopAll
  BY DEF Abort, Compact, Steer, CompactPrepares, CompactFailed, vars, callers
<1>3. QED
  BY <1>1, <1>2, BeginsStill

LEMMA BeginsInit == Init => Begins
BY DEF Init, Begins, Start, Past

LEMMA BeginsStep == IInv /\ Data /\ Begins /\ [Next]_vars => Begins'
BY RunBegins, EndRunBegins, RetryBegins, ContinueBegins, LaunchBegins, CompactedBegins,
   CompactionFailedBegins, EnterBegins, EnterIdleBegins, RecordBashBegins, CompactDoneBegins,
   OtherBegins
   DEF Next, Run, Manual, User, Call

------------------------------------------------------------------------------
(* What is queued *)

\* A run whose response is there has been heard, unless nobody listened.
Followed == stage \in {"over", "end"} => lastAssistant # None \/ missed # {}

\* What is queued waits for a call in progress.
Waits == Waiting /\ missed = {} => InProgress

Queued == steering \in Nat /\ followUps \in Nat /\ Followed /\ Waits

LEMMA QueuedKept ==
  ASSUME Queued, steering' \in Nat, followUps' \in Nat, missed \subseteq missed',
         stage' \in {"over", "end"} =>
           \/ stage \in {"over", "end"} /\ lastAssistant' = lastAssistant
           \/ lastAssistant' # None \/ missed' # {},
         InProgress' \/ ~Waiting' \/ missed # {}
  PROVE  Queued'
<1>1. missed # {} => missed' # {}
  OBVIOUS
<1>2. QED
  BY <1>1 DEF Queued, Followed, Waits

LEMMA QueuesSame == Queued /\ UNCHANGED queues =>
                      steering' \in Nat /\ followUps' \in Nat /\ (~Waiting => ~Waiting')
BY DEF Queued, queues, Waiting

LEMMA QueueGrows == Queued /\ Queue => steering' \in Nat /\ followUps' \in Nat
BY DEF Queued, Queue

LEMMA EmitMisses == ASSUME NEW t, Emit(t) PROVE missed \subseteq missed'
BY DEF Emit

\* Call p goes on, and the run stays as it is.
LEMMA QueuedGoesOn ==
  ASSUME IInv, Queued, UNCHANGED <<queues, missed, stage, lastAssistant>>,
         NEW p \in Prompts, NEW s \in Steps \ Settling, at' = [at EXCEPT ![p] = s]
  PROVE  Queued'
BY QueuesSame, GoesOnInProgress, QueuedKept

LEMMA QueuedRest ==
  ASSUME Queued, UNCHANGED <<queues, missed>>, ~Waiting \/ missed # {},
         stage' \notin {"over", "end"} \/ UNCHANGED <<stage, lastAssistant>>
  PROVE  Queued'
BY QueuesSame, QueuedKept

\* Call p starts a run.
LEMMA QueuedStart ==
  ASSUME IInv, Queued, steering' \in Nat, followUps' \in Nat, missed \subseteq missed',
         NEW p \in Prompts, NEW first \in {"model", "turn"}, StartRun(p, first)
  PROVE  Queued'
<1>1. stage' \notin {"over", "end"} /\ at' = [at EXCEPT ![p] = "running"]
  BY DEF StartRun
<1>2. "running" \in Steps \ Settling
  BY DEF Steps, Settling
<1>3. QED
  BY <1>1, <1>2, GoesOnInProgress, QueuedKept

\* Call p is refused because another runs.
LEMMA QueuedRejects ==
  ASSUME IInv, Queued, NEW p \in Prompts, at[p] # "running", run # None, Rejects(p),
         UNCHANGED <<agent, queues, missed, recovery>>
  PROVE  Queued'
<1>1. at' = [at EXCEPT ![p] = "rejected"]
  BY DEF Rejects
<1>2. run \in Prompts /\ at[run] = "running"
  BY RunInProgress
<1>3. at'[run] = "running"
  BY <1>1, <1>2 DEF IInv, Types
<1>4. InProgress'
  BY <1>2, <1>3 DEF InProgress, Settled
<1>5. QED
  BY <1>4, QueuesSame, QueuedKept DEF agent, recovery

LEMMA ResponseIsSome ==
  ASSUME NEW n \in Nat, NEW s \in AllStops
  PROVE  Response(n, s) # None
<1>1. Response(n, s) \in [id : Nat, kind : {"assistant"}, stop : AllStops]
  BY DEF Response
<1>2. QED
  BY <1>1, AgentSessionAssumption

LEMMA RunQueued == IInv /\ Data /\ Queued /\ (Respond \/ ToolResult \/ Poll) => Queued'
<1> SUFFICES ASSUME IInv, Data, Queued, Respond \/ ToolResult \/ Poll PROVE Queued'
  OBVIOUS
<1>1. at' = at /\ run # None
  BY DEF Respond, ToolResult, Poll, callers, IInv, OneRun
<1>2. InProgress'
  BY <1>1, RunInProgress, SameInProgress
<1>3. CASE Respond
  <2>1. PICK stop \in Stops \union {"call", "aborted"} :
          /\ HearResponse(Response(created + 1, stop))
          /\ Emit(<<Response(created + 1, stop)>>)
          /\ UNCHANGED queues
    BY <1>3 DEF Respond
  <2> DEFINE m == Response(created + 1, stop)
  <2>2. connected => lastAssistant' = m
    BY <2>1 DEF HearResponse
  <2>3. m # None
    BY StopsKnown, CreatedNat, ResponseIsSome DEF Data, SoundNow
  <2> HIDE DEF m
  <2>4. ~connected => missed' # {}
    <3>1. m \in ToSet(<<m>>)
      BY DEF ToSet
    <3>2. ~connected => missed' = missed \union {x.id : x \in ToSet(<<m>>)}
      BY <2>1 DEF Emit, m
    <3>3. QED
      BY <3>1, <3>2
  <2>5. lastAssistant' # None \/ missed' # {}
    BY <2>2, <2>3, <2>4
  <2>6. QED
    BY <1>2, <2>1, <2>5, QueuesSame, EmitMisses, QueuedKept
<1>4. CASE ToolResult
  <2>1. stage' = "turn" /\ UNCHANGED queues /\ missed \subseteq missed'
    BY <1>4, EmitMisses DEF ToolResult
  <2>2. QED
    BY <1>2, <2>1, QueuesSame, QueuedKept
<1>5. CASE Poll
  <2>1. steering' \in Nat /\ followUps' \in Nat
    BY <1>5 DEF Poll, Queued, queues
  <2>2. missed \subseteq missed'
    BY <1>5, EmitMisses DEF Poll, Inject, transcript
  <2>3. stage' \in {"over", "end"} => stage \in {"over", "end"} /\ lastAssistant' = lastAssistant
    BY <1>5 DEF Poll, Inject, CallsModel, recovery
  <2>4. QED
    BY <1>2, <2>1, <2>2, <2>3, QueuedKept
<1>6. QED
  BY <1>3, <1>4, <1>5

LEMMA AfterRetriesQueued ==
  ASSUME IInv, Queued, NEW p \in Prompts, NEW m, NEW msgs, AfterRetries(p, m, msgs),
         UNCHANGED queues, stage' \notin {"over", "end"} \/ UNCHANGED <<stage, lastAssistant>>
  PROVE  Queued'
<1>1. PICK c \in Checked(m, FALSE, msgs, saved) :
        /\ UNCHANGED <<created, missed>>
        /\ (~c.plan.on /\ ~Waiting) \/
           at' = [at EXCEPT ![p] = IF c.plan.on THEN "compacting" ELSE "continue"]
  BY DEF AfterRetries
<1>2. CASE ~Waiting
  BY <1>1, <1>2, QueuedRest
<1>3. CASE at' = [at EXCEPT ![p] = IF c.plan.on THEN "compacting" ELSE "continue"]
  <2>1. (IF c.plan.on THEN "compacting" ELSE "continue") \in Steps \ Settling
    BY DEF Steps, Settling
  <2>2. InProgress'
    BY <1>3, <2>1, GoesOnInProgress
  <2>3. QED
    BY <1>1, <2>2, QueuesSame, QueuedKept
<1>4. QED
  BY <1>1, <1>2, <1>3

LEMMA EndRunQueued == ASSUME NEW p \in Prompts PROVE IInv /\ Queued /\ EndRun(p) => Queued'
<1> SUFFICES ASSUME IInv, Queued, EndRun(p) PROVE Queued'
  OBVIOUS
<1>0. UNCHANGED queues /\ stage' = "off" /\ stage = "end"
  BY DEF EndRun
<1>1. CASE lastAssistant = None
  <2>1. missed # {} /\ missed' = missed
    BY <1>0, <1>1 DEF EndRun, Queued, Followed
  <2>2. QED
    BY <1>0, <2>1, QueuedRest
<1>2. CASE at' = [at EXCEPT ![p] = "waiting"] /\ UNCHANGED missed
  <2>1. "waiting" \in Steps \ Settling
    BY DEF Steps, Settling
  <2>2. InProgress'
    BY <1>2, <2>1, GoesOnInProgress
  <2>3. QED
    BY <1>0, <1>2, <2>2, QueuesSame, QueuedKept
<1>3. CASE AfterRetries(p, lastAssistant, messages)
  BY <1>0, <1>3, AfterRetriesQueued
<1>4. QED
  BY <1>1, <1>2, <1>3 DEF EndRun

LEMMA RetryQueued ==
  ASSUME NEW p \in Prompts
  PROVE  IInv /\ Queued /\ (RetryCancelled(p) \/ RetryWaited(p)) => Queued'
<1> SUFFICES ASSUME IInv, Queued, RetryCancelled(p) \/ RetryWaited(p) PROVE Queued'
  OBVIOUS
<1>1. CASE RetryCancelled(p)
  BY <1>1, AfterRetriesQueued DEF RetryCancelled, agent
<1>2. CASE RetryWaited(p)
  <2>1. "continue" \in Steps \ Settling
    BY DEF Steps, Settling
  <2>2. QED
    BY <1>2, <2>1, QueuedGoesOn DEF RetryWaited, agent, transcript
<1>3. QED
  BY <1>1, <1>2

LEMMA ContinueQueued ==
  ASSUME NEW p \in Prompts PROVE IInv /\ Begins /\ Queued /\ Continue(p) => Queued'
<1> SUFFICES ASSUME IInv, Begins, Queued, Continue(p) PROVE Queued'
  OBVIOUS
<1>0. at[p] = "continue" /\ messages # <<>>
  BY DEF Continue, Begins, Past
<1> DEFINE after == messages # <<>> /\ IsResponse(messages[Len(messages)])
<1>1. CASE Rejects(p) /\ UNCHANGED <<agent, queues, missed, recovery>>
  <2>1. CASE run # None
    BY <1>0, <1>1, <2>1, QueuedRejects
  <2>2. CASE ~Waiting
    BY <1>1, <2>2, QueuedRest DEF agent, recovery
  <2>3. run # None \/ ~Waiting \/ \E first : StartRun(p, first)
    BY <1>0 DEF Continue
  <2>4. ~\E first : StartRun(p, first)
    <3>1. at'[p] = "rejected"
      BY <1>1 DEF Rejects, IInv, Types
    <3>2. (\E first : StartRun(p, first)) => at'[p] = "running"
      BY DEF StartRun, IInv, Types
    <3>3. QED
      BY <3>1, <3>2
  <2>5. QED
    BY <2>1, <2>2, <2>3, <2>4
<1>2. CASE /\ Waiting /\ after
           /\ StartRun(p, IF steering > 0 THEN "model" ELSE "turn")
           /\ steering' = IF steering > 0 THEN steering - 1 ELSE 0
           /\ followUps' = IF steering > 0 THEN followUps ELSE followUps - 1
           /\ Emit(<<Message(created + 1, "user")>>)
  <2>1. steering' \in Nat /\ followUps' \in Nat
    BY <1>2 DEF Queued, Waiting
  <2>2. PICK first \in {"model", "turn"} : StartRun(p, first)
    BY <1>2
  <2>3. missed \subseteq missed'
    BY <1>2, EmitMisses
  <2>4. QED
    BY <2>1, <2>2, <2>3, QueuedStart
<1>3. CASE StartRun(p, "turn") /\ UNCHANGED <<queues, transcript>>
  BY <1>3, QueuedStart, QueuesSame DEF transcript
<1>4. QED
  BY <1>1, <1>2, <1>3 DEF Continue

LEMMA LaunchQueued == ASSUME NEW p \in Prompts PROVE IInv /\ Queued /\ Launch(p) => Queued'
<1> SUFFICES ASSUME IInv, Queued, Launch(p) PROVE Queued'
  OBVIOUS
<1>1. CASE run # None
  BY <1>1, QueuedRejects DEF Launch
<1>2. CASE run = None
  <2>1. StartRun(p, "turn") /\ Emit(<<Message(created + 1, "user")>>) /\ UNCHANGED queues
    BY <1>2 DEF Launch
  <2>2. QED
    BY <2>1, QueuesSame, EmitMisses, QueuedStart
<1>3. QED
  BY <1>1, <1>2

LEMMA CompactionQueued ==
  ASSUME NEW p \in Prompts
  PROVE  IInv /\ Queued /\ (Compacted(p) \/ CompactionFailed(p)) => Queued'
<1> SUFFICES ASSUME IInv, Queued, Compacted(p) \/ CompactionFailed(p) PROVE Queued'
  OBVIOUS
<1>1. UNCHANGED <<queues, missed, stage, lastAssistant>>
  BY DEF Compacted, CompactionFailed, agent, recovery
<1>2. {"continue", "asking"} \subseteq Steps \ Settling
  BY DEF Steps, Settling
<1>3. ~Waiting \/ \E s \in {"continue", "asking"} : at' = [at EXCEPT ![p] = s]
  BY DEF Compacted, CompactionFailed, GoesOn, IInv, Types
<1>4. QED
  BY <1>1, <1>2, <1>3, QueuedRest, QueuedGoesOn

LEMMA EnterQueued ==
  ASSUME NEW p \in Prompts PROVE IInv /\ Queued /\ (Enter(p) \/ EnterIdle(p)) => Queued'
<1> SUFFICES ASSUME IInv, Queued, Enter(p) \/ EnterIdle(p) PROVE Queued'
  OBVIOUS
<1>1. CASE Enter(p)
  <2>1. run \in Prompts /\ at[run] = "running" /\ at' = [at EXCEPT ![p] = "done"]
        /\ at[p] = "new" /\ UNCHANGED <<stage, lastAssistant, missed>>
    BY <1>1, RunInProgress DEF Enter, agent, recovery, transcript
  <2>2. at'[run] = "running"
    BY <2>1 DEF IInv, Types
  <2>3. InProgress'
    BY <2>1, <2>2 DEF InProgress, Settled
  <2>4. QED
    BY <1>1, <2>1, <2>3, QueueGrows, QueuedKept DEF Enter
<1>2. CASE EnterIdle(p)
  <2>1. PICK s \in {"asking", "precompacting"} : at' = [at EXCEPT ![p] = s]
    BY <1>2 DEF EnterIdle
  <2>2. s \in Steps \ Settling
    BY DEF Steps, Settling
  <2>3. QED
    BY <1>2, <2>1, <2>2, QueuedGoesOn DEF EnterIdle, agent
<1>3. QED
  BY <1>1, <1>2

LEMMA OtherQueued ==
  ASSUME IInv, Queued,
         \/ Abort \/ Steer \/ RecordBash \/ UNCHANGED vars
         \/ \E c \in Compacts :
              Compact(c) \/ CompactPrepares(c) \/ CompactDone(c) \/ CompactFailed(c)
  PROVE  Queued'
<1>1. UNCHANGED <<stage, lastAssistant, missed>>
  BY DEF Abort, Compact, Steer, RecordBash, CompactPrepares, CompactDone, CompactFailed, vars,
         agent, transcript, recovery
<1>2. CASE Steer
  BY <1>1, <1>2, QueueGrows, SameInProgress, QueuedKept DEF Steer, callers
<1>3. CASE UNCHANGED queues /\ (at' = at \/ StopAll)
  <2>1. InProgress => InProgress'
    BY <1>3, SameInProgress, StopAllInProgress
  <2>2. InProgress' \/ ~Waiting \/ missed # {}
    BY <2>1 DEF Queued, Waits
  <2>3. QED
    BY <1>1, <1>3, <2>2, QueuesSame, QueuedKept
<1>4. QED
  BY <1>2, <1>3 DEF Abort, Compact, RecordBash, CompactPrepares, CompactDone, CompactFailed, vars,
                    callers

LEMMA QueuedInit == Init => Queued
BY DEF Init, Queued, Followed, Waits, Waiting

LEMMA QueuedStep == IInv /\ Data /\ Begins /\ Queued /\ [Next]_vars => Queued'
BY RunQueued, EndRunQueued, RetryQueued, ContinueQueued, LaunchQueued, CompactionQueued,
   EnterQueued, OtherQueued
   DEF Next, Run, Manual, User, Call

LEMMA QueuedStranded == Queued => NothingStranded
BY DEF Queued, Waits, NothingStranded, AtRest

------------------------------------------------------------------------------
(* Calls and their results *)

\* While a run is active no other call is in progress, and no compaction by the user
\* is past its abort().
Alone == run # None => /\ \A q \in Prompts \ {run} : Settled(q)
                       /\ \A c \in Compacts : manual[c] \notin {"ready", "summarizing"}

\* While a tool runs its call is the last message.
CallLast == stage = "tool" => LastCall(messages) /\ (connected => LastCall(saved))

BothPaired == Paired(messages) /\ Paired(saved)

Calls == crossed \/ (Alone /\ CallLast /\ BothPaired)

LEMMA PairedFlushed ==
  ASSUME SoundNow, NEW m \in Seq(Entries), Paired(m)
  PROVE  Paired(Flushed(m)) /\ Flushed(m) \in Seq(Entries)
<1>1. pendingBash \in Seq(Entries) /\ \A i \in DOMAIN pendingBash : pendingBash[i] \in BashResult
  BY BashIsEntry DEF SoundNow, Sound
<1>2. NoResult(pendingBash)
  BY <1>1 DEF NoResult, BashResult
<1>3. QED
  BY <1>1, <1>2, PairedGrows, ConcatFacts DEF Flushed

LEMMA PairedDropResponse ==
  ASSUME NEW m \in Seq(Entries), Paired(m)
  PROVE  Paired(DropResponse(m)) /\ DropResponse(m) \in Seq(Entries)
BY PairedFront, FrontFacts DEF DropResponse

LEMMA ProceedPaired ==
  ASSUME SoundNow, NEW m \in Seq(Entries), NEW s \in Seq(Entries), Paired(m), Paired(s),
         NEW p, Proceed(p, m, s)
  PROVE  BothPaired'
BY PairedFlushed DEF Proceed, BothPaired

LEMMA RejectsPaired ==
  ASSUME SoundNow, BothPaired, NEW p, Rejects(p)
  PROVE  BothPaired'
BY PairedFlushed DEF Rejects, BothPaired, SoundNow, Sound

LEMMA AfterRetriesPaired ==
  ASSUME SoundNow, BothPaired, NEW msgs \in Seq(Entries), Paired(msgs),
         NEW p, NEW m, AfterRetries(p, m, msgs)
  PROVE  BothPaired'
<1>1. PICK c \in Checked(m, FALSE, msgs, saved) :
        IF ~c.plan.on /\ ~Waiting
        THEN Proceed(p, c.messages, saved)
        ELSE messages' = c.messages /\ saved' = saved
  BY DEF AfterRetries
<1>2. saved \in Seq(Entries) /\ Paired(saved)
  BY DEF SoundNow, Sound, BothPaired
<1>3. LeftOf(m, msgs, c.messages)
  BY <1>2, CheckedFacts
<1>4. c.messages \in Seq(Entries) /\ Paired(c.messages)
  BY <1>3, PairedDropResponse DEF LeftOf
<1>5. QED
  BY <1>1, <1>2, <1>4, ProceedPaired DEF BothPaired

\* A message that is no result.
LEMMA EmitPaired ==
  ASSUME SoundNow, BothPaired, NEW e \in Heardable, e.kind # "toolResult", Emit(<<e>>)
  PROVE  BothPaired'
<1>1. <<e>> \in Seq(Entries) /\ NoResult(<<e>>)
  BY EntryKinds DEF NoResult
<1>2. Paired(messages \o <<e>>) /\ Paired(saved \o <<e>>)
  BY <1>1, PairedGrows DEF SoundNow, Sound, BothPaired
<1>3. QED
  BY <1>2 DEF Emit, BothPaired

LEMMA UserPaired ==
  ASSUME SoundNow, BothPaired, Emit(<<Message(created + 1, "user")>>)
  PROVE  BothPaired'
<1>1. Message(created + 1, "user") \in Heardable /\ Message(created + 1, "user").kind = "user"
  BY MessageHeardable, CreatedNat DEF Message
<1>2. QED
  BY <1>1, EmitPaired

\* The last message is the one that is emitted.
LEMMA EmittedLast ==
  ASSUME NEW s \in Seq(Entries), NEW e \in Entries
  PROVE  s \o <<e>> # <<>> /\ (s \o <<e>>)[Len(s \o <<e>>)] = e
<1>1. s \o <<e>> = Append(s, e)
  BY AppendIsConcat
<1>2. QED
  BY <1>1, AppendFacts

\* What follows a compaction.
LEMMA CompactionPaired ==
  ASSUME SoundNow, BothPaired, NEW pl \in Plans, pl.on, Cuts(saved, pl)
  PROVE  LET w == Append(saved, CompactionEntry(pl))
         IN  /\ Paired(w) /\ Paired(Context(w))
             /\ w \in Seq(Entries) /\ Context(w) \in Seq(Entries) /\ Context(w) # <<>>
<1> DEFINE e == CompactionEntry(pl)
           w == Append(saved, e)
<1>1. Sound(Context(w), w, pendingBash, created + 1, missed) /\ e \in Summaries
      /\ Context(w) # <<>>
  BY CompactionSound DEF SoundNow
<1>2. saved \in Seq(Entries) /\ Paired(saved)
  BY DEF SoundNow, Sound, BothPaired
<1> HIDE DEF e
<1>3. e \in Entries /\ e.kind # "toolResult"
  BY <1>1 DEF Entries, Summaries
<1>4. <<e>> \in Seq(Entries) /\ NoResult(<<e>>)
  BY <1>3 DEF NoResult
<1>5. Paired(saved \o <<e>>)
  BY <1>2, <1>4, PairedGrows
<1>6. Paired(w)
  BY <1>2, <1>3, <1>5, AppendIsConcat
<1> HIDE DEF w
<1>7. w \in Seq(Entries) /\ Once(w) /\ KeptThere(w) /\ Context(w) \in Seq(Entries)
  BY <1>1 DEF Sound
<1>8. Paired(Context(w))
  BY <1>6, <1>7, ContextPaired
<1>9. QED
  BY <1>1, <1>6, <1>7, <1>8 DEF w, e

LEMMA StartCalls ==
  ASSUME IInv, Calls, SoundNow, NEW p \in Prompts, NEW first \in {"model", "turn"},
         StartRun(p, first), UNCHANGED manual,
         UNCHANGED <<messages, saved>> \/ Emit(<<Message(created + 1, "user")>>)
  PROVE  Calls'
<1> SUFFICES ASSUME ~crossed' PROVE Calls'
  BY DEF Calls
<1>1. /\ ~crossed /\ \A q \in Prompts \ {p} : Settled(q)
      /\ \A c \in Compacts : manual[c] \notin {"ready", "summarizing"}
  BY DEF StartRun, CompactOpen
<1>2. run' = p /\ \A q \in Prompts \ {p} : at'[q] = at[q]
  BY DEF StartRun, IInv, Types
<1>3. Alone'
  BY <1>1, <1>2 DEF Alone, Settled
<1>4. CallLast'
  BY DEF StartRun, CallLast
<1>5. BothPaired'
  BY <1>1, UserPaired DEF Calls, BothPaired
<1>6. QED
  BY <1>3, <1>4, <1>5 DEF Calls

\* A step while no run is active.
LEMMA IdleCalls ==
  ASSUME Calls, run' = None, stage' = "off", crossed' = crossed,
         ~crossed /\ BothPaired => BothPaired'
  PROVE  Calls'
<1> SUFFICES ASSUME ~crossed' PROVE Calls'
  BY DEF Calls
<1>1. QED
  BY DEF Calls, Alone, CallLast

\* A call in progress that waits for no run takes a step only while there is none.
LEMMA NoRunBeside ==
  ASSUME IInv, Calls, ~crossed, NEW p \in Prompts, ~Settled(p), at[p] # "running"
  PROVE  run = None /\ stage = "off"
BY DEF IInv, OneRun, Calls, Alone

\* A step of a call that waits for no run, which leaves the agent as it is.
LEMMA BesideCalls ==
  ASSUME IInv, Calls, NEW p \in Prompts, ~Settled(p), at[p] # "running",
         UNCHANGED <<agent, crossed>>, ~crossed /\ BothPaired => BothPaired'
  PROVE  Calls'
<1> SUFFICES ASSUME ~crossed' PROVE Calls'
  BY DEF Calls
<1>1. run' = None /\ stage' = "off"
  BY NoRunBeside DEF agent
<1>2. QED
  BY <1>1, IdleCalls

LEMMA AloneKept ==
  ASSUME Alone, run' = run, \A q \in Prompts : Settled(q) => Settled(q)',
         \A c \in Compacts : manual'[c] \in {"ready", "summarizing"} =>
                              run = None \/ manual'[c] = manual[c]
  PROVE  Alone'
BY DEF Alone

LEMMA RunCalls == IInv /\ Data /\ Calls /\ (Respond \/ ToolResult \/ Poll) => Calls'
<1> SUFFICES ASSUME IInv, Data, Calls, Respond \/ ToolResult \/ Poll, ~crossed' PROVE Calls'
  BY DEF Calls
<1>0. /\ SoundNow /\ BothPaired /\ CallLast /\ messages \in Seq(Entries)
      /\ saved \in Seq(Entries) /\ connected' = connected
  BY DEF Calls, Data, SoundNow, Sound, Respond, ToolResult, Poll
<1>1. Alone'
  <2>1. Alone /\ run' = run /\ at' = at /\ manual' = manual
    BY DEF Calls, Respond, ToolResult, Poll, callers, compactions
  <2>2. QED
    BY <2>1, AloneKept DEF Settled
<1>2. CASE Respond
  <2>1. PICK stop \in Stops \union {"call", "aborted"} :
          /\ Emit(<<Response(created + 1, stop)>>)
          /\ stage' = IF stop = "call" THEN "tool"
                      ELSE IF stop \in FailedStops \union {"aborted"} THEN "end" ELSE "over"
    BY <1>2 DEF Respond
  <2> DEFINE m == Response(created + 1, stop)
  <2>2. /\ m \in Heardable /\ m \in Entries /\ m.kind = "assistant" /\ m.stop = stop
        /\ IsResponse(m)
    BY <1>0, StopsKnown, MessageHeardable, CreatedNat, EntryKinds DEF Response, IsResponse
  <2> HIDE DEF m
  <2>3. BothPaired'
    BY <1>0, <2>1, <2>2, EmitPaired DEF m
  <2>4. stage' = "tool" => stop = "call"
    BY <2>1
  <2>5. messages' = messages \o <<m>> /\ (connected => saved' = saved \o <<m>>)
    BY <2>1 DEF Emit, m
  <2>6. CallLast'
    BY <1>0, <2>2, <2>4, <2>5, EmittedLast DEF CallLast, LastCall
  <2>7. QED
    BY <1>1, <2>3, <2>6 DEF Calls
<1>3. CASE ToolResult
  <2> DEFINE m == Message(created + 1, "toolResult")
  <2>1. stage = "tool" /\ stage' = "turn" /\ Emit(<<m>>)
    BY <1>3 DEF ToolResult
  <2>2. m \in Entries
    BY <1>0, MessageHeardable, CreatedNat, EntryKinds
  <2> HIDE DEF m
  <2>3. LastCall(messages) /\ (connected => LastCall(saved))
    BY <1>0, <2>1 DEF CallLast
  <2>4. Paired(messages \o <<m>>) /\ (connected => Paired(saved \o <<m>>))
    BY <1>0, <2>2, <2>3, PairedByCall DEF BothPaired
  <2>5. BothPaired'
    BY <1>0, <2>1, <2>4 DEF Emit, BothPaired
  <2>6. QED
    BY <1>1, <2>1, <2>5 DEF Calls, CallLast
<1>4. CASE Poll
  <2>1. stage' # "tool"
    BY <1>4 DEF Poll, Inject, CallsModel
  <2>2. BothPaired'
    BY <1>0, <1>4, UserPaired DEF Poll, Inject, transcript, BothPaired
  <2>3. QED
    BY <1>1, <2>1, <2>2 DEF Calls, CallLast
<1>5. QED
  BY <1>2, <1>3, <1>4

LEMMA EndRunCalls == ASSUME NEW p \in Prompts PROVE IInv /\ Data /\ Calls /\ EndRun(p) => Calls'
<1> SUFFICES ASSUME IInv, Data, Calls, EndRun(p) PROVE Calls'
  OBVIOUS
<1>1. run' = None /\ stage' = "off" /\ crossed' = crossed
  BY DEF EndRun
<1>2. ASSUME BothPaired PROVE BothPaired'
  <2>1. /\ SoundNow /\ messages \in Seq(Entries) /\ saved \in Seq(Entries)
        /\ Paired(messages) /\ Paired(saved)
    BY <1>2 DEF Data, SoundNow, Sound, BothPaired
  <2>2. CASE Proceed(p, messages, saved)
    BY <2>1, <2>2, ProceedPaired
  <2>3. CASE messages' = DropResponse(messages) /\ saved' = saved
    BY <2>1, <2>3, PairedDropResponse DEF BothPaired
  <2>4. CASE AfterRetries(p, lastAssistant, messages)
    BY <1>2, <2>1, <2>4, AfterRetriesPaired
  <2>5. QED
    BY <2>2, <2>3, <2>4 DEF EndRun
<1>3. QED
  BY <1>1, <1>2, IdleCalls

LEMMA RetryCalls ==
  ASSUME NEW p \in Prompts
  PROVE  IInv /\ Data /\ Calls /\ (RetryCancelled(p) \/ RetryWaited(p)) => Calls'
<1> SUFFICES ASSUME IInv, Data, Calls, RetryCancelled(p) \/ RetryWaited(p) PROVE Calls'
  OBVIOUS
<1>1. ~Settled(p) /\ at[p] # "running" /\ UNCHANGED <<agent, crossed>>
  BY DEF RetryCancelled, RetryWaited, Settled
<1>2. ASSUME BothPaired PROVE BothPaired'
  <2>1. SoundNow /\ messages \in Seq(Entries) /\ Paired(messages)
    BY <1>2 DEF Data, SoundNow, Sound, BothPaired
  <2>2. CASE RetryCancelled(p)
    BY <1>2, <2>1, <2>2, AfterRetriesPaired DEF RetryCancelled
  <2>3. CASE RetryWaited(p)
    BY <1>2, <2>3 DEF RetryWaited, transcript, BothPaired
  <2>4. QED
    BY <2>2, <2>3
<1>3. QED
  BY <1>1, <1>2, BesideCalls

LEMMA ContinueCalls ==
  ASSUME NEW p \in Prompts PROVE IInv /\ Data /\ Calls /\ Continue(p) => Calls'
<1> SUFFICES ASSUME IInv, Data, Calls, Continue(p) PROVE Calls'
  OBVIOUS
<1>0. SoundNow /\ ~Settled(p) /\ at[p] # "running" /\ manual' = manual
  BY DEF Data, SoundNow, Continue, Settled, compactions
<1>1. CASE Rejects(p) /\ UNCHANGED <<agent, crossed>>
  BY <1>0, <1>1, RejectsPaired, BesideCalls
<1>2. CASE \E first \in {"model", "turn"} :
             /\ StartRun(p, first)
             /\ UNCHANGED <<messages, saved>> \/ Emit(<<Message(created + 1, "user")>>)
  BY <1>0, <1>2, StartCalls
<1>3. QED
  BY <1>1, <1>2 DEF Continue, transcript

LEMMA LaunchCalls == ASSUME NEW p \in Prompts PROVE IInv /\ Data /\ Calls /\ Launch(p) => Calls'
<1> SUFFICES ASSUME IInv, Data, Calls, Launch(p) PROVE Calls'
  OBVIOUS
<1>0. SoundNow /\ ~Settled(p) /\ at[p] # "running" /\ manual' = manual
  BY DEF Data, SoundNow, Launch, Settled, compactions
<1>1. CASE Rejects(p) /\ UNCHANGED <<agent, crossed>>
  BY <1>0, <1>1, RejectsPaired, BesideCalls
<1>2. CASE StartRun(p, "turn") /\ Emit(<<Message(created + 1, "user")>>)
  BY <1>0, <1>2, StartCalls
<1>3. QED
  BY <1>1, <1>2 DEF Launch

LEMMA CompactedCalls ==
  ASSUME NEW p \in Prompts PROVE IInv /\ Data /\ Calls /\ Compacted(p) => Calls'
<1> SUFFICES ASSUME IInv, Data, Calls, Compacted(p) PROVE Calls'
  OBVIOUS
<1>1. ~Settled(p) /\ at[p] # "running" /\ UNCHANGED <<agent, crossed>>
  BY DEF Compacted, Settled
<1>2. ASSUME BothPaired PROVE BothPaired'
  <2> DEFINE w == Append(saved, CompactionEntry(plan[p]))
             new == Context(w)
  <2>1. SoundNow /\ plan[p] \in Plans /\ plan[p].on /\ Cuts(saved, plan[p])
    BY DEF Compacted, PlansFit, Compacting, Data, SoundNow
  <2>2. /\ Paired(w) /\ Paired(new) /\ w \in Seq(Entries) /\ new \in Seq(Entries)
        /\ new # <<>>
    BY <1>2, <2>1, CompactionPaired
  <2> HIDE DEF w, new
  <2>3. Paired(Front(new))
    BY <2>2, PairedFront
  <2>4. CASE saved' = w /\ messages' \in {new, Front(new)}
    BY <2>2, <2>3, <2>4 DEF BothPaired
  <2>5. CASE Proceed(p, new, w)
    BY <2>1, <2>2, <2>5, ProceedPaired
  <2>6. QED
    BY <2>4, <2>5 DEF Compacted, Rebuilt, w, new
<1>3. QED
  BY <1>1, <1>2, BesideCalls

LEMMA CompactionFailedCalls ==
  ASSUME NEW p \in Prompts PROVE IInv /\ Data /\ Calls /\ CompactionFailed(p) => Calls'
<1> SUFFICES ASSUME IInv, Data, Calls, CompactionFailed(p) PROVE Calls'
  OBVIOUS
<1>1. ~Settled(p) /\ at[p] # "running" /\ UNCHANGED <<agent, crossed>>
  BY DEF CompactionFailed, Settled
<1>2. ASSUME BothPaired PROVE BothPaired'
  <2>1. /\ SoundNow /\ messages \in Seq(Entries) /\ saved \in Seq(Entries)
        /\ Paired(messages) /\ Paired(saved)
    BY <1>2 DEF Data, SoundNow, Sound, BothPaired
  <2>2. CASE Proceed(p, messages, saved)
    BY <2>1, <2>2, ProceedPaired
  <2>3. CASE UNCHANGED <<messages, saved>>
    BY <1>2, <2>3 DEF BothPaired
  <2>4. QED
    BY <2>2, <2>3 DEF CompactionFailed
<1>3. QED
  BY <1>1, <1>2, BesideCalls

LEMMA EnterCalls == ASSUME NEW p \in Prompts PROVE IInv /\ Calls /\ Enter(p) => Calls'
<1> SUFFICES ASSUME IInv, Calls, Enter(p), ~crossed' PROVE Calls'
  BY DEF Calls
<1>1. /\ at' = [at EXCEPT ![p] = "done"] /\ UNCHANGED <<messages, saved, connected, manual>>
      /\ UNCHANGED <<run, stage, crossed>>
  BY DEF Enter, transcript, agent, compactions
<1>2. \A q \in Prompts : Settled(q) => Settled(q)'
  BY <1>1 DEF Settled, IInv, Types
<1>3. QED
  BY <1>1, <1>2, AloneKept DEF Calls, CallLast, BothPaired

LEMMA EnterIdleCalls ==
  ASSUME NEW p \in Prompts PROVE IInv /\ Data /\ Calls /\ EnterIdle(p) => Calls'
<1> SUFFICES ASSUME IInv, Data, Calls, EnterIdle(p) PROVE Calls'
  OBVIOUS
<1>1. run' = None /\ stage' = "off" /\ crossed' = crossed
  BY DEF EnterIdle, agent, IInv, OneRun
<1>2. ASSUME BothPaired PROVE BothPaired'
  <2> DEFINE msgs == Flushed(messages)
             path == Flushed(saved)
  <2>1. saved' = path /\ SoundNow /\ messages \in Seq(Entries) /\ saved \in Seq(Entries)
    BY DEF EnterIdle, Data, SoundNow, Sound
  <2>2. Paired(msgs) /\ msgs \in Seq(Entries) /\ Paired(path) /\ path \in Seq(Entries)
    BY <1>2, <2>1, PairedFlushed DEF BothPaired
  <2>3. messages' = msgs \/ \E c \in Checked(msgs[Max(Responses(msgs))], TRUE, msgs, path) :
                               messages' = c.messages
    BY <2>1 DEF EnterIdle
  <2> HIDE DEF msgs, path
  <2>4. messages' = msgs \/ messages' = DropResponse(msgs)
    <3>1. ASSUME NEW c \in Checked(msgs[Max(Responses(msgs))], TRUE, msgs, path)
          PROVE  c.messages = msgs \/ c.messages = DropResponse(msgs)
      <4> DEFINE m == msgs[Max(Responses(msgs))]
      <4>1. c \in Checked(m, TRUE, msgs, path)
        BY <3>1
      <4> HIDE DEF m
      <4>2. LeftOf(m, msgs, c.messages)
        BY <2>2, <4>1, CheckedFacts
      <4>3. QED
        BY <4>2 DEF LeftOf
    <3>2. QED
      BY <2>3, <3>1
  <2>5. QED
    BY <2>1, <2>2, <2>4, PairedDropResponse DEF BothPaired
<1>3. QED
  BY <1>1, <1>2, IdleCalls

LEMMA RecordBashCalls == IInv /\ Data /\ Calls /\ RecordBash => Calls'
<1> SUFFICES ASSUME IInv, Data, Calls, RecordBash PROVE Calls'
  OBVIOUS
<1> DEFINE m == Message(created + 1, "bash")
<1>0. UNCHANGED <<run, stage, at, manual, connected, crossed>>
  BY DEF RecordBash, agent, callers, compactions
<1>1. CASE UNCHANGED <<messages, saved>>
  BY <1>0, <1>1, AloneKept DEF Calls, CallLast, BothPaired, Settled
<1>2. CASE run = None /\ messages' = Append(messages, m) /\ saved' = Append(saved, m)
  <2>1. messages \in Seq(Entries) /\ saved \in Seq(Entries) /\ m \in Entries /\ m.kind = "bash"
    BY MessageHeardable, CreatedNat, EntryKinds DEF Data, SoundNow, Sound, Message
  <2> HIDE DEF m
  <2>2. <<m>> \in Seq(Entries) /\ NoResult(<<m>>)
    BY <2>1 DEF NoResult
  <2>3. messages' = messages \o <<m>> /\ saved' = saved \o <<m>>
    BY <1>2, <2>1, AppendIsConcat
  <2>4. BothPaired => BothPaired'
    BY <2>1, <2>2, <2>3, PairedGrows DEF BothPaired
  <2>5. QED
    BY <1>0, <1>2, <2>4, IdleCalls DEF IInv, OneRun
<1>3. QED
  BY <1>1, <1>2 DEF RecordBash, Defers

LEMMA ManualCalls ==
  ASSUME NEW c \in Compacts
  PROVE  /\ IInv /\ Data /\ Calls
         /\ CompactPrepares(c) \/ CompactDone(c) \/ CompactFailed(c)
         => Calls'
<1> SUFFICES ASSUME IInv, Data, Calls, ~crossed',
                    CompactPrepares(c) \/ CompactDone(c) \/ CompactFailed(c)
             PROVE Calls'
  BY DEF Calls
<1>1. crossed' = crossed /\ UNCHANGED agent /\ manual[c] \in {"ready", "summarizing"}
  BY DEF CompactPrepares, CompactDone, CompactFailed
<1>2. run' = None /\ stage' = "off"
  BY <1>1 DEF Calls, Alone, agent, IInv, OneRun
<1>3. ASSUME BothPaired PROVE BothPaired'
  <2>1. CASE CompactDone(c)
    <3> DEFINE w == Append(saved, CompactionEntry(manualPlan[c]))
    <3>1. saved' = w /\ messages' = Context(w)
      BY <2>1 DEF CompactDone, Rebuilt
    <3>2. SoundNow /\ manualPlan[c] \in Plans /\ manualPlan[c].on /\ Cuts(saved, manualPlan[c])
      BY <2>1 DEF CompactDone, Data, ManualFits, SoundNow
    <3>3. Paired(w) /\ Paired(Context(w))
      BY <1>3, <3>2, CompactionPaired
    <3> HIDE DEF w
    <3>4. QED
      BY <3>1, <3>3 DEF BothPaired
  <2>2. CASE UNCHANGED transcript
    BY <1>3, <2>2 DEF transcript, BothPaired
  <2>3. QED
    BY <2>1, <2>2 DEF CompactPrepares, CompactFailed
<1>4. QED
  BY <1>1, <1>2, <1>3, IdleCalls

LEMMA OtherCalls ==
  ASSUME IInv, Calls, Abort \/ Steer \/ UNCHANGED vars \/ \E c \in Compacts : Compact(c)
  PROVE  Calls'
<1> SUFFICES ASSUME ~crossed' PROVE Calls'
  BY DEF Calls
<1>1. /\ UNCHANGED <<run, stage, messages, saved, crossed>>
      /\ connected' => connected
  BY DEF Abort, Compact, Steer, vars, agent, transcript
<1>2. Alone /\ CallLast /\ BothPaired
  BY <1>1 DEF Calls
<1>3. \A q \in Prompts : Settled(q) => Settled(q)'
  <2>1. CASE at' = at
    BY <2>1 DEF Settled
  <2>2. CASE StopAll
    BY <2>2 DEF StopAll, Settled, IInv, Types
  <2>3. QED
    BY <2>1, <2>2 DEF Abort, Compact, Steer, vars, callers
<1>4. \A c \in Compacts : manual'[c] \in {"ready", "summarizing"} =>
                           run = None \/ manual'[c] = manual[c]
  BY DEF Abort, Compact, Steer, vars, compactions, IInv, Types
<1>5. QED
  BY <1>1, <1>2, <1>3, <1>4, AloneKept DEF Calls, CallLast, BothPaired

LEMMA CallsInit == Init => Calls
BY DEF Init, Calls, Alone, CallLast, BothPaired, Paired

LEMMA CallsStep == IInv /\ Data /\ Calls /\ [Next]_vars => Calls'
BY RunCalls, EndRunCalls, RetryCalls, ContinueCalls, LaunchCalls, CompactedCalls,
   CompactionFailedCalls, EnterCalls, EnterIdleCalls, RecordBashCalls, ManualCalls, OtherCalls
   DEF Next, Run, Manual, User, Call

LEMMA CallsArePaired == Calls => CallsPaired
BY DEF Calls, BothPaired, CallsPaired

------------------------------------------------------------------------------
(* Responses that are taken off *)

\* The last response is remembered only during a run; what a call waits to try
\* again is an error.
Recovers ==
  /\ run = None => lastAssistant = None
  /\ DOMAIN handled = Prompts
  /\ \A p \in Prompts : at[p] \in {"waiting", "cancelled"} => handled[p].stop = "retryable"

\* Response l is in transcript m, and nobody heard of a later one.
HeardIn(l, m, x) ==
  \E k \in DOMAIN m : /\ m[k] = l
                      /\ \A i \in DOMAIN m : i > k /\ IsResponse(m[i]) => m[i].id \in x

Heard == lastAssistant # None => HeardIn(lastAssistant, messages, missed)

\* The transcript has all of the context but failed responses.
Whole == crossed \/ (Heard /\ Complete(messages, Context(saved)))

LEMMA CompleteFlushed ==
  ASSUME NEW m, NEW s, NEW c, NEW x, Sound(m, s, pendingBash, c, x), Complete(m, Context(s))
  PROVE  Complete(Flushed(m), Context(Flushed(s)))
<1>1. /\ m \in Seq(Entries) /\ s \in Seq(Entries) /\ pendingBash \in Seq(Entries)
      /\ Once(s) /\ Once(pendingBash) /\ Apart(s, pendingBash) /\ KeptThere(s)
      /\ \A i \in DOMAIN pendingBash : InContext(pendingBash[i])
  BY BashIsEntry DEF Sound
<1>2. Context(s \o pendingBash) = Context(s) \o pendingBash /\ Context(s) \in Seq(Entries)
  BY <1>1, ContextConcat, ContextFromPath
<1>3. Complete(m \o pendingBash, Context(s) \o pendingBash)
  BY <1>1, <1>2, CompleteGrows
<1>4. QED
  BY <1>2, <1>3 DEF Flushed

LEMMA CompleteEmitted ==
  ASSUME SoundNow, Complete(messages, Context(saved)), NEW e \in Heardable, e.id = created + 1,
         Emit(<<e>>)
  PROVE  Complete(messages', Context(saved'))
<1> DEFINE t == <<e>>
<1>1. /\ messages \in Seq(Entries) /\ saved \in Seq(Entries) /\ Once(saved) /\ KeptThere(saved)
      /\ Numbered(saved, created) /\ created \in Nat
  BY DEF SoundNow, Sound
<1>2. t \in Seq(Entries) /\ DOMAIN t = {1} /\ t[1] = e /\ InContext(e)
  BY EntryKinds
<1>3. messages' = messages \o t /\ (saved' = saved \o t \/ saved' = saved)
  BY DEF Emit
<1> HIDE DEF t
<1>4. Once(t) /\ Apart(saved, t) /\ \A i \in DOMAIN t : InContext(t[i])
  BY <1>1, <1>2 DEF Once, Apart, Numbered
<1>5. Context(saved \o t) = Context(saved) \o t /\ Context(saved) \in Seq(Entries)
  BY <1>1, <1>2, <1>4, ContextConcat, ContextFromPath
<1>6. Complete(messages \o t, Context(saved) \o t) /\ Complete(messages \o t, Context(saved))
  BY <1>1, <1>2, <1>5, CompleteGrows
<1>7. QED
  BY <1>3, <1>5, <1>6

\* The last response is taken off: it has failed, or nobody heard of it.
LEMMA CompleteDropped ==
  ASSUME NEW m \in Seq(Entries), NEW v, NEW x, Complete(m, v), Agree(m, v, x),
         m # <<>> /\ IsResponse(m[Len(m)]) => Failed(m[Len(m)]) \/ m[Len(m)].id \in x
  PROVE  Complete(DropResponse(m), v)
<1>1. CASE m # <<>> /\ IsResponse(m[Len(m)])
  <2>1. Len(m) \in DOMAIN m
    BY <1>1, FrontFacts
  <2>2. Failed(m[Len(m)]) \/ \A a \in DOMAIN v : v[a] # m[Len(m)]
    BY <1>1, <2>1 DEF Agree
  <2>3. QED
    BY <1>1, <2>2, CompleteFront DEF DropResponse
<1>2. CASE ~(m # <<>> /\ IsResponse(m[Len(m)]))
  BY <1>2 DEF DropResponse
<1>3. QED
  BY <1>1, <1>2

\* The last response of a transcript in which a failed one was heard last.
LEMMA HeardLast ==
  ASSUME NEW m \in Seq(Entries), NEW l, NEW x, HeardIn(l, m, x),
         l.stop \in FailedStops \union {"length"},
         m # <<>>, IsResponse(m[Len(m)])
  PROVE  Failed(m[Len(m)]) \/ m[Len(m)].id \in x
<1>1. PICK k \in DOMAIN m : /\ m[k] = l
                            /\ \A i \in DOMAIN m : i > k /\ IsResponse(m[i]) => m[i].id \in x
  BY DEF HeardIn
<1>2. DOMAIN m = 1..Len(m) /\ Len(m) \in DOMAIN m /\ k \in Nat /\ Len(m) \in Nat
  BY <1>1, FrontFacts
<1>3. k = Len(m) \/ Len(m) > k
  BY <1>2
<1>4. QED
  BY <1>1, <1>2, <1>3 DEF Failed

\* A message is emitted after the response that was heard last, or is it.
LEMMA HeardGrows ==
  ASSUME NEW m \in Seq(Entries), NEW e \in Entries, NEW l, NEW x, NEW y, x \subseteq y,
         HeardIn(l, m, x), ~IsResponse(e) \/ e.id \in y
  PROVE  HeardIn(l, m \o <<e>>, y)
<1> DEFINE w == Append(m, e)
<1>1. /\ m \o <<e>> = w /\ DOMAIN w = 1..(Len(m) + 1) /\ DOMAIN m = 1..Len(m) /\ Len(m) \in Nat
      /\ w[Len(m) + 1] = e /\ \A i \in DOMAIN m : w[i] = m[i]
  BY AppendIsConcat
<1>2. PICK k \in DOMAIN m : /\ m[k] = l
                            /\ \A i \in DOMAIN m : i > k /\ IsResponse(m[i]) => m[i].id \in x
  BY DEF HeardIn
<1> HIDE DEF w
<1>3. k \in DOMAIN w /\ w[k] = l
  BY <1>1, <1>2
<1>4. ASSUME NEW i \in DOMAIN w, i > k, IsResponse(w[i]) PROVE w[i].id \in y
  <2>1. i \in DOMAIN m \/ i = Len(m) + 1
    BY <1>1
  <2>2. QED
    BY <1>1, <1>2, <1>4, <2>1
<1>5. QED
  BY <1>1, <1>3, <1>4 DEF HeardIn

LEMMA HeardNow ==
  ASSUME NEW m \in Seq(Entries), NEW e \in Entries, NEW x
  PROVE  HeardIn(e, m \o <<e>>, x)
<1> DEFINE w == Append(m, e)
<1>1. /\ m \o <<e>> = w /\ DOMAIN w = 1..(Len(m) + 1) /\ Len(m) \in Nat
      /\ w[Len(m) + 1] = e
  BY AppendIsConcat
<1> HIDE DEF w
<1>2. Len(m) + 1 \in DOMAIN w /\ w[Len(m) + 1] = e /\ \A i \in DOMAIN w : ~(i > Len(m) + 1)
  BY <1>1
<1>3. QED
  BY <1>1, <1>2 DEF HeardIn

\* The last response of a transcript, which a new prompt looks at.
LEMMA NewestResponse ==
  ASSUME NEW m \in Seq(Entries), m # <<>>, IsResponse(m[Len(m)])
  PROVE  Max(Responses(m)) = Len(m)
<1> DEFINE T == Responses(m)
<1>1. DOMAIN m = 1..Len(m) /\ Len(m) \in DOMAIN m /\ Len(m) \in Nat
  BY FrontFacts
<1>2. T \in SUBSET Nat /\ Len(m) \in T /\ \A y \in T : y <= Len(m)
  BY <1>1 DEF Responses
<1> HIDE DEF T
<1>3. Max(T) \in T /\ \A y \in T : Max(T) >= y
  BY <1>1, <1>2, MaxIs
<1>4. Max(T) \in Nat /\ Max(T) <= Len(m) /\ Max(T) >= Len(m)
  BY <1>2, <1>3
<1>5. QED
  BY <1>1, <1>4 DEF T

------------------------------------------------------------------------------
(* What is remembered of responses *)

LEMMA RecoversMove ==
  ASSUME IInv, Recovers, NEW p \in Prompts, NEW s, at' = [at EXCEPT ![p] = s], NEW h,
         handled' = [handled EXCEPT ![p] = h],
         s \in {"waiting", "cancelled"} => h.stop = "retryable",
         run' = None => lastAssistant' = None
  PROVE  Recovers'
<1>1. DOMAIN handled' = Prompts /\ handled'[p] = h /\ at'[p] = s
  BY DEF IInv, Types, Recovers
<1>2. \A q \in Prompts : q # p => at'[q] = at[q] /\ handled'[q] = handled[q]
  BY DEF IInv, Types, Recovers
<1>3. QED
  BY <1>1, <1>2 DEF Recovers

LEMMA RecoversGo ==
  ASSUME IInv, Recovers, NEW p \in Prompts, NEW s, at' = [at EXCEPT ![p] = s], handled' = handled,
         s \notin {"waiting", "cancelled"}, run' = None => lastAssistant' = None
  PROVE  Recovers'
<1>1. at'[p] = s /\ \A q \in Prompts : q # p => at'[q] = at[q]
  BY DEF IInv, Types
<1>2. QED
  BY <1>1 DEF Recovers

LEMMA RecoversStay ==
  ASSUME IInv, Recovers, handled' = handled, at' = at \/ StopAll,
         run' = None => lastAssistant' = None
  PROVE  Recovers'
<1>1. ASSUME NEW q \in Prompts, at'[q] \in {"waiting", "cancelled"}
      PROVE  at[q] \in {"waiting", "cancelled"}
  BY <1>1 DEF StopAll, IInv, Types
<1>2. QED
  BY <1>1 DEF Recovers

LEMMA AfterRetriesRecovers ==
  ASSUME IInv, Recovers, NEW p \in Prompts, NEW m, NEW msgs, AfterRetries(p, m, msgs),
         run' = None => lastAssistant' = None
  PROVE  Recovers'
<1>1. PICK s \in {"asking", "done", "compacting", "continue"} : at' = [at EXCEPT ![p] = s]
  BY DEF AfterRetries, Proceed
<1>2. handled' = [handled EXCEPT ![p] = None]
  BY DEF AfterRetries
<1>3. QED
  BY <1>1, <1>2, RecoversMove

LEMMA EndRunRecovers == ASSUME NEW p \in Prompts PROVE IInv /\ Recovers /\ EndRun(p) => Recovers'
<1> SUFFICES ASSUME IInv, Recovers, EndRun(p) PROVE Recovers'
  OBVIOUS
<1>0. lastAssistant' = None
  BY DEF EndRun
<1>1. CASE Proceed(p, messages, saved) /\ UNCHANGED handled
  <2>1. PICK s \in {"asking", "done"} : at' = [at EXCEPT ![p] = s]
    BY <1>1 DEF Proceed
  <2>2. QED
    BY <1>0, <1>1, <2>1, RecoversGo
<1>2. CASE /\ MayRetry(lastAssistant) /\ at' = [at EXCEPT ![p] = "waiting"]
           /\ handled' = [handled EXCEPT ![p] = lastAssistant]
  BY <1>0, <1>2, RecoversMove DEF MayRetry
<1>3. CASE AfterRetries(p, lastAssistant, messages)
  BY <1>0, <1>3, AfterRetriesRecovers
<1>4. QED
  BY <1>1, <1>2, <1>3 DEF EndRun

LEMMA CallRecovers ==
  ASSUME NEW p \in Prompts
  PROVE  IInv /\ Recovers /\ (Call(p) \/ Enter(p) \/ EnterIdle(p)) => Recovers'
<1> SUFFICES ASSUME IInv, Recovers, Call(p) \/ Enter(p) \/ EnterIdle(p) PROVE Recovers'
  OBVIOUS
<1>1. CASE EndRun(p)
  BY <1>1, EndRunRecovers
<1>2. CASE RetryCancelled(p)
  BY <1>2, AfterRetriesRecovers DEF RetryCancelled, Recovers, agent
<1>3. CASE RetryWaited(p)
  <2>1. PICK s \in {"continue"} : at' = [at EXCEPT ![p] = s]
    BY <1>3 DEF RetryWaited
  <2>2. handled' = [handled EXCEPT ![p] = None] /\ (run' = None => lastAssistant' = None)
    BY <1>3 DEF RetryWaited, agent, Recovers
  <2>3. QED
    BY <2>1, <2>2, RecoversMove
<1>4. CASE \/ Continue(p) \/ Compacted(p) \/ CompactionFailed(p) \/ Launch(p)
           \/ Enter(p) \/ EnterIdle(p)
  <2>1. handled' = handled
    BY <1>4 DEF Continue, Compacted, CompactionFailed, Launch, Enter, EnterIdle
  <2>2. \E s \in Steps \ {"waiting", "cancelled"} : at' = [at EXCEPT ![p] = s]
    BY <1>4 DEF Continue, Compacted, CompactionFailed, Launch, Enter, EnterIdle, Proceed, Rejects,
                StartRun, Steps, IInv, Types
  <2>3. run' = None => lastAssistant' = None
    <3>1. CASE UNCHANGED <<run, lastAssistant>>
      BY <3>1 DEF Recovers
    <3>2. CASE run' = p
      BY <3>2, AgentSessionAssumption
    <3>3. QED
      BY <1>4, <3>1, <3>2 DEF Continue, Compacted, CompactionFailed, Launch, Enter, EnterIdle,
                              StartRun, agent, recovery
  <2>4. QED
    BY <2>1, <2>2, <2>3, RecoversGo
<1>5. QED
  BY <1>1, <1>2, <1>3, <1>4 DEF Call

LEMMA OtherRecovers ==
  ASSUME IInv, Recovers,
         \/ Run \/ Steer \/ RecordBash \/ Abort \/ UNCHANGED vars
         \/ \E c \in Compacts : Manual(c) \/ Compact(c)
  PROVE  Recovers'
<1>1. handled' = handled /\ run' = run /\ (at' = at \/ StopAll)
  BY DEF Run, Manual, Respond, ToolResult, Poll, CompactPrepares, CompactDone, CompactFailed, Steer,
         RecordBash, Abort, Compact, vars, callers, agent
<1>2. run # None \/ lastAssistant' = lastAssistant
  BY DEF Run, Manual, Respond, ToolResult, Poll, CompactPrepares, CompactDone, CompactFailed, Steer,
         RecordBash, Abort, Compact, vars, recovery, IInv, OneRun
<1>3. QED
  BY <1>1, <1>2, RecoversStay DEF Recovers

LEMMA RecoversInit == Init => Recovers
BY DEF Init, Recovers

LEMMA RecoversStep == IInv /\ Recovers /\ [Next]_vars => Recovers'
BY CallRecovers, OtherRecovers DEF Next, User

------------------------------------------------------------------------------
(* The whole conversation *)

Full == Complete(messages, Context(saved))

LEMMA ProceedFull ==
  ASSUME NEW m, NEW s, NEW c, NEW x, Sound(m, s, pendingBash, c, x), Complete(m, Context(s)),
         NEW p, Proceed(p, m, s)
  PROVE  Full'
BY CompleteFlushed DEF Proceed, Full

LEMMA RejectsFull ==
  ASSUME SoundNow, Full, NEW p, Rejects(p)
  PROVE  Full'
BY CompleteFlushed DEF Rejects, Full, SoundNow

\* After a response that has failed, or was heard last, or is left.
LEMMA AfterRetriesFull ==
  ASSUME SoundNow, Full, NEW p, NEW m, AfterRetries(p, m, messages),
         m.stop \notin {"overflow", "length"} \/ HeardIn(m, messages, missed)
  PROVE  Full'
<1>1. PICK c \in Checked(m, FALSE, messages, saved) :
        IF ~c.plan.on /\ ~Waiting
        THEN Proceed(p, c.messages, saved)
        ELSE messages' = c.messages /\ saved' = saved
  BY DEF AfterRetries
<1>2. messages \in Seq(Entries) /\ saved \in Seq(Entries) /\ Agree(messages, Context(saved), missed)
  BY DEF SoundNow, Sound
<1>3. LeftOf(m, messages, c.messages)
  BY <1>2, CheckedFacts
<1>4. Sound(c.messages, saved, pendingBash, created, missed)
  BY <1>3, SoundDropResponse DEF LeftOf, SoundNow
<1>5. Complete(c.messages, Context(saved))
  <2>1. CASE c.messages = messages
    BY <2>1 DEF Full
  <2>2. CASE c.messages = DropResponse(messages) /\ m.stop \in {"overflow", "length"}
    <3>1. m.stop \in FailedStops \union {"length"}
      BY <2>2 DEF FailedStops
    <3>2. messages # <<>> /\ IsResponse(messages[Len(messages)]) =>
            Failed(messages[Len(messages)]) \/ messages[Len(messages)].id \in missed
      BY <1>2, <2>2, <3>1, HeardLast
    <3>3. QED
      BY <1>2, <2>2, <3>2, CompleteDropped DEF Full
  <2>3. QED
    BY <1>3, <2>1, <2>2 DEF LeftOf
<1>6. QED
  BY <1>1, <1>4, <1>5, ProceedFull DEF Full

LEMMA UserFull ==
  ASSUME SoundNow, Full, Emit(<<Message(created + 1, "user")>>)
  PROVE  Full'
<1>1. Message(created + 1, "user") \in Heardable /\ Message(created + 1, "user").id = created + 1
  BY MessageHeardable, CreatedNat
<1>2. QED
  BY <1>1, CompleteEmitted DEF Full

\* A step while no run is active, or which ends it.
LEMMA WholeIdle ==
  ASSUME Whole, lastAssistant' = None, crossed' = crossed, ~crossed /\ Full => Full'
  PROVE  Whole'
BY DEF Whole, Heard, Full

LEMMA BesideWhole ==
  ASSUME IInv, Calls, Recovers, Whole, NEW p \in Prompts, ~Settled(p), at[p] # "running",
         UNCHANGED <<lastAssistant, crossed>>, ~crossed /\ Full => Full'
  PROVE  Whole'
<1> SUFFICES ASSUME ~crossed' PROVE Whole'
  BY DEF Whole
<1>1. lastAssistant' = None
  BY NoRunBeside DEF Recovers
<1>2. QED
  BY <1>1, WholeIdle

LEMMA StartWhole ==
  ASSUME IInv, Recovers, Whole, SoundNow, run = None, NEW p, NEW first, StartRun(p, first),
         lastAssistant' = lastAssistant,
         UNCHANGED <<messages, saved>> \/ Emit(<<Message(created + 1, "user")>>)
  PROVE  Whole'
<1> SUFFICES ASSUME ~crossed' PROVE Whole'
  BY DEF Whole
<1>1. ~crossed /\ lastAssistant' = None
  BY DEF StartRun, Recovers
<1>2. Full'
  BY <1>1, UserFull DEF Whole, Full
<1>3. QED
  BY <1>1, <1>2 DEF Whole, Heard, Full

\* A message that is emitted in a run.
LEMMA EmitWhole ==
  ASSUME SoundNow, Whole, NEW e \in Heardable, e.id = created + 1, Emit(<<e>>),
         IF connected /\ IsResponse(e) THEN lastAssistant' = e ELSE lastAssistant' = lastAssistant,
         crossed' = crossed
  PROVE  Whole'
<1> SUFFICES ASSUME ~crossed' PROVE Whole'
  BY DEF Whole
<1>1. Heard /\ Full /\ messages \in Seq(Entries) /\ e \in Entries
  BY EntryKinds DEF Whole, Full, SoundNow, Sound
<1>2. messages' = messages \o <<e>> /\ missed \subseteq missed'
  BY DEF Emit
<1>3. Heard'
  <2>1. CASE connected /\ IsResponse(e)
    BY <1>1, <1>2, <2>1, HeardNow DEF Heard
  <2>2. CASE ~(connected /\ IsResponse(e))
    <3>1. ~IsResponse(e) \/ e.id \in missed'
      BY <2>2 DEF Emit, ToSet
    <3>2. QED
      BY <1>1, <1>2, <2>2, <3>1, HeardGrows DEF Heard
  <2>3. QED
    BY <2>1, <2>2
<1>4. Full'
  BY <1>1, CompleteEmitted DEF Full
<1>5. QED
  BY <1>3, <1>4 DEF Whole, Full

LEMMA WholeSame ==
  ASSUME Whole, UNCHANGED <<lastAssistant, messages, saved, missed, crossed>>
  PROVE  Whole'
BY DEF Whole, Heard, HeardIn

LEMMA RunWhole == IInv /\ Data /\ Whole /\ (Respond \/ ToolResult \/ Poll) => Whole'
<1> SUFFICES ASSUME IInv, Data, Whole, Respond \/ ToolResult \/ Poll PROVE Whole'
  OBVIOUS
<1>0. SoundNow /\ crossed' = crossed /\ created \in Nat /\ created + 1 \in Nat
  BY CreatedNat DEF Data, SoundNow, Respond, ToolResult, Poll
<1>1. CASE Respond
  <2>1. PICK stop \in Stops \union {"call", "aborted"} :
          /\ HearResponse(Response(created + 1, stop))
          /\ Emit(<<Response(created + 1, stop)>>)
    BY <1>1 DEF Respond
  <2> DEFINE e == Response(created + 1, stop)
  <2>2. e \in Heardable /\ e.id = created + 1 /\ IsResponse(e)
    BY <1>0, StopsKnown, MessageHeardable DEF Response, IsResponse
  <2>3. Emit(<<e>>) /\ lastAssistant' = IF connected THEN e ELSE lastAssistant
    BY <2>1 DEF HearResponse
  <2> HIDE DEF e
  <2>4. QED
    BY <1>0, <2>2, <2>3, EmitWhole
<1>2. ASSUME NEW k \in {"user", "toolResult"}, Emit(<<Message(created + 1, k)>>),
             lastAssistant' = lastAssistant
      PROVE  Whole'
  <2> DEFINE e == Message(created + 1, k)
  <2>1. e \in Heardable /\ e.id = created + 1 /\ ~IsResponse(e)
    BY <1>0, MessageHeardable DEF Message, IsResponse
  <2> HIDE DEF e
  <2>2. QED
    BY <1>0, <1>2, <2>1, EmitWhole DEF e
<1>3. CASE UNCHANGED <<transcript, recovery>>
  BY <1>0, <1>3, WholeSame DEF transcript, recovery
<1>4. QED
  BY <1>1, <1>2, <1>3 DEF ToolResult, Poll, Inject, HearUser, recovery

LEMMA EndRunWhole ==
  ASSUME NEW p \in Prompts PROVE IInv /\ Data /\ Whole /\ EndRun(p) => Whole'
<1> SUFFICES ASSUME IInv, Data, Whole, EndRun(p) PROVE Whole'
  OBVIOUS
<1>1. lastAssistant' = None /\ crossed' = crossed
  BY DEF EndRun
<1>2. ASSUME ~crossed, Full PROVE Full'
  <2>1. SoundNow /\ Heard /\ messages \in Seq(Entries) /\ Agree(messages, Context(saved), missed)
    BY <1>2 DEF Data, SoundNow, Sound, Whole
  <2>2. CASE Proceed(p, messages, saved)
    BY <1>2, <2>1, <2>2, ProceedFull DEF Full, SoundNow
  <2>3. CASE /\ lastAssistant # None /\ MayRetry(lastAssistant)
             /\ messages' = DropResponse(messages) /\ saved' = saved
    <3>1. HeardIn(lastAssistant, messages, missed)
      BY <2>1, <2>3 DEF Heard
    <3>2. lastAssistant.stop \in FailedStops \union {"length"}
      BY <2>3 DEF MayRetry, FailedStops
    <3>3. messages # <<>> /\ IsResponse(messages[Len(messages)]) =>
            Failed(messages[Len(messages)]) \/ messages[Len(messages)].id \in missed
      BY <2>1, <3>1, <3>2, HeardLast
    <3>4. QED
      BY <1>2, <2>1, <2>3, <3>3, CompleteDropped DEF Full
  <2>4. CASE lastAssistant # None /\ AfterRetries(p, lastAssistant, messages)
    <3>1. HeardIn(lastAssistant, messages, missed)
      BY <2>1, <2>4 DEF Heard
    <3>2. QED
      BY <1>2, <2>1, <2>4, <3>1, AfterRetriesFull
  <2>5. QED
    BY <2>2, <2>3, <2>4 DEF EndRun
<1>3. QED
  BY <1>1, <1>2, WholeIdle

LEMMA RetryWhole ==
  ASSUME NEW p \in Prompts
  PROVE  IInv /\ Data /\ Calls /\ Recovers /\ Whole /\ (RetryCancelled(p) \/ RetryWaited(p))
         => Whole'
<1> SUFFICES ASSUME IInv, Data, Calls, Recovers, Whole, RetryCancelled(p) \/ RetryWaited(p)
             PROVE  Whole'
  OBVIOUS
<1>1. ~Settled(p) /\ at[p] # "running" /\ UNCHANGED <<lastAssistant, crossed>>
  BY DEF RetryCancelled, RetryWaited, Settled
<1>2. ASSUME Full PROVE Full'
  <2>1. CASE RetryCancelled(p)
    <3>1. handled[p].stop = "retryable"
      BY <2>1 DEF RetryCancelled, Recovers
    <3>2. SoundNow /\ AfterRetries(p, handled[p], messages)
      BY <2>1 DEF RetryCancelled, Data, SoundNow
    <3>3. QED
      BY <1>2, <3>1, <3>2, AfterRetriesFull
  <2>2. CASE RetryWaited(p)
    BY <1>2, <2>2 DEF RetryWaited, transcript, Full
  <2>3. QED
    BY <2>1, <2>2
<1>3. QED
  BY <1>1, <1>2, BesideWhole

LEMMA ContinueWhole ==
  ASSUME NEW p \in Prompts
  PROVE  IInv /\ Data /\ Calls /\ Recovers /\ Whole /\ (Continue(p) \/ Launch(p)) => Whole'
<1> SUFFICES ASSUME IInv, Data, Calls, Recovers, Whole, Continue(p) \/ Launch(p)
             PROVE  Whole'
  OBVIOUS
<1>0. SoundNow /\ ~Settled(p) /\ at[p] # "running" /\ lastAssistant' = lastAssistant
  BY DEF Data, SoundNow, Continue, Launch, Settled, recovery, HearUser
<1>1. CASE Rejects(p) /\ crossed' = crossed
  BY <1>0, <1>1, RejectsFull, BesideWhole
<1>2. CASE run = None /\ \E first \in {"model", "turn"} :
             /\ StartRun(p, first)
             /\ UNCHANGED <<messages, saved>> \/ Emit(<<Message(created + 1, "user")>>)
  BY <1>0, <1>2, StartWhole
<1>3. QED
  BY <1>1, <1>2 DEF Continue, Launch, transcript

LEMMA CompactedWhole ==
  ASSUME NEW p \in Prompts
  PROVE  IInv /\ Data /\ Calls /\ Recovers /\ Whole /\ Compacted(p) => Whole'
<1> SUFFICES ASSUME IInv, Data, Calls, Recovers, Whole, Compacted(p) PROVE Whole'
  OBVIOUS
<1>1. ~Settled(p) /\ at[p] # "running" /\ UNCHANGED <<lastAssistant, crossed>>
  BY DEF Compacted, Settled, recovery
<1>2. Full'
  <2> DEFINE w == Append(saved, CompactionEntry(plan[p]))
             new == Context(w)
  <2>1. SoundNow /\ plan[p] \in Plans /\ plan[p].on /\ Cuts(saved, plan[p])
    BY DEF Compacted, PlansFit, Compacting, Data, SoundNow
  <2>2. /\ Sound(new, w, pendingBash, created + 1, missed) /\ new # <<>>
        /\ new \in Seq(Entries)
    <3>1. Sound(new, w, pendingBash, created + 1, missed) /\ new # <<>>
      BY <2>1, CompactionSound DEF SoundNow
    <3> HIDE DEF w, new
    <3>2. QED
      BY <3>1 DEF Sound
  <2>3. Complete(new, Context(w))
    BY CompleteSelf
  <2>4. \/ saved' = w /\ messages' = new
        \/ /\ saved' = w /\ messages' = Front(new)
           /\ IsResponse(new[Len(new)]) /\ new[Len(new)].stop \in FailedStops
        \/ Proceed(p, new, w)
    BY DEF Compacted, Rebuilt
  <2> DEFINE v == Context(w)
  <2>5. Complete(new, v) /\ \A m : Complete(m, v) <=> Complete(m, Context(w))
    BY <2>3
  <2> HIDE DEF new, v, w
  <2>6. CASE saved' = w /\ messages' = new
    BY <2>3, <2>6 DEF Full
  <2>7. CASE /\ saved' = w /\ messages' = Front(new)
             /\ IsResponse(new[Len(new)]) /\ new[Len(new)].stop \in FailedStops
    <3>1. Complete(Front(new), v)
      BY <2>2, <2>5, <2>7, CompleteFront DEF Failed
    <3>2. QED
      BY <2>5, <2>7, <3>1 DEF Full
  <2>8. CASE Proceed(p, new, w)
    BY <2>2, <2>3, <2>8, ProceedFull
  <2>9. QED
    BY <2>4, <2>6, <2>7, <2>8
<1>3. QED
  BY <1>1, <1>2, BesideWhole

LEMMA CompactionFailedWhole ==
  ASSUME NEW p \in Prompts
  PROVE  IInv /\ Data /\ Calls /\ Recovers /\ Whole /\ CompactionFailed(p) => Whole'
<1> SUFFICES ASSUME IInv, Data, Calls, Recovers, Whole, CompactionFailed(p) PROVE Whole'
  OBVIOUS
<1>1. ~Settled(p) /\ at[p] # "running" /\ UNCHANGED <<lastAssistant, crossed>>
  BY DEF CompactionFailed, Settled, recovery
<1>2. ASSUME Full PROVE Full'
  <2>1. CASE Proceed(p, messages, saved)
    BY <1>2, <2>1, ProceedFull DEF Data, Full
  <2>2. CASE UNCHANGED <<messages, saved>>
    BY <1>2, <2>2 DEF Full
  <2>3. QED
    BY <2>1, <2>2 DEF CompactionFailed
<1>3. QED
  BY <1>1, <1>2, BesideWhole

LEMMA EnterIdleWhole ==
  ASSUME NEW p \in Prompts
  PROVE  IInv /\ Data /\ Recovers /\ Whole /\ EnterIdle(p) => Whole'
<1> SUFFICES ASSUME IInv, Data, Recovers, Whole, EnterIdle(p) PROVE Whole'
  OBVIOUS
<1>1. lastAssistant' = None /\ crossed' = crossed
  BY DEF EnterIdle, Recovers
<1>2. ASSUME Full PROVE Full'
  <2> DEFINE msgs == Flushed(messages)
             path == Flushed(saved)
             v == Context(path)
             m == msgs[Max(Responses(msgs))]
  <2>1. saved' = path /\ Sound(messages, saved, pendingBash, created, missed)
    BY DEF EnterIdle, Data
  <2>2. Complete(msgs, v) /\ Sound(msgs, path, <<>>, created, missed)
    BY <1>2, <2>1, CompleteFlushed, FlushSound DEF Full
  <2>3. messages' = msgs \/ \E c \in Checked(m, TRUE, msgs, path) : messages' = c.messages
    BY <2>1 DEF EnterIdle
  <2>4. msgs # <<>> /\ IsResponse(msgs[Len(msgs)]) => m = msgs[Len(msgs)]
    <3>1. messages \in Seq(Entries) /\ pendingBash \in Seq(Entries)
      BY <2>1, BashIsEntry DEF Sound
    <3>2. msgs \in Seq(Entries)
      BY <3>1, ConcatFacts DEF Flushed
    <3> HIDE DEF msgs
    <3>3. QED
      BY <3>2, NewestResponse
  <2>5. Full' <=> Complete(messages', v)
    BY <2>1 DEF Full
  <2> HIDE DEF msgs, path, v, m
  <2>6. /\ msgs \in Seq(Entries) /\ path \in Seq(Entries) /\ Agree(msgs, v, missed)
    BY <2>2 DEF Sound, v
  <2>7. ASSUME NEW c \in Checked(m, TRUE, msgs, path) PROVE Complete(c.messages, v)
    <3>1. LeftOf(m, msgs, c.messages)
      BY <2>6, <2>7, CheckedFacts
    <3>2. CASE c.messages = msgs
      BY <2>2, <3>2
    <3>3. CASE c.messages = DropResponse(msgs) /\ m.stop \in {"overflow", "length"}
      <4>1. msgs # <<>> /\ IsResponse(msgs[Len(msgs)]) => Failed(msgs[Len(msgs)])
        BY <2>4, <3>3 DEF Failed, FailedStops
      <4>2. QED
        BY <2>2, <2>6, <3>3, <4>1, CompleteDropped
    <3>4. QED
      BY <3>1, <3>2, <3>3 DEF LeftOf
  <2>8. QED
    BY <2>2, <2>3, <2>5, <2>7
<1>3. QED
  BY <1>1, <1>2, WholeIdle

LEMMA RecordBashWhole == IInv /\ Data /\ Recovers /\ Whole /\ RecordBash => Whole'
<1> SUFFICES ASSUME IInv, Data, Recovers, Whole, RecordBash PROVE Whole'
  OBVIOUS
<1> DEFINE m == Message(created + 1, "bash")
<1>0. UNCHANGED <<lastAssistant, missed, crossed>>
  BY DEF RecordBash, recovery
<1>1. CASE UNCHANGED <<messages, saved>>
  BY <1>0, <1>1, WholeSame
<1>2. CASE run = None /\ messages' = Append(messages, m) /\ saved' = Append(saved, m)
  <2>1. /\ messages \in Seq(Entries) /\ saved \in Seq(Entries) /\ Once(saved) /\ KeptThere(saved)
        /\ Numbered(saved, created) /\ created \in Nat
    BY DEF Data, SoundNow, Sound
  <2>2. m \in Heardable /\ m \in Entries /\ m.id = created + 1 /\ InContext(m)
    BY <2>1, MessageHeardable, EntryKinds
  <2> HIDE DEF m
  <2> DEFINE t == <<m>>
  <2>3. t \in Seq(Entries) /\ DOMAIN t = {1} /\ t[1] = m
    BY <2>2
  <2>4. messages' = messages \o t /\ saved' = saved \o t
    BY <1>2, <2>1, <2>2, AppendIsConcat
  <2> HIDE DEF t
  <2>5. Once(t) /\ Apart(saved, t) /\ \A i \in DOMAIN t : InContext(t[i])
    BY <2>1, <2>2, <2>3 DEF Once, Apart, Numbered
  <2>6. Context(saved \o t) = Context(saved) \o t /\ Context(saved) \in Seq(Entries)
    BY <2>1, <2>3, <2>5, ContextConcat, ContextFromPath
  <2>7. Full => Full'
    BY <2>1, <2>3, <2>4, <2>6, CompleteGrows DEF Full
  <2>8. QED
    BY <1>0, <1>2, <2>7, WholeIdle DEF Recovers
<1>3. QED
  BY <1>1, <1>2 DEF RecordBash, Defers

LEMMA CompactDoneWhole ==
  ASSUME NEW c \in Compacts
  PROVE  IInv /\ Data /\ Calls /\ Recovers /\ Whole /\ CompactDone(c) => Whole'
<1> SUFFICES ASSUME IInv, Data, Calls, Recovers, Whole, CompactDone(c), ~crossed' PROVE Whole'
  BY DEF Whole
<1>1. crossed' = crossed /\ lastAssistant' = lastAssistant /\ manual[c] = "summarizing"
  BY DEF CompactDone, recovery
<1>2. lastAssistant' = None
  BY <1>1 DEF Calls, Alone, Recovers
<1>3. messages' = Context(saved')
  BY DEF CompactDone, Rebuilt
<1>4. Full'
  BY <1>3, CompleteSelf DEF Full
<1>5. QED
  BY <1>1, <1>2, <1>4, WholeIdle

LEMMA OtherWhole ==
  ASSUME Whole,
         \/ \E p \in Prompts : Enter(p)
         \/ Steer \/ Abort \/ UNCHANGED vars
         \/ \E c \in Compacts : Compact(c) \/ CompactPrepares(c) \/ CompactFailed(c)
  PROVE  Whole'
BY WholeSame DEF Enter, Steer, Abort, Compact, CompactPrepares, CompactFailed, vars, transcript,
                 recovery

LEMMA WholeInit == Init => Whole
<1> SUFFICES ASSUME Init PROVE Whole
  OBVIOUS
<1>1. messages = <<>> /\ saved = <<>> /\ lastAssistant = None
  BY DEF Init
<1>2. Context(saved) = saved
  <2>1. saved \in Seq(Entries)
    BY <1>1
  <2>2. LastCompaction(saved) = 0
    <3>1. LastCompaction(saved) # 0 => LastCompaction(saved) \in DOMAIN saved
      BY <2>1, NewestCompaction
    <3>2. QED
      BY <1>1, <3>1
  <2>3. QED
    BY <2>2 DEF Context
<1>3. QED
  BY <1>1, <1>2 DEF Whole, Heard, Complete

LEMMA WholeStep == IInv /\ Data /\ Calls /\ Recovers /\ Whole /\ [Next]_vars => Whole'
BY RunWhole, EndRunWhole, RetryWhole, ContinueWhole, CompactedWhole, CompactionFailedWhole,
   EnterIdleWhole, RecordBashWhole, CompactDoneWhole, OtherWhole
   DEF Next, Run, Manual, User, Call

LEMMA WholeAgrees == Data /\ Whole => SavedAgrees
BY DEF Data, Sound, Agree, Whole, Complete, SavedAgrees

------------------------------------------------------------------------------
(* The rest of the types *)

\* The rest of the types.
Ranges ==
  /\ before \subseteq Prompts /\ overflowTried \in BOOLEAN /\ crossed \in BOOLEAN
  /\ failures \in Nat /\ retryAttempt \in 0..MaxRetries /\ autoController \in BOOLEAN

LEMMA HearingRanges ==
  ASSUME Ranges, HearUser \/ \E m : HearResponse(m)
  PROVE  overflowTried' \in BOOLEAN /\ failures' \in Nat /\ retryAttempt' \in 0..MaxRetries
<1>1. overflowTried' \in BOOLEAN
  <2>1. CASE HearUser
    BY <2>1 DEF HearUser
  <2>2. ASSUME NEW m, HearResponse(m) PROVE overflowTried' \in BOOLEAN
    BY <2>2 DEF HearResponse
  <2>3. QED
    BY <2>1, <2>2
<1>2. 0 \in 0..MaxRetries
  BY AgentSessionAssumption
<1>3. failures' \in Nat /\ retryAttempt' \in 0..MaxRetries
  BY <1>2 DEF Ranges, HearUser, HearResponse
<1>4. QED
  BY <1>1, <1>3

LEMMA CheckedTried ==
  ASSUME NEW m, NEW ahead, NEW msgs, NEW path, NEW c \in Checked(m, ahead, msgs, path)
  PROVE  c.tried \in BOOLEAN
<1>1. PICK pl : c = [plan |-> pl,
                     messages |-> IF Reason(m, ahead, msgs, path) = "overflow"
                                  THEN DropResponse(msgs) ELSE msgs,
                     tried |-> overflowTried \/ Reason(m, ahead, msgs, path) = "overflow"]
  BY DEF Checked
<1>2. QED
  BY <1>1

LEMMA AfterRetriesRanges ==
  ASSUME Ranges, NEW p, NEW m, NEW msgs, AfterRetries(p, m, msgs)
  PROVE  before' \subseteq Prompts /\ overflowTried' \in BOOLEAN /\ autoController' \in BOOLEAN
<1>1. overflowTried' \in BOOLEAN
  <2>1. PICK c \in Checked(m, FALSE, msgs, saved) : overflowTried' = c.tried
    BY DEF AfterRetries
  <2>2. QED
    BY <2>1, CheckedTried
<1>2. before' \subseteq before
  BY DEF AfterRetries, Proceed
<1>3. autoController' \in BOOLEAN
  BY DEF AfterRetries
<1>4. QED
  BY <1>1, <1>2, <1>3 DEF Ranges

LEMMA EndRunRanges == ASSUME NEW p \in Prompts PROVE Ranges /\ EndRun(p) => Ranges'
<1> SUFFICES ASSUME Ranges, EndRun(p) PROVE Ranges'
  OBVIOUS
<1>1. failures' \in Nat /\ crossed' \in BOOLEAN
  BY DEF EndRun, Ranges
<1>2. retryAttempt' \in 0..MaxRetries
  BY AgentSessionAssumption DEF EndRun, Ranges, MayRetry
<1>3. before' \subseteq Prompts /\ overflowTried' \in BOOLEAN /\ autoController' \in BOOLEAN
  BY AfterRetriesRanges DEF EndRun, Ranges, Proceed
<1>4. QED
  BY <1>1, <1>2, <1>3 DEF Ranges

LEMMA CallRanges == ASSUME NEW p \in Prompts PROVE Ranges /\ Call(p) => Ranges'
<1> SUFFICES ASSUME Ranges, Call(p) PROVE Ranges'
  OBVIOUS
<1>1. CASE EndRun(p)
  BY <1>1, EndRunRanges
<1>2. CASE RetryCancelled(p)
  BY <1>2, AfterRetriesRanges, AgentSessionAssumption DEF RetryCancelled, Ranges
<1>3. CASE RetryWaited(p)
  BY <1>3 DEF RetryWaited, Ranges
<1>4. CASE Compacted(p)
  BY <1>4 DEF Compacted, Proceed, recovery, Ranges
<1>5. CASE CompactionFailed(p)
  BY <1>5 DEF CompactionFailed, Proceed, recovery, Ranges
<1>6. CASE Continue(p) \/ Launch(p)
  <2>1. before' \subseteq before /\ crossed' \in BOOLEAN /\ autoController' = autoController
    BY <1>6 DEF Continue, Launch, Rejects, StartRun, Ranges
  <2>2. HearUser \/ UNCHANGED recovery
    BY <1>6 DEF Continue, Launch
  <2>3. QED
    BY <2>1, <2>2, HearingRanges DEF recovery, Ranges
<1>7. QED
  BY <1>1, <1>2, <1>3, <1>4, <1>5, <1>6 DEF Call

LEMMA RunRanges == Ranges /\ (Respond \/ ToolResult \/ Poll) => Ranges'
<1> SUFFICES ASSUME Ranges, Respond \/ ToolResult \/ Poll PROVE Ranges'
  OBVIOUS
<1>1. before' = before /\ crossed' = crossed /\ autoController' = autoController
  BY DEF Respond, ToolResult, Poll, callers
<1>2. HearUser \/ (\E m : HearResponse(m)) \/ UNCHANGED recovery
  BY DEF Respond, ToolResult, Poll, Inject
<1>3. QED
  BY <1>1, <1>2, HearingRanges DEF recovery, Ranges

LEMMA OtherRanges ==
  ASSUME Ranges,
         \/ Steer \/ RecordBash \/ Abort \/ UNCHANGED vars
         \/ \E c \in Compacts : Manual(c) \/ Compact(c)
         \/ \E p \in Prompts : Enter(p) \/ EnterIdle(p)
  PROVE  Ranges'
<1>1. UNCHANGED <<before, crossed, failures, retryAttempt>>
  BY DEF Manual, Steer, RecordBash, Abort, Compact, vars, Enter, EnterIdle, CompactPrepares,
         CompactDone, CompactFailed, callers, recovery
<1>2. overflowTried' \in BOOLEAN
  <2>1. CASE \E p \in Prompts : EnterIdle(p)
    <3> DEFINE msgs == Flushed(messages)
               m == msgs[Max(Responses(msgs))]
    <3>1. overflowTried' = overflowTried \/
            \E path : \E c \in Checked(m, TRUE, msgs, path) : overflowTried' = c.tried
      BY <2>1 DEF EnterIdle
    <3> HIDE DEF m, msgs
    <3>2. QED
      BY <3>1, CheckedTried DEF Ranges
  <2>2. CASE overflowTried' = overflowTried
    BY <2>2 DEF Ranges
  <2>3. QED
    BY <2>1, <2>2 DEF Manual, Steer, RecordBash, Abort, Compact, vars, Enter, CompactPrepares,
                      CompactDone, CompactFailed, recovery
<1>3. autoController' \in BOOLEAN
  <2>1. CASE \E p \in Prompts : EnterIdle(p)
    BY <2>1 DEF EnterIdle, Ranges
  <2>2. CASE autoController' = autoController
    BY <2>2 DEF Ranges
  <2>3. QED
    BY <2>1, <2>2 DEF Manual, Steer, RecordBash, Abort, Compact, vars, Enter, CompactPrepares,
                      CompactDone, CompactFailed, callers
<1>4. QED
  BY <1>1, <1>2, <1>3 DEF Ranges

LEMMA RangesInit == Init => Ranges
<1>1. 0 \in 0..MaxRetries /\ 0 \in Nat
  BY AgentSessionAssumption
<1>2. QED
  BY <1>1 DEF Init, Ranges

LEMMA RangesStep == Ranges /\ [Next]_vars => Ranges'
BY CallRanges, RunRanges, OtherRanges DEF Next, Run, User

LEMMA TypesKnown == IInv /\ Data /\ Queued /\ Ranges => TypeOK
<1> SUFFICES ASSUME IInv, Data, Queued, Ranges PROVE TypeOK
  OBVIOUS
<1>1. /\ created \in Nat /\ missed \subseteq 1..created
      /\ \A s \in {messages, saved, pendingBash} : \A i \in DOMAIN s : s[i].id \in 1..created
  BY DEF Data, Sound, Numbered
<1>2. QED
  BY <1>1 DEF IInv, Types, Queued, Ranges, TypeOK

------------------------------------------------------------------------------
(* The theorems *)

Inv == /\ IInv /\ Data /\ Bashes /\ Begins /\ Queued /\ Calls /\ Recovers /\ Whole
       /\ Ranges

LEMMA InvHolds == Spec => []Inv
<1>1. Init => Inv
  BY IInvInit, DataInit, BashesInit, BeginsInit, QueuedInit, CallsInit, RecoversInit, WholeInit,
     RangesInit DEF Inv
<1>2. Inv /\ [Next]_vars => Inv'
  <2> SUFFICES ASSUME Inv, [Next]_vars PROVE Inv'
    OBVIOUS
  <2>1. IInv' /\ Data' /\ Bashes' /\ Begins' /\ Queued'
    BY IInvStep, DataStep, BashesStep, BeginsStep, QueuedStep DEF Inv
  <2>2. Calls' /\ Recovers' /\ Whole' /\ Ranges'
    BY CallsStep, RecoversStep, WholeStep, RangesStep DEF Inv
  <2>3. QED
    BY <2>1, <2>2 DEF Inv
<1>3. QED
  BY <1>1, <1>2, PTL DEF Spec

\* Every variable has its type; the ids of messages, entries and waiting results are
\* those that were given out, and no series of retries exceeds its maximum.
THEOREM TypesHold == Spec => []TypeOK
<1>1. Inv => TypeOK
  BY TypesKnown DEF Inv
<1>2. QED
  BY <1>1, InvHolds, PTL

\* However many calls of prompt() and compact() are in progress, a run belongs to
\* exactly the call that waits for it, no idle agent is aborted, a session that does
\* not listen to the agent has a compact() in progress, at whose end it listens
\* again, and there is a compaction to cancel only while one is past its abort().
THEOREM OneRunAtATime == Spec => []OneRun
<1>1. Inv => OneRun
  BY DEF Inv, IInv
<1>2. QED
  BY <1>1, InvHolds, PTL

\* A bash result that recordBashResult() takes is saved exactly once, whether it is
\* deferred by a run or not and whichever call flushes it, and none waits in a
\* session at rest.
THEOREM BashResultsSavedOnce == Spec => []BashSavedOnce
<1>1. Inv => BashSavedOnce
  BY BashesSaved DEF Inv
<1>2. QED
  BY <1>1, InvHolds, PTL

\* A session at rest that has heard of everything has no message of steer(),
\* followUp() or prompt() left in the agent's queues: every way a call can end,
\* after errors, retries and compactions too, looks at the queues first.
THEOREM QueueNeverStranded == Spec => []NothingStranded
<1>1. Inv => NothingStranded
  BY QueuedStranded DEF Inv
<1>2. QED
  BY <1>1, InvHolds, PTL

\* A tool result follows its call at once in the transcript and on the path,
\* through deferred bash results, dropped responses and compactions, as long as no
\* run was started beside another call.
THEOREM CallsStayPaired == Spec => []CallsPaired
<1>1. Inv => CallsPaired
  BY CallsArePaired DEF Inv
<1>2. QED
  BY <1>1, InvHolds, PTL

\* The agent's transcript is the context of the saved path, message for message and
\* in its order, but for what was emitted while the session did not listen; and as
\* long as no run was started beside another call, only failed responses of the
\* path are off it.
THEOREM TranscriptAgrees == Spec => []SavedAgrees
<1>1. Inv => SavedAgrees
  BY WholeAgrees DEF Inv
<1>2. QED
  BY <1>1, InvHolds, PTL
===============================================================================
