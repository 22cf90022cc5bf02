--------------------------- MODULE SharedFilesProofs ---------------------------
(***************************************************************************)
(* Proofs about what the calls of one process, or the instances of         *)
(* several, do to the files they share: the queue of the write and edit    *)
(* tools (FileMutationQueue), for every set of operations, paths and       *)
(* links, and the locked credentials file (AuthStorage), for every set of  *)
(* instances and calls and every bound.                                    *)
(***************************************************************************)
EXTENDS AuthStorage, FileMutationQueue, TLAPS

------------------------------------------------------------------------------
(* The queue.  The inductive invariant says that the tickets of a key      *)
(* order its operations, that pred and tail follow that order without a    *)
(* gap, and that only the first unfinished operation of a key is inside    *)
(* its body.                                                               *)

USE QueueAssumption

\* Tickets number the calls; those served are the ones enqueued or rejected.
Tickets ==
  /\ served <= issued
  /\ \A o \in Ops :
       /\ ticket[o] <= issued
       /\ phase[o] = "idle" <=> ticket[o] = 0
       /\ phase[o] = "called" => served < ticket[o]
       /\ phase[o] = "resolved" => ticket[o] = served + 1
       /\ o \in Enqueued => ticket[o] <= served
  /\ \A o1, o2 \in Ops : ticket[o1] = ticket[o2] /\ ticket[o1] # 0 => o1 = o2

\* The entry of a key is its last operation, which is unfinished.
Tails ==
  \A p \in Paths :
    IF tail[p] = NoOp
    THEN \A o \in Enqueued : key[o] = p => phase[o] = "done"
    ELSE /\ tail[p] \in Enqueued /\ key[tail[p]] = p /\ phase[tail[p]] # "done"
         /\ \A o \in Enqueued : key[o] = p => ticket[o] <= ticket[tail[p]]

\* pred[o] is the operation just before o on its key; if it is none, all the
\* operations before o had finished.
Preds ==
  \A o \in Enqueued :
    IF pred[o] = NoOp
    THEN \A q \in Enqueued :
           key[q] = key[o] /\ ticket[q] < ticket[o] => phase[q] = "done"
    ELSE /\ pred[o] \in Enqueued /\ key[pred[o]] = key[o]
         /\ \A q \in Enqueued :
              key[q] = key[o] /\ ticket[q] < ticket[o]
                => ticket[q] <= ticket[pred[o]]

IInv == QueueTypeOK /\ Tickets /\ Tails /\ Preds /\ StartOrder

------------------------------------------------------------------------------
\* What an operation writes is a text, and is not empty.
LEMMA TextTyped ==
  ASSUME QueueTypeOK, NEW o \in Ops
  PROVE  Text(o) \in Texts /\ Text(o) # <<>> /\ <<Part>> \in Texts /\ <<>> \in Texts
<1> DEFINE Chunk == Ops \union {Part}
<1>1. ASSUME NEW b \in Seq(Chunk), NEW c \in Chunk
      PROVE  /\ Append(b, c) \in Seq(Chunk) /\ Append(b, c) # <<>>
             /\ <<c>> \in Seq(Chunk) /\ <<>> \in Seq(Chunk)
  <2> HIDE DEF Chunk
  <2>1. QED
    OBVIOUS
<1>2. buf[o] \in Seq(Chunk) /\ o \in Chunk /\ Part \in Chunk
  BY DEF QueueTypeOK, Texts
<1> HIDE DEF Chunk
<1>3. /\ Text(o) \in Seq(Chunk) /\ Text(o) # <<>>
      /\ <<Part>> \in Seq(Chunk) /\ <<>> \in Seq(Chunk)
  BY <1>1, <1>2 DEF Text
<1>4. QED
  BY <1>3 DEF Chunk, Texts

(* Type correctness: every variable keeps its type whatever the calls do. *)
THEOREM TypeCorrect == QueueSpec => []QueueTypeOK
<1>1. QueueInit => QueueTypeOK
  <2>1. <<>> \in Texts
    BY DEF Texts
  <2>2. QED
    BY <2>1 DEF QueueInit, QueueTypeOK, Phases, Files
<1>2. QueueTypeOK /\ [QueueNext]_queueVars => QueueTypeOK'
  <2> SUFFICES ASSUME QueueTypeOK, [QueueNext]_queueVars PROVE QueueTypeOK'
    OBVIOUS
  <2> USE DEF QueueTypeOK, Files, File
  <2>0. {"called", "resolved", "failed", "queued", "running", "read", "writing", "unlinked",
         "written", "done"} \subseteq Phases
    BY DEF Phases
  <2>1. ASSUME NEW o \in Ops, Call(o) PROVE QueueTypeOK'
    BY <2>0, <2>1 DEF Call
  <2>2. ASSUME NEW o \in Ops, Resolve(o) PROVE QueueTypeOK'
    BY <2>0, <2>2 DEF Resolve, MutationQueueKey
  <2>3. ASSUME NEW o \in Ops, ResolveFails(o) PROVE QueueTypeOK'
    BY <2>0, <2>3 DEF ResolveFails
  <2>4. ASSUME NEW o \in Ops, Enqueue(o) PROVE QueueTypeOK'
    BY <2>0, <2>4 DEF Enqueue
  <2>5. ASSUME NEW o \in Ops, Start(o) PROVE QueueTypeOK'
    BY <2>0, <2>5 DEF Start
  <2>6. ASSUME NEW o \in Ops, Read(o) PROVE QueueTypeOK'
    BY <2>0, <2>6 DEF Read
  <2>7. ASSUME NEW o \in Ops, Open(o) \/ Write(o) PROVE QueueTypeOK'
    <3>1. Text(o) \in Texts /\ <<Part>> \in Texts
      BY TextTyped
    <3>2. CASE Open(o)
      BY <2>0, <3>1, <3>2 DEF Open
    <3>3. CASE Write(o)
      BY <2>0, <3>1, <3>3 DEF Write
    <3>4. QED
      BY <2>7, <3>2, <3>3
  <2>8. ASSUME NEW o \in Ops, Finish(o) PROVE QueueTypeOK'
    BY <2>0, <2>8 DEF Finish, Inside
  <2>9. ASSUME NEW f \in Files, Remove(f) PROVE QueueTypeOK'
    BY <2>0, <2>9 DEF Remove
  <2>10. CASE UNCHANGED queueVars
    BY <2>10 DEF queueVars
  <2>11. QED
    BY <2>1, <2>2, <2>3, <2>4, <2>5, <2>6, <2>7, <2>8, <2>9, <2>10
       DEF QueueNext, Step
<1>3. QED
  BY <1>1, <1>2, PTL DEF QueueSpec

------------------------------------------------------------------------------
(* The inductive invariant. *)

LEMMA InitIInv == QueueInit => IInv
BY DEF QueueInit, IInv, QueueTypeOK, Texts, Phases, Files, Tickets, Tails, Preds, StartOrder,
       Enqueued

LEMMA CallIInv ==
  ASSUME IInv, QueueTypeOK', NEW o \in Ops, Call(o)
  PROVE  IInv'
<1>1. /\ Enqueued' = Enqueued
      /\ \A q \in Enqueued : q \in Ops /\ ticket'[q] = ticket[q] /\ phase'[q] = phase[q]
      /\ UNCHANGED <<key, pred, tail>>
  BY DEF Enqueued, Call, IInv, QueueTypeOK
<1>2. Tickets'
  BY <1>1 DEF Tickets, Enqueued, Call, IInv, QueueTypeOK
<1>3. Tails'
  BY <1>1 DEF Tails, IInv
<1>4. Preds'
  BY <1>1 DEF Preds, IInv
<1>5. StartOrder'
  BY <1>1 DEF StartOrder, IInv
<1>6. QED
  BY <1>2, <1>3, <1>4, <1>5 DEF IInv

\* The steps before a call joins the chain of its key do not touch the chains.
LEMMA RegistrationIInv ==
  ASSUME IInv, QueueTypeOK', NEW o \in Ops, Resolve(o) \/ ResolveFails(o)
  PROVE  IInv'
<1> USE DEF Resolve, ResolveFails, Turn
<1>1. /\ Enqueued' = Enqueued
      /\ \A q \in Enqueued : q \in Ops /\ key'[q] = key[q] /\ phase'[q] = phase[q]
      /\ UNCHANGED <<ticket, pred, tail>>
  BY DEF Enqueued, IInv, QueueTypeOK
<1>2. Tickets'
  <2>1. served' <= issued'
    BY DEF Tickets, IInv, QueueTypeOK
  <2>0. \A q \in Ops : q # o => ticket[q] # served + 1
    <3>1. ticket[o] = served + 1 /\ ticket[o] # 0
      BY DEF IInv, QueueTypeOK
    <3>2. QED
      BY <3>1 DEF Tickets, IInv
  <2>2. \A q \in Ops : q # o /\ phase[q] = "called" => served' < ticket[q]
    <3> SUFFICES ASSUME NEW q \in Ops, q # o, phase[q] = "called" PROVE served' < ticket[q]
      OBVIOUS
    <3>1. served < ticket[q] /\ ticket[q] # served + 1 /\ ticket[q] \in Nat /\ served \in Nat
      BY <2>0 DEF Tickets, IInv, QueueTypeOK
    <3>2. served' \in {served, served + 1}
      OBVIOUS
    <3>3. QED
      BY <3>1, <3>2
  <2>3. \A q \in Ops : phase[q] # "resolved"
    BY <2>0 DEF Tickets, IInv
  <2>4. /\ \A q \in Ops : q # o => phase'[q] = phase[q]
        /\ phase'[o] \in {"resolved", "failed"}
        /\ phase'[o] = "resolved" => ticket[o] = served' + 1
        /\ ticket[o] # 0 /\ served <= served' /\ issued' = issued
    BY DEF IInv, QueueTypeOK
  <2>5. QED
    BY <1>1, <2>1, <2>2, <2>3, <2>4 DEF Tickets, IInv, QueueTypeOK
<1>3. Tails'
  BY <1>1 DEF Tails, IInv
<1>4. Preds'
  BY <1>1 DEF Preds, IInv
<1>5. StartOrder'
  BY <1>1 DEF StartOrder, IInv
<1>6. QED
  BY <1>2, <1>3, <1>4, <1>5 DEF IInv

LEMMA EnqueueIInv ==
  ASSUME IInv, QueueTypeOK', NEW o \in Ops, Enqueue(o)
  PROVE  IInv'
<1>1. /\ Enqueued' = Enqueued \union {o} /\ o \notin Enqueued
      /\ \A q \in Enqueued : q \in Ops /\ phase'[q] = phase[q] /\ pred'[q] = pred[q]
      /\ phase'[o] = "queued" /\ pred'[o] = tail[key[o]] /\ key[o] \in Paths
      /\ UNCHANGED <<key, ticket>>
      /\ \A p \in Paths : tail'[p] = IF p = key[o] THEN o ELSE tail[p]
  BY DEF Enqueued, Enqueue, IInv, QueueTypeOK
<1>2. \A q \in Enqueued : ticket[q] \in Nat /\ ticket[o] \in Nat /\ ticket[q] < ticket[o]
  BY <1>1 DEF Tickets, Enqueued, Enqueue, IInv, QueueTypeOK
<1>3. Tickets'
  <2>1. \A q \in Ops : q # o => phase[q] # "resolved"
    BY DEF Tickets, Enqueue, IInv, QueueTypeOK
  <2>2. \A q \in Ops : q # o /\ phase[q] = "called" => served' < ticket[q]
    BY DEF Tickets, Enqueue, IInv, QueueTypeOK
  <2>3. QED
    BY <1>1, <2>1, <2>2 DEF Tickets, Enqueue, IInv, QueueTypeOK
<1>4. Tails'
  <2> SUFFICES ASSUME NEW p \in Paths
               PROVE  IF tail'[p] = NoOp
                      THEN \A q \in Enqueued' : key[q] = p => phase'[q] = "done"
                      ELSE /\ tail'[p] \in Enqueued' /\ key[tail'[p]] = p
                           /\ phase'[tail'[p]] # "done"
                           /\ \A q \in Enqueued' :
                                key[q] = p => ticket[q] <= ticket[tail'[p]]
    BY <1>1 DEF Tails
  <2>1. CASE p = key[o]
    BY <2>1, <1>1, <1>2 DEF IInv, QueueTypeOK
  <2>2. CASE p # key[o]
    BY <2>2, <1>1 DEF Tails, IInv
  <2>3. QED
    BY <2>1, <2>2
<1>5. Preds'
  <2> SUFFICES ASSUME NEW p \in Enqueued'
               PROVE  IF pred'[p] = NoOp
                      THEN \A q \in Enqueued' :
                             key[q] = key[p] /\ ticket[q] < ticket[p]
                               => phase'[q] = "done"
                      ELSE /\ pred'[p] \in Enqueued' /\ key[pred'[p]] = key[p]
                           /\ \A q \in Enqueued' :
                                key[q] = key[p] /\ ticket[q] < ticket[p]
                                  => ticket[q] <= ticket[pred'[p]]
    BY <1>1 DEF Preds
  <2>1. CASE p = o
    BY <2>1, <1>1, <1>2 DEF Tails, IInv, QueueTypeOK
  <2>2. CASE p # o
    <3>1. p \in Enqueued /\ ~(ticket[o] < ticket[p])
      BY <2>2, <1>1, <1>2
    <3>2. QED
      BY <3>1, <1>1 DEF Preds, IInv
  <2>3. QED
    BY <2>1, <2>2
<1>6. StartOrder'
  <2> SUFFICES ASSUME NEW q \in Enqueued', NEW p \in Enqueued', key[q] = key[p],
                      ticket[q] < ticket[p], phase'[p] # "queued"
               PROVE  phase'[q] = "done"
    BY <1>1 DEF StartOrder
  <2>1. p \in Enqueued /\ q \in Enqueued
    <3>1. p \in Enqueued
      BY <1>1
    <3>2. QED
      BY <1>1, <1>2, <3>1
  <2>2. QED
    BY <2>1, <1>1 DEF StartOrder, IInv
<1>7. QED
  BY <1>3, <1>4, <1>5, <1>6 DEF IInv

\* A step inside the queue that moves only the phase of an operation and
\* starts or finishes none.
LEMMA PhaseOnly ==
  ASSUME IInv, QueueTypeOK', Enqueued' = Enqueued,
         UNCHANGED <<issued, served, ticket, key, pred, tail>>,
         \A q \in Ops : (phase'[q] = "done" <=> phase[q] = "done")
                       /\ (phase'[q] = "idle" <=> phase[q] = "idle")
                       /\ (phase'[q] = "called" <=> phase[q] = "called")
                       /\ (phase'[q] = "resolved" <=> phase[q] = "resolved")
  PROVE  Tickets' /\ Tails' /\ Preds'
<1>1. Enqueued \subseteq Ops
  BY DEF Enqueued
<1>2. Tickets'
  BY <1>1 DEF Tickets, IInv
<1>3. Tails'
  BY <1>1 DEF Tails, IInv
<1>4. Preds'
  BY <1>1 DEF Preds, IInv
<1>5. QED
  BY <1>2, <1>3, <1>4

LEMMA StartIInv ==
  ASSUME IInv, QueueTypeOK', NEW o \in Ops, Start(o)
  PROVE  IInv'
<1>1. /\ Enqueued' = Enqueued /\ o \in Enqueued /\ Enqueued \subseteq Ops
      /\ UNCHANGED <<issued, served, ticket, key, pred, tail>>
      /\ phase[o] = "queued" /\ phase'[o] = "running"
      /\ \A q \in Ops : q # o => phase'[q] = phase[q]
  BY DEF Enqueued, Start, IInv, QueueTypeOK
<1>2. \A q \in Enqueued :
        key[q] = key[o] /\ ticket[q] < ticket[o] => phase[q] = "done"
  <2> SUFFICES ASSUME NEW q \in Enqueued, key[q] = key[o], ticket[q] < ticket[o]
               PROVE phase[q] = "done"
    OBVIOUS
  <2>1. CASE pred[o] = NoOp
    BY <2>1, <1>1 DEF Preds, IInv
  <2>2. CASE pred[o] # NoOp
    <3>1. /\ pred[o] \in Enqueued /\ phase[pred[o]] = "done"
          /\ key[pred[o]] = key[o] /\ ticket[q] <= ticket[pred[o]]
          /\ pred[o] \in Ops /\ q \in Ops /\ ticket[q] \in Nat
          /\ ticket[pred[o]] \in Nat /\ ticket[q] # 0
      BY <2>2, <1>1 DEF Preds, Tickets, Released, Start, IInv, QueueTypeOK, Enqueued
    <3>2. CASE ticket[q] < ticket[pred[o]]
      BY <3>1, <3>2 DEF StartOrder, IInv
    <3>3. CASE ticket[q] = ticket[pred[o]]
      BY <3>1, <3>3 DEF Tickets, IInv
    <3>4. QED
      BY <3>1, <3>2, <3>3
  <2>3. QED
    BY <2>1, <2>2
<1>3. StartOrder'
  BY <1>1, <1>2 DEF StartOrder, IInv
<1>4. QED
  BY <1>1, <1>3, PhaseOnly DEF IInv

\* The body's own steps stay inside it.
LEMMA BodyIInv ==
  ASSUME IInv, QueueTypeOK', NEW o \in Ops, Read(o) \/ Open(o) \/ Write(o)
  PROVE  IInv'
<1> DEFINE Body == {"running", "read", "writing", "unlinked", "written"}
<1>1. /\ Enqueued' = Enqueued /\ o \in Enqueued /\ Enqueued \subseteq Ops
      /\ UNCHANGED <<issued, served, ticket, key, pred, tail>>
      /\ phase[o] \in Body /\ phase'[o] \in Body
      /\ \A q \in Ops : q # o => phase'[q] = phase[q]
  BY DEF Enqueued, Read, Open, Write, IInv, QueueTypeOK
<1>2. StartOrder'
  BY <1>1 DEF StartOrder, IInv
<1>3. QED
  BY <1>1, <1>2, PhaseOnly DEF IInv

\* So does the step of a body whose file is removed.
LEMMA RemoveIInv ==
  ASSUME IInv, QueueTypeOK', NEW f \in Files, Remove(f)
  PROVE  IInv'
<1> DEFINE Body == {"running", "read", "writing", "unlinked", "written"}
<1>1. /\ Enqueued' = Enqueued /\ Enqueued \subseteq Ops
      /\ UNCHANGED <<issued, served, ticket, key, pred, tail>>
      /\ \A q \in Ops : \/ phase'[q] = phase[q]
                        \/ phase[q] \in Body /\ phase'[q] \in Body
  BY DEF Enqueued, Remove, IInv, QueueTypeOK
<1>2. StartOrder'
  BY <1>1 DEF StartOrder, IInv
<1>3. QED
  BY <1>1, <1>2, PhaseOnly DEF IInv

LEMMA FinishIInv ==
  ASSUME IInv, QueueTypeOK', NEW o \in Ops, Finish(o)
  PROVE  IInv'
<1>1. /\ Enqueued' = Enqueued /\ o \in Enqueued /\ Enqueued \subseteq Ops
      /\ UNCHANGED <<issued, served, ticket, key, pred>>
      /\ phase[o] \notin {"queued", "done"} /\ phase'[o] = "done"
      /\ key[o] \in Paths
      /\ \A q \in Ops : q # o => phase'[q] = phase[q]
      /\ \A p \in Paths :
           tail'[p] = IF p = key[o] /\ tail[p] = o THEN NoOp ELSE tail[p]
  BY DEF Enqueued, Inside, Finish, IInv, QueueTypeOK
<1>2. Tickets'
  BY <1>1 DEF Tickets, Enqueued, Finish, Inside, IInv, QueueTypeOK
<1>3. ASSUME NEW p \in Paths
      PROVE  IF tail'[p] = NoOp
             THEN \A q \in Enqueued' : key[q] = p => phase'[q] = "done"
             ELSE /\ tail'[p] \in Enqueued' /\ key[tail'[p]] = p
                  /\ phase'[tail'[p]] # "done"
                  /\ \A q \in Enqueued' :
                       key[q] = p => ticket[q] <= ticket[tail'[p]]
  <2>1. CASE tail[p] = o
    <3>1. key[o] = p
      BY <2>1, <1>1, <1>3 DEF Tails, IInv
    <3>2. ASSUME NEW q \in Enqueued, key[q] = key[o], q # o
          PROVE  phase[q] = "done"
      <4>1. ticket[q] <= ticket[o]
        BY <3>1, <3>2, <2>1, <1>1, <1>3 DEF Tails, IInv
      <4>2. ticket[q] # ticket[o] /\ ticket[q] \in Nat /\ ticket[o] \in Nat
        BY <3>2, <1>1 DEF Tickets, Enqueued, IInv, QueueTypeOK
      <4>3. QED
        BY <4>1, <4>2, <3>2, <1>1 DEF StartOrder, IInv
    <3>3. QED
      BY <2>1, <3>1, <3>2, <1>1, <1>3
  <2>2. CASE tail[p] # o
    BY <2>2, <1>1, <1>3 DEF Tails, IInv
  <2>3. QED
    BY <2>1, <2>2
<1>4. Tails'
  BY <1>1, <1>3 DEF Tails
<1>5. Preds'
  BY <1>1 DEF Preds, IInv
<1>6. StartOrder'
  BY <1>1 DEF StartOrder, IInv
<1>7. QED
  BY <1>2, <1>4, <1>5, <1>6 DEF IInv

LEMMA IInvariant == QueueSpec => []IInv
<1>1. IInv /\ QueueTypeOK' /\ [QueueNext]_queueVars => IInv'
  <2> SUFFICES ASSUME IInv, QueueTypeOK', [QueueNext]_queueVars PROVE IInv'
    OBVIOUS
  <2>1. CASE UNCHANGED queueVars
    BY <2>1 DEF queueVars, IInv, QueueTypeOK, Tickets, Tails, Preds, StartOrder, Enqueued
  <2>2. QED
    BY <2>1, RemoveIInv, CallIInv, RegistrationIInv, EnqueueIInv, StartIInv, BodyIInv,
       FinishIInv DEF QueueNext, Step
<1>2. QED
  BY <1>1, InitIInv, TypeCorrect, PTL DEF QueueSpec

\* Operations of one key start in the order of their calls.
THEOREM StartsInOrder == QueueSpec => []StartOrder
BY IInvariant, PTL DEF IInv

(* The central guarantee of withFileMutationQueue: at most one operation of *)
(* a key is inside its body.                                                *)
LEMMA OrderExcludes == IInv => KeyExclusion
<1> SUFFICES ASSUME IInv, NEW o1 \in Inside, NEW o2 \in Inside,
                    key[o1] = key[o2], o1 # o2
             PROVE  FALSE
  BY DEF KeyExclusion
<1>1. /\ o1 \in Enqueued /\ phase[o1] \notin {"queued", "done"}
      /\ o2 \in Enqueued /\ phase[o2] \notin {"queued", "done"}
  BY DEF Inside, Enqueued
<1>2. ticket[o1] \in Nat /\ ticket[o2] \in Nat /\ ticket[o1] # ticket[o2]
  BY <1>1 DEF IInv, QueueTypeOK, Tickets, Enqueued
<1>3. QED
  BY <1>1, <1>2 DEF IInv, StartOrder

\* At most one operation of a key is inside its body (file-mutation-queue.ts:35-61).
THEOREM KeysExclude == QueueSpec => []KeyExclusion
BY IInvariant, OrderExcludes, PTL

\* The map has an entry for a key exactly while an operation of it is unfinished.
THEOREM MapExact == QueueSpec => []MapIsExact
<1>1. IInv => MapIsExact
  BY DEF IInv, Tails, MapIsExact
<1>2. QED
  BY <1>1, IInvariant, PTL

------------------------------------------------------------------------------
(* From keys to files.  The key names the file when the call's path is     *)
(* canonical, or when the file is there all along so that realpath finds it;  *)
(* this is asked of each call on its own.                                  *)
Stable ==
  \A o \in Ops : \/ Real[PathOf[o]] = PathOf[o]
                 \/ Real[PathOf[o]] \in Present \ Removable

KeyNamesFile ==
  \A o \in Ops : phase[o] = "resolved" \/ o \in Enqueued => key[o] = File(o)

FInv == /\ Present \ Removable \subseteq exists
        /\ KeyNamesFile

LEMMA FInvariant == ASSUME Stable PROVE QueueSpec => []FInv
<1>1. QueueInit => FInv
  BY DEF QueueInit, FInv, KeyNamesFile, Enqueued
<1>2. QueueTypeOK /\ FInv /\ [QueueNext]_queueVars => FInv'
  <2> SUFFICES ASSUME QueueTypeOK, FInv, [QueueNext]_queueVars PROVE FInv'
    OBVIOUS
  <2> USE DEF FInv, KeyNamesFile, Enqueued, File
  <2>1. ASSUME NEW o \in Ops, Resolve(o) PROVE FInv'
    <3>1. MutationQueueKey(o) = File(o)
      BY DEF MutationQueueKey, Stable
    <3>2. QED
      BY <2>1, <3>1 DEF Resolve, QueueTypeOK
  <2>2. ASSUME NEW o \in Ops, \/ Call(o) \/ ResolveFails(o) \/ Enqueue(o)
                              \/ Start(o) \/ Read(o) \/ Open(o) \/ Write(o)
                              \/ Finish(o)
        PROVE  FInv'
    BY <2>2 DEF Call, ResolveFails, Enqueue, Start, Read, Open, Write, Finish, Inside,
                Turn, QueueTypeOK
  <2>3. ASSUME NEW f \in Files, Remove(f) PROVE FInv'
    BY <2>3 DEF Remove, QueueTypeOK
  <2>4. CASE UNCHANGED queueVars
    BY <2>4 DEF queueVars
  <2>5. QED
    BY <2>1, <2>2, <2>3, <2>4 DEF QueueNext, Step
<1>3. QED
  BY <1>1, <1>2, TypeCorrect, PTL DEF QueueSpec

\* "Serialize file mutation operations targeting the same file", proved for
\* stable paths.
THEOREM FilesExclude == ASSUME Stable PROVE QueueSpec => []FileExclusion
<1>1. KeyExclusion /\ FInv => FileExclusion
  BY DEF KeyExclusion, FInv, KeyNamesFile, FileExclusion, Inside, Enqueued
<1>2. QED
  BY <1>1, KeysExclude, FInvariant, PTL

\* An edit writes over exactly the text it has read.
THEOREM UpdatesSurvive == ASSUME Stable PROVE QueueSpec => []NoLostUpdate
<1>1. QueueInit => NoLostUpdate
  BY DEF QueueInit, NoLostUpdate
<1>2. QueueTypeOK /\ FileExclusion /\ NoLostUpdate /\ [QueueNext]_queueVars => NoLostUpdate'
  <2> SUFFICES ASSUME QueueTypeOK, FileExclusion, NoLostUpdate, [QueueNext]_queueVars
               PROVE  NoLostUpdate'
    OBVIOUS
  <2> USE DEF NoLostUpdate, QueueTypeOK
  <2>1. ASSUME NEW o \in Ops, Open(o) \/ Write(o) PROVE NoLostUpdate'
    <3> SUFFICES ASSUME NEW q \in Ops, phase'[q] = "read"
                 PROVE  buf'[q] = content'[File(q)]
      OBVIOUS
    <3>1. q # o /\ phase[q] = "read" /\ o \in Inside /\ q \in Inside
      BY <2>1 DEF Open, Write, Inside
    <3>2. File(q) # File(o)
      BY <3>1 DEF FileExclusion
    <3>3. /\ \A g \in Files : g # File(o) => content'[g] = content[g]
          /\ UNCHANGED buf
      BY <2>1 DEF Open, Write
    <3>4. File(q) \in Files
      BY DEF File, Files
    <3>5. QED
      BY <3>1, <3>2, <3>3, <3>4
  <2>2. ASSUME NEW o \in Ops, Read(o) PROVE NoLostUpdate'
    BY <2>2 DEF Read
  <2>3. ASSUME NEW o \in Ops, \/ Call(o) \/ Resolve(o) \/ ResolveFails(o)
                              \/ Enqueue(o) \/ Start(o) \/ Finish(o)
        PROVE  NoLostUpdate'
    BY <2>3 DEF Call, Resolve, ResolveFails, Enqueue, Start, Finish, Inside, Turn
  <2>4. ASSUME NEW f \in Files, Remove(f) PROVE NoLostUpdate'
    BY <2>4 DEF Remove
  <2>5. CASE UNCHANGED queueVars
    BY <2>5 DEF queueVars
  <2>6. QED
    BY <2>1, <2>2, <2>3, <2>4, <2>5 DEF QueueNext, Step
<1>3. QED
  BY <1>1, <1>2, TypeCorrect, FilesExclude, PTL DEF QueueSpec

\* The tools implement FileWrites: every step begins, completes or fails the
\* write of one file that nobody else is writing, removes a file, or does none
\* of these.
THEOREM Implements == ASSUME Stable PROVE QueueSpec => WritesInTurn
<1> DEFINE text == [o \in Ops |-> IF phase[o] = "writing" THEN Text(o) ELSE <<>>]
<1>1. QueueInit => Writes!Init
  BY DEF QueueInit, Writes!Init
<1>2. QueueTypeOK /\ FileExclusion /\ NoLostUpdate /\ [QueueNext]_queueVars
        => [Writes!Next]_(Writes!vars)
  <2> SUFFICES ASSUME QueueTypeOK, FileExclusion, NoLostUpdate, [QueueNext]_queueVars
               PROVE  Writes!Next \/ UNCHANGED <<content, exists, text>>
    BY DEF Writes!vars
  <2>0. \A o \in Ops : Text(o) # <<>>
    BY TextTyped
  <2>1. ASSUME NEW o \in Ops, Open(o) PROVE Writes!Begin(o)
    <3>1. \A q \in Ops : text[q] # <<>> => File(q) # File(o)
      <4> SUFFICES ASSUME NEW q \in Ops, phase[q] = "writing", File(q) = File(o) PROVE FALSE
        OBVIOUS
      <4>1. o \in Inside /\ q \in Inside /\ q # o
        BY <2>1 DEF Open, Inside
      <4>2. QED
        BY <4>1 DEF FileExclusion
    <3>2. Text(o) = IF o \in Edits THEN Append(content[File(o)], o) ELSE <<o>>
      BY <2>1 DEF Open, Text, NoLostUpdate
    <3>3. text' = [text EXCEPT ![o] = Text(o)]
      BY <2>1 DEF Open, QueueTypeOK, Text
    <3>4. QED
      BY <2>1, <3>1, <3>2, <3>3 DEF Open, Writes!Begin
  <2>2. ASSUME NEW o \in Ops, Write(o), phase[o] = "writing" PROVE Writes!Complete(o)
    <3>1. text' = [text EXCEPT ![o] = <<>>]
      BY <2>2 DEF Write, QueueTypeOK, Text
    <3>2. QED
      BY <2>0, <2>2, <3>1 DEF Write, Writes!Complete
  <2>3. ASSUME NEW o \in Ops, Finish(o), phase[o] = "writing" PROVE Writes!Fail(o)
    <3>1. text' = [text EXCEPT ![o] = <<>>]
      BY <2>3 DEF Finish, QueueTypeOK, Text
    <3>2. QED
      BY <2>0, <2>3, <3>1 DEF Finish, Writes!Fail
  <2>4. ASSUME NEW f \in Files, Remove(f) PROVE Writes!Remove(f)
    <3>1. \A o \in Ops : text'[o] = IF File(o) = f THEN <<>> ELSE text[o]
      BY <2>4 DEF Remove, QueueTypeOK, Text
    <3>2. QED
      BY <2>4, <3>1 DEF Remove, Writes!Remove
  <2>5. ASSUME NEW o \in Ops,
               \/ Call(o) \/ Resolve(o) \/ ResolveFails(o) \/ Enqueue(o) \/ Start(o) \/ Read(o)
               \/ Write(o) /\ phase[o] # "writing"
               \/ Finish(o) /\ phase[o] # "writing"
        PROVE  UNCHANGED <<content, exists, text>>
    <3>1. UNCHANGED <<content, exists>>
      BY <2>5 DEF Call, Resolve, ResolveFails, Enqueue, Start, Read, Write, Finish
    <3>2. \A q \in Ops : /\ phase'[q] = "writing" <=> phase[q] = "writing"
                         /\ phase[q] = "writing" => buf'[q] = buf[q]
      BY <2>5 DEF Call, Resolve, ResolveFails, Enqueue, Start, Read, Write, Finish, Turn,
                  QueueTypeOK
    <3>3. QED
      BY <3>1, <3>2 DEF Text
  <2>6. CASE UNCHANGED queueVars
    BY <2>6 DEF queueVars, Text
  <2>7. QED
    BY <2>1, <2>2, <2>3, <2>4, <2>5, <2>6 DEF QueueNext, Step, Writes!Next
<1>3. QED
  BY <1>1, <1>2, TypeCorrect, FilesExclude, UpdatesSurvive, PTL
     DEF QueueSpec, WritesInTurn, Writes!Spec

------------------------------------------------------------------------------
(* The credentials file.  What the lock is for holds until a lock is taken *)
(* for stale.                                                              *)

HIDE QueueAssumption
USE AuthStorageAssumption

\* Who is within the lock has it, and nobody else is there; a job is for a call
\* that waits outside.
Holding ==
  /\ ~lock.aged
  /\ \A i \in Instances : job[i].at \in {"read", "write"} => lock.by = i
  /\ \A c \in Calls : call[c].at \in {"read", "asked", "release"} => lock.by = c
  /\ \A c \in Calls : ~call[c].lost

Waits ==
  \A i \in Instances :
    /\ job[i].kind = "ensure" => job[i].at \in {"off", "ensure", "create"}
    /\ job[i].at = "off" => job[i].for = Nobody
    /\ \A c \in Calls : job[i].for = c => Owner[c] = i /\ call[c].at \in {"ensure", "reload"}

LIInv == TypeOK /\ Holding /\ Waits

\* What is about to be written is what was saved, with one credential changed.
Keeping ==
  emptied \/
    /\ Content = saved
    /\ \A i \in Instances : job[i].at = "write" =>
         job[i].merged = [saved EXCEPT ![job[i].p] = job[i].v]
    /\ \A c \in Calls : call[c].at = "asked" => call[c].read = saved

\* A token that is asked for anew is the saved one; what waits to be saved is new; and
\* a spent token that is still in the file is owed to a kill or a lost answer.
Spare == IF saved["oauth"] \in spent THEN 1 ELSE 0
Owed == used["crash"] + used["lost"]

Counting ==
  emptied \/
    /\ \A t \in spent : t # 0 /\ t < next
    /\ saved["oauth"] < next
    /\ \A c \in Calls : call[c].at = "asked" =>
         call[c].token = saved["oauth"] /\ call[c].token # 0
    /\ \A i \in Instances : job[i].v # 0 =>
         /\ job[i].v < next /\ job[i].v \notin spent /\ job[i].v # saved["oauth"]
         /\ \A k \in Instances \ {i} : job[k].v # job[i].v
    /\ again + Spare <= Owed

KIInv == LIInv /\ Keeping /\ Counting

------------------------------------------------------------------------------
(* Types *)

LEMMA ContentTyped == TypeOK => Empty \in Credentials /\ Content \in Credentials
BY DEF Empty, Credentials, Content, TypeOK

LEMMA NoJobTyped ==
  /\ NoJob \in Jobs
  /\ \A kind \in {"ensure", "reload", "set"}, for \in Calls \cup {Nobody} : Job(kind, for) \in Jobs
BY DEF NoJob, Job, Jobs, Empty, Credentials, Providers

LEMMA CallsTyped == NoCall \in States /\ Answered \in States
BY DEF NoCall, Answered, States, Empty, Credentials

\* A record with some fields replaced.
LEMMA JobUpdated ==
  ASSUME NEW j \in Jobs
  PROVE  /\ \A s \in {"create", "lock", "read"} : [j EXCEPT !.at = s] \in Jobs
         /\ \A m \in Credentials : [j EXCEPT !.merged = m, !.at = "write"] \in Jobs
         /\ \A p \in Providers, v \in Nat : [j EXCEPT !.p = p, !.v = v] \in Jobs
BY DEF Jobs

LEMMA CallUpdated ==
  ASSUME NEW k \in States
  PROVE  /\ \A s \in {"ensure", "lock", "read", "reload"} : [k EXCEPT !.at = s] \in States
         /\ [k EXCEPT !.lost = TRUE] \in States
         /\ \A f \in BOOLEAN : [k EXCEPT !.at = "release", !.failed = f] \in States
         /\ \A r \in Credentials, t \in Nat, s \in {"asked", "release"} :
              [k EXCEPT !.read = r, !.token = t, !.at = s] \in States
BY DEF States

LEMMA SpendTyped ==
  ASSUME NEW kind \in Kinds, NEW bound, TypeOK, Spend(kind, bound)
  PROVE  used' \in [Kinds -> Nat]
BY DEF TypeOK, Spend

LEMMA EndsTyped ==
  ASSUME TypeOK, NEW i \in Instances, Ends(i)
  PROVE  job' \in [Instances -> Jobs] /\ call' \in [Calls -> States]
<1>1. job' \in [Instances -> Jobs]
  BY NoJobTyped DEF Ends, TypeOK
<1>2. CASE job[i].for = Nobody
  BY <1>1, <1>2 DEF Ends, TypeOK
<1>3. CASE job[i].for # Nobody
  <2>1. job[i].for \in Calls
    BY <1>3 DEF TypeOK, Jobs
  <2>2. [call[job[i].for] EXCEPT !.at = "lock"] \in States
    BY <2>1, CallUpdated DEF TypeOK
  <2>3. QED
    BY <1>1, <1>3, <2>1, <2>2, CallsTyped DEF Ends, TypeOK
<1>4. QED
  BY <1>2, <1>3

LEMMA GoesTyped ==
  ASSUME TypeOK, NEW i \in Instances, NEW step \in {"create", "lock", "read"}, Goes(i, step)
  PROVE  job' \in [Instances -> Jobs]
<1>1. job' = [job EXCEPT ![i] = [job[i] EXCEPT !.at = step]]
  BY DEF Goes
<1>2. QED
  BY <1>1, JobUpdated DEF TypeOK

LEMMA ToTyped ==
  ASSUME TypeOK, NEW c \in Calls, NEW step \in {"ensure", "read", "reload"}, To(c, step)
  PROVE  call' \in [Calls -> States]
<1>1. call' = [call EXCEPT ![c] = [call[c] EXCEPT !.at = step]]
  BY DEF To
<1>2. QED
  BY <1>1, CallUpdated DEF TypeOK

LEMMA LockTyped ==
  /\ Unlocked \in [by : Holders, aged : BOOLEAN]
  /\ \A h \in Instances \cup Calls : Locked(h) \in [by : Holders, aged : BOOLEAN]
BY DEF Unlocked, Locked, Holders

LEMMA RefreshedTyped ==
  ASSUME TypeOK, NEW c \in Calls
  PROVE  Refreshed(c) \in Credentials
BY DEF TypeOK, States, Refreshed, Credentials, Providers

LEMMA MergedTyped ==
  ASSUME TypeOK, NEW i \in Instances
  PROVE  Merged(i) \in Credentials
BY ContentTyped DEF TypeOK, Jobs, Merged, Credentials, Providers

LEMMA TypesInit == Init => TypeOK
<1>1. First \in Credentials /\ Empty \in Credentials
  BY DEF First, Empty, Credentials, Providers
<1> SUFFICES ASSUME Init PROVE TypeOK
  OBVIOUS
<1>2. job \in [Instances -> Jobs] /\ call \in [Calls -> States]
  BY NoJobTyped, CallsTyped DEF Init
<1>3. data \in [Instances -> Credentials] /\ file \in {NoFile} \cup Credentials /\ saved \in Credentials
  BY <1>1 DEF Init, Content
<1>4. used \in [Kinds -> Nat]
  BY DEF Init
<1>5. lock \in [by : Holders, aged : BOOLEAN] /\ loadError \subseteq Instances /\ emptied \in BOOLEAN /\ late \in BOOLEAN
  BY LockTyped DEF Init
<1>6. expired \subseteq Nat \ {0} /\ spent \subseteq Nat /\ again \in Nat /\ next \in Nat \ {0}
  BY DEF Init
<1>7. QED
  BY <1>2, <1>3, <1>4, <1>5, <1>6 DEF TypeOK

LEMMA JobStepTypes ==
  ASSUME TypeOK, NEW i \in Instances, JobStep(i)
  PROVE  TypeOK'
<1>1. CASE Ensure(i)
  BY <1>1, EndsTyped, GoesTyped DEF Ensure, TypeOK, disk, memory, tokens, ghosts
<1>2. CASE Create(i)
  BY <1>2, EndsTyped, GoesTyped, ContentTyped DEF Create, TypeOK, memory, tokens, ghosts
<1>3. CASE JobLocks(i)
  BY <1>3, GoesTyped, LockTyped DEF JobLocks, TypeOK, memory, tokens, ghosts
<1>4. CASE JobGivesUp(i)
  BY <1>4, EndsTyped DEF JobGivesUp, TypeOK, disk, tokens, ghosts
<1>5. CASE JobReads(i)
  <2>1. CASE job[i].kind = "reload"
    BY <1>5, <2>1, EndsTyped, LockTyped, ContentTyped DEF JobReads, TypeOK, tokens, ghosts
  <2>2. CASE job[i].kind # "reload"
    <3>1. [job[i] EXCEPT !.merged = Merged(i), !.at = "write"] \in Jobs
      BY MergedTyped, JobUpdated DEF TypeOK
    <3>2. job' = [job EXCEPT ![i] = [job[i] EXCEPT !.merged = Merged(i), !.at = "write"]]
      BY <1>5, <2>2 DEF JobReads, TypeOK
    <3>3. QED
      BY <1>5, <2>2, <3>1, <3>2 DEF JobReads, TypeOK, tokens, ghosts, memory
  <2>3. QED
    BY <2>1, <2>2
<1>6. CASE JobWrites(i)
  <2>1. job[i].merged \in Credentials /\ job[i].v \in Nat /\ job[i].p \in Providers
    BY DEF TypeOK, Jobs
  <2>2. file' \in Credentials /\ saved' \in Credentials
    BY <1>6, <2>1 DEF JobWrites, TypeOK, Credentials
  <2>3. QED
    BY <1>6, <2>2, EndsTyped, LockTyped DEF JobWrites, TypeOK, memory, tokens
<1>7. QED
  BY <1>1, <1>2, <1>3, <1>4, <1>5, <1>6 DEF JobStep

LEMMA CallStepTypes ==
  ASSUME TypeOK, NEW c \in Calls, Ask(c) \/ CallStep(c)
  PROVE  TypeOK'
<1> Owner[c] \in Instances
  OBVIOUS
<1>1. CASE Ask(c)
  BY <1>1, ToTyped, NoJobTyped DEF Ask, TypeOK, disk, memory, tokens, ghosts
<1>2. CASE CallLocks(c)
  BY <1>2, ToTyped, LockTyped DEF CallLocks, TypeOK, memory, tokens, ghosts
<1>3. CASE CallGivesUp(c)
  BY <1>3, ToTyped, NoJobTyped DEF CallGivesUp, Fails, TypeOK, disk, memory, tokens, ghosts
<1>4. CASE CallReads(c)
  <2>1. Token(c) \in Nat
    BY ContentTyped DEF Token, Credentials, Providers
  <2>2. \A s \in {"asked", "release"} :
          [call[c] EXCEPT !.read = Content, !.token = Token(c), !.at = s] \in States
    BY <2>1, ContentTyped, CallUpdated DEF TypeOK
  <2>3. call' \in [Calls -> States]
    BY <1>4, <2>2 DEF CallReads, TypeOK
  <2>4. QED
    BY <1>4, <2>3, ContentTyped DEF CallReads, TypeOK, disk, tokens, ghosts
<1>5. CASE Touch(c)
  <2>1. CASE lock.by = c
    BY <1>5, <2>1, LockTyped DEF Touch, TypeOK, memory, tokens, ghosts
  <2>2. CASE lock.by # c
    <3>1. call' = [call EXCEPT ![c] = [call[c] EXCEPT !.lost = TRUE]]
      BY <1>5, <2>2 DEF Touch
    <3>2. QED
      BY <1>5, <2>2, <3>1, CallUpdated DEF Touch, TypeOK, memory, tokens, ghosts
  <2>3. QED
    BY <2>1, <2>2
<1>6. CASE Answer(c)
  <2>1. call' \in [Calls -> States]
    <3>1. call' = [call EXCEPT ![c] = [call[c] EXCEPT !.at = "release", !.failed = call[c].lost]]
      BY <1>6 DEF Answer
    <3>2. call[c].lost \in BOOLEAN
      BY DEF TypeOK, States
    <3>3. QED
      BY <3>1, <3>2, CallUpdated DEF TypeOK
  <2>2. next' \in Nat \ {0} /\ again' \in Nat
    BY <1>6 DEF Answer, Replaced, TypeOK
  <2>3. \A f \in Credentials : [f EXCEPT !["oauth"] = next] \in Credentials
    BY DEF TypeOK, Credentials, Providers
  <2>4. file' \in {NoFile} \cup Credentials /\ saved' \in Credentials /\ data' \in [Instances -> Credentials]
    BY <1>6, <2>3, RefreshedTyped DEF Answer, TypeOK
  <2>5. spent' \subseteq Nat
    BY <1>6 DEF Answer, Replaced, TypeOK, States
  <2>6. QED
    BY <1>6, <2>1, <2>2, <2>4, <2>5 DEF Answer, TypeOK
<1>7. CASE Refused(c) \/ Unanswered(c)
  <2>1. call' = [call EXCEPT ![c] = [call[c] EXCEPT !.at = "release", !.failed = TRUE]]
    BY <1>7 DEF Refused, Unanswered, Fail
  <2>2. call' \in [Calls -> States]
    BY <2>1, CallUpdated DEF TypeOK
  <2>3. used' \in [Kinds -> Nat]
    BY <1>7, SpendTyped DEF Refused, Unanswered, Kinds
  <2>4. CASE Refused(c)
    BY <2>2, <2>3, <2>4 DEF Refused, TypeOK, disk, memory, tokens, ghosts
  <2>5. CASE Unanswered(c)
    <3>1. spent' \subseteq Nat /\ again' \in Nat
      <4>1. spent' \subseteq Nat
        <5>1. call[c].token \in Nat /\ spent \subseteq Nat
          BY DEF TypeOK, States
        <5>2. spent' = spent \cup {call[c].token}
          BY <2>5 DEF Unanswered, Replaced
        <5>3. QED
          BY <5>1, <5>2
      <4>2. again' \in Nat
        BY <2>5 DEF Unanswered, Replaced, TypeOK
      <4>3. QED
        BY <4>1, <4>2
    <3>2. QED
      BY <2>2, <2>3, <2>5, <3>1 DEF Unanswered, TypeOK, disk, memory, ghosts
  <2>6. QED
    BY <1>7, <2>4, <2>5
<1>8. CASE Release(c)
  <2>1. lock' \in [by : Holders, aged : BOOLEAN]
    BY <1>8, LockTyped DEF Release, Releases, TypeOK
  <2>2. QED
    BY <1>8, <2>1, ToTyped, NoJobTyped, CallsTyped DEF Release, Fails, TypeOK, memory, tokens, ghosts
<1>9. QED
  BY <1>1, <1>2, <1>3, <1>4, <1>5, <1>6, <1>7, <1>8 DEF CallStep

LEMMA TypesKept == TypeOK /\ [Next]_vars => TypeOK'
<1> SUFFICES ASSUME TypeOK, [Next]_vars PROVE TypeOK'
  OBVIOUS
<1>1. ASSUME NEW i \in Instances, Set(i) PROVE TypeOK'
  <2>1. PICK p \in Providers, v \in {0, next} :
          /\ data' = [data EXCEPT ![i][p] = v]
          /\ job' = IF i \in loadError THEN job
                    ELSE [job EXCEPT ![i] = [Job("set", Nobody) EXCEPT !.p = p, !.v = v]]
    BY <1>1 DEF Set
  <2>2. [Job("set", Nobody) EXCEPT !.p = p, !.v = v] \in Jobs
    BY NoJobTyped, JobUpdated DEF TypeOK
  <2>3. job' \in [Instances -> Jobs]
    BY <2>1, <2>2 DEF TypeOK
  <2>4. data' \in [Instances -> Credentials]
    BY <2>1 DEF TypeOK, Credentials
  <2>5. QED
    BY <1>1, <2>3, <2>4, SpendTyped DEF Set, TypeOK, Kinds, disk, tokens
<1>2. ASSUME NEW i \in Instances, Reload(i) PROVE TypeOK'
  BY <1>2, NoJobTyped, SpendTyped DEF Reload, TypeOK, Kinds, disk, memory, tokens, ghosts
<1>3. ASSUME NEW i \in Instances, Crash(i) PROVE TypeOK'
  <2>1. lock' \in [by : Holders, aged : BOOLEAN]
    BY <1>3 DEF Crash, TypeOK, Holders
  <2>2. call' \in [Calls -> States]
    BY <1>3, CallsTyped DEF Crash, TypeOK
  <2>3. file' \in {NoFile} \cup Credentials /\ emptied' \in BOOLEAN
    BY <1>3, ContentTyped DEF Crash, TypeOK
  <2>4. spent' \subseteq Nat /\ again' \in Nat
    BY <1>3 DEF Crash, Replaced, TypeOK, States
  <2>5. data' \in [Instances -> Credentials] /\ job' \in [Instances -> Jobs]
    BY <1>3, ContentTyped, NoJobTyped DEF Crash, TypeOK
  <2>6. QED
    BY <1>3, <2>1, <2>2, <2>3, <2>4, <2>5, SpendTyped DEF Crash, TypeOK, Kinds
<1>4. CASE Age
  BY <1>4 DEF Age, TypeOK, memory, tokens, ghosts
<1>5. CASE Expire
  <2>1. Content["oauth"] \in Nat \ {0}
    BY <1>5, ContentTyped DEF Expire, Credentials, Providers
  <2>2. QED
    BY <1>5, <2>1, SpendTyped DEF Expire, TypeOK, Kinds, disk, memory, ghosts
<1>6. CASE UNCHANGED vars
  BY <1>6 DEF vars, TypeOK, disk, memory, tokens, ghosts
<1>7. QED
  BY <1>1, <1>2, <1>3, <1>4, <1>5, <1>6, JobStepTypes, CallStepTypes DEF Next

------------------------------------------------------------------------------
(* The lock *)

\* What a job or a call becomes, and those that are left alone.
LEMMA JobFields ==
  /\ NoJob.at = "off" /\ NoJob.kind = "none" /\ NoJob.for = Nobody /\ NoJob.v = 0
  /\ \A kind \in {"ensure", "reload", "set"}, for \in Calls \cup {Nobody} :
       Job(kind, for).at = "ensure" /\ Job(kind, for).kind = kind /\ Job(kind, for).for = for
       /\ Job(kind, for).v = 0
BY DEF NoJob, Job

LEMMA CallFields == NoCall.at = "off" /\ Answered.at = "done" /\ ~NoCall.lost /\ ~Answered.lost
BY DEF NoCall, Answered

LEMMA GoesEffect ==
  ASSUME TypeOK, NEW i \in Instances, NEW step, Goes(i, step)
  PROVE  /\ \A k \in Instances \ {i} : job'[k] = job[k]
         /\ job'[i].at = step /\ job'[i].kind = job[i].kind /\ job'[i].for = job[i].for
         /\ job'[i].v = job[i].v
<1>1. job' = [job EXCEPT ![i] = [job[i] EXCEPT !.at = step]]
  BY DEF Goes
<1>2. job[i] \in Jobs /\ job'[i] = [job[i] EXCEPT !.at = step]
  BY <1>1 DEF TypeOK
<1>3. job'[i].at = step /\ job'[i].kind = job[i].kind /\ job'[i].for = job[i].for /\ job'[i].v = job[i].v
  BY <1>2 DEF Jobs
<1>4. QED
  BY <1>1, <1>3 DEF TypeOK

LEMMA ToEffect ==
  ASSUME TypeOK, NEW c \in Calls, NEW step, To(c, step)
  PROVE  /\ \A d \in Calls \ {c} : call'[d] = call[d]
         /\ call'[c].at = step /\ call'[c].lost = call[c].lost
<1>1. call' = [call EXCEPT ![c] = [call[c] EXCEPT !.at = step]]
  BY DEF To
<1>2. call[c] \in States /\ call'[c] = [call[c] EXCEPT !.at = step]
  BY <1>1 DEF TypeOK
<1>3. call'[c].at = step /\ call'[c].lost = call[c].lost
  BY <1>2 DEF States
<1>4. QED
  BY <1>1, <1>3 DEF TypeOK

LEMMA EndsEffect ==
  ASSUME TypeOK, NEW i \in Instances, Ends(i)
  PROVE  /\ \A k \in Instances \ {i} : job'[k] = job[k]
         /\ \A c \in Calls : call'[c].lost => call[c].lost
         /\ job'[i].at = "off" /\ job'[i].kind = "none" /\ job'[i].for = Nobody /\ job'[i].v = 0
         /\ \A c \in Calls : call'[c] = call[c]
              \/ (call'[c].at \in {"lock", "done"} /\ job[i].for = c)
<1>1. (\A k \in Instances \ {i} : job'[k] = job[k]) /\ job'[i] = NoJob
  BY DEF Ends, TypeOK
<1>2. CASE job[i].for = Nobody
  BY <1>1, <1>2, JobFields DEF Ends
<1>3. CASE job[i].for # Nobody
  <2>1. PICK c \in Calls : c = job[i].for
    BY <1>3 DEF TypeOK, Jobs
  <2>2. [call[c] EXCEPT !.at = "lock"].at = "lock" /\ [call[c] EXCEPT !.at = "lock"].lost = call[c].lost
    BY DEF TypeOK, States
  <2>3. \A d \in Calls : call'[d] = call[d] \/ (d = c /\ call'[d] \in {[call[c] EXCEPT !.at = "lock"], Answered})
    BY <1>3, <2>1 DEF Ends, TypeOK
  <2>4. \A d \in Calls :
          /\ call'[d].lost => call[d].lost
          /\ call'[d] = call[d] \/ (call'[d].at \in {"lock", "done"} /\ job[i].for = d)
    BY <2>1, <2>2, <2>3, CallFields
  <2>5. job'[i].at = "off" /\ job'[i].kind = "none" /\ job'[i].for = Nobody /\ job'[i].v = 0
    BY <1>1, JobFields
  <2>6. QED
    BY <1>1, <2>4, <2>5
<1>4. QED
  BY <1>2, <1>3

LEMMA HoldingInit == Init => Holding /\ Waits
BY JobFields, CallFields DEF Init, Holding, Waits, Unlocked

LEMMA JobStepHolding ==
  ASSUME LIInv, NEW i \in Instances, JobStep(i)
  PROVE  Holding' /\ Waits'
<1>1. CASE Ensure(i)
  <2>1. CASE Goes(i, "create") /\ UNCHANGED call
    BY <1>1, <2>1, GoesEffect DEF LIInv, Holding, Waits, Ensure, disk
  <2>2. CASE Ends(i)
    BY <1>1, <2>2, EndsEffect DEF LIInv, Holding, Waits, Ensure, disk
  <2>3. CASE job[i].kind # "ensure" /\ Goes(i, "lock") /\ UNCHANGED call
    BY <1>1, <2>3, GoesEffect DEF LIInv, Holding, Waits, Ensure, disk, JobAt
  <2>4. QED
    BY <1>1, <2>1, <2>2, <2>3 DEF Ensure
<1>2. CASE Create(i)
  <2>1. CASE Ends(i)
    BY <1>2, <2>1, EndsEffect DEF LIInv, Holding, Waits, Create
  <2>2. CASE job[i].kind # "ensure" /\ Goes(i, "lock") /\ UNCHANGED call
    BY <1>2, <2>2, GoesEffect DEF LIInv, Holding, Waits, Create
  <2>3. QED
    BY <1>2, <2>1, <2>2 DEF Create
<1>3. CASE JobLocks(i)
  <2>1. lock' = Locked(i) /\ lock.by \in {Nobody, Gone} /\ lock'.by = i /\ ~lock'.aged
    BY <1>3 DEF LIInv, Holding, JobLocks, Stale, Locked
  <2>2. \A k \in Instances : job[k].at \notin {"read", "write"}
    BY <2>1 DEF LIInv, Holding
  <2>3. \A c \in Calls : call[c].at \notin {"read", "asked", "release"}
    BY <2>1 DEF LIInv, Holding
  <2>4. job[i].kind # "ensure"
    BY <1>3 DEF LIInv, Waits, JobLocks, JobAt
  <2>5. QED
    BY <1>3, <2>1, <2>2, <2>3, <2>4, GoesEffect DEF LIInv, Holding, Waits, JobLocks
<1>4. CASE JobGivesUp(i)
  BY <1>4, EndsEffect DEF LIInv, Holding, Waits, JobGivesUp, disk
<1>5. CASE JobReads(i)
  <2>1. \A k \in Instances \ {i} : job[k].at \notin {"read", "write"}
    BY <1>5 DEF LIInv, Holding, JobReads, JobAt
  <2>2. \A c \in Calls : call[c].at \notin {"read", "asked", "release"}
    BY <1>5 DEF LIInv, Holding, JobReads, JobAt
  <2>3. CASE job[i].kind = "reload"
    BY <1>5, <2>1, <2>2, <2>3, EndsEffect DEF LIInv, Holding, Waits, JobReads, Unlocked
  <2>4. CASE job[i].kind # "reload"
    <3>1. job' = [job EXCEPT ![i] = [job[i] EXCEPT !.merged = Merged(i), !.at = "write"]]
      BY <1>5, <2>4 DEF JobReads
    <3>2. job[i] \in Jobs /\ job'[i] = [job[i] EXCEPT !.merged = Merged(i), !.at = "write"]
      BY <3>1 DEF LIInv, TypeOK
    <3>3. job'[i].kind = job[i].kind /\ job'[i].for = job[i].for /\ job'[i].at = "write"
      BY <3>2 DEF Jobs
    <3>4. \A k \in Instances \ {i} : job'[k] = job[k]
      BY <3>1 DEF LIInv, TypeOK
    <3>5. job[i].kind # "ensure" /\ lock.by = i
      BY <1>5 DEF LIInv, Holding, Waits, JobReads, JobAt
    <3>6. QED
      BY <1>5, <2>4, <3>3, <3>4, <3>5 DEF LIInv, Holding, Waits, JobReads, JobAt
  <2>5. QED
    BY <2>3, <2>4
<1>6. CASE JobWrites(i)
  <2>1. \A k \in Instances \ {i} : job[k].at \notin {"read", "write"}
    BY <1>6 DEF LIInv, Holding, JobWrites, JobAt
  <2>2. \A c \in Calls : call[c].at \notin {"read", "asked", "release"}
    BY <1>6 DEF LIInv, Holding, JobWrites, JobAt
  <2>3. QED
    BY <1>6, <2>1, <2>2, EndsEffect DEF LIInv, Holding, Waits, JobWrites, Unlocked
<1>7. QED
  BY <1>1, <1>2, <1>3, <1>4, <1>5, <1>6 DEF JobStep

\* A call that moves has no job on its way for it.
LEMMA Alone ==
  ASSUME LIInv, NEW c \in Calls, NEW step, At(c, step), NEW i \in Instances
  PROVE  job[i].for # c
<1>1. c # Nobody
  OBVIOUS
<1>2. QED
  BY <1>1 DEF LIInv, Waits, At, Running

LEMMA FailsHolding ==
  ASSUME LIInv, NEW c \in Calls, NEW step, At(c, step), Fails(c),
         lock' = lock \/ (lock' = Unlocked /\ lock.by = c)
  PROVE  Holding' /\ Waits'
<1>1. \A i \in Instances : job[i].for # c
  BY Alone
<1>2. \A k \in Instances \ {Owner[c]} : job'[k] = job[k]
  BY DEF Fails, LIInv, TypeOK
<1>3. job'[Owner[c]].at = "ensure" /\ job'[Owner[c]].kind = "reload" /\ job'[Owner[c]].for = c
  BY JobFields DEF Fails, LIInv, TypeOK
<1>4. (\A d \in Calls \ {c} : call'[d] = call[d]) /\ call'[c].at = "reload" /\ ~call'[c].lost
  BY ToEffect DEF Fails, LIInv, Holding
<1>5. QED
  BY <1>1, <1>2, <1>3, <1>4 DEF LIInv, Holding, Waits, Unlocked

LEMMA CallStepHolding ==
  ASSUME LIInv, NEW c \in Calls, Ask(c) \/ CallStep(c)
  PROVE  Holding' /\ Waits'
<1> Owner[c] \in Instances
  OBVIOUS
<1>1. CASE Ask(c)
  <2>1. \A i \in Instances : job[i].for # c
    BY <1>1, Alone DEF Ask
  <2>2. \A k \in Instances \ {Owner[c]} : job'[k] = job[k]
    BY <1>1 DEF Ask, LIInv, TypeOK
  <2>3. job'[Owner[c]].at = "ensure" /\ job'[Owner[c]].kind = "ensure" /\ job'[Owner[c]].for = c
    BY <1>1, JobFields DEF Ask, LIInv, TypeOK
  <2>4. (\A d \in Calls \ {c} : call'[d] = call[d]) /\ call'[c].at = "ensure" /\ ~call'[c].lost
    BY <1>1, ToEffect DEF Ask, LIInv, Holding
  <2>5. QED
    BY <1>1, <2>1, <2>2, <2>3, <2>4 DEF LIInv, Holding, Waits, Ask, disk
<1>2. CASE CallLocks(c)
  <2>1. \A i \in Instances : job[i].for # c
    BY <1>2, Alone DEF CallLocks
  <2>2. lock'.by = c /\ ~lock'.aged /\ lock.by \in {Nobody, Gone}
    BY <1>2 DEF CallLocks, Locked
  <2>3. \A k \in Instances : job[k].at \notin {"read", "write"}
    BY <2>2 DEF LIInv, Holding
  <2>4. \A d \in Calls : call[d].at \notin {"read", "asked", "release"}
    BY <2>2 DEF LIInv, Holding
  <2>5. (\A d \in Calls \ {c} : call'[d] = call[d]) /\ call'[c].at = "read" /\ ~call'[c].lost
    BY <1>2, ToEffect DEF CallLocks, LIInv, Holding
  <2>6. QED
    BY <1>2, <2>1, <2>2, <2>3, <2>4, <2>5 DEF LIInv, Holding, Waits, CallLocks
<1>3. CASE CallGivesUp(c)
  BY <1>3, FailsHolding DEF CallGivesUp, disk
<1>4. CASE CallReads(c)
  <2>1. \A i \in Instances : job[i].for # c
    BY <1>4, Alone DEF CallReads
  <2>2. PICK s \in {"asked", "release"} :
          call' = [call EXCEPT ![c] = [call[c] EXCEPT !.read = Content, !.token = Token(c), !.at = s]]
    BY <1>4 DEF CallReads
  <2>3. call[c] \in States /\ call'[c] = [call[c] EXCEPT !.read = Content, !.token = Token(c), !.at = s]
    BY <2>2 DEF LIInv, TypeOK
  <2>4. call'[c].at \in {"asked", "release"} /\ ~call'[c].lost
    BY <2>3 DEF States, LIInv, Holding
  <2>5. \A d \in Calls \ {c} : call'[d] = call[d]
    BY <2>2 DEF LIInv, TypeOK
  <2>6. lock.by = c
    BY <1>4 DEF LIInv, Holding, CallReads, At
  <2>7. lock' = lock /\ job' = job
    BY <1>4 DEF CallReads, disk
  <2>8. QED
    BY <2>1, <2>4, <2>5, <2>6, <2>7 DEF LIInv, Holding, Waits
<1>5. CASE Touch(c)
  BY <1>5 DEF Touch, LIInv, Holding, At
<1>6. CASE Answer(c) \/ Refused(c) \/ Unanswered(c)
  <2>1. At(c, "asked") /\ lock' = lock /\ job' = job
    BY <1>6 DEF Answer, Refused, Unanswered, disk
  <2>2. \A i \in Instances : job[i].for # c
    BY <2>1, Alone
  <2>3. PICK f : call' = [call EXCEPT ![c] = [call[c] EXCEPT !.at = "release", !.failed = f]]
    BY <1>6 DEF Answer, Refused, Unanswered, Fail
  <2>4. call[c] \in States /\ call'[c] = [call[c] EXCEPT !.at = "release", !.failed = f]
    BY <2>3 DEF LIInv, TypeOK
  <2>5. call'[c].at = "release" /\ ~call'[c].lost
    BY <2>4 DEF States, LIInv, Holding
  <2>6. \A d \in Calls \ {c} : call'[d] = call[d]
    BY <2>3 DEF LIInv, TypeOK
  <2>7. lock.by = c
    BY <2>1 DEF LIInv, Holding, At
  <2>8. QED
    BY <2>1, <2>2, <2>5, <2>6, <2>7 DEF LIInv, Holding, Waits
<1>7. CASE Release(c)
  <2>1. lock' = Unlocked /\ lock.by = c
    BY <1>7 DEF Release, Releases, LIInv, Holding, At
  <2>2. CASE Fails(c)
    BY <1>7, <2>1, <2>2, FailsHolding DEF Release
  <2>3. CASE call' = [call EXCEPT ![c] = Answered] /\ UNCHANGED job
    <3>1. \A i \in Instances : job[i].for # c
      BY <1>7, Alone DEF Release
    <3>2. (\A d \in Calls \ {c} : call'[d] = call[d]) /\ call'[c].at = "done" /\ ~call'[c].lost
      BY <2>3, CallFields DEF LIInv, TypeOK
    <3>3. QED
      BY <2>1, <2>3, <3>1, <3>2 DEF LIInv, Holding, Waits, Unlocked
  <2>4. QED
    BY <1>7, <2>2, <2>3 DEF Release
<1>8. QED
  BY <1>1, <1>2, <1>3, <1>4, <1>5, <1>6, <1>7 DEF CallStep

LEMMA LIInvKept == LIInv /\ [Next]_vars => late' \/ LIInv'
<1> SUFFICES ASSUME LIInv, [Next]_vars, ~late' PROVE Holding' /\ Waits'
  BY TypesKept DEF LIInv
<1>1. ASSUME NEW i \in Instances, Set(i) PROVE Holding' /\ Waits'
  <2>1. PICK p \in Providers, v \in {0, next} :
          job' = IF i \in loadError THEN job
                 ELSE [job EXCEPT ![i] = [Job("set", Nobody) EXCEPT !.p = p, !.v = v]]
    BY <1>1 DEF Set
  <2>2. PICK new : new = [Job("set", Nobody) EXCEPT !.p = p, !.v = v]
    OBVIOUS
  <2>3. new.at = "ensure" /\ new.kind = "set" /\ new.for = Nobody
    BY <2>2 DEF Job, NoJob
  <2>4. \A k \in Instances : job'[k] = job[k] \/ job'[k] = new
    BY <2>1, <2>2 DEF LIInv, TypeOK
  <2>5. lock' = lock /\ call' = call
    BY <1>1 DEF Set, disk
  <2>6. QED
    BY <2>3, <2>4, <2>5 DEF LIInv, Holding, Waits
<1>2. ASSUME NEW i \in Instances, Reload(i) PROVE Holding' /\ Waits'
  <2>1. \A k \in Instances : job'[k] = job[k] \/ job'[k] = Job("reload", Nobody)
    BY <1>2 DEF Reload, LIInv, TypeOK
  <2>2. lock' = lock /\ call' = call
    BY <1>2 DEF Reload, disk
  <2>3. QED
    BY <2>1, <2>2, JobFields DEF LIInv, Holding, Waits
<1>3. ASSUME NEW i \in Instances, Crash(i) PROVE Holding' /\ Waits'
  <2>1. (\A k \in Instances \ {i} : job'[k] = job[k]) /\ job'[i] = Job("reload", Nobody)
    BY <1>3 DEF Crash, LIInv, TypeOK
  <2>2. \A c \in Calls : IF Owner[c] = i THEN call'[c] \in {NoCall, Answered} ELSE call'[c] = call[c]
    BY <1>3 DEF Crash, LIInv, TypeOK
  <2>3. lock'.aged = lock.aged /\ (lock'.by = lock.by \/ lock.by = i \/ (lock.by \in Calls /\ Owner[lock.by] = i))
    BY <1>3 DEF Crash, LIInv, TypeOK
  <2>4. Holding'
    BY <2>1, <2>2, <2>3, JobFields, CallFields DEF LIInv, Holding
  <2>5. Waits'
    BY <2>1, <2>2, JobFields DEF LIInv, Waits, TypeOK, Jobs
  <2>6. QED
    BY <2>4, <2>5
<1>4. CASE Age
  BY <1>4 DEF Age
<1>5. CASE Expire
  BY <1>5 DEF Expire, LIInv, Holding, Waits, disk
<1>6. CASE UNCHANGED vars
  BY <1>6 DEF vars, disk, LIInv, Holding, Waits
<1>7. QED
  BY <1>1, <1>2, <1>3, <1>4, <1>5, <1>6, JobStepHolding, CallStepHolding DEF Next

\* A lock that was taken for stale stays a fact.
LEMMA LateStays == late /\ [Next]_vars => late'
<1> SUFFICES ASSUME late, [Next]_vars PROVE late'
  OBVIOUS
<1>1. ASSUME NEW i \in Instances, Set(i) \/ Reload(i) \/ JobStep(i) \/ Crash(i) PROVE late'
  BY <1>1 DEF Set, Reload, Crash, JobStep, Ensure, Create, JobLocks, JobGivesUp, JobReads, JobWrites, ghosts
<1>2. ASSUME NEW c \in Calls, Ask(c) \/ CallStep(c) PROVE late'
  BY <1>2 DEF Ask, CallStep, CallLocks, CallGivesUp, CallReads, Touch, Answer, Refused, Unanswered, Fail, Release, ghosts
<1>3. CASE Age \/ Expire
  BY <1>3 DEF Age, Expire, ghosts
<1>4. QED
  BY <1>1, <1>2, <1>3 DEF Next, vars, ghosts

LEMMA LIInvHolds == Spec => [](late \/ LIInv)
<1>1. Init => LIInv
  BY TypesInit, HoldingInit DEF LIInv
<1>2. (late \/ LIInv) /\ [Next]_vars => (late \/ LIInv)'
  BY LIInvKept, LateStays
<1>3. QED
  BY <1>1, <1>2, PTL DEF Spec

\* What the variables hold has its type, whatever the providers do.
THEOREM TypesHold == Spec => []TypeOK
<1>1. QED
  BY TypesInit, TypesKept, PTL DEF Spec

\* Of all jobs and calls of all instances at most one is between taking the lock
\* and writing the file, until a lock is taken for stale.
THEOREM LockExcludes == Spec => []Exclusive
<1>1. late \/ LIInv => Exclusive
  BY DEF LIInv, Holding, Exclusive, Within, JobAt
<1>2. QED
  BY <1>1, LIInvHolds, PTL

------------------------------------------------------------------------------
(* The file and the tokens *)

\* Steps that save nothing, read nothing and spend no token.
LEMMA QuietKeeps ==
  ASSUME Keeping, UNCHANGED <<file, saved, emptied>>,
         \A i \in Instances : job'[i] = job[i] \/ job'[i].at # "write",
         \A c \in Calls : call'[c] = call[c] \/ call'[c].at # "asked"
  PROVE  Keeping'
BY DEF Keeping, Content

LEMMA QuietCounts ==
  ASSUME Counting, UNCHANGED <<saved, emptied, spent, again, next>>, Owed' = Owed,
         \A i \in Instances : job'[i].v \in {0, job[i].v},
         \A c \in Calls : call'[c] = call[c] \/ call'[c].at # "asked"
  PROVE  Counting'
BY DEF Counting, Spare

LEMMA Quiet ==
  ASSUME KIInv, UNCHANGED <<file, saved, emptied, spent, again, next>>, Owed' = Owed,
         \A i \in Instances : job'[i] = job[i] \/ (job'[i].at # "write" /\ job'[i].v \in {0, job[i].v}),
         \A c \in Calls : call'[c] = call[c] \/ call'[c].at # "asked"
  PROVE  Keeping' /\ Counting'
BY QuietKeeps, QuietCounts DEF KIInv

LEMMA SpendOther ==
  ASSUME TypeOK, NEW kind \in {"set", "expiry", "failure"}, NEW bound, Spend(kind, bound)
  PROVE  Owed' = Owed
BY DEF TypeOK, Spend, Owed, Kinds

LEMMA SpendOwed ==
  ASSUME TypeOK, NEW kind \in {"crash", "lost"}, NEW bound, Spend(kind, bound)
  PROVE  Owed' = Owed + 1
<1>1. used["crash"] \in Nat /\ used["lost"] \in Nat /\ DOMAIN used = Kinds
  BY DEF TypeOK, Kinds
<1> QED
  BY <1>1 DEF Spend, Owed, Kinds

LEMMA OwedMore ==
  ASSUME NEW a \in Nat, NEW s \in {0, 1}, NEW t \in {0, 1}, NEW o \in Nat, a + s <= o
  PROVE  a + t <= o + 1 /\ (a + s) + t <= o + 1 /\ a <= o
OBVIOUS

LEMMA OwedTyped == TypeOK => Owed \in Nat /\ again \in Nat /\ Spare \in {0, 1}
BY DEF TypeOK, Owed, Kinds, Spare

LEMMA JobStepKeeps ==
  ASSUME KIInv, NEW i \in Instances, JobStep(i)
  PROVE  Keeping' /\ Counting'
<1> TypeOK /\ LIInv
  BY DEF KIInv, LIInv
<1>1. CASE Ensure(i)
  <2>1. Ends(i) \/ ((Goes(i, "create") \/ Goes(i, "lock")) /\ UNCHANGED call)
    BY <1>1 DEF Ensure
  <2>2. UNCHANGED <<file, saved, emptied, spent, again, next, used>> /\ Owed' = Owed
    BY <1>1 DEF Ensure, disk, tokens, ghosts, Owed
  <2>3. QED
    BY <2>1, <2>2, EndsEffect, GoesEffect, Quiet
<1>2. CASE Create(i)
  <2>1. UNCHANGED <<saved, spent, again, next, used>> /\ Owed' = Owed /\ file' = Empty /\ (emptied' \/ file = NoFile)
    BY <1>2 DEF Create, tokens, Owed
  <2>2. Ends(i) \/ (Goes(i, "lock") /\ UNCHANGED call)
    BY <1>2 DEF Create
  <2>3. \A k \in Instances :
          job'[k] = job[k] \/ (job'[k].at # "write" /\ job'[k].v \in {0, job[k].v})
    BY <2>2, EndsEffect, GoesEffect
  <2>4. \A c \in Calls : call'[c] = call[c] \/ call'[c].at # "asked"
    BY <2>2, EndsEffect
  <2>5. CASE emptied'
    BY <2>5 DEF Keeping, Counting
  <2>6. CASE ~emptied'
    <3>1. ~emptied /\ file = NoFile
      BY <1>2, <2>1, <2>6 DEF Create
    <3>2. Content' = Content
      BY <2>1, <3>1 DEF Content
    <3>3. Keeping'
      BY <2>1, <2>3, <2>4, <3>1, <3>2 DEF KIInv, Keeping
    <3>4. Counting'
      BY <2>1, <2>3, <2>4, <3>1 DEF KIInv, Counting, Spare
    <3>5. QED
      BY <3>3, <3>4
  <2>7. QED
    BY <2>5, <2>6
<1>3. CASE JobLocks(i)
  <2>1. UNCHANGED <<file, saved, emptied, spent, again, next, used, call>> /\ Owed' = Owed
    BY <1>3 DEF JobLocks, tokens, ghosts, Owed
  <2>2. QED
    BY <1>3, <2>1, GoesEffect, Quiet DEF JobLocks
<1>4. CASE JobGivesUp(i)
  <2>1. UNCHANGED <<file, saved, emptied, spent, again, next, used>> /\ Owed' = Owed
    BY <1>4 DEF JobGivesUp, disk, tokens, ghosts, Owed
  <2>2. QED
    BY <1>4, <2>1, EndsEffect, Quiet DEF JobGivesUp
<1>5. CASE JobReads(i)
  <2>1. UNCHANGED <<file, saved, emptied, spent, again, next, used>> /\ Owed' = Owed
    BY <1>5 DEF JobReads, tokens, ghosts, Owed
  <2>2. CASE job[i].kind = "reload"
    BY <1>5, <2>1, <2>2, EndsEffect, Quiet DEF JobReads
  <2>3. CASE job[i].kind # "reload"
    <3>1. job' = [job EXCEPT ![i] = [job[i] EXCEPT !.merged = Merged(i), !.at = "write"]] /\ call' = call
      BY <1>5, <2>3 DEF JobReads
    <3>2. job[i] \in Jobs /\ job'[i] = [job[i] EXCEPT !.merged = Merged(i), !.at = "write"]
      BY <3>1 DEF TypeOK
    <3>3. job'[i].merged = Merged(i) /\ job'[i].p = job[i].p /\ job'[i].v = job[i].v /\ job'[i].at = "write"
      BY <3>2 DEF Jobs
    <3>4. \A k \in Instances \ {i} : job'[k] = job[k]
      BY <3>1 DEF TypeOK
    <3>5. emptied \/ Merged(i) = [saved EXCEPT ![job[i].p] = job[i].v]
      BY DEF Merged, KIInv, Keeping
    <3>6. Keeping'
      BY <2>1, <3>1, <3>3, <3>4, <3>5 DEF KIInv, Keeping, Content
    <3>7. Counting'
      BY <2>1, <3>1, <3>3, <3>4, QuietCounts DEF KIInv
    <3>8. QED
      BY <3>6, <3>7
  <2>4. QED
    BY <2>2, <2>3
<1>6. CASE JobWrites(i)
  <2>1. file' = job[i].merged /\ saved' = [saved EXCEPT ![job[i].p] = job[i].v]
    BY <1>6 DEF JobWrites
  <2>2. \A k \in Instances \ {i} : job[k].at \notin {"read", "write"}
    BY <1>6 DEF LIInv, Holding, JobWrites, JobAt
  <2>3. \A c \in Calls : call[c].at # "asked"
    BY <1>6 DEF LIInv, Holding, JobWrites, JobAt
  <2>4. /\ \A k \in Instances \ {i} : job'[k] = job[k]
        /\ job'[i].at = "off" /\ job'[i].v = 0
        /\ \A c \in Calls : call'[c].at # "asked"
    BY <1>6, <2>3, EndsEffect DEF JobWrites
  <2>5. job[i].merged \in Credentials /\ NoFile \notin Credentials
    BY DEF TypeOK, Jobs, NoFile, Credentials, Providers
  <2>6. UNCHANGED <<emptied, spent, again, next, used>> /\ Owed' = Owed
    BY <1>6 DEF JobWrites, tokens, Owed
  <2>7. Keeping'
    <3>1. file' # NoFile /\ \A k \in Instances : job'[k].at # "write"
      BY <2>1, <2>2, <2>4, <2>5
    <3>2. emptied \/ Content' = saved'
      BY <1>6, <2>1, <3>1 DEF KIInv, Keeping, JobWrites, JobAt, Content
    <3>3. QED
      BY <2>4, <2>6, <3>1, <3>2 DEF Keeping
  <2>8. emptied \/ saved'["oauth"] \in {saved["oauth"], job[i].v}
    BY <2>1 DEF TypeOK, Credentials, Providers
  <2>9. CASE emptied
    BY <2>6, <2>7, <2>9 DEF Counting
  <2>10. CASE ~emptied /\ saved'["oauth"] = saved["oauth"]
    <3>1. Spare' = Spare
      BY <2>6, <2>10 DEF Spare
    <3>2. QED
      BY <2>4, <2>6, <2>7, <2>10, <3>1 DEF KIInv, Counting
  <2>11. CASE ~emptied /\ saved'["oauth"] = job[i].v
    <3>1. job[i].v \notin spent /\ job[i].v < next
      BY <2>11 DEF KIInv, Counting, TypeOK
    <3>2. Spare' = 0 /\ Spare \in {0, 1}
      BY <2>6, <2>11, <3>1 DEF Spare
    <3>3. again <= Owed
      BY <2>11, OwedTyped, OwedMore DEF KIInv, Counting
    <3>4. QED
      BY <2>4, <2>6, <2>7, <2>11, <3>1, <3>2, <3>3 DEF KIInv, Counting, TypeOK
  <2>12. QED
    BY <2>8, <2>9, <2>10, <2>11
<1>7. QED
  BY <1>1, <1>2, <1>3, <1>4, <1>5, <1>6 DEF JobStep

LEMMA CallStepKeeps ==
  ASSUME KIInv, NEW c \in Calls, Ask(c) \/ CallStep(c)
  PROVE  Keeping' /\ Counting'
<1> TypeOK /\ LIInv /\ Owner[c] \in Instances
  BY DEF KIInv, LIInv
<1>1. CASE Ask(c)
  <2>1. \A i \in Instances : job'[i] = job[i] \/ job'[i] = Job("ensure", c)
    BY <1>1 DEF Ask, TypeOK
  <2>2. UNCHANGED <<file, saved, emptied, spent, again, next, used>> /\ Owed' = Owed
    BY <1>1 DEF Ask, disk, tokens, ghosts, Owed
  <2>3. QED
    BY <1>1, <2>1, <2>2, ToEffect, JobFields, Quiet DEF Ask
<1>2. CASE CallLocks(c)
  <2>1. UNCHANGED <<file, saved, emptied, spent, again, next, used, job>> /\ Owed' = Owed
    BY <1>2 DEF CallLocks, tokens, ghosts, Owed
  <2>2. QED
    BY <1>2, <2>1, ToEffect, Quiet DEF CallLocks
<1>3. ASSUME Fails(c), UNCHANGED <<file, saved, emptied, spent, again, next>>, Owed' = Owed
      PROVE  Keeping' /\ Counting'
  <2>1. \A i \in Instances : job'[i] = job[i] \/ job'[i] = Job("reload", c)
    BY <1>3 DEF Fails, TypeOK
  <2>2. QED
    BY <1>3, <2>1, ToEffect, JobFields, Quiet DEF Fails
<1>4. CASE CallGivesUp(c)
  BY <1>3, <1>4 DEF CallGivesUp, disk, tokens, ghosts, Owed
<1>5. CASE CallReads(c)
  <2>1. UNCHANGED <<file, saved, emptied, spent, again, next, used, job, expired>> /\ Owed' = Owed
    BY <1>5 DEF CallReads, disk, tokens, ghosts, Owed
  <2> DEFINE s == IF Token(c) \in expired THEN "asked" ELSE "release"
  <2>2. call' = [call EXCEPT ![c] = [call[c] EXCEPT !.read = Content, !.token = Token(c), !.at = s]]
    BY <1>5 DEF CallReads
  <2>3. call[c] \in States /\ call'[c] = [call[c] EXCEPT !.read = Content, !.token = Token(c), !.at = s]
    BY <2>2 DEF TypeOK
  <2>4. call'[c].read = Content /\ call'[c].token = Token(c) /\ call'[c].at = s
    BY <2>3 DEF States
  <2>5. \A d \in Calls \ {c} : call'[d] = call[d]
    BY <2>2 DEF TypeOK
  <2>6. emptied \/ (Content = saved /\ Token(c) = saved["oauth"])
    BY DEF KIInv, Keeping, Token
  <2>7. Keeping'
    BY <2>1, <2>4, <2>5, <2>6 DEF KIInv, Keeping, Content
  <2>8. s = "asked" => Token(c) # 0
    BY <2>2 DEF TypeOK
  <2>9. Counting'
    <3>1. Spare' = Spare
      BY <2>1 DEF Spare
    <3>2. QED
      BY <2>1, <2>4, <2>5, <2>6, <2>8, <3>1 DEF KIInv, Counting
  <2>10. QED
    BY <2>7, <2>9
<1>6. CASE Touch(c)
  BY <1>6 DEF Touch, At, LIInv, Holding
<1>7. CASE Refused(c)
  <2>1. PICK f : call' = [call EXCEPT ![c] = [call[c] EXCEPT !.at = "release", !.failed = f]]
    BY <1>7 DEF Refused, Fail
  <2>2. call[c] \in States /\ call'[c] = [call[c] EXCEPT !.at = "release", !.failed = f]
    BY <2>1 DEF TypeOK
  <2>3. call'[c].at = "release" /\ \A d \in Calls \ {c} : call'[d] = call[d]
    BY <2>1, <2>2 DEF TypeOK, States
  <2>4. UNCHANGED <<file, saved, emptied, spent, again, next, job>>
    BY <1>7 DEF Refused, disk, tokens, ghosts
  <2>5. QED
    BY <1>7, <2>3, <2>4, Quiet, SpendOther DEF Refused
<1>11. CASE Unanswered(c)
  <2>1. PICK f : call' = [call EXCEPT ![c] = [call[c] EXCEPT !.at = "release", !.failed = f]]
    BY <1>11 DEF Unanswered, Fail
  <2>2. call[c] \in States /\ call'[c] = [call[c] EXCEPT !.at = "release", !.failed = f]
    BY <2>1 DEF TypeOK
  <2>3. call'[c].at = "release" /\ \A d \in Calls \ {c} : call'[d] = call[d]
    BY <2>1, <2>2 DEF TypeOK, States
  <2>4. UNCHANGED <<file, saved, emptied, next, job>> /\ Owed' = Owed + 1
    BY <1>11, SpendOwed DEF Unanswered, disk, ghosts
  <2>5. Keeping'
    BY <2>3, <2>4, QuietKeeps DEF KIInv
  <2>6. CASE emptied
    <3>1. emptied'
      BY <2>4, <2>6
    <3>2. QED
      BY <2>5, <3>1 DEF Counting
  <2>7. CASE ~emptied
    <3>1. call[c].token = saved["oauth"] /\ call[c].token # 0 /\ saved["oauth"] < next
      BY <1>11, <2>7 DEF KIInv, Counting, Unanswered, At
    <3>2. spent' = spent \cup {saved["oauth"]} /\ again' = again + Spare
      BY <1>11, <3>1 DEF Unanswered, Replaced, Spare, TypeOK
    <3>3. again' + Spare' <= Owed'
      <4>1. Spare' \in {0, 1} /\ again + Spare <= Owed
        BY <2>7 DEF KIInv, Counting, Spare
      <4>2. (again + Spare) + Spare' <= Owed + 1
        BY <4>1, OwedTyped, OwedMore
      <4>3. QED
        BY <2>4, <3>2, <4>2
    <3>4. \A i \in Instances : job[i].v # 0 =>
            /\ job[i].v < next /\ job[i].v \notin spent' /\ job[i].v # saved["oauth"]
            /\ \A k \in Instances \ {i} : job[k].v # job[i].v
      BY <2>7, <3>2 DEF KIInv, Counting
    <3>5. \A t \in spent' : t # 0 /\ t < next
      BY <2>7, <3>1, <3>2 DEF KIInv, Counting
    <3>6. \A d \in Calls : call'[d].at = "asked" => call'[d].token = saved["oauth"] /\ call'[d].token # 0
      BY <2>3, <2>7 DEF KIInv, Counting
    <3>7. emptied' = emptied /\ next' = next /\ saved' = saved /\ job' = job
      BY <2>4
    <3>8. QED
      BY <2>5, <3>1, <3>3, <3>4, <3>5, <3>6, <3>7 DEF Counting
  <2> QED
    BY <2>5, <2>6, <2>7
<1>8. CASE Release(c)
  <2>1. UNCHANGED <<file, saved, emptied, spent, again, next, used>> /\ Owed' = Owed
    BY <1>8 DEF Release, tokens, ghosts, Owed
  <2>2. CASE call' = [call EXCEPT ![c] = Answered] /\ UNCHANGED job
    BY <2>1, <2>2, CallFields, Quiet DEF TypeOK
  <2>3. QED
    BY <1>3, <1>8, <2>1, <2>2 DEF Release
<1>9. CASE Answer(c)
  <2>1. file' = [call[c].read EXCEPT !["oauth"] = next] /\ saved' = [saved EXCEPT !["oauth"] = next]
    BY <1>9 DEF Answer, Refreshed, LIInv, Holding
  <2>2. PICK f : call' = [call EXCEPT ![c] = [call[c] EXCEPT !.at = "release", !.failed = f]]
    BY <1>9 DEF Answer
  <2>3. call[c] \in States /\ call'[c] = [call[c] EXCEPT !.at = "release", !.failed = f]
    BY <2>2 DEF TypeOK
  <2>4. call'[c].at = "release" /\ \A d \in Calls \ {c} : call'[d] = call[d]
    BY <2>2, <2>3 DEF TypeOK, States
  <2>5. /\ \A i \in Instances : job[i].at \notin {"read", "write"}
        /\ \A d \in Calls \ {c} : call[d].at # "asked"
        /\ call[c].at = "asked"
    BY <1>9 DEF LIInv, Holding, Answer, At
  <2>6. UNCHANGED <<emptied, job, used>> /\ next' = next + 1 /\ Owed' = Owed
    BY <1>9 DEF Answer, Owed
  <2>7. Keeping'
    <3>1. file' # NoFile
      BY <2>1, <2>3 DEF States, Credentials, Providers, NoFile
    <3>2. emptied \/ Content' = saved'
      BY <2>1, <2>5, <3>1 DEF KIInv, Keeping, Content
    <3>3. QED
      BY <2>4, <2>5, <2>6, <3>1, <3>2 DEF KIInv, Keeping
  <2>8. CASE emptied
    BY <2>6, <2>7, <2>8 DEF Counting
  <2>9. CASE ~emptied
    <3>1. call[c].token = saved["oauth"] /\ call[c].token # 0 /\ saved["oauth"] < next /\ next \in Nat
      BY <2>5, <2>9 DEF KIInv, Counting, TypeOK
    <3>2. saved'["oauth"] = next
      BY <2>1 DEF TypeOK, Credentials, Providers
    <3>3. spent' = spent \cup {saved["oauth"]} /\ again' = again + Spare
      BY <1>9, <3>1 DEF Answer, Replaced, Spare, TypeOK
    <3>4. \A t \in spent' : t # 0 /\ t < next
      BY <2>9, <3>1, <3>3 DEF KIInv, Counting
    <3>5. Spare' = 0 /\ again' + Spare' <= Owed
      <4>1. next \notin spent'
        BY <3>1, <3>4
      <4>2. Spare' = 0
        BY <3>2, <4>1 DEF Spare
      <4>3. again' \in Nat /\ again' <= Owed
        BY <2>9, <3>3 DEF KIInv, Counting, TypeOK, Spare
      <4>4. QED
        BY <4>2, <4>3
    <3>6. \A i \in Instances : job[i].v # 0 =>
            /\ job[i].v < next + 1 /\ job[i].v \notin spent' /\ job[i].v # next
            /\ \A k \in Instances \ {i} : job[k].v # job[i].v
      BY <2>9, <3>1, <3>3 DEF KIInv, Counting, TypeOK, Jobs
    <3>7. \A t \in spent' : t # 0 /\ t < next + 1
      BY <3>1, <3>3, <3>4 DEF TypeOK
    <3>8. QED
      BY <2>4, <2>5, <2>6, <2>7, <3>1, <3>2, <3>5, <3>6, <3>7 DEF Counting
  <2>10. QED
    BY <2>8, <2>9
<1>10. QED
  BY <1>1, <1>2, <1>4, <1>5, <1>6, <1>7, <1>8, <1>9, <1>11 DEF CallStep

LEMMA KIInvKept == KIInv /\ [Next]_vars => late' \/ KIInv'
<1> SUFFICES ASSUME KIInv, [Next]_vars, ~late' PROVE Keeping' /\ Counting'
  BY LIInvKept DEF KIInv
<1> TypeOK /\ LIInv
  BY DEF KIInv, LIInv
<1>1. ASSUME NEW i \in Instances, Set(i) PROVE Keeping' /\ Counting'
  <2>1. PICK p \in Providers, v \in {0, next} :
          job' = IF i \in loadError THEN job
                 ELSE [job EXCEPT ![i] = [Job("set", Nobody) EXCEPT !.p = p, !.v = v]]
    BY <1>1 DEF Set
  <2>2. PICK new : new = [Job("set", Nobody) EXCEPT !.p = p, !.v = v]
    OBVIOUS
  <2>3. new.at = "ensure" /\ new.v = v
    BY <2>2 DEF Job, NoJob
  <2>4. job' = job \/ job' = [job EXCEPT ![i] = new]
    BY <2>1, <2>2
  <2>5. UNCHANGED <<file, saved, emptied, spent, again, call>> /\ next' = next + 1
    BY <1>1 DEF Set, disk, tokens
  <2>6. Owed' = Owed
    BY <1>1, SpendOther DEF Set
  <2>7. Keeping'
    BY <2>3, <2>4, <2>5 DEF KIInv, Keeping, TypeOK, Content
  <2>8. Counting'
    <3>1. CASE emptied
      BY <2>5, <3>1 DEF Counting
    <3>2. CASE ~emptied
      <4>1. next \notin spent /\ next # saved["oauth"] /\ \A k \in Instances : job[k].v # next
        BY <3>2 DEF KIInv, Counting, TypeOK, Jobs
      <4>2. \A k \in Instances : job'[k] = job[k] \/ (k = i /\ job'[k].v \in {0, next})
        BY <2>3, <2>4 DEF TypeOK
      <4>3. Spare' = Spare
        BY <2>5 DEF Spare
      <4>4. \A k \in Instances : job[k].v \in Nat
        BY DEF TypeOK, Jobs
      <4>5. \A k \in Instances : job'[k].v # 0 =>
              /\ job'[k].v < next + 1 /\ job'[k].v \notin spent /\ job'[k].v # saved["oauth"]
              /\ \A j \in Instances \ {k} : job'[j].v # job'[k].v
        BY <3>2, <4>1, <4>2, <4>4 DEF KIInv, Counting, TypeOK
      <4>6. (\A t \in spent : t # 0 /\ t < next + 1) /\ saved["oauth"] < next + 1
        <5>1. next \in Nat /\ spent \subseteq Nat
          BY DEF TypeOK
        <5>2. saved["oauth"] \in Nat
          BY DEF TypeOK, Credentials, Providers
        <5>3. (\A t \in spent : t # 0 /\ t < next) /\ saved["oauth"] < next
          BY <3>2 DEF KIInv, Counting
        <5>4. \A t \in spent : t # 0 /\ t < next + 1
          BY <5>1, <5>3
        <5>5. saved["oauth"] < next + 1
          BY <5>1, <5>2, <5>3
        <5> QED
          BY <5>4, <5>5
      <4>7. QED
        BY <2>5, <2>6, <3>2, <4>3, <4>5, <4>6 DEF KIInv, Counting
    <3>3. QED
      BY <3>1, <3>2
  <2>9. QED
    BY <2>7, <2>8
<1>2. ASSUME NEW i \in Instances, Reload(i) PROVE Keeping' /\ Counting'
  <2>1. \A k \in Instances : job'[k] = job[k] \/ job'[k] = Job("reload", Nobody)
    BY <1>2 DEF Reload, TypeOK
  <2>2. UNCHANGED <<file, saved, emptied, spent, again, next, call>>
    BY <1>2 DEF Reload, disk, tokens, ghosts
  <2>3. Owed' = Owed
    BY <1>2, SpendOther DEF Reload
  <2>4. QED
    BY <2>1, <2>2, <2>3, JobFields, Quiet
<1>3. ASSUME NEW i \in Instances, Crash(i) PROVE Keeping' /\ Counting'
  <2>1. \A k \in Instances : job'[k] = job[k] \/ job'[k] = Job("reload", Nobody)
    BY <1>3 DEF Crash, TypeOK
  <2>2. \A c \in Calls : call'[c] = call[c] \/ call'[c].at \in {"off", "done"}
    BY <1>3, CallFields DEF Crash, TypeOK
  <2>3. UNCHANGED <<next, saved>> /\ (emptied => emptied')
    BY <1>3 DEF Crash
  <2>4. emptied' \/ file' = file
    BY <1>3 DEF Crash
  <2>5. Keeping'
    <3>1. \A k \in Instances : job'[k] = job[k] \/ job'[k].at = "ensure"
      BY <2>1, JobFields
    <3>2. ASSUME ~emptied'
          PROVE  /\ Content' = saved'
                 /\ \A k \in Instances : job'[k].at = "write" =>
                      job'[k].merged = [saved' EXCEPT ![job'[k].p] = job'[k].v]
                 /\ \A c \in Calls : call'[c].at = "asked" => call'[c].read = saved'
      BY <2>2, <2>3, <2>4, <3>1, <3>2 DEF KIInv, Keeping, Content
    <3>3. QED
      BY <3>2 DEF Keeping
  <2>6. CASE emptied'
    BY <2>5, <2>6 DEF Counting
  <2>7. CASE ~emptied'
    <3>1. ~emptied
      BY <2>3, <2>7
    <3>2. \/ UNCHANGED <<spent, again>>
          \/ /\ spent' = spent \cup {saved["oauth"]} /\ again' = again + Spare
             /\ saved["oauth"] # 0
      <4>1. \/ UNCHANGED <<spent, again>>
            \/ \E c \in Calls : call[c].at = "asked" /\ Replaced(call[c].token)
        BY <1>3 DEF Crash
      <4>2. QED
        BY <3>1, <4>1 DEF KIInv, Counting, Replaced, Spare, TypeOK
    <3>3. \A t \in spent' : t \in spent \/ (t = saved["oauth"] /\ t # 0)
      BY <3>2
    <3>4. Owed' = Owed + 1
      BY <1>3, SpendOwed DEF Crash
    <3>5. Spare' \in {0, 1}
      BY DEF Spare
    <3>6. again' + Spare' <= Owed'
      <4>1. again + Spare <= Owed
        BY <3>1 DEF KIInv, Counting
      <4>2. again + Spare' <= Owed + 1 /\ (again + Spare) + Spare' <= Owed + 1
        BY <3>5, <4>1, OwedTyped, OwedMore
      <4>3. again' = again \/ again' = again + Spare
        BY <3>2
      <4>4. QED
        BY <3>4, <4>2, <4>3
    <3>7. \A t \in spent' : t # 0 /\ t < next
      BY <3>1, <3>3 DEF KIInv, Counting
    <3>8. \A k \in Instances : job'[k].v # 0 =>
            /\ job'[k].v < next /\ job'[k].v \notin spent' /\ job'[k].v # saved["oauth"]
            /\ \A j \in Instances \ {k} : job'[j].v # job'[k].v
      BY <2>1, <3>1, <3>3, JobFields DEF KIInv, Counting
    <3>9. \A c \in Calls : call'[c].at = "asked" =>
            call'[c].token = saved["oauth"] /\ call'[c].token # 0
      BY <2>2, <3>1 DEF KIInv, Counting
    <3>10. saved["oauth"] < next
      BY <3>1 DEF KIInv, Counting
    <3>11. next' = next /\ saved' = saved
      BY <2>3
    <3>12. QED
      BY <2>5, <3>6, <3>7, <3>8, <3>9, <3>10, <3>11 DEF Counting
  <2>8. QED
    BY <2>5, <2>6, <2>7
<1>4. CASE Age
  BY <1>4 DEF Age
<1>5. CASE Expire
  <2>1. UNCHANGED <<file, saved, emptied, spent, again, next, call, job>>
    BY <1>5 DEF Expire, disk, ghosts
  <2>2. QED
    BY <1>5, <2>1, SpendOther, Quiet DEF Expire
<1>6. CASE UNCHANGED vars
  BY <1>6, Quiet DEF vars, disk, memory, tokens, ghosts, Owed
<1>7. QED
  BY <1>1, <1>2, <1>3, <1>4, <1>5, <1>6, JobStepKeeps, CallStepKeeps DEF Next

LEMMA KIInvHolds == Spec => [](late \/ KIInv)
<1>1. Init => Keeping
  BY JobFields, CallFields DEF Init, Keeping
<1>2. Init => Counting
  <2> SUFFICES ASSUME Init PROVE Counting
    OBVIOUS
  <2>1. First["oauth"] = 1 /\ Empty["oauth"] = 0
    BY DEF First, Empty, Providers
  <2>2. saved["oauth"] \in {0, 1}
    BY <2>1 DEF Init, Content
  <2>3. QED
    BY <2>2, JobFields, CallFields DEF Init, Counting, Spare, Owed, Kinds
<1>3. Init => KIInv
  BY <1>1, <1>2, TypesInit, HoldingInit DEF LIInv, KIInv
<1>4. (late \/ KIInv) /\ [Next]_vars => (late \/ KIInv)'
  BY KIInvKept, LateStays
<1>5. QED
  BY <1>3, <1>4, PTL DEF Spec

\* What one instance saved is in the file until it is changed for that provider,
\* whatever others save and whoever is killed: but for an empty file that takes its
\* place, and until a lock is taken for stale.
THEOREM SavedStays == Spec => []EditsPreserved
<1>1. late \/ KIInv => EditsPreserved
  BY DEF KIInv, Keeping, EditsPreserved
<1>2. QED
  BY <1>1, KIInvHolds, PTL

\* A token is exchanged once, but for exchanges whose answer is lost on the way, or
\* by a kill before it is saved.
THEOREM TokensExchangedOnce == Spec => []RefreshedOnce
<1>1. late \/ KIInv => RefreshedOnce
  BY DEF KIInv, LIInv, TypeOK, Counting, RefreshedOnce, Spare, Owed, Kinds
<1>2. QED
  BY <1>1, KIInvHolds, PTL

================================================================================
