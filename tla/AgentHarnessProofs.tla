-------------------------- MODULE AgentHarnessProofs --------------------------
(***************************************************************************)
(* Proofs about AgentHarness for every number of prompts, queue mode and   *)
(* bound, in layers that each rest on the ones before:                     *)
(*   - IInv and Appending: what the handles of a run point at, that        *)
(*     without failures one operation at a time is in progress, and that   *)
(*     an idle harness keeps no deferred write but those of a failed       *)
(*     prompt or of an operation;                                          *)
(*   - Moving: what every step of a run holds in hand, and who appends;    *)
(*   - Numbering and Keeping: a deferred write is saved once, in order;    *)
(*   - Trees and Following: the session is a tree and the snapshot of a    *)
(*     turn is the branch to its leaf, which well-founded induction on the *)
(*     depth of an entry relates to the path the storage walks;            *)
(*   - Placed: each message that was queued is in one place.               *)
(***************************************************************************)
EXTENDS AgentHarness, FiniteSetTheorems, WellFoundedInduction, TLAPS

USE AgentHarnessAssumption

Writes == [kind : {"write"}, n : Nat]

\* The types of what decides who is let in.
Types ==
  /\ phase \in {"idle", "turn", "compaction", "branch_summary"}
  /\ runPromise \in Prompts \union {None} /\ controller \in Prompts \union {None}
  /\ at \in [Prompts -> Steps]
  /\ op \in [at : {"off", "compact", "navigate", "summarize", "ending"}, target : {op.target}]
  /\ pending \in Seq(Writes)
  /\ used \in [Acts -> Nat]
  /\ crossed \in BOOLEAN

\* Without failures the phase is taken by one prompt or operation, which has it
\* until its end.
Taking ==
  used.fault = 0 =>
    /\ \A p \in Prompts : at[p] \in Busy => phase = "turn"
    /\ phase = "turn" => \E p \in Prompts : at[p] \in Busy
    /\ \A p, q \in Prompts : at[p] \in Busy /\ at[q] \in Busy => p = q
    /\ phase \in {"compaction", "branch_summary"} <=> op.at # "off"
    /\ \A p \in Prompts : at[p] \notin {"flushTurnFailing", "flushFinalFailing"}

\* While the harness is idle, or an operation in progress, what is pending is left.
Leaving ==
  /\ phase = "idle" \/ op.at # "off"
  /\ used.fault = 0 \/ ~crossed
  => ToSet(pending) \subseteq left

\* A call appends only while it saves or flushes.
Appending ==
  /\ io = [a \in Actors |-> io[a]]
  /\ \A p \in Prompts : io[p].on => at[p] \in Saving \union Flushing

IInv == Types /\ Taking /\ HandlesExact /\ Leaving

------------------------------------------------------------------------------
(* Counting and writing *)

LEMMA MayCounts ==
  ASSUME IInv, NEW kind \in Acts, May(kind)
  PROVE  /\ used' \in [Acts -> Nat]
         /\ kind # "fault" => used'.fault = used.fault
         /\ kind = "fault" => used'.fault # 0
BY DEF IInv, Types, May, Acts

LEMMA ShiftedPending ==
  ASSUME IInv, NEW queued
  PROVE  Shifted(queued) \in Seq(Writes) /\ ToSet(Shifted(queued)) \subseteq ToSet(pending)
<1>1. pending \in Seq(Writes)
  BY DEF IInv, Types
<1>2. CASE queued /\ pending # <<>>
  <2>1. /\ Tail(pending) \in Seq(Writes) /\ Len(Tail(pending)) = Len(pending) - 1
        /\ \A i \in 1..Len(Tail(pending)) : Tail(pending)[i] = pending[i + 1]
    BY <1>1, <1>2
  <2>2. QED
    BY <1>1, <1>2, <2>1 DEF Shifted, ToSet
<1>3. CASE ~(queued /\ pending # <<>>)
  BY <1>1, <1>3 DEF Shifted
<1>4. QED
  BY <1>2, <1>3

------------------------------------------------------------------------------
(* Steps of a call *)

\* Call p goes on, inside its run or before it, busy or not, and nobody is let in.
LEMMA GoingOn ==
  ASSUME IInv, NEW p \in Prompts, NEW s \in Steps,
         at' = [at EXCEPT ![p] = s], ~Over(p), s \notin {"new", "done", "failed"},
         at[p] \in InLoop <=> s \in InLoop,
         used' \in [Acts -> Nat], used'.fault = 0 => used.fault = 0,
         used'.fault = 0 => /\ at[p] \in Busy <=> s \in Busy
                            /\ s \notin {"flushTurnFailing", "flushFinalFailing"},
         UNCHANGED <<phase, runPromise, controller, crossed, op, pending, left>>
  PROVE  IInv'
<1>1. Types'
  BY DEF IInv, Types
<1>2. Taking'
  BY DEF IInv, Types, Taking
<1>3. HandlesExact'
  BY DEF IInv, Types, HandlesExact, Over
<1>4. Leaving'
  BY DEF IInv, Leaving
<1>5. QED
  BY <1>1, <1>2, <1>3, <1>4 DEF IInv

\* Steps that leave the call where it is, and acts of others.
LEMMA Staying ==
  ASSUME IInv, used' \in [Acts -> Nat], used'.fault = 0 => used.fault = 0,
         crossed' \in BOOLEAN, crossed => crossed',
         pending' \in Seq(Writes),
         (phase = "idle" \/ op.at # "off") /\ ToSet(pending) \subseteq left
           => ToSet(pending') \subseteq left',
         UNCHANGED <<phase, runPromise, controller, at>>,
         op' \in [at : {"off", "compact", "navigate", "summarize", "ending"},
                  target : {op'.target}],
         op'.at = "off" <=> op.at = "off"
  PROVE  IInv'
<1>1. Types'
  BY DEF IInv, Types
<1>2. Taking'
  BY DEF IInv, Types, Taking
<1>3. HandlesExact'
  BY DEF IInv, Types, HandlesExact, Over
<1>4. Leaving'
  BY DEF IInv, Leaving
<1>5. QED
  BY <1>1, <1>2, <1>3, <1>4 DEF IInv

\* Call p ends; an ended call has no handle.
LEMMA Ending ==
  ASSUME IInv, NEW p \in Prompts, NEW s \in {"done", "failed"},
         at' = [at EXCEPT ![p] = s], ~Over(p), runPromise' = None,
         controller' = None \/ (controller' = controller /\ at[p] \notin InLoop),
         used' \in [Acts -> Nat], used'.fault = 0 => used.fault = 0 /\ at[p] \notin Busy,
         \/ UNCHANGED <<phase, left>>
         \/ phase' = "idle" /\ ToSet(pending) \subseteq left' /\ used'.fault # 0,
         UNCHANGED <<crossed, op, pending>>
  PROVE  IInv'
<1>1. Types'
  BY DEF IInv, Types, Steps
<1>2. Taking'
  BY DEF IInv, Types, Taking, Busy, InLoop
<1>3. HandlesExact'
  BY DEF IInv, Types, HandlesExact, Over, InLoop
<1>4. Leaving'
  BY DEF IInv, Leaving
<1>5. QED
  BY <1>1, <1>2, <1>3, <1>4 DEF IInv

\* Nobody is let in beside somebody unless it is recorded.
LEMMA AloneUnlessCrossed ==
  ASSUME IInv, LetIn
  PROVE  /\ crossed' \in BOOLEAN
         /\ crossed => crossed'
         /\ ~crossed' => \A q \in Prompts : Over(q)
BY DEF IInv, Types, LetIn, InProgress

------------------------------------------------------------------------------
LEMMA InitHolds == Init => IInv
<1> SUFFICES ASSUME Init PROVE IInv
  OBVIOUS
<1>1. /\ op \in [at : {"off", "compact", "navigate", "summarize", "ending"}, target : {op.target}]
      /\ op.at = "off"
  BY DEF Init, NoOp
<1>2. used \in [Acts -> Nat] /\ at \in [Prompts -> Steps] /\ \A p \in Prompts : at[p] = "new"
  BY DEF Init, Acts, Steps
<1>3. pending \in Seq(Writes) /\ ToSet(pending) = {}
  BY DEF Init, ToSet
<1>4. Types
  BY <1>1, <1>2, <1>3 DEF Init, Types
<1>5. Taking
  BY <1>1, <1>2 DEF Init, Taking, Busy, InLoop
<1>6. HandlesExact
  BY <1>2 DEF Init, HandlesExact, Over, InLoop
<1>7. Leaving
  BY <1>3 DEF Leaving
<1>8. QED
  BY <1>4, <1>5, <1>6, <1>7 DEF IInv

\* A call's own steps.
LEMMA StepKeeps ==
  ASSUME IInv, NEW p \in Prompts, Step(p)
  PROVE  IInv'
<1> USE DEF Goto, Over
<1>0. used \in [Acts -> Nat] /\ at \in [Prompts -> Steps]
  BY DEF IInv, Types
<1>1. CASE Begin(p)
  <2>1. PICK s \in {"hook", "taking"} : at' = [at EXCEPT ![p] = s]
    BY <1>1 DEF Begin
  <2>2. QED
    BY <1>0, <1>1, <2>1, GoingOn DEF Begin, handles, writes, Steps, Busy, InLoop
<1>2. CASE Taken(p)
  BY <1>0, <1>2, GoingOn DEF Taken, handles, writes, Steps, Busy, InLoop
<1>3. CASE Launch(p)
  <2> USE <1>3
  <2>1. Types'
    BY DEF Launch, IInv, Types, writes, Steps, InLoop
  <2>2. Taking'
    BY <1>0 DEF Launch, IInv, Taking, Busy, InLoop
  <2>3. HandlesExact'
    BY <1>0 DEF Launch, IInv, Types, HandlesExact, InLoop
  <2>4. Leaving'
    BY DEF Launch, IInv, Leaving, writes
  <2>5. QED
    BY <2>1, <2>2, <2>3, <2>4 DEF IInv
<1>4. CASE Save(p)
  BY <1>0, <1>4, Staying DEF Save, handles, runs, writes, IInv, Types
<1>5. CASE Saved(p)
  BY <1>0, <1>5, ShiftedPending, Staying DEF Saved, handles, IInv, Types
<1>6. CASE Emitted(p)
  <2>1. \E s \in {"drained", "cancelled", "model", "flushEnd", "flushNext", "flushTurn"} :
          at' = [at EXCEPT ![p] = s]
    BY <1>6 DEF Emitted, Drain, GoesOn, Call, AfterTurn, Saving
  <2>2. QED
    BY <1>0, <1>6, <2>1, GoingOn DEF Emitted, handles, writes, Saving, Steps, Busy, InLoop
<1>7. CASE Inject(p)
  BY <1>0, <1>7, GoingOn DEF Inject, handles, writes, Steps, Busy, InLoop
<1>8. CASE Respond(p)
  <2>1. used' \in [Acts -> Nat] /\ used'.fault = used.fault
    BY <1>0, <1>8, MayCounts DEF Respond, Acts
  <2>2. at[p] \in {"model", "cancelled"} /\ at' = [at EXCEPT ![p] = "respond"]
    BY <1>8 DEF Respond, Responds
  <2>3. QED
    BY <1>0, <1>8, <2>1, <2>2, GoingOn DEF Respond, handles, writes, Steps, Busy, InLoop
<1>9. CASE Heard(p)
  BY <1>0, <1>9, GoingOn DEF Heard, handles, writes, Steps, Busy, InLoop
<1>10. CASE NextTurn(p)
  <2>1. \E s \in {"drained", "cancelled", "model", "flushEnd"} : at' = [at EXCEPT ![p] = s]
    BY <1>10 DEF NextTurn, Drain, GoesOn, Call
  <2>2. QED
    BY <1>0, <1>10, <2>1, GoingOn DEF NextTurn, handles, writes, Steps, Busy, InLoop
<1>11. CASE Flushed(p)
  <2>1. CASE at[p] = "flushEnd"
    <3> USE <1>11, <2>1
    <3>1. at' = [at EXCEPT ![p] = "settling"] /\ phase' = "idle" /\ pending = <<>>
      BY DEF Flushed, BecomesIdle
    <3>2. Types'
      BY <3>1 DEF Flushed, IInv, Types, writes, Steps, InLoop
    <3>3. Taking'
      BY <1>0, <3>1 DEF Flushed, IInv, Taking, Busy, InLoop
    <3>4. HandlesExact'
      BY <1>0, <3>1 DEF Flushed, IInv, Types, HandlesExact, InLoop
    <3>5. Leaving'
      BY <3>1 DEF Flushed, IInv, Leaving, writes, ToSet
    <3>6. QED
      BY <3>2, <3>3, <3>4, <3>5 DEF IInv
  <2>2. CASE at[p] # "flushEnd"
    <3>1. phase' = phase
      BY <1>11, <2>2 DEF Flushed, BecomesIdle
    <3>2. PICK s \in {"flushEnd", "flushNext", "turnSnapshot", "flushFinalFailing", "respond"} :
            /\ at' = [at EXCEPT ![p] = s]
            /\ s = "flushFinalFailing" => at[p] = "flushTurnFailing"
      BY <1>11, <2>2 DEF Flushed, Flushing, Final, AfterTurn, RunFails, Responds
    <3>3. at[p] \in {"flushTurn", "flushTurnFailing", "flushNext"}
      BY <1>11, <2>2 DEF Flushed, Flushing, Final
    <3>4. used.fault = 0 => at[p] # "flushTurnFailing"
      BY DEF IInv, Taking
    <3>5. QED
      BY <1>0, <1>11, <3>1, <3>2, <3>3, <3>4, GoingOn
         DEF Flushed, writes, Steps, Busy, InLoop
  <2>3. QED
    BY <2>1, <2>2
<1>12. CASE Finish(p)
  <2>1. CASE at[p] = "flushFinalFailing"
    <3>1. used.fault # 0
      BY <2>1 DEF IInv, Taking
    <3>2. /\ at' = [at EXCEPT ![p] = "failed"] /\ runPromise' = None /\ phase' = "idle"
          /\ ToSet(pending) \subseteq left'
      BY <1>12, <2>1 DEF Finish, Rejects, Forgets
    <3>3. QED
      BY <1>0, <1>12, <2>1, <3>1, <3>2, Ending DEF Finish, Released
  <2>2. CASE at[p] \in {"settling", "flushFinal"}
    <3>1. at' = [at EXCEPT ![p] = "done"] /\ runPromise' = None /\ UNCHANGED <<phase, left>>
      BY <1>12, <2>2 DEF Finish, Forgets
    <3>2. QED
      BY <1>0, <1>12, <2>2, <3>1, Ending DEF Finish, Released, Busy
  <2>3. QED
    BY <1>12, <2>1, <2>2 DEF Finish, Final
<1>13. QED
  BY <1>1, <1>2, <1>3, <1>4, <1>5, <1>6, <1>7, <1>8, <1>9, <1>10, <1>11, <1>12 DEF Step

\* Failures.
LEMMA ThrowKeeps ==
  ASSUME IInv, Appending, NEW p \in Prompts, Throw(p)
  PROVE  IInv'
<1>0. used' \in [Acts -> Nat] /\ used'.fault # 0 /\ at \in [Prompts -> Steps]
  BY MayCounts DEF Throw, Acts, IInv, Types
<1>1. CASE Rejects(p)
  <2>1. /\ at' = [at EXCEPT ![p] = "failed"] /\ runPromise' = None /\ phase' = "idle"
        /\ ToSet(pending) \subseteq left'
    BY <1>1 DEF Rejects, Forgets, Goto
  <2>2. /\ at[p] \in {"snapshot", "taking", "hook"} \union Final
        /\ controller' = IF at[p] \in Final THEN Released(p) ELSE controller
    BY <2>1, <1>0 DEF Throw, RunFails, Responds, Goto, Steps, InLoop
  <2>3. QED
    BY <1>0, <2>1, <2>2, Ending DEF Throw, Released, Over, Final, InLoop
<1>2. CASE ~Rejects(p)
  <2>1. at[p] \notin {"snapshot", "taking", "hook"} \union Final
        /\ UNCHANGED <<phase, runPromise, controller, left>>
    BY <1>2 DEF Throw, Final
  <2>2. \E s \in {"flushFinalFailing", "respond", "flushTurnFailing"} : at' = [at EXCEPT ![p] = s]
    BY <1>2 DEF Throw, RunFails, Responds, Goto
  <2>3. at[p] \in Awaiting \union Saving \union Flushing
    BY DEF Throw, Appending
  <2>4. at[p] \in InLoop
    BY <2>1, <2>3 DEF Awaiting, Saving, Flushing, Final, InLoop
  <2>5. QED
    BY <1>0, <2>1, <2>2, <2>4, GoingOn DEF Throw, Over, InLoop, Steps
<1>3. QED
  BY <1>1, <1>2

\* Callers, and an operation in progress.
LEMMA OthersKeep ==
  ASSUME IInv, Operation \/ User \/ WriteSaved \/ WriteFails
  PROVE  IInv'
<1>0. used \in [Acts -> Nat] /\ at \in [Prompts -> Steps]
  BY DEF IInv, Types
<1>1. ASSUME NEW p \in Prompts, Prompt(p) PROVE IInv'
  <2> USE <1>1
  <2>1. used' \in [Acts -> Nat] /\ used'.fault = used.fault
    BY MayCounts DEF Prompt, Acts
  <2>2. at[p] = "new" /\ at' = [at EXCEPT ![p] = "snapshot"] /\ phase = "idle"
    BY DEF Prompt, Goto
  <2>3. Types'
    BY <2>1, <2>2, AloneUnlessCrossed DEF Prompt, IInv, Types, writes, Steps
  <2>4. Taking'
    BY <1>0, <2>1, <2>2 DEF Prompt, IInv, Taking, Busy, InLoop
  <2>5. HandlesExact'
    BY <1>0, <2>2, AloneUnlessCrossed DEF Prompt, IInv, Types, HandlesExact, Over, InLoop
  <2>6. Leaving'
    BY <2>1, AloneUnlessCrossed DEF Prompt, IInv, Types, Leaving, writes
  <2>7. QED
    BY <2>3, <2>4, <2>5, <2>6 DEF IInv
<1>2. ASSUME NEW kind \in QueueNames, Enqueue(kind) PROVE IInv'
  <2>1. used' \in [Acts -> Nat] /\ used'.fault = used.fault
    BY <1>2, MayCounts DEF Enqueue, Acts
  <2>2. QED
    BY <1>2, <2>1, Staying DEF Enqueue, handles, runs, writes, IInv, Types
<1>3. CASE Write
  <2>1. used' \in [Acts -> Nat] /\ used'.fault = used.fault
    BY <1>3, MayCounts DEF Write, Acts
  <2> DEFINE w == Item("write", used.write + 1)
  <2>2. w \in Writes
    BY <1>0 DEF Item, Writes, Acts
  <2>3. CASE Defers
    <3>1. pending' = Append(pending, w) /\ crossed' = crossed
          /\ left' = IF op.at # "off" THEN left \union {w} ELSE left
      BY <1>3, <2>3 DEF Write
    <3>2. pending \in Seq(Writes)
      BY DEF IInv, Types
    <3>3. pending' \in Seq(Writes) /\ ToSet(pending') \subseteq ToSet(pending) \union {w}
      BY <2>2, <3>1, <3>2 DEF ToSet
    <3>4. phase # "idle"
      BY <2>3 DEF Defers
    <3>5. QED
      BY <1>3, <2>1, <3>1, <3>3, <3>4, Staying DEF Write, handles, runs, IInv, Types
  <2>4. CASE ~Defers
    <3>1. LetIn /\ UNCHANGED writes
      BY <1>3, <2>4 DEF Write
    <3>2. QED
      BY <1>3, <2>1, <3>1, AloneUnlessCrossed, Staying
         DEF Write, handles, runs, writes, IInv, Types
  <2>5. QED
    BY <2>3, <2>4
<1>4. CASE Abort
  <2>1. used' \in [Acts -> Nat] /\ used'.fault = used.fault
    BY <1>4, MayCounts DEF Abort, Acts
  <2>2. QED
    BY <1>4, <2>1, Staying DEF Abort, writes, IInv, Types
<1>5. ASSUME NEW which \in {"compact", "navigate"}, Operate(which) PROVE IInv'
  <2> USE <1>5
  <2>1. used' \in [Acts -> Nat] /\ used'.fault = used.fault
    BY MayCounts DEF Operate, Acts
  <2>2. /\ op' \in [at : {"off", "compact", "navigate", "summarize", "ending"},
                    target : {op'.target}]
        /\ op'.at # "off"
    BY DEF Operate, IInv, Types
  <2>3. phase = "idle" /\ phase' \in {"compaction", "branch_summary"} /\ op.at = "off"
    BY DEF Operate
  <2>4. Types'
    BY <2>1, <2>2, <2>3, AloneUnlessCrossed DEF Operate, runs, IInv, Types, writes
  <2>5. Taking'
    BY <2>1, <2>2, <2>3 DEF Operate, runs, IInv, Taking
  <2>6. HandlesExact'
    BY AloneUnlessCrossed DEF Operate, runs, IInv, HandlesExact, Over
  <2>7. Leaving'
    BY <2>1, <2>3, AloneUnlessCrossed DEF Operate, IInv, Types, Leaving, writes
  <2>8. QED
    BY <2>4, <2>5, <2>6, <2>7 DEF IInv
<1>6. CASE OpAppends
  <2>1. /\ op' \in [at : {"off", "compact", "navigate", "summarize", "ending"},
                    target : {op'.target}]
        /\ op.at # "off" /\ op'.at # "off"
    <3>1. op.at \in {"compact", "navigate", "summarize"}
      BY <1>6 DEF OpAppends
    <3>2. CASE op.at = "navigate"
      <4>1. PICK next \in {"summarize", "ending"} :
                      \E goal : op' = [at |-> next, target |-> goal]
        BY <1>6, <3>2 DEF OpAppends
      <4>2. QED
        BY <3>2, <4>1
    <3>3. CASE op.at # "navigate"
      BY <1>6, <3>1, <3>3 DEF OpAppends, IInv, Types
    <3>4. QED
      BY <3>2, <3>3
  <2>2. QED
    BY <1>0, <1>6, <2>1, Staying DEF OpAppends, handles, runs, writes, IInv, Types
<1>7. CASE OpSaved
  BY <1>0, <1>7, Staying DEF OpSaved, handles, runs, writes, IInv, Types
<1>8. CASE OpEnds
  <2> USE <1>8
  <2>1. /\ op' \in [at : {"off", "compact", "navigate", "summarize", "ending"},
                    target : {op'.target}]
        /\ op'.at = "off" /\ op.at # "off" /\ phase' = "idle"
    BY DEF OpEnds, NoOp
  <2>2. Types'
    BY <2>1 DEF OpEnds, runs, IInv, Types, writes
  <2>3. Taking'
    BY <2>1 DEF OpEnds, runs, IInv, Taking
  <2>4. HandlesExact'
    BY DEF OpEnds, runs, IInv, HandlesExact, Over
  <2>5. Leaving'
    BY <2>1 DEF OpEnds, IInv, Leaving, writes
  <2>6. QED
    BY <2>2, <2>3, <2>4, <2>5 DEF IInv
<1>9. CASE WriteSaved
  BY <1>0, <1>9, Staying DEF WriteSaved, handles, runs, writes, IInv, Types
<1>10. CASE WriteFails
  <2>1. used' \in [Acts -> Nat] /\ used'.fault # 0
    BY <1>10, MayCounts DEF WriteFails, Acts
  <2>2. QED
    BY <1>10, <2>1, Staying DEF WriteFails, handles, runs, writes, IInv, Types
<1>11. QED
  BY <1>1, <1>2, <1>3, <1>4, <1>5, <1>6, <1>7, <1>8, <1>9, <1>10 DEF Operation, User

------------------------------------------------------------------------------
(* Appends *)

LEMMA ActorsNamed ==
  /\ Prompts \subseteq Actors /\ Caller \in Actors /\ Operator \in Actors
  /\ Caller \notin Prompts /\ Operator \notin Prompts
BY DEF Prompts, Actors, Caller, Operator

LEMMA AppendingGoesOn ==
  ASSUME IInv, Appending, NEW p \in Prompts, NEW s, at' = [at EXCEPT ![p] = s],
         at[p] \notin Saving \union Flushing \/ ~io[p].on, io' = io
  PROVE  Appending'
BY DEF IInv, Types, Appending

\* One append begins or ends.
LEMMA AppendingChanges ==
  ASSUME IInv, Appending, NEW a \in Actors, NEW r, io' = [io EXCEPT ![a] = r],
         UNCHANGED at, a \in Prompts /\ r.on => at[a] \in Saving \union Flushing
  PROVE  Appending'
<1>1. io' = [b \in Actors |-> io'[b]] /\ \A b \in Actors : io'[b] = IF b = a THEN r ELSE io[b]
  BY DEF Appending
<1>2. ASSUME NEW p \in Prompts, io'[p].on PROVE at'[p] \in Saving \union Flushing
  <2>1. p \in Actors
    BY ActorsNamed
  <2>2. CASE p = a
    BY <1>1, <1>2, <2>1, <2>2
  <2>3. CASE p # a
    BY <1>1, <1>2, <2>1, <2>3 DEF Appending
  <2>4. QED
    BY <2>2, <2>3
<1>3. QED
  BY <1>1, <1>2 DEF Appending

LEMMA JoinedEnds ==
  ASSUME IInv, Appending, NEW a \in Actors, Joined(a), UNCHANGED at
  PROVE  Appending'
BY AppendingChanges DEF Joined, NoIO

LEMMA AppendingKept ==
  ASSUME IInv, Appending, Next
  PROVE  Appending'
<1> USE DEF Goto, tree, runs
<1>1. ASSUME NEW p \in Prompts, Begin(p) PROVE Appending'
  BY <1>1, AppendingGoesOn DEF Begin, Saving, Flushing, Final
<1>2. ASSUME NEW p \in Prompts, Taken(p) PROVE Appending'
  BY <1>2, AppendingGoesOn DEF Taken, Saving, Flushing, Final
<1>3. ASSUME NEW p \in Prompts, Launch(p) PROVE Appending'
  BY <1>3, AppendingGoesOn DEF Launch, Saving, Flushing, Final
<1>4. ASSUME NEW p \in Prompts, Save(p) PROVE Appending'
  BY <1>4, AppendingChanges, ActorsNamed DEF Save, Appends
<1>5. ASSUME NEW p \in Prompts, Saved(p) PROVE Appending'
  BY <1>5, JoinedEnds, ActorsNamed DEF Saved
<1>6. ASSUME NEW p \in Prompts, Emitted(p) PROVE Appending'
  <2>1. \E s : at' = [at EXCEPT ![p] = s]
    BY <1>6 DEF Emitted, Drain, GoesOn, Saving
  <2>2. QED
    BY <1>6, <2>1, AppendingGoesOn DEF Emitted
<1>7. ASSUME NEW p \in Prompts, Inject(p) PROVE Appending'
  BY <1>7, AppendingGoesOn DEF Inject, Saving, Flushing, Final
<1>8. ASSUME NEW p \in Prompts, Respond(p) PROVE Appending'
  BY <1>8, AppendingGoesOn DEF Respond, Responds, Saving, Flushing, Final
<1>9. ASSUME NEW p \in Prompts, Heard(p) PROVE Appending'
  BY <1>9, AppendingGoesOn DEF Heard, Saving, Flushing, Final
<1>10. ASSUME NEW p \in Prompts, NextTurn(p) PROVE Appending'
  BY <1>10, AppendingGoesOn DEF NextTurn, Drain, GoesOn, Saving, Flushing, Final
<1>11. ASSUME NEW p \in Prompts, Flushed(p) PROVE Appending'
  BY <1>11, AppendingGoesOn DEF Flushed, RunFails, Responds, Flushing, Final
<1>12. ASSUME NEW p \in Prompts, Finish(p) PROVE Appending'
  BY <1>12, AppendingGoesOn DEF Finish, Rejects, Forgets
<1>13. ASSUME NEW p \in Prompts, Throw(p) PROVE Appending'
  <2>1. \E s : at' = [at EXCEPT ![p] = s]
    BY <1>13 DEF Throw, Rejects, Forgets, RunFails, Responds
  <2>2. io' = [io EXCEPT ![p] = NoIO]
    BY <1>13 DEF Throw
  <2>3. QED
    BY <2>1, <2>2, ActorsNamed DEF NoIO, IInv, Types, Appending
<1>14. ASSUME NEW p \in Prompts, Prompt(p) PROVE Appending'
  BY <1>14, AppendingGoesOn DEF Prompt, Saving, Flushing, Final
<1>15. CASE \E kind \in QueueNames : Enqueue(kind)
  BY <1>15 DEF Enqueue, Appending
<1>16. CASE Write
  BY <1>16, AppendingChanges, ActorsNamed DEF Write, Appends, Appending
<1>17. CASE Abort
  BY <1>17 DEF Abort, Appending
<1>18. CASE \E which \in {"compact", "navigate"} : Operate(which)
  BY <1>18 DEF Operate, Appending
<1>19. CASE OpAppends
  <2>1. \E r : io' = [io EXCEPT ![Operator] = r]
    BY <1>19 DEF OpAppends, Appends
  <2>2. QED
    BY <1>19, <2>1, AppendingChanges, ActorsNamed DEF OpAppends
<1>20. CASE OpSaved
  BY <1>20, JoinedEnds, ActorsNamed DEF OpSaved
<1>21. CASE OpEnds
  BY <1>21, AppendingChanges, ActorsNamed DEF OpEnds, NoIO
<1>22. CASE WriteSaved
  BY <1>22, JoinedEnds, ActorsNamed DEF WriteSaved
<1>23. CASE WriteFails
  BY <1>23, AppendingChanges, ActorsNamed DEF WriteFails, NoIO
<1>24. QED
  BY <1>1, <1>2, <1>3, <1>4, <1>5, <1>6, <1>7, <1>8, <1>9, <1>10, <1>11, <1>12, <1>13, <1>14,
     <1>15, <1>16, <1>17, <1>18, <1>19, <1>20, <1>21, <1>22, <1>23
     DEF Next, Step, Operation, User

------------------------------------------------------------------------------
LEMMA Inductive == Spec => [](IInv /\ Appending)
<1>1. Init => IInv /\ Appending
  BY InitHolds, ActorsNamed DEF Init, Appending, NoIO
<1>2. IInv /\ Appending /\ [Next]_vars => IInv' /\ Appending'
  <2> SUFFICES ASSUME IInv, Appending, [Next]_vars PROVE IInv' /\ Appending'
    OBVIOUS
  <2>1. CASE Next
    BY <2>1, StepKeeps, ThrowKeeps, OthersKeep, AppendingKept DEF Next
  <2>2. CASE UNCHANGED vars
    BY <2>2 DEF vars, handles, runs, tree, writes, IInv, Types, Taking, HandlesExact, Over,
                Leaving, Appending
  <2>3. QED
    BY <2>1, <2>2
<1>3. QED
  BY <1>1, <1>2, PTL DEF Spec

(* What waitForIdle() waits for and what abort() reaches is a call in progress, for
   the whole of its run unless another was let in beside it. *)
THEOREM HandlesHold == Spec => []HandlesExact
<1>1. IInv => HandlesExact
  BY DEF IInv
<1>2. QED
  BY <1>1, Inductive, PTL

(* Without failures at most one prompt, compaction or move is in progress, and the
   phase is its own. *)
THEOREM PhaseHolds == Spec => []PhaseExact
<1>1. IInv => PhaseExact
  <2> SUFFICES ASSUME IInv, used.fault = 0
               PROVE  LET busy == {p \in Prompts : at[p] \in Busy}
                      IN  /\ phase = "turn" <=> busy # {}
                          /\ phase \in {"compaction", "branch_summary"} <=> op.at # "off"
                          /\ Cardinality(busy) <= 1
    BY DEF PhaseExact
  <2> DEFINE busy == {p \in Prompts : at[p] \in Busy}
  <2>1. phase = "turn" <=> busy # {}
    BY DEF IInv, Taking
  <2>2. phase \in {"compaction", "branch_summary"} <=> op.at # "off"
    BY DEF IInv, Taking
  <2>3. Cardinality(busy) <= 1
    <3>1. CASE busy = {}
      <4>1. Cardinality(busy) = 0
        BY <3>1, FS_EmptySet
      <4>2. QED
        BY <4>1
    <3>2. CASE busy # {}
      <4>1. PICK p \in Prompts : busy = {p}
        BY <3>2 DEF IInv, Taking
      <4>2. Cardinality(busy) = 1
        BY <4>1, FS_Singleton
      <4>3. QED
        BY <4>2
    <3>3. QED
      BY <3>1, <3>2
  <2>4. QED
    BY <2>1, <2>2, <2>3
<1>2. QED
  BY <1>1, Inductive, PTL

(* A write that is still pending when the harness is idle was left by a prompt that
   failed or by an operation, which do not flush. *)
THEOREM IdleLeavesNothingElse == Spec => []IdleFlushed
<1>1. IInv => IdleFlushed
  BY DEF IInv, Leaving, IdleFlushed
<1>2. QED
  BY <1>1, Inductive, PTL

------------------------------------------------------------------------------
(* What the queues, the calls and the appends hold *)

Queued == [kind : QueueNames, n : Nat]
Messages == [kind : QueueNames \union {"prompt", "assistant"}, n : Nat]
Marks == [kind : {"compaction", "leaf", "branch_summary"}, n : {0}]
Items == Messages \union Writes \union Marks
Entries == [item : Items, parent : Nat]
Appendings == [on : {TRUE}, item : Items, parent : Nat, queued : BOOLEAN, target : Nat]

Shapes ==
  /\ todo \in [Prompts -> Seq(Messages)] /\ held \in [Prompts -> Seq(Queued)]
  /\ queue \in [QueueNames -> Seq(Queued)]
  /\ deferred \in Seq(Writes)
  /\ entries \in Seq(Entries)
  /\ io \in [Actors -> Appendings \union {NoIO}]
  /\ leaf \in Nat /\ op.target \in Nat
  /\ stop \in [Prompts -> {"none", "answer", "call", "error", "aborted"}]
  /\ context = [p \in Prompts |-> context[p]]
  /\ signals \subseteq Prompts /\ failing \subseteq Prompts /\ orphaned \subseteq Prompts
  /\ gone \subseteq Queued

\* What a call appends is the head of what it has to save, or while it flushes the
\* first pending write, unless another call has taken that out.
Saves ==
  \A p \in Prompts : io[p].on =>
    IF io[p].queued
    THEN at[p] \in Flushing /\ (crossed \/ (pending # <<>> /\ io[p].item = Head(pending)))
    ELSE at[p] \in Saving /\ todo[p] # <<>> /\ io[p].item = Head(todo[p])

\* A call has messages to save, or drained ones to announce, only where it does so;
\* one that reports a failure has no queued message to save.
HoldsWell(p) ==
  /\ todo[p] # <<>> => at[p] \in Saving \union {"flushFinalFailing"}
  /\ held[p] # <<>> => at[p] \in {"taking", "hook", "drained"}
  /\ at[p] \in {"taking", "drained"} => held[p] # <<>>
  /\ p \in failing =>
       /\ at[p] \in {"respond", "flushTurn", "flushTurnFailing", "flushEnd", "settling"}
                    \union Final
       /\ stop[p] = "error"
       /\ \A i \in DOMAIN todo[p] : ~IsQueued(todo[p][i])
  /\ at[p] = "flushFinalFailing" => p \in failing

Holding == \A p \in Prompts : HoldsWell(p)

\* The append of actor a begins or fails.
LEMMA ShapesIO ==
  ASSUME Shapes, NEW a \in Actors, NEW r \in Appendings \union {NoIO},
         io' = [io EXCEPT ![a] = r],
         UNCHANGED <<todo, held, queue, deferred, entries, leaf, stop, context, signals, failing,
                     orphaned, gone>>, op'.target \in Nat
  PROVE  Shapes'
BY DEF Shapes

LEMMA ShapesJoined ==
  ASSUME Shapes, NEW a \in Actors, Joined(a)
  PROVE  entries' \in Seq(Entries) /\ leaf' \in Nat /\ io' \in [Actors -> Appendings \union {NoIO}]
<1>1. io[a] \in Appendings
  BY DEF Shapes, Joined, NoIO
<1>2. [item |-> io[a].item, parent |-> io[a].parent] \in Entries
  BY <1>1 DEF Appendings, Entries
<1>3. leaf' \in Nat
  BY <1>1 DEF Joined, Shapes, Appendings
<1>4. QED
  BY <1>2, <1>3 DEF Joined, Shapes

LEMMA ItemAppended ==
  ASSUME Shapes, NEW a \in Actors, NEW item \in Items, NEW queued \in BOOLEAN, 
         Appends(a, item, queued),
         UNCHANGED <<todo, held, queue, deferred, entries, leaf, stop, context, signals, failing,
                     orphaned, gone>>, op'.target \in Nat
  PROVE  Shapes'
<1>1. [on |-> TRUE, item |-> item, parent |-> leaf, queued |-> queued, target |-> 0] \in Appendings
  BY DEF Shapes, Appendings
<1>2. QED
  BY <1>1, ShapesIO DEF Appends

LEMMA HeadIn ==
  ASSUME NEW S, NEW s \in Seq(S), s # <<>>
  PROVE  Head(s) \in S /\ Tail(s) \in Seq(S)
OBVIOUS

LEMMA ToSetIn ==
  ASSUME NEW S, NEW s \in Seq(S)
  PROVE  ToSet(s) \subseteq S
BY DEF ToSet

LEMMA DrainedShapes ==
  ASSUME Shapes, NEW p \in Prompts, NEW kind \in QueueNames, Drain(p, kind)
  PROVE  held' \in [Prompts -> Seq(Queued)] /\ queue' \in [QueueNames -> Seq(Queued)]
<1>1. queue[kind] \in Seq(Queued) /\ queue[kind] # <<>>
  BY DEF Shapes, Drain
<1>2. Drained(kind) \in Seq(Queued) /\ Len(Drained(kind)) \in Nat
  BY <1>1, HeadIn DEF Drained
<1>3. SubSeq(queue[kind], Len(Drained(kind)) + 1, Len(queue[kind])) \in Seq(Queued)
  BY <1>1, <1>2
<1>4. QED
  BY <1>2, <1>3 DEF Shapes, Drain

LEMMA ItemIn ==
  ASSUME NEW kind, NEW n \in Nat
  PROVE  /\ kind \in QueueNames => Item(kind, n) \in Queued
         /\ kind \in {"prompt", "assistant"} => Item(kind, n) \in Messages
         /\ kind = "write" => Item(kind, n) \in Writes
         /\ kind \in {"compaction", "leaf", "branch_summary"} => Item(kind, 0) \in Marks
BY DEF Item, Queued, Messages, Writes, Marks

LEMMA QueuedAreMessages == Queued \subseteq Messages /\ Seq(Queued) \subseteq Seq(Messages)
<1>1. Queued \subseteq Messages
  BY DEF Queued, Messages
<1>2. ASSUME NEW s \in Seq(Queued) PROVE s \in Seq(Messages)
  BY <1>1
<1>3. QED
  BY <1>1, <1>2

LEMMA RestoredShapes ==
  ASSUME Shapes, Holding, NEW p \in Prompts
  PROVE  Restored(p) \in [QueueNames -> Seq(Queued)] /\ Lost(p) \subseteq Queued
<1>1. Restored(p) \in [QueueNames -> Seq(Queued)]
  <2>1. CASE at[p] \notin {"taking", "drained"} \/ p \in orphaned
    BY <2>1 DEF Restored, Shapes
  <2>2. CASE ~(at[p] \notin {"taking", "drained"} \/ p \in orphaned)
    <3>1. held[p] # <<>> /\ held[p] \in Seq(Queued)
      BY <2>2 DEF Holding, HoldsWell, Shapes
    <3>2. Head(held[p]) \in Queued
      BY <3>1, HeadIn
    <3>3. Head(held[p]).kind \in QueueNames
      BY <3>2 DEF Queued
    <3>4. held[p] \o queue[Head(held[p]).kind] \in Seq(Queued)
      BY <3>1, <3>3 DEF Shapes
    <3>5. QED
      BY <2>2, <3>4 DEF Restored, Shapes
  <2>3. QED
    BY <2>1, <2>2
<1>2. Lost(p) \subseteq Queued
  <2> DEFINE lost == todo[p] \o IF at[p] = "hook" \/ p \in orphaned THEN held[p] ELSE <<>>
  <2>1. todo[p] \in Seq(Messages) /\ held[p] \in Seq(Messages) /\ <<>> \in Seq(Messages)
    BY QueuedAreMessages DEF Shapes
  <2>2. lost \in Seq(Messages)
    BY <2>1
  <2> HIDE DEF lost
  <2>3. ToSet(lost) \subseteq Messages
    BY <2>2, ToSetIn
  <2>4. QED
    BY <2>3 DEF Lost, lost, Messages, Queued
<1>3. QED
  BY <1>1, <1>2

RunShapes ==
  /\ todo \in [Prompts -> Seq(Messages)]
  /\ stop \in [Prompts -> {"none", "answer", "call", "error", "aborted"}]
  /\ context = [p \in Prompts |-> context[p]]
  /\ signals \subseteq Prompts /\ failing \subseteq Prompts /\ orphaned \subseteq Prompts

LEMMA ForgetsShapes ==
  ASSUME Shapes, NEW p \in Prompts, NEW s, Forgets(p, s)
  PROVE  RunShapes'
<1>1. todo' \in [Prompts -> Seq(Messages)]
  BY DEF Shapes, Forgets
<1>2. stop' \in [Prompts -> {"none", "answer", "call", "error", "aborted"}]
  BY DEF Shapes, Forgets
<1>3. context' = [q \in Prompts |-> context'[q]]
  BY DEF Shapes, Forgets
<1>4. QED
  BY <1>1, <1>2, <1>3 DEF Shapes, RunShapes, Forgets

LEMMA FailsShapes ==
  ASSUME Shapes, NEW p \in Prompts, RunFails(p), UNCHANGED <<context, signals, orphaned>>
  PROVE  RunShapes'
<1>1. <<Item("assistant", p)>> \in Seq(Messages)
  BY ItemIn DEF Prompts
<1>2. QED
  BY <1>1 DEF Shapes, RunShapes, RunFails, Responds

LEMMA StepShapes ==
  ASSUME Shapes, Saves, Holding, IInv, NEW p \in Prompts, Step(p)
  PROVE  Shapes'
<1> USE DEF tree, queues, writes, runs, handles
<1>0. p \in Actors /\ p \in Nat
  BY ActorsNamed DEF Prompts
<1>1. CASE Begin(p)
  BY <1>1 DEF Begin, Shapes, QueueNames
<1>2. CASE Taken(p)
  BY <1>2 DEF Taken, Shapes
<1>3. CASE Launch(p)
  <2>1. held[p] \in Seq(Messages) /\ <<Item("prompt", p)>> \in Seq(Messages)
    BY <1>0, ItemIn, QueuedAreMessages DEF Shapes
  <2>2. held[p] \o <<Item("prompt", p)>> \in Seq(Messages)
    BY <2>1
  <2>3. QED
    BY <1>3, <2>2 DEF Launch, Shapes
<1>4. CASE Save(p)
  <2>1. CASE todo[p] # <<>> /\ Appends(p, Head(todo[p]), FALSE)
    <3>1. Head(todo[p]) \in Items
      BY <2>1, HeadIn DEF Shapes, Items
    <3>2. QED
      BY <1>0, <1>4, <2>1, <3>1, ItemAppended DEF Save, Shapes
  <2>2. CASE pending # <<>> /\ Appends(p, Head(pending), TRUE)
    <3>1. Head(pending) \in Items
      BY <2>2, HeadIn DEF IInv, Types, Items
    <3>2. QED
      BY <1>0, <1>4, <2>2, <3>1, ItemAppended DEF Save, Shapes
  <2>3. QED
    BY <1>4, <2>1, <2>2 DEF Save
<1>5. CASE Saved(p)
  <2>1. entries' \in Seq(Entries) /\ leaf' \in Nat /\ io' \in [Actors -> Appendings \union {NoIO}]
    BY <1>0, <1>5, ShapesJoined DEF Saved
  <2>2. ~io[p].queued => Tail(todo[p]) \in Seq(Messages)
    BY <1>5, HeadIn DEF Shapes, Saves, Saved, Joined
  <2>3. todo' \in [Prompts -> Seq(Messages)]
    BY <1>5, <2>2 DEF Saved, Shapes
  <2>4. context' = [q \in Prompts |-> context'[q]]
    BY <1>5 DEF Saved, Shapes
  <2>5. QED
    BY <1>5, <2>1, <2>3, <2>4 DEF Saved, Shapes
<1>6. CASE Emitted(p)
  <2>1. Drain(p, "steer") \/ UNCHANGED <<held, queue>>
    BY <1>6 DEF Emitted, GoesOn, Saving
  <2>2. held' \in [Prompts -> Seq(Queued)] /\ queue' \in [QueueNames -> Seq(Queued)]
    BY <2>1, DrainedShapes DEF Shapes, QueueNames
  <2>3. orphaned' \subseteq Prompts
    BY <1>6 DEF Emitted, Drain, GoesOn, Saving, Shapes
  <2>4. QED
    BY <1>6, <2>2, <2>3 DEF Emitted, Shapes
<1>7. CASE Inject(p)
  <2>1. held[p] \in Seq(Messages)
    BY QueuedAreMessages DEF Shapes
  <2>2. QED
    BY <1>7, <2>1 DEF Inject, Shapes
<1>8. CASE Respond(p)
  <2>1. <<Item("assistant", p)>> \in Seq(Messages)
    BY <1>0, ItemIn
  <2>2. QED
    BY <1>8, <2>1 DEF Respond, Responds, Shapes
<1>9. CASE Heard(p)
  BY <1>9 DEF Heard, Shapes
<1>10. CASE NextTurn(p)
  <2>1. Drain(p, "steer") \/ Drain(p, "followUp") \/ UNCHANGED <<held, queue>>
    BY <1>10 DEF NextTurn, GoesOn
  <2>2. held' \in [Prompts -> Seq(Queued)] /\ queue' \in [QueueNames -> Seq(Queued)]
    BY <2>1, DrainedShapes DEF Shapes, QueueNames
  <2>3. orphaned' \subseteq Prompts
    BY <1>10 DEF NextTurn, Drain, GoesOn, Shapes
  <2>4. QED
    BY <1>10, <2>2, <2>3 DEF NextTurn, Shapes
<1>11. CASE Flushed(p)
  <2>1. <<Item("assistant", p)>> \in Seq(Messages)
    BY <1>0, ItemIn
  <2>2. todo' \in [Prompts -> Seq(Messages)]
    BY <1>11, <2>1 DEF Flushed, RunFails, Responds, Shapes
  <2>3. /\ stop' \in [Prompts -> {"none", "answer", "call", "error", "aborted"}]
        /\ failing' \subseteq Prompts
    <3>1. \/ stop' = stop /\ failing' = failing
          \/ stop' = [stop EXCEPT ![p] = "error"] /\ failing' = failing \union {p}
      BY <1>11 DEF Flushed, RunFails, Responds
    <3>2. QED
      BY <3>1 DEF Shapes
  <2>4. context' = [q \in Prompts |-> context'[q]]
    BY <1>11 DEF Flushed, Shapes
  <2>5. QED
    BY <1>11, <2>2, <2>3, <2>4 DEF Flushed, Shapes
<1>12. CASE Finish(p)
  <2>1. \E s : Forgets(p, s)
    BY <1>12 DEF Finish, Rejects
  <2>2. QED
    BY <1>12, <2>1, ForgetsShapes DEF Finish, Shapes, RunShapes
<1>13. QED
  BY <1>1, <1>2, <1>3, <1>4, <1>5, <1>6, <1>7, <1>8, <1>9, <1>10, <1>11, <1>12 DEF Step

LEMMA ThrowShapes ==
  ASSUME Shapes, Holding, IInv, NEW p \in Prompts, Throw(p)
  PROVE  Shapes'
<1>1. io' \in [Actors -> Appendings \union {NoIO}]
  BY ActorsNamed DEF Throw, Shapes
<1>2. queue' \in [QueueNames -> Seq(Queued)] /\ gone' \subseteq Queued
  BY RestoredShapes DEF Throw, Shapes
<1>3. RunShapes'
  BY ForgetsShapes, FailsShapes DEF Throw, Rejects, Shapes, RunShapes
<1>4. UNCHANGED <<deferred, entries, leaf, op>> /\ held' = [held EXCEPT ![p] = <<>>]
  BY DEF Throw
<1>5. QED
  BY <1>1, <1>2, <1>3, <1>4 DEF Shapes, RunShapes

LEMMA OthersShapes ==
  ASSUME Shapes, IInv, Operation \/ User \/ WriteSaved \/ WriteFails
  PROVE  Shapes'
<1> USE DEF tree, queues, writes, runs, handles
<1>0. used \in [Acts -> Nat] /\ NoIO \in Appendings \union {NoIO} /\ Caller \in Actors
      /\ Operator \in Actors
  BY ActorsNamed DEF IInv, Types
<1>1. ASSUME NEW p \in Prompts, Prompt(p) PROVE Shapes'
  BY <1>1 DEF Prompt, Shapes
<1>2. ASSUME NEW kind \in QueueNames, Enqueue(kind) PROVE Shapes'
  <2>1. Item(kind, used.queued + 1) \in Queued
    BY <1>0, ItemIn DEF Acts
  <2>2. Append(queue[kind], Item(kind, used.queued + 1)) \in Seq(Queued)
    BY <2>1 DEF Shapes
  <2>3. QED
    BY <1>2, <2>2 DEF Enqueue, Shapes
<1>3. CASE Write
  <2>1. Item("write", used.write + 1) \in Writes
    BY <1>0, ItemIn DEF Acts
  <2>2. CASE Defers
    <3>1. Append(deferred, Item("write", used.write + 1)) \in Seq(Writes)
      BY <2>1 DEF Shapes
    <3>2. QED
      BY <1>3, <2>2, <3>1 DEF Write, Shapes
  <2>3. CASE ~Defers
    BY <1>0, <1>3, <2>1, <2>3, ItemAppended DEF Write, Items, Shapes
  <2>4. QED
    BY <2>2, <2>3
<1>4. CASE Abort
  <2>1. ToSet(queue["steer"] \o queue["followUp"]) \subseteq Queued
    <3>1. queue["steer"] \o queue["followUp"] \in Seq(Queued)
      BY DEF Shapes, QueueNames
    <3>2. QED
      BY <3>1, ToSetIn
  <2>2. queue' \in [QueueNames -> Seq(Queued)]
    <3>1. <<>> \in Seq(Queued)
      OBVIOUS
    <3>2. QED
      BY <1>4, <3>1 DEF Abort, Shapes
  <2>3. signals' \subseteq Prompts /\ orphaned' \subseteq Prompts
    BY <1>4 DEF Abort, Reached, IInv, Types, Shapes
  <2>4. QED
    BY <1>4, <2>1, <2>2, <2>3 DEF Abort, Shapes
<1>5. ASSUME NEW which \in {"compact", "navigate"}, Operate(which) PROVE Shapes'
  BY <1>5 DEF Operate, Shapes, IInv, Types
<1>6. CASE OpAppends
  <2>1. CASE op.at = "compact"
    <3>1. Item("compaction", 0) \in Items
      BY ItemIn DEF Items
    <3>2. op'.target = op.target
      BY <1>6, <2>1 DEF OpAppends, IInv, Types
    <3>3. QED
      BY <1>0, <1>6, <2>1, <3>1, <3>2, ItemAppended DEF OpAppends, Shapes
  <2>2. CASE op.at = "navigate"
    <3>1. PICK n \in DOMAIN entries, next \in {"summarize", "ending"} :
              LET goal == IF entries[n].item.kind \in UserKinds THEN entries[n].parent ELSE n
              IN  /\ io' = [io EXCEPT ![Operator] =
                              [on |-> TRUE, item |-> Item("leaf", 0),
                               parent |-> leaf, queued |-> FALSE, target |-> goal]]
                  /\ op' = [at |-> next, target |-> goal]
      BY <1>6, <2>2 DEF OpAppends
    <3> DEFINE goal == IF entries[n].item.kind \in UserKinds THEN entries[n].parent ELSE n
    <3>2. goal \in Nat
      <4>1. n \in Nat /\ entries[n] \in Entries
        BY DEF Shapes
      <4>2. QED
        BY <4>1 DEF Entries
    <3>3. Item("leaf", 0) \in Items
      BY ItemIn DEF Items
    <3>4. [on |-> TRUE, item |-> Item("leaf", 0), parent |-> leaf, queued |-> FALSE,
           target |-> goal] \in Appendings
      BY <3>2, <3>3 DEF Shapes, Appendings
    <3>5. op'.target \in Nat
      BY <3>1, <3>2
    <3>6. UNCHANGED <<handles, runs, entries, leaf, queues, writes, crossed, used>>
      BY <1>6 DEF OpAppends
    <3> HIDE DEF goal
    <3>7. QED
      BY <1>0, <3>1, <3>4, <3>5, <3>6, ShapesIO DEF goal
  <2>3. CASE op.at = "summarize"
    <3> DEFINE r == [on |-> TRUE, item |-> Item("branch_summary", 0),
                     parent |-> op.target, queued |-> FALSE, target |-> 0]
    <3>1. Item("branch_summary", 0) \in Items
      BY ItemIn DEF Items
    <3>2. r \in Appendings
      BY <3>1 DEF Shapes, Appendings
    <3>3. op'.target = op.target /\ io' = [io EXCEPT ![Operator] = r]
      BY <1>6, <2>3 DEF OpAppends, IInv, Types
    <3> HIDE DEF r
    <3>4. QED
      BY <1>0, <1>6, <3>2, <3>3, ShapesIO DEF OpAppends, Shapes
  <2>4. QED
    BY <1>6, <2>1, <2>2, <2>3 DEF OpAppends
<1>7. CASE OpSaved
  BY <1>0, <1>7, ShapesJoined DEF OpSaved, Shapes
<1>8. CASE OpEnds
  BY <1>0, <1>8, ShapesIO DEF OpEnds, NoOp, Shapes
<1>9. CASE WriteSaved
  BY <1>0, <1>9, ShapesJoined DEF WriteSaved, Shapes
<1>10. CASE WriteFails
  BY <1>0, <1>10, ShapesIO DEF WriteFails, Shapes
<1>11. QED
  BY <1>1, <1>2, <1>3, <1>4, <1>5, <1>6, <1>7, <1>8, <1>9, <1>10 DEF Operation, User

------------------------------------------------------------------------------
(* Where a call holds messages *)

\* What a call is doing is as it was.
Untouched(q) ==
  /\ at'[q] = at[q] /\ stop'[q] = stop[q] /\ todo'[q] = todo[q] /\ held'[q] = held[q]
  /\ context'[q] = context[q] /\ io'[q] = io[q] /\ (q \in failing' <=> q \in failing)

LEMMA UntouchedBesides ==
  ASSUME Shapes, IInv, NEW p \in Prompts, Step(p) \/ Throw(p) \/ Prompt(p),
         NEW q \in Prompts, q # p
  PROVE  Untouched(q)
<1>0. q \in Actors /\ at = [r \in Prompts |-> at[r]]
  BY ActorsNamed DEF IInv, Types
<1> USE <1>0 DEF runs, tree, Goto, Shapes
<1>1. ASSUME NEW s, Forgets(p, s), UNCHANGED <<held>>, io' = io \/ io' = [io EXCEPT ![p] = NoIO]
      PROVE  Untouched(q)
  BY <1>1 DEF Forgets, Untouched
<1>2. ASSUME RunFails(p), UNCHANGED context, io' = io \/ io' = [io EXCEPT ![p] = NoIO],
             held' = held \/ held' = [held EXCEPT ![p] = <<>>]
      PROVE  Untouched(q)
  BY <1>2 DEF RunFails, Responds, Untouched
<1>3. CASE Begin(p)
  BY <1>3 DEF Begin, Untouched
<1>4. CASE Taken(p)
  BY <1>4 DEF Taken, Untouched
<1>5. CASE Launch(p)
  BY <1>5 DEF Launch, Untouched
<1>6. CASE Save(p)
  BY <1>6 DEF Save, Appends, Untouched
<1>7. CASE Saved(p)
  BY <1>7 DEF Saved, Joined, Untouched
<1>8. CASE Emitted(p)
  BY <1>8 DEF Emitted, Drain, GoesOn, Saving, Untouched
<1>9. CASE Inject(p)
  BY <1>9 DEF Inject, Untouched
<1>10. CASE Respond(p)
  BY <1>10 DEF Respond, Responds, Untouched
<1>11. CASE Heard(p)
  BY <1>11 DEF Heard, Untouched
<1>12. CASE NextTurn(p)
  BY <1>12 DEF NextTurn, Drain, GoesOn, Untouched
<1>13. CASE Flushed(p)
  <2>1. CASE at[p] = "flushTurnFailing"
    BY <1>13, <2>1, <1>2 DEF Flushed
  <2>2. CASE at[p] # "flushTurnFailing"
    BY <1>13, <2>2 DEF Flushed, Flushing, Final, Untouched
  <2>3. QED
    BY <2>1, <2>2
<1>14. CASE Finish(p)
  BY <1>14, <1>1 DEF Finish, Rejects
<1>15. CASE Throw(p)
  <2>1. CASE \E s : Forgets(p, s)
    BY <1>15, <2>1 DEF Throw, Forgets, Untouched
  <2>2. CASE RunFails(p) /\ UNCHANGED context
    BY <1>15, <2>2, <1>2 DEF Throw
  <2>3. CASE Goto(p, "flushTurnFailing") /\ UNCHANGED <<failing, stop, todo, context>>
    BY <1>15, <2>3 DEF Throw, Untouched
  <2>4. QED
    BY <1>15, <2>1, <2>2, <2>3 DEF Throw, Rejects
<1>16. CASE Prompt(p)
  BY <1>16 DEF Prompt, Untouched
<1>17. QED
  BY <1>3, <1>4, <1>5, <1>6, <1>7, <1>8, <1>9, <1>10, <1>11, <1>12, <1>13, <1>14, <1>15, <1>16
     DEF Step

\* Acts of others leave every call alone.
Others ==
  \/ Operation \/ (\E kind \in QueueNames : Enqueue(kind)) \/ Write \/ Abort
  \/ (\E which \in {"compact", "navigate"} : Operate(which))
  \/ WriteSaved \/ WriteFails

LEMMA UntouchedByOthers ==
  ASSUME Shapes, IInv, Others, NEW q \in Prompts
  PROVE  Untouched(q)
<1>0. q \in Actors /\ q # Caller /\ q # Operator
  BY ActorsNamed
<1> USE <1>0 DEF runs, tree, Shapes
<1>1. CASE OpAppends
  <2>1. \E r : io' = [io EXCEPT ![Operator] = r]
    BY <1>1 DEF OpAppends, Appends
  <2>2. UNCHANGED runs
    BY <1>1 DEF OpAppends
  <2>3. QED
    BY <2>1, <2>2 DEF Untouched
<1>2. CASE OpSaved \/ OpEnds
  BY <1>2 DEF OpSaved, OpEnds, Joined, Untouched
<1>3. CASE \E kind \in QueueNames : Enqueue(kind)
  BY <1>3 DEF Enqueue, Untouched
<1>4. CASE Write
  BY <1>4 DEF Write, Appends, Untouched
<1>5. CASE Abort
  BY <1>5 DEF Abort, Untouched
<1>6. CASE \E which \in {"compact", "navigate"} : Operate(which)
  BY <1>6 DEF Operate, Untouched
<1>7. CASE WriteSaved \/ WriteFails
  BY <1>7 DEF WriteSaved, WriteFails, Joined, Untouched
<1>8. QED
  BY <1>1, <1>2, <1>3, <1>4, <1>5, <1>6, <1>7 DEF Others, Operation

------------------------------------------------------------------------------
LEMMA HoldsUntouched ==
  ASSUME NEW q \in Prompts, HoldsWell(q), Untouched(q)
  PROVE  HoldsWell(q)'
BY DEF HoldsWell, Untouched

LEMMA DrainedSome ==
  ASSUME Shapes, NEW p \in Prompts, NEW kind \in QueueNames, Drain(p, kind)
  PROVE  held'[p] # <<>>
<1>1. Drained(kind) # <<>>
  BY DEF Drained, Drain
<1>2. QED
  BY <1>1 DEF Drain, Shapes

LEMMA ReportHolds ==
  ASSUME Shapes, IInv, NEW p \in Prompts, HoldsWell(p), RunFails(p), p \notin failing,
         held'[p] = <<>> \/ (held' = held /\ at[p] \notin {"taking", "hook", "drained"})
  PROVE  HoldsWell(p)'
<1>1. /\ at'[p] = "respond" /\ stop'[p] = "error" /\ todo'[p] = <<Item("assistant", p)>>
      /\ held'[p] = <<>>
  BY DEF RunFails, Responds, Goto, IInv, Types, Shapes, HoldsWell
<1>2. QED
  BY <1>1 DEF HoldsWell, Saving, IsQueued, Item, QueueNames

LEMMA ForgottenHolds ==
  ASSUME Shapes, IInv, NEW p \in Prompts, HoldsWell(p), NEW s \in {"done", "failed"},
         Forgets(p, s),
         held'[p] = <<>> \/ (held' = held /\ at[p] \notin {"taking", "hook", "drained"})
  PROVE  HoldsWell(p)'
<1>1. at'[p] = s /\ todo'[p] = <<>> /\ held'[p] = <<>> /\ p \notin failing'
  BY DEF Forgets, Goto, IInv, Types, Shapes, HoldsWell
<1>2. QED
  BY <1>1 DEF HoldsWell

\* What one call drains, announces and saves.
LEMMA HoldsSteps ==
  ASSUME Shapes, IInv, Saves, Holding, Appending, NEW p \in Prompts,
         Step(p) \/ Throw(p) \/ Prompt(p)
  PROVE  HoldsWell(p)'
<1>0. /\ HoldsWell(p)
      /\ at = [r \in Prompts |-> at[r]] /\ todo = [r \in Prompts |-> todo[r]]
      /\ held = [r \in Prompts |-> held[r]] /\ stop = [r \in Prompts |-> stop[r]]
      /\ todo[p] \in Seq(Messages)
      /\ io[p].on => at[p] \in Saving \union Flushing
  BY DEF IInv, Types, Holding, Appending, Shapes
<1> USE <1>0 DEF runs, tree, Goto, Saving, Flushing, Final
<1>1. CASE Begin(p)
  BY <1>1 DEF Begin, HoldsWell, QueueNames
<1>2. CASE Taken(p)
  BY <1>2 DEF Taken, HoldsWell
<1>3. CASE Launch(p)
  BY <1>3 DEF Launch, HoldsWell
<1>4. CASE Save(p)
  BY <1>4 DEF Save, HoldsWell
<1>5. CASE Saved(p)
  <2>1. CASE io[p].queued
    BY <1>5, <2>1 DEF Saved, HoldsWell
  <2>2. CASE ~io[p].queued
    <3>1. todo[p] # <<>> /\ todo'[p] = Tail(todo[p])
      BY <1>5, <2>2 DEF Saved, Joined, Saves
    <3>2. \A i \in DOMAIN todo'[p] : i + 1 \in DOMAIN todo[p] /\ todo'[p][i] = todo[p][i + 1]
      BY <3>1
    <3>3. QED
      BY <1>5, <3>1, <3>2 DEF Saved, HoldsWell
  <2>3. QED
    BY <2>1, <2>2
<1>6. CASE Emitted(p)
  <2>1. CASE Drain(p, "steer")
    <3>1. held'[p] # <<>>
      BY <2>1, DrainedSome DEF QueueNames
    <3>2. at[p] = "emit" /\ at'[p] = "drained" /\ UNCHANGED <<todo, stop, failing>>
      BY <1>6, <2>1 DEF Emitted, Drain, GoesOn, AfterTurn, Call
    <3>3. QED
      BY <3>1, <3>2, <1>6 DEF Emitted, HoldsWell
  <2>2. CASE at[p] \in {"emit", "inject"} /\ GoesOn(p, Call(p))
    BY <1>6, <2>2 DEF Emitted, GoesOn, Call, HoldsWell
  <2>3. CASE at[p] = "respond" /\ GoesOn(p, IF pending = <<>> THEN AfterTurn(p) ELSE "flushTurn")
    BY <1>6, <2>3 DEF Emitted, GoesOn, AfterTurn, HoldsWell
  <2>4. QED
    BY <1>6, <2>1, <2>2, <2>3 DEF Emitted
<1>7. CASE Inject(p)
  BY <1>7 DEF Inject, HoldsWell
<1>8. CASE Respond(p)
  BY <1>8 DEF Respond, Responds, HoldsWell
<1>9. CASE Heard(p)
  BY <1>9 DEF Heard, HoldsWell
<1>10. CASE NextTurn(p)
  <2>1. ASSUME NEW kind \in QueueNames, Drain(p, kind) PROVE HoldsWell(p)'
    <3>1. held'[p] # <<>>
      BY <2>1, DrainedSome
    <3>2. at'[p] = "drained"
      BY <2>1 DEF Drain
    <3>3. QED
      BY <1>10, <3>1, <3>2 DEF NextTurn, HoldsWell
  <2>2. CASE GoesOn(p, Call(p)) \/ GoesOn(p, "flushEnd")
    BY <1>10, <2>2 DEF NextTurn, GoesOn, Call, HoldsWell
  <2>3. QED
    BY <1>10, <2>1, <2>2 DEF NextTurn, QueueNames
<1>11. CASE Flushed(p)
  <2>1. CASE RunFails(p) /\ p \in failing
    BY <1>11, <2>1 DEF Flushed, RunFails, HoldsWell
  <2>2. CASE RunFails(p) /\ p \notin failing
    BY <1>11, <2>2, ReportHolds DEF Flushed
  <2>3. CASE UNCHANGED <<failing, stop, todo>> /\ at[p] # "flushTurnFailing"
    BY <1>11, <2>3 DEF Flushed, AfterTurn, HoldsWell
  <2>4. QED
    BY <1>11, <2>1, <2>2, <2>3 DEF Flushed
<1>12. CASE Finish(p)
  BY <1>12, ForgottenHolds DEF Finish, Rejects
<1>13. CASE Throw(p)
  <2>1. held'[p] = <<>>
    BY <1>13 DEF Throw
  <2>2. CASE RunFails(p)
    <3>1. at[p] \notin {"snapshot", "taking", "hook"}
      BY <1>13, <2>2 DEF Throw, Rejects, Forgets, RunFails, Responds
    <3>2. CASE p \in failing
      BY <1>13, <2>1, <2>2, <3>1, <3>2 DEF RunFails, HoldsWell
    <3>3. CASE p \notin failing
      BY <2>1, <2>2, <3>3, ReportHolds
    <3>4. QED
      BY <3>2, <3>3
  <2>3. CASE Forgets(p, "failed")
    BY <2>1, <2>3, ForgottenHolds
  <2>4. CASE at[p] = "respond" /\ todo[p] = <<>> /\ at'[p] = "flushTurnFailing"
             /\ UNCHANGED <<failing, stop, todo>>
    BY <2>1, <2>4 DEF HoldsWell
  <2>5. QED
    BY <1>13, <2>2, <2>3, <2>4 DEF Throw, Rejects
<1>14. CASE Prompt(p)
  BY <1>14 DEF Prompt, HoldsWell
<1>15. QED
  BY <1>1, <1>2, <1>3, <1>4, <1>5, <1>6, <1>7, <1>8, <1>9, <1>10, <1>11, <1>12, <1>13,
     <1>14 DEF Step

------------------------------------------------------------------------------
(* Who is in progress, and what is being appended *)

\* Unless something was let in beside something unfinished, no prompt, operation or
\* write of a caller is in progress beside another; an operation appends only while it
\* goes on.
Alone ==
  /\ crossed \/ ((\E p \in Prompts : ~Over(p)) => op.at = "off" /\ ~io[Caller].on)
  /\ crossed \/ (op.at # "off" => ~io[Caller].on)
  /\ io[Operator].on => op.at # "off"

LEMMA Working ==
  ASSUME Shapes, IInv, Appending, NEW p \in Prompts, Step(p) \/ Throw(p)
  PROVE  /\ ~Over(p) /\ UNCHANGED <<op, crossed>>
         /\ io'[Caller] = io[Caller] /\ io'[Operator] = io[Operator]
<1>1. ~Over(p)
  <2>1. io[p].on => at[p] \in Saving \union Flushing
    BY DEF Appending
  <2>2. CASE Step(p)
    BY <2>1, <2>2 DEF Step, Begin, Taken, Launch, Save, Saved, Joined, Emitted, Inject, Respond,
        Heard, NextTurn, Flushed, Finish, Over, Saving, Flushing, Final
  <2>3. CASE Throw(p)
    BY <2>1, <2>3 DEF Throw, Awaiting, Over, Saving, Flushing, Final
  <2>4. QED
    BY <2>2, <2>3
<1>2. UNCHANGED <<op, crossed>>
  BY DEF Step, Begin, Taken, Launch, Save, Saved, Emitted, Inject, Respond,
        Heard, NextTurn, Flushed, Finish, Throw
<1>3. io' = io \/ \E r : io' = [io EXCEPT ![p] = r]
  BY DEF Step, Begin, Taken, Launch, Save, Saved, Joined, Appends, Emitted, Inject, Respond,
        Heard, NextTurn, Flushed, Finish, Throw, tree
<1>4. QED
  BY <1>1, <1>2, <1>3, ActorsNamed DEF Shapes

LEMMA CrossedGrows ==
  ASSUME IInv, Shapes, Appending, Next
  PROVE  crossed => crossed'
<1>1. ASSUME NEW p \in Prompts, Step(p) \/ Throw(p) PROVE crossed => crossed'
  BY <1>1, Working
<1>2. CASE ~ \E p \in Prompts : Step(p) \/ Throw(p)
  BY <1>2 DEF Next, Operation, User, OpAppends, OpSaved, OpEnds, Prompt, Enqueue, Write, Abort,
              Operate, WriteSaved, WriteFails, LetIn
<1>3. QED
  BY <1>1, <1>2

LEMMA AloneKept ==
  ASSUME IInv, Shapes, Appending, Alone, Next
  PROVE  Alone'
<1>0. at = [q \in Prompts |-> at[q]] /\ Caller \in Actors /\ Operator \in Actors
      /\ Caller # Operator /\ \A q \in Prompts : q # Caller /\ q # Operator
  BY ActorsNamed DEF IInv, Types, Caller, Operator
<1>1. ASSUME NEW p \in Prompts, Step(p) \/ Throw(p) PROVE Alone'
  <2>1. \A q \in Prompts : ~Over(q)' => ~Over(q)
    BY <1>1, Working, UntouchedBesides DEF Untouched, Over
  <2>2. QED
    BY <1>1, <2>1, Working DEF Alone
<1>2. ASSUME NEW p \in Prompts, Prompt(p) PROVE Alone'
  <2>1. UNCHANGED <<io, op>>
    BY <1>2 DEF Prompt, tree
  <2>2. crossed' \/ ~InProgress
    BY <1>2 DEF Prompt, LetIn
  <2>3. QED
    BY <1>2, <2>1, <2>2 DEF Alone, InProgress
<1>3. CASE Others
  <2> USE <1>3
  <2>1. \A q \in Prompts : ~Over(q)' => ~Over(q)
    BY UntouchedByOthers DEF Untouched, Over
  <2>2. CASE Write
    <3>1. UNCHANGED op /\ io'[Operator] = io[Operator]
      BY <1>0, <2>2 DEF Write, Appends, Shapes
    <3>2. (UNCHANGED io /\ crossed' = crossed) \/ crossed' \/ ~InProgress
      BY <2>2 DEF Write, LetIn
    <3>3. QED
      BY <2>1, <3>1, <3>2 DEF Alone, InProgress
  <2>3. CASE \E which \in {"compact", "navigate"} : Operate(which)
    <3>1. UNCHANGED io /\ op'.at # "off"
      BY <2>3 DEF Operate, tree, IInv, Types
    <3>2. crossed' \/ ~InProgress
      BY <2>3 DEF Operate, LetIn
    <3>3. QED
      BY <2>1, <3>1, <3>2 DEF Alone, InProgress
  <2>4. CASE OpAppends
    <3>1. op.at # "off" /\ op'.at # "off" /\ crossed' = crossed
      <4>1. CASE op.at = "navigate"
        BY <2>4, <4>1 DEF OpAppends
      <4>2. CASE op.at # "navigate"
        BY <2>4, <4>2 DEF OpAppends, IInv, Types
      <4>3. QED
        BY <4>1, <4>2
    <3>2. \E r : io' = [io EXCEPT ![Operator] = r]
      BY <2>4 DEF OpAppends, Appends
    <3>3. QED
      BY <1>0, <2>1, <3>1, <3>2 DEF Alone, Shapes
  <2>5. CASE OpSaved \/ OpEnds
    <3>1. /\ io' = [io EXCEPT ![Operator] = NoIO] /\ crossed' = crossed
          /\ op' = op \/ op' = NoOp
      BY <2>5 DEF OpSaved, OpEnds, Joined
    <3>2. QED
      BY <1>0, <2>1, <3>1 DEF Alone, Shapes, NoIO, NoOp
  <2>6. CASE WriteSaved \/ WriteFails
    <3>1. io' = [io EXCEPT ![Caller] = NoIO] /\ crossed' = crossed /\ op' = op
      BY <2>6 DEF WriteSaved, WriteFails, Joined
    <3>2. QED
      BY <1>0, <2>1, <3>1 DEF Alone, Shapes, NoIO
  <2>7. CASE Abort \/ \E kind \in QueueNames : Enqueue(kind)
    <3>1. UNCHANGED <<io, op, crossed>>
      BY <2>7 DEF Abort, Enqueue, tree
    <3>2. QED
      BY <2>1, <3>1 DEF Alone
  <2>8. QED
    BY <2>2, <2>3, <2>4, <2>5, <2>6, <2>7 DEF Others, Operation
<1>4. QED
  BY <1>1, <1>2, <1>3 DEF Next, User, Others

------------------------------------------------------------------------------
SavesWell(p) ==
  io[p].on =>
    IF io[p].queued
    THEN at[p] \in Flushing /\ (crossed \/ (pending # <<>> /\ io[p].item = Head(pending)))
    ELSE at[p] \in Saving /\ todo[p] # <<>> /\ io[p].item = Head(todo[p])

LEMMA SavesUntouched ==
  ASSUME NEW q \in Prompts, SavesWell(q), Untouched(q), crossed => crossed',
         crossed \/ ~io[q].on \/ ~io[q].queued \/ pending' = pending
           \/ (pending # <<>> /\ pending' # <<>> /\ Head(pending') = Head(pending))
  PROVE  SavesWell(q)'
BY DEF SavesWell, Untouched

LEMMA SavesKept ==
  ASSUME IInv, Shapes, Appending, Saves, Next
  PROVE  Saves'
<1>0. at = [q \in Prompts |-> at[q]] /\ \A q \in Prompts : SavesWell(q)
  BY DEF IInv, Types, Saves, SavesWell
<1>1. ASSUME NEW p \in Prompts, Step(p) \/ Throw(p), NEW q \in Prompts PROVE SavesWell(q)'
  <2>1. CASE q = p
    <3>1. CASE Save(p)
      <4>0. p \in Actors /\ UNCHANGED <<at, todo, pending>>
        BY <3>1, ActorsNamed DEF Save, runs, writes
      <4>1. CASE at[p] \in Saving /\ todo[p] # <<>> /\ Appends(p, Head(todo[p]), FALSE)
        BY <2>1, <4>0, <4>1 DEF Appends, Shapes, SavesWell
      <4>2. CASE at[p] \in Flushing /\ pending # <<>> /\ Appends(p, Head(pending), TRUE)
        BY <2>1, <4>0, <4>2 DEF Appends, Shapes, SavesWell
      <4>3. QED
        BY <3>1, <4>1, <4>2 DEF Save
    <3>2. CASE Saved(p) \/ Throw(p)
      <4>1. io'[p] = NoIO
        BY <3>2, ActorsNamed DEF Saved, Joined, Throw, Shapes
      <4>2. QED
        BY <2>1, <4>1 DEF NoIO, SavesWell
    <3>3. CASE Step(p) /\ ~Save(p) /\ ~Saved(p)
      <4>1. ~io[p].on
        <5>1. io[p].on => at[p] \in Saving \union Flushing
          BY DEF Appending
        <5>2. QED
          BY <3>3, <5>1 DEF Step, Begin, Taken, Launch, Emitted, Inject, Respond,
             Heard, NextTurn, Flushed, Finish, Saving, Flushing, Final
      <4>2. UNCHANGED io
        BY <3>3 DEF Step, Begin, Taken, Launch, Emitted, Inject, Respond,
             Heard, NextTurn, Flushed, Finish, tree
      <4>3. QED
        BY <2>1, <4>1, <4>2 DEF SavesWell
    <3>4. QED
      BY <1>1, <3>1, <3>2, <3>3
  <2>2. CASE q # p
    <3>1. Untouched(q) /\ crossed' = crossed /\ ~Over(p)
      BY <1>1, <2>2, Working, UntouchedBesides
    <3>2. io[q].on => ~Over(q)
      BY DEF Appending, Over, Saving, Flushing, Final
    <3>3. crossed \/ ~io[q].on
      BY <2>2, <3>1, <3>2 DEF IInv, HandlesExact
    <3>4. QED
      BY <1>0, <3>1, <3>3, SavesUntouched
  <2>3. QED
    BY <2>1, <2>2
<1>2. ASSUME NEW p \in Prompts, Prompt(p), NEW q \in Prompts PROVE SavesWell(q)'
  <2>1. UNCHANGED <<io, pending>>
    BY <1>2 DEF Prompt, tree, writes
  <2>2. CASE q = p
    <3>1. ~io[p].on
      BY <1>2 DEF Prompt, Appending, Saving, Flushing, Final
    <3>2. QED
      BY <2>1, <2>2, <3>1 DEF SavesWell
  <2>3. CASE q # p
    BY <1>0, <1>2, <2>1, <2>3, SavesUntouched, UntouchedBesides, CrossedGrows
  <2>4. QED
    BY <2>2, <2>3
<1>3. ASSUME Others, NEW q \in Prompts PROVE SavesWell(q)'
  <2>1. pending' = pending \/ pending' = Append(pending, Item("write", used.write + 1))
    BY <1>3 DEF Others, Operation, OpAppends, OpSaved, OpEnds, Enqueue, Write, Abort, Operate,
                WriteSaved, WriteFails, writes
  <2>2. \/ pending' = pending \/ pending = <<>>
        \/ (pending # <<>> /\ pending' # <<>> /\ Head(pending') = Head(pending))
    <3>1. pending \in Seq(Writes)
      BY DEF IInv, Types
    <3>2. QED
      BY <2>1, <3>1
  <2>3. crossed \/ ~io[q].on \/ ~io[q].queued \/ pending # <<>>
    BY <1>0 DEF SavesWell
  <2>4. QED
    BY <1>0, <1>3, <2>2, <2>3, SavesUntouched, UntouchedByOthers, CrossedGrows
<1>4. QED
  BY <1>1, <1>2, <1>3 DEF Next, User, Others, Saves, SavesWell

\* The second layer of the invariant.
Moving == Shapes /\ Saves /\ Holding /\ Alone

LEMMA MovingKept ==
  ASSUME IInv, Appending, Moving, Next
  PROVE  Moving'
<1>1. Shapes'
  BY StepShapes, ThrowShapes, OthersShapes DEF Moving, Next
<1>2. Holding'
  <2>1. ASSUME NEW p \in Prompts, Step(p) \/ Throw(p) \/ Prompt(p) PROVE Holding'
    BY <2>1, HoldsSteps, HoldsUntouched, UntouchedBesides DEF Moving, Holding
  <2>2. CASE Others
    BY <2>2, HoldsUntouched, UntouchedByOthers DEF Moving, Holding
  <2>3. QED
    BY <2>1, <2>2 DEF Next, User, Others
<1>3. QED
  BY <1>1, <1>2, SavesKept, AloneKept DEF Moving

LEMMA MovingInductive == Spec => [](IInv /\ Appending /\ Moving)
<1>1. Init => Moving
  <2> SUFFICES ASSUME Init PROVE Moving
    OBVIOUS
  <2>1. Shapes
    BY ActorsNamed DEF Init, Shapes, NoIO, NoOp
  <2>2. Saves /\ Alone
    BY ActorsNamed DEF Init, Saves, Alone, NoIO, NoOp
  <2>3. Holding
    BY DEF Init, Holding, HoldsWell
  <2>4. QED
    BY <2>1, <2>2, <2>3 DEF Moving
<1>2. IInv /\ Appending /\ Moving /\ [Next]_vars => Moving'
  <2>1. CASE Next
    BY <2>1, MovingKept
  <2>2. ASSUME UNCHANGED vars PROVE Moving <=> Moving'
    BY <2>2 DEF vars, handles, runs, tree, queues, writes, Moving, Shapes, Saves, Holding,
       HoldsWell,
       Alone, Over
  <2>3. QED
    BY <2>1, <2>2
<1>3. QED
  BY <1>1, <1>2, Inductive, PTL DEF Spec

------------------------------------------------------------------------------
(* Writes put off *)

\* Writes are numbered as they come, what is put off in that order; what an operation
\* appends is no write, and what a caller appends was not put off.
Numbering ==
  /\ \A i \in DOMAIN deferred : deferred[i].n \in 1..used.write
  /\ \A i, j \in DOMAIN deferred : i < j => deferred[i].n < deferred[j].n
  /\ io[Operator].on => io[Operator].item \in Marks
  /\ io[Caller].on => /\ io[Caller].item \in Writes /\ io[Caller].item.n \in 1..used.write
                      /\ io[Caller].item \notin ToSet(deferred)

\* Where item m is in a list of entries.
PlacesIn(s, m) == {i \in DOMAIN s : s[i].item = m}

Keeping ==
  /\ Len(pending) <= Len(deferred)
  /\ \A i \in 1..Len(pending) : pending[i] = deferred[Len(deferred) - Len(pending) + i]
  /\ \A i \in DOMAIN deferred :
       IF i \in 1..(Len(deferred) - Len(pending))
       THEN \E a \in DOMAIN entries : PlacesIn(entries, deferred[i]) = {a}
       ELSE PlacesIn(entries, deferred[i]) = {}
  /\ \A i, j \in 1..(Len(deferred) - Len(pending)) : i < j =>
       \A a \in PlacesIn(entries, deferred[i]), b \in PlacesIn(entries, deferred[j]) : a < b
  /\ \A i \in DOMAIN entries : entries[i].item.kind = "write" => entries[i].item.n <= used.write

LEMMA NumbersTyped ==
  ASSUME Shapes, NEW i \in DOMAIN entries
  PROVE  entries[i] \in Entries /\ entries[i].item \in Items /\ entries[i].item.n \in Nat
<1>1. entries[i] \in Entries
  BY DEF Shapes
<1>2. QED
  BY <1>1 DEF Entries, Items, Messages, Writes, Marks

LEMMA PlacesGrow ==
  ASSUME Shapes, NEW e \in Entries, entries' = Append(entries, e), NEW m
  PROVE  /\ e.item # m => PlacesIn(entries', m) = PlacesIn(entries, m)
         /\ e.item = m => PlacesIn(entries', m) = PlacesIn(entries, m) \union {Len(entries) + 1}
<1>1. /\ DOMAIN entries = 1..Len(entries) /\ DOMAIN entries' = 1..(Len(entries) + 1)
      /\ Len(entries) \in Nat
      /\ \A i \in DOMAIN entries : entries'[i] = entries[i]
      /\ entries'[Len(entries) + 1] = e
  BY DEF Shapes
<1>2. DOMAIN entries' = DOMAIN entries \union {Len(entries) + 1} /\ Len(entries) + 1 \notin DOMAIN entries
  BY <1>1
<1> HIDE DEF Shapes
<1>3. QED
  BY <1>1, <1>2 DEF PlacesIn

\* What has joined the tree.
LEMMA EntryJoins ==
  ASSUME Shapes, NEW a \in Actors, Joined(a)
  PROVE  \E e \in Entries : entries' = Append(entries, e) /\ e.item = io[a].item
                            /\ e.parent = io[a].parent
<1>1. io[a] \in Appendings
  BY DEF Shapes, Joined, NoIO
<1>2. [item |-> io[a].item, parent |-> io[a].parent] \in Entries
  BY <1>1 DEF Appendings, Entries
<1>3. QED
  BY <1>2 DEF Joined

LEMMA KindsDiffer ==
  /\ \A m \in Messages \union Marks : m \notin Writes /\ m.kind # "write"
  /\ \A m \in Marks \union Writes : ~IsQueued(m)
BY DEF Messages, Marks, Writes, IsQueued, QueueNames

\* An entry that is no pending write joins the tree.
LEMMA KeepingBesides ==
  ASSUME Shapes, IInv, Numbering, Keeping, NEW e \in Entries, entries' = Append(entries, e),
         e.item \notin ToSet(deferred), e.item.kind = "write" => e.item.n \in 1..used.write,
         UNCHANGED <<pending, deferred>>, used'.write = used.write
  PROVE  Keeping'
<1>1. \A i \in DOMAIN deferred : PlacesIn(entries', deferred[i]) = PlacesIn(entries, deferred[i])
  BY PlacesGrow DEF ToSet
<1>2. \A i \in DOMAIN entries' : entries'[i].item.kind = "write" => entries'[i].item.n <= used'.write
  <2>1. \A i \in DOMAIN entries' : (i \in DOMAIN entries /\ entries'[i] = entries[i]) \/ entries'[i] = e
    BY DEF Shapes
  <2>2. QED
    BY <2>1 DEF Keeping
<1>3. DOMAIN entries \subseteq DOMAIN entries'
  BY DEF Shapes
<1>4. 1..(Len(deferred) - Len(pending)) \subseteq DOMAIN deferred
  BY DEF Shapes, IInv, Types
<1>5. \A i, j \in 1..(Len(deferred) - Len(pending)) : i < j =>
        \A a \in PlacesIn(entries', deferred[i]), b \in PlacesIn(entries', deferred[j]) : a < b
  BY <1>1, <1>4 DEF Keeping
<1>6. \A i \in DOMAIN deferred :
        IF i \in 1..(Len(deferred) - Len(pending))
        THEN \E a \in DOMAIN entries' : PlacesIn(entries', deferred[i]) = {a}
        ELSE PlacesIn(entries', deferred[i]) = {}
  BY <1>1, <1>3 DEF Keeping
<1>7. QED
  BY <1>2, <1>5, <1>6 DEF Keeping

\* The first pending write joins the tree.
LEMMA KeepingFlushed ==
  ASSUME Shapes, IInv, Numbering, Keeping, NEW e \in Entries, entries' = Append(entries, e),
         pending # <<>>, e.item = Head(pending), pending' = Tail(pending),
         UNCHANGED deferred, used'.write = used.write
  PROVE  Keeping'
<1> DEFINE k == Len(deferred) - Len(pending)
<1>1. /\ Len(pending) \in Nat \ {0} /\ Len(deferred) \in Nat /\ Len(pending) <= Len(deferred)
      /\ k \in Nat /\ k + 1 \in DOMAIN deferred /\ DOMAIN deferred = 1..Len(deferred)
      /\ Len(pending') = Len(pending) - 1 /\ Len(deferred') - Len(pending') = k + 1
      /\ Head(pending) = pending[1]
      /\ \A i \in 1..Len(pending') : pending'[i] = pending[i + 1]
  <2>1. pending \in Seq(Writes) /\ deferred \in Seq(Writes) /\ Len(pending) <= Len(deferred)
    BY DEF Keeping, Shapes, IInv, Types
  <2>2. QED
    BY <2>1
<1>2. e.item = deferred[k + 1]
  BY <1>1 DEF Keeping
<1>3. \A i \in DOMAIN deferred : i # k + 1 => deferred[i] # deferred[k + 1]
  <2>1. used.write \in Nat
    BY DEF IInv, Types, Acts
  <2>2. \A i \in DOMAIN deferred : deferred[i].n \in Nat
    BY <2>1 DEF Numbering
  <2>3. ASSUME NEW i \in DOMAIN deferred, i # k + 1 PROVE deferred[i].n # deferred[k + 1].n
    <3>1. i < k + 1 \/ k + 1 < i
      BY <1>1, <2>3
    <3>2. QED
      BY <1>1, <2>2, <2>3, <3>1 DEF Numbering
  <2>4. QED
    BY <2>3
<1> HIDE DEF k
<1>4. /\ DOMAIN entries = 1..Len(entries) /\ DOMAIN entries' = 1..(Len(entries) + 1)
      /\ Len(entries) \in Nat
  BY DEF Shapes
<1>5. \A i \in DOMAIN deferred :
         i # k + 1 => PlacesIn(entries', deferred[i]) = PlacesIn(entries, deferred[i])
  BY <1>2, <1>3, PlacesGrow
<1>6. PlacesIn(entries', deferred[k + 1]) = {Len(entries) + 1}
  <2>1. PlacesIn(entries, deferred[k + 1]) = {}
    BY <1>1 DEF Keeping, k
  <2>2. QED
    BY <1>2, <2>1, PlacesGrow
<1>7. \A i \in 1..Len(pending') : pending'[i] = deferred'[Len(deferred') - Len(pending') + i]
  <2>1. SUFFICES ASSUME NEW i \in 1..Len(pending')
                 PROVE  pending'[i] = deferred'[Len(deferred') - Len(pending') + i]
    OBVIOUS
  <2>2. pending'[i] = pending[i + 1] /\ i + 1 \in 1..Len(pending)
    BY <1>1
  <2>3. pending[i + 1] = deferred[k + (i + 1)]
    BY <2>2 DEF Keeping, k
  <2>4. k + (i + 1) = (k + 1) + i
    BY <1>1
  <2>5. QED
    BY <1>1, <2>2, <2>3, <2>4
<1>8. ASSUME NEW i \in DOMAIN deferred
      PROVE  IF i \in 1..(k + 1) THEN \E a \in DOMAIN entries' : PlacesIn(entries', deferred[i]) = {a}
                                 ELSE PlacesIn(entries', deferred[i]) = {}
  <2>1. CASE i = k + 1
    BY <1>1, <1>4, <1>6, <2>1
  <2>2. CASE i # k + 1
    <3>1. IF i \in 1..k THEN \E a \in DOMAIN entries : PlacesIn(entries, deferred[i]) = {a}
                        ELSE PlacesIn(entries, deferred[i]) = {}
      BY DEF Keeping, k
    <3>2. i \in 1..k <=> i \in 1..(k + 1)
      BY <1>1, <2>2
    <3>3. QED
      BY <1>4, <1>5, <2>2, <3>1, <3>2
  <2>3. QED
    BY <2>1, <2>2
<1>9. ASSUME NEW i \in 1..(k + 1), NEW j \in 1..(k + 1), i < j,
             NEW a \in PlacesIn(entries', deferred[i]), NEW b \in PlacesIn(entries', deferred[j])
      PROVE  a < b
  <2>1. i \in 1..k /\ i # k + 1 /\ i \in DOMAIN deferred /\ j \in DOMAIN deferred
    BY <1>1, <1>9
  <2>2. a \in PlacesIn(entries, deferred[i])
    BY <1>5, <1>9, <2>1
  <2>3. CASE j = k + 1
    BY <1>4, <1>6, <1>9, <2>2, <2>3 DEF PlacesIn
  <2>4. CASE j # k + 1
    <3>1. j \in 1..k /\ b \in PlacesIn(entries, deferred[j])
      <4>1. j \in 1..k
        BY <1>1, <1>9, <2>4
      <4>2. QED
        BY <1>5, <1>9, <2>1, <2>4, <4>1
    <3>2. QED
      BY <1>9, <2>1, <2>2, <3>1 DEF Keeping, k
  <2>5. QED
    BY <2>3, <2>4
<1>10. \A i \in DOMAIN entries' : entries'[i].item.kind = "write" => entries'[i].item.n <= used'.write
  <2>1. e.item.n <= used.write
    <3>1. deferred[k + 1].n \in 1..used.write /\ used.write \in Nat
      BY <1>1 DEF Numbering, IInv, Types, Acts
    <3>2. QED
      BY <1>2, <3>1
  <2>2. QED
    BY <2>1 DEF Keeping, Shapes
<1>11. QED
  <2>1. Len(pending') <= Len(deferred')
    BY <1>1
  <2>2. \A i \in DOMAIN deferred' :
          IF i \in 1..(Len(deferred') - Len(pending'))
          THEN \E a \in DOMAIN entries' : PlacesIn(entries', deferred'[i]) = {a}
          ELSE PlacesIn(entries', deferred'[i]) = {}
    BY <1>1, <1>8
  <2>3. \A i, j \in 1..(Len(deferred') - Len(pending')) : i < j =>
          \A a \in PlacesIn(entries', deferred'[i]), b \in PlacesIn(entries', deferred'[j]) : a < b
    BY <1>1, <1>9
  <2>4. QED
    BY <1>7, <1>10, <2>1, <2>2, <2>3 DEF Keeping

\* A write is put off.
LEMMA KeepingDeferred ==
  ASSUME Shapes, IInv, Numbering, Keeping, NEW w \in Writes, w.n = used.write + 1,
         pending' = Append(pending, w), deferred' = Append(deferred, w),
         UNCHANGED entries, used'.write = used.write + 1
  PROVE  Keeping'
<1> DEFINE k == Len(deferred) - Len(pending)
<1>1. /\ Len(pending) \in Nat /\ Len(deferred) \in Nat /\ k \in Nat
      /\ Len(pending') = Len(pending) + 1 /\ Len(deferred') = Len(deferred) + 1
      /\ Len(deferred') - Len(pending') = k
      /\ DOMAIN deferred = 1..Len(deferred) /\ DOMAIN deferred' = 1..(Len(deferred) + 1)
      /\ \A i \in DOMAIN deferred : deferred'[i] = deferred[i]
      /\ \A i \in 1..Len(pending) : pending'[i] = pending[i]
      /\ deferred'[Len(deferred) + 1] = w /\ pending'[Len(pending) + 1] = w
  <2>1. pending \in Seq(Writes) /\ deferred \in Seq(Writes) /\ Len(pending) <= Len(deferred)
    BY DEF Keeping, Shapes, IInv, Types
  <2>2. QED
    BY <2>1
<1> HIDE DEF k
<1>2. PlacesIn(entries, w) = {}
  <2>1. used.write \in Nat /\ w.kind = "write"
    BY DEF IInv, Types, Acts, Writes
  <2>2. QED
    BY <2>1 DEF Keeping, PlacesIn
<1>3. ASSUME NEW i \in 1..Len(pending') PROVE pending'[i] = deferred'[k + i]
  <2>1. CASE i = Len(pending')
    <3>1. k + i = Len(deferred) + 1
      BY <1>1, <2>1 DEF k
    <3>2. QED
      BY <1>1, <2>1, <3>1
  <2>2. CASE i # Len(pending')
    <3>1. i \in 1..Len(pending) /\ k + i \in DOMAIN deferred
      BY <1>1, <2>2 DEF k
    <3>2. pending[i] = deferred[k + i]
      BY <3>1 DEF Keeping, k
    <3>3. QED
      BY <1>1, <3>1, <3>2
  <2>3. QED
    BY <2>1, <2>2
<1>4. ASSUME NEW i \in DOMAIN deferred'
      PROVE  IF i \in 1..k THEN \E a \in DOMAIN entries : PlacesIn(entries, deferred'[i]) = {a}
                           ELSE PlacesIn(entries, deferred'[i]) = {}
  <2>1. CASE i = Len(deferred) + 1
    <3>1. i \notin 1..k
      BY <1>1, <2>1 DEF k
    <3>2. QED
      BY <1>1, <1>2, <2>1, <3>1
  <2>2. CASE i # Len(deferred) + 1
    <3>1. i \in DOMAIN deferred
      BY <1>1, <2>2
    <3>2. QED
      BY <1>1, <3>1 DEF Keeping, k
  <2>3. QED
    BY <2>1, <2>2
<1>5. \A i \in 1..k : i \in DOMAIN deferred
  BY <1>1 DEF k
<1>6. ASSUME NEW i \in 1..k, NEW j \in 1..k, i < j,
             NEW a \in PlacesIn(entries, deferred'[i]), NEW b \in PlacesIn(entries, deferred'[j])
      PROVE  a < b
  BY <1>1, <1>5, <1>6 DEF Keeping, k
<1>7. \A i \in DOMAIN entries : entries[i].item.kind = "write" => entries[i].item.n <= used'.write
  <2>1. \A i \in DOMAIN entries : entries[i].item.kind = "write" => entries[i].item.n \in Nat
    BY NumbersTyped
  <2>2. used.write \in Nat /\ used'.write = used.write + 1
    BY DEF IInv, Types, Acts
  <2>3. QED
    BY <2>1, <2>2 DEF Keeping
<1>8. QED
  <2>1. Len(pending') <= Len(deferred')
    BY <1>1
  <2>2. \A i \in DOMAIN deferred' :
          IF i \in 1..(Len(deferred') - Len(pending'))
          THEN \E a \in DOMAIN entries' : PlacesIn(entries', deferred'[i]) = {a}
          ELSE PlacesIn(entries', deferred'[i]) = {}
    BY <1>1, <1>4
  <2>3. \A i, j \in 1..(Len(deferred') - Len(pending')) : i < j =>
          \A a \in PlacesIn(entries', deferred'[i]), b \in PlacesIn(entries', deferred'[j]) : a < b
    BY <1>1, <1>6
  <2>0. \A i \in 1..Len(pending') : pending'[i] = deferred'[Len(deferred') - Len(pending') + i]
    BY <1>1, <1>3
  <2>4. QED
    BY <2>0, <1>7, <2>1, <2>2, <2>3 DEF Keeping

------------------------------------------------------------------------------
LEMMA WriteCount ==
  ASSUME IInv, Next
  PROVE  /\ used.write \in Nat /\ used'.write \in Nat /\ used'.write >= used.write
         /\ used'.write # used.write => Write
<1>0. used \in [Acts -> Nat]
  BY DEF IInv, Types
<1>1. used' = used \/ \E kind \in Acts : May(kind) /\ (kind = "write" => Write)
  <2> DEFINE Other == used' = used \/ \E kind \in Acts \ {"write"} : May(kind)
  <2>1. ASSUME NEW p \in Prompts, Step(p) PROVE Other
    <3>1. Begin(p) \/ Taken(p) \/ Launch(p) \/ Save(p) => used' = used
      BY DEF Begin, Taken, Launch, Save
    <3>2. Saved(p) \/ Emitted(p) \/ Inject(p) => used' = used
      BY DEF Saved, Emitted, Inject
    <3>3. Respond(p) => Other
      BY DEF Respond, Acts
    <3>4. Heard(p) \/ NextTurn(p) => used' = used
      BY DEF Heard, NextTurn
    <3>5. Flushed(p) \/ Finish(p) => used' = used
      BY DEF Flushed, Finish
    <3>6. QED
      BY <2>1, <3>1, <3>2, <3>3, <3>4, <3>5 DEF Step
  <2>2. ASSUME NEW p \in Prompts, Throw(p) \/ Prompt(p) PROVE Other
    BY <2>2 DEF Throw, Prompt, Acts
  <2>3. ASSUME Operation \/ WriteSaved PROVE Other
    <3>1. OpAppends => used' = used
      BY DEF OpAppends
    <3>2. OpSaved \/ OpEnds \/ WriteSaved => used' = used
      BY DEF OpSaved, OpEnds, WriteSaved
    <3>3. QED
      BY <2>3, <3>1, <3>2 DEF Operation
  <2>4. ASSUME WriteFails \/ Abort \/ (\E kind \in QueueNames : Enqueue(kind))
                 \/ (\E which \in {"compact", "navigate"} : Operate(which))
        PROVE  Other
    BY <2>4 DEF WriteFails, Abort, Enqueue, Operate, Acts
  <2>5. CASE Write
    BY <2>5 DEF Write, Acts
  <2>6. used' = used \/ Other \/ Write
    BY <2>1, <2>2, <2>3, <2>4 DEF Next, User
  <2>7. QED
    BY <2>5, <2>6
<1>2. QED
  BY <1>0, <1>1 DEF May, Acts

LEMMA NumberingKept ==
  ASSUME IInv, Moving, Appending, Numbering, Next
  PROVE  Numbering'
<1>0. /\ used.write \in Nat /\ used'.write \in Nat /\ used'.write >= used.write
      /\ Caller \in Actors /\ Operator \in Actors /\ Caller # Operator
      /\ deferred \in Seq(Writes)
  BY WriteCount, ActorsNamed DEF Caller, Operator, Moving, Shapes
<1>1. CASE Write
  <2> DEFINE w == Item("write", used.write + 1)
  <2>0. /\ w \in Writes /\ w.n = used.write + 1 /\ used'.write = used.write + 1
        /\ io'[Operator] = io[Operator]
    BY <1>0, <1>1 DEF Write, May, IInv, Types, Acts, Item, Writes, Appends, Moving, Shapes
  <2> HIDE DEF w
  <2>1. w \notin ToSet(deferred)
    BY <1>0, <2>0 DEF Numbering, ToSet
  <2>2. CASE Defers
    <3>1. deferred' = Append(deferred, w) /\ UNCHANGED io
      BY <1>1, <2>2 DEF Write, w
    <3>2. /\ DOMAIN deferred' = 1..(Len(deferred) + 1) /\ DOMAIN deferred = 1..Len(deferred)
          /\ Len(deferred) \in Nat
          /\ \A i \in DOMAIN deferred : deferred'[i] = deferred[i]
          /\ deferred'[Len(deferred) + 1] = w
      BY <1>0, <3>1
    <3>3. ToSet(deferred') \subseteq ToSet(deferred) \union {w}
      BY <3>2 DEF ToSet
    <3>4. io[Caller].on => io[Caller].item # w
      BY <1>0, <2>0 DEF Numbering
    <3>5. /\ \A i \in DOMAIN deferred' : deferred'[i].n \in 1..used'.write
          /\ \A i, j \in DOMAIN deferred' : i < j => deferred'[i].n < deferred'[j].n
      <4>1. \A i \in DOMAIN deferred' : i \in DOMAIN deferred \/ i = Len(deferred) + 1
        BY <3>2
      <4>2. \A i \in DOMAIN deferred : deferred[i].n \in 1..used.write
        BY DEF Numbering
      <4>3. \A i \in DOMAIN deferred' : deferred'[i].n \in 1..used'.write
        BY <1>0, <2>0, <3>2, <4>1, <4>2
      <4>4. ASSUME NEW i \in DOMAIN deferred', NEW j \in DOMAIN deferred', i < j
            PROVE  deferred'[i].n < deferred'[j].n
        <5>1. i \in DOMAIN deferred
          BY <3>2, <4>4
        <5>2. CASE j \in DOMAIN deferred
          BY <3>2, <4>4, <5>1, <5>2 DEF Numbering
        <5>3. CASE j = Len(deferred) + 1
          BY <1>0, <2>0, <3>2, <4>2, <5>1, <5>3
        <5>4. QED
          BY <4>1, <5>2, <5>3
      <4>5. QED
        BY <4>3, <4>4
    <3>6. QED
      BY <1>0, <2>0, <3>1, <3>3, <3>4, <3>5 DEF Numbering
  <2>3. CASE ~Defers
    <3>1. UNCHANGED deferred /\ io'[Caller].item = w
      BY <1>0, <1>1, <2>3 DEF Write, Appends, writes, w, Moving, Shapes
    <3>2. QED
      BY <1>0, <2>0, <2>1, <3>1 DEF Numbering
  <2>4. QED
    BY <2>2, <2>3
<1>2. CASE ~Write
  <2>1. UNCHANGED deferred
    BY <1>2 DEF Next, Operation, User, Step, Begin, Taken, Launch, Save, Saved, Emitted, Inject,
         Respond, Heard, NextTurn, Flushed, Finish, Throw, OpAppends, OpSaved, OpEnds, Prompt,
         Enqueue, Abort, Operate, WriteSaved, WriteFails, writes
  <2>2. io'[Caller].on => io'[Caller] = io[Caller]
    <3>1. CASE \E p \in Prompts : Step(p) \/ Throw(p)
      BY <3>1, Working DEF Moving
    <3>2. CASE WriteSaved \/ WriteFails
      BY <1>0, <3>2 DEF WriteSaved, WriteFails, Joined, NoIO, Moving, Shapes
    <3>3. CASE Operation
      BY <1>0, <3>3 DEF Operation, OpAppends, OpSaved, OpEnds, Appends, Joined, Moving, Shapes
    <3>4. CASE User
      BY <1>2, <3>4 DEF User, Prompt, Enqueue, Abort, Operate, tree
    <3>5. QED
      BY <3>1, <3>2, <3>3, <3>4 DEF Next
  <2>3. io'[Operator].on => io'[Operator] = io[Operator] \/ io'[Operator].item \in Marks
    <3>1. CASE \E p \in Prompts : Step(p) \/ Throw(p)
      BY <3>1, Working DEF Moving
    <3>2. CASE WriteSaved \/ WriteFails
      BY <1>0, <3>2 DEF WriteSaved, WriteFails, Joined, Moving, Shapes
    <3>3. CASE OpAppends
      <4>1. \E kind \in {"compaction", "leaf", "branch_summary"} :
              io'[Operator].item = Item(kind, 0)
        <5>1. CASE op.at = "navigate"
          BY <1>0, <3>3, <5>1 DEF OpAppends, Moving, Shapes
        <5>2. CASE op.at # "navigate"
          <6>1. CASE op.at = "compact"
            BY <1>0, <3>3, <6>1 DEF OpAppends, Appends, Moving, Shapes
          <6>2. CASE op.at = "summarize"
            BY <1>0, <3>3, <6>2 DEF OpAppends, Moving, Shapes
          <6>3. QED
            BY <3>3, <5>2, <6>1, <6>2 DEF OpAppends
        <5>3. QED
          BY <5>1, <5>2
      <4>2. QED
        BY <4>1, ItemIn
    <3>4. CASE OpSaved \/ OpEnds
      BY <1>0, <3>4 DEF OpSaved, OpEnds, Joined, NoIO, Moving, Shapes
    <3>5. CASE User
      BY <1>2, <3>5 DEF User, Prompt, Enqueue, Abort, Operate, tree
    <3>6. QED
      BY <3>1, <3>2, <3>3, <3>4, <3>5 DEF Next, Operation
  <2>4. QED
    BY <1>0, <2>1, <2>2, <2>3 DEF Numbering
<1>3. QED
  BY <1>1, <1>2

\* The entries change only where an append ends.
LEMMA TreeSteps ==
  ASSUME Next
  PROVE  \/ UNCHANGED <<entries, leaf>> /\ (~Write => UNCHANGED pending /\ UNCHANGED deferred)
         \/ \E p \in Prompts : Saved(p)
         \/ OpSaved \/ WriteSaved
<1> USE DEF writes, tree
<1>1. ASSUME NEW p \in Prompts, Step(p) \/ Throw(p), ~Saved(p)
      PROVE  UNCHANGED <<entries, leaf, pending, deferred>>
  BY <1>1 DEF Step, Begin, Taken, Launch, Save, Emitted, Inject, Respond,
         Heard, NextTurn, Flushed, Finish, Throw
<1>2. ASSUME OpAppends \/ OpEnds \/ WriteFails PROVE UNCHANGED <<entries, leaf, pending, deferred>>
  BY <1>2 DEF OpAppends, OpEnds, WriteFails
<1>3. ASSUME User PROVE UNCHANGED <<entries, leaf>> /\ (~Write => UNCHANGED <<pending, deferred>>)
  BY <1>3 DEF User, Prompt, Enqueue, Abort, Operate, Write
<1>4. QED
  BY <1>1, <1>2, <1>3 DEF Next, Operation

LEMMA KeepingKept ==
  ASSUME IInv, Moving, Appending, Numbering, crossed \/ Keeping, Next
  PROVE  crossed' \/ Keeping'
<1> SUFFICES ASSUME ~crossed' PROVE Keeping'
  OBVIOUS
<1>0. Shapes /\ ~crossed /\ Keeping
  BY CrossedGrows DEF Moving
<1>1. ASSUME UNCHANGED entries, ~Write, UNCHANGED <<pending, deferred>> PROVE Keeping'
  BY <1>0, <1>1, WriteCount DEF Keeping
<1>2. CASE Write
  <2>1. used'.write = used.write + 1 /\ UNCHANGED entries /\ used.write \in Nat
    BY <1>2 DEF Write, May, IInv, Types, Acts
  <2>2. CASE Defers
    <3>1. /\ Item("write", used.write + 1) \in Writes
          /\ Item("write", used.write + 1).n = used.write + 1
      BY <2>1 DEF Item, Writes
    <3>2. QED
      BY <1>0, <1>2, <2>1, <2>2, <3>1, KeepingDeferred DEF Write
  <2>3. CASE ~Defers
    <3>1. UNCHANGED <<pending, deferred>>
      BY <1>2, <2>3 DEF Write, writes
    <3>2. \A i \in DOMAIN entries : entries[i].item.n \in Nat
      BY <1>0, NumbersTyped
    <3>3. QED
      BY <1>0, <2>1, <3>1, <3>2 DEF Keeping
  <2>4. QED
    BY <2>2, <2>3
<1>3. ASSUME NEW p \in Prompts, Saved(p) PROVE Keeping'
  <2>0. used'.write = used.write /\ deferred' = deferred /\ io[p].on /\ SavesWell(p)
    BY <1>3 DEF Saved, Joined, Moving, Saves, SavesWell
  <2>1. PICK e \in Entries : entries' = Append(entries, e) /\ e.item = io[p].item
    BY <1>0, <1>3, EntryJoins, ActorsNamed DEF Saved
  <2>2. CASE io[p].queued
    <3>1. pending # <<>> /\ e.item = Head(pending)
      BY <1>0, <2>0, <2>1, <2>2 DEF SavesWell
    <3>2. pending' = Tail(pending)
      BY <1>3, <2>2, <3>1 DEF Saved, Shifted
    <3>3. QED
      BY <1>0, <2>0, <2>1, <3>1, <3>2, KeepingFlushed
  <2>3. CASE ~io[p].queued
    <3>1. e.item \in Messages
      BY <1>0, <2>0, <2>1, <2>3, HeadIn DEF SavesWell, Shapes
    <3>2. e.item \notin ToSet(deferred) /\ e.item.kind # "write"
      BY <1>0, <3>1, KindsDiffer, ToSetIn DEF Shapes
    <3>3. pending' = pending
      BY <1>3, <2>3 DEF Saved, Shifted
    <3>4. QED
      BY <1>0, <2>0, <2>1, <3>2, <3>3, KeepingBesides
  <2>4. QED
    BY <2>2, <2>3
<1>4. CASE OpSaved
  <2>1. PICK e \in Entries : entries' = Append(entries, e) /\ e.item = io[Operator].item
    BY <1>0, <1>4, EntryJoins, ActorsNamed DEF OpSaved
  <2>2. e.item \in Marks
    BY <1>4, <2>1 DEF OpSaved, Joined, Numbering
  <2>3. e.item \notin ToSet(deferred) /\ e.item.kind # "write"
    BY <1>0, <2>2, KindsDiffer, ToSetIn DEF Shapes
  <2>4. QED
    BY <1>0, <1>4, <2>1, <2>3, KeepingBesides DEF OpSaved, writes
<1>5. CASE WriteSaved
  <2>1. PICK e \in Entries : entries' = Append(entries, e) /\ e.item = io[Caller].item
    BY <1>0, <1>5, EntryJoins, ActorsNamed DEF WriteSaved
  <2>2. e.item \notin ToSet(deferred) /\ e.item.n \in 1..used.write
    BY <1>5, <2>1 DEF WriteSaved, Joined, Numbering
  <2>3. QED
    BY <1>0, <1>5, <2>1, <2>2, KeepingBesides DEF WriteSaved, writes
<1>6. QED
  BY <1>1, <1>2, <1>3, <1>4, <1>5, TreeSteps

LEMMA KeptInductive == Spec => [](IInv /\ Appending /\ Moving /\ Numbering /\ (crossed \/ Keeping))
<1>1. Init => Numbering /\ Keeping
  BY ActorsNamed DEF Init, Numbering, Keeping, NoIO, PlacesIn, ToSet
<1>2. /\ IInv /\ Appending /\ Moving /\ Numbering /\ (crossed \/ Keeping) /\ [Next]_vars
      => Numbering' /\ (crossed' \/ Keeping')
  <2>1. CASE Next
    BY <2>1, NumberingKept, KeepingKept
  <2>2. CASE UNCHANGED vars
    BY <2>2 DEF vars, handles, runs, tree, queues, writes, Numbering, Keeping
  <2>3. QED
    BY <2>1, <2>2
<1>3. QED
  BY <1>1, <1>2, MovingInductive, PTL DEF Spec

(* Unless something was let in beside something unfinished, every write put off is
   saved once, in the order the writes came, and is pending until then. *)
THEOREM WritesKept == Spec => []DeferredKept
<1>1. Moving /\ IInv /\ (crossed \/ Keeping) => DeferredKept
  <2> SUFFICES ASSUME Moving, IInv, Keeping PROVE DeferredKept
    BY DEF DeferredKept
  <2> DEFINE k == Len(deferred) - Len(pending)
  <2>0. /\ Len(pending) \in Nat /\ Len(deferred) \in Nat /\ k \in Nat /\ k <= Len(deferred)
        /\ deferred \in Seq(Writes) /\ pending \in Seq(Writes)
        /\ Len(pending) = Len(deferred) - k
    BY DEF Moving, Shapes, IInv, Types, Keeping
  <2>1. pending = SubSeq(deferred, k + 1, Len(deferred))
    <3> DEFINE s == SubSeq(deferred, k + 1, Len(deferred))
    <3>1. /\ s \in Seq(Writes) /\ Len(s) = Len(deferred) - k
          /\ \A i \in 1..Len(s) : s[i] = deferred[k + i]
      BY <2>0
    <3>2. \A i \in 1..Len(pending) : pending[i] = deferred[k + i]
      BY DEF Keeping
    <3> HIDE DEF s, k
    <3>3. QED
      BY <2>0, <3>1, <3>2 DEF s
  <2>2. ASSUME NEW i \in DOMAIN deferred
        PROVE  Cardinality(SavedAt(deferred[i])) = IF i \in DeferredSaved THEN 1 ELSE 0
    <3>1. CASE i \in DeferredSaved
      <4>1. PICK a \in DOMAIN entries : SavedAt(deferred[i]) = {a}
        BY <3>1 DEF Keeping, DeferredSaved, SavedAt, PlacesIn
      <4>2. QED
        BY <3>1, <4>1, FS_Singleton
    <3>2. CASE i \notin DeferredSaved
      <4>1. SavedAt(deferred[i]) = {}
        BY <3>2 DEF Keeping, DeferredSaved, SavedAt, PlacesIn
      <4>2. QED
        BY <3>2, <4>1, FS_EmptySet
    <3>3. QED
      BY <3>1, <3>2
  <2>3. QED
    BY <2>1, <2>2 DEF Keeping, DeferredKept, DeferredSaved, SavedAt, PlacesIn
<1>2. QED
  BY <1>1, KeptInductive, PTL

------------------------------------------------------------------------------
(* The branch of the session *)

\* A set of numbers has a least element, as "less than" is well-founded.
LEMMA Least ==
  ASSUME NEW T \in SUBSET Nat, T # {}
  PROVE  \E x \in T : \A y \in T : x <= y
<1> DEFINE Less == {ss \in Nat \X Nat : ss[1] < ss[2]}
<1>1. IsWellFoundedOn(Less, Nat)
  BY NatLessThanWellFounded DEF OpToRel
<1>2. \A x, y \in Nat : <<y, x>> \in Less <=> y < x
  OBVIOUS
<1> HIDE DEF Less
<1>3. PICK x \in T : \A y \in T : ~(<<y, x>> \in Less)
  BY <1>1, WFMin
<1>4. \A y \in T : x <= y
  <2>1. ASSUME NEW y \in T PROVE x <= y
    <3>1. ~(y < x)
      BY <1>2, <1>3
    <3>2. x \in Nat /\ y \in Nat
      OBVIOUS
    <3>3. QED
      BY <3>1, <3>2
  <2>2. QED
    BY <2>1
<1>5. QED
  BY <1>4

\* What holds of a number whenever it holds of those before it holds of all.
LEMMA Below ==
  ASSUME NEW T \in SUBSET Nat, \A n \in Nat : (\A m \in 0..(n - 1) : m \in T) => n \in T
  PROVE  T = Nat
<1> SUFFICES ASSUME Nat \ T # {} PROVE FALSE
  OBVIOUS
<1>1. PICK x \in Nat \ T : \A y \in Nat \ T : x <= y
  BY Least
<1>2. \A m \in 0..(x - 1) : m \in T
  BY <1>1
<1>3. QED
  BY <1>1, <1>2

IsTree(s) == s \in Seq(Entries) /\ \A n \in DOMAIN s : s[n].parent \in 0..(n - 1)

IsPath(s, N, path) ==
  path = [n \in 0..N |-> IF n = 0 THEN <<>> ELSE Append(path[s[n].parent], n)]

PathOf(s) == CHOOSE path : IsPath(s, Len(s), path)

LEMMA PathValue ==
  ASSUME NEW s, NEW N, NEW path, IsPath(s, N, path), NEW n \in 0..N, n # 0
  PROVE  path[n] = Append(path[s[n].parent], n)
BY Zenon DEF IsPath

LEMMA BranchIsPath == Branch = PathOf(entries)[leaf]
BY DEF Branch, PathOf, IsPath

LEMMA PathsAgree ==
  ASSUME NEW s, IsTree(s), NEW N \in Nat, N <= Len(s), NEW f, IsPath(s, N, f), NEW g,
         IsPath(s, N, g)
  PROVE  f = g
<1> DEFINE T == {n \in Nat : n \in 0..N => f[n] = g[n]}
<1>1. ASSUME NEW n \in Nat, \A m \in 0..(n - 1) : m \in T PROVE n \in T
  <2> SUFFICES ASSUME n \in 0..N PROVE f[n] = g[n]
    OBVIOUS
  <2>1. CASE n = 0
    BY <2>1 DEF IsPath
  <2>2. CASE n # 0
    <3>1. s[n].parent \in 0..(n - 1) /\ s[n].parent \in 0..N
      BY <2>2 DEF IsTree
    <3>2. f[s[n].parent] = g[s[n].parent]
      BY <1>1, <3>1
    <3>3. QED
      BY <2>2, <3>2 DEF IsPath
  <2>3. QED
    BY <2>1, <2>2
<1> HIDE DEF T
<1>2. T = Nat
  BY <1>1, Below DEF T
<1>3. \A n \in 0..N : f[n] = g[n]
  BY <1>2 DEF T
<1>4. QED
  BY <1>3 DEF IsPath

LEMMA PathExists ==
  ASSUME NEW s, IsTree(s), NEW M \in Nat, M <= Len(s)
  PROVE  \E f : IsPath(s, M, f)
<1> DEFINE T == {N \in Nat : N <= Len(s) => \E f : IsPath(s, N, f)}
<1>1. ASSUME NEW N \in Nat, \A m \in 0..(N - 1) : m \in T PROVE N \in T
  <2> SUFFICES ASSUME N <= Len(s) PROVE \E f : IsPath(s, N, f)
    OBVIOUS
  <2>1. CASE N = 0
    <3>1. IsPath(s, N, [n \in 0..0 |-> <<>>])
      BY <2>1 DEF IsPath
    <3>2. QED
      BY <3>1
  <2>2. CASE N # 0
    <3>0. s \in Seq(Entries) /\ Len(s) \in Nat
      BY DEF IsTree
    <3>1. PICK f : IsPath(s, N - 1, f)
      <4>1. N - 1 \in T /\ N - 1 <= Len(s)
        <5>1. N - 1 \in 0..(N - 1) /\ N - 1 <= Len(s)
          BY <2>2, <3>0
        <5>2. QED
          BY <1>1, <5>1
      <4>2. QED
        BY <4>1
    <3> DEFINE g == [n \in 0..N |-> IF n = N THEN Append(f[s[N].parent], N) ELSE f[n]]
    <3>2. ASSUME NEW n \in 0..N
          PROVE  g[n] = IF n = 0 THEN <<>> ELSE Append(g[s[n].parent], n)
      <4>1. CASE n = 0
        <5>1. g[0] = f[0] /\ 0 \in 0..(N - 1)
          BY <2>2
        <5>2. f[0] = <<>>
          BY <3>1, <5>1 DEF IsPath
        <5>3. QED
          BY <4>1, <5>1, <5>2
      <4>2. CASE n # 0
        <5>1. s[n].parent \in 0..(n - 1) /\ s[n].parent \in 0..N /\ s[n].parent # N
          BY <3>0, <4>2 DEF IsTree
        <5>2. g[s[n].parent] = f[s[n].parent]
          BY <5>1
        <5>3. CASE n = N
          BY <4>2, <5>2, <5>3
        <5>4. CASE n # N
          <6>1. n \in 0..(N - 1)
            BY <5>4
          <6>2. f[n] = Append(f[s[n].parent], n)
            BY <3>1, <4>2, <6>1 DEF IsPath
          <6>3. QED
            BY <4>2, <5>2, <5>4, <6>2
        <5>5. QED
          BY <5>3, <5>4
      <4>3. QED
        BY <4>1, <4>2
    <3> HIDE DEF g
    <3>3. g = [n \in 0..N |-> g[n]]
      BY DEF g
    <3>4. IsPath(s, N, g)
      BY <3>2, <3>3 DEF IsPath
    <3>5. QED
      BY <3>4
  <2>3. QED
    BY <2>1, <2>2
<1> HIDE DEF T
<1>2. T = Nat
  BY <1>1, Below DEF T
<1>3. QED
  BY <1>2 DEF T

LEMMA PathOfTree ==
  ASSUME NEW s, IsTree(s)
  PROVE  IsPath(s, Len(s), PathOf(s))
<1>1. Len(s) \in Nat /\ Len(s) <= Len(s)
  BY DEF IsTree
<1>2. \E f : IsPath(s, Len(s), f)
  BY <1>1, PathExists
<1>3. QED
  BY <1>2 DEF PathOf

\* An entry appended under the leaf, and the leaf moved to it, is the next of the branch.
LEMMA PathGrows ==
  ASSUME NEW s, IsTree(s), NEW e \in Entries, e.parent \in 0..Len(s)
  PROVE  /\ IsTree(Append(s, e))
         /\ PathOf(Append(s, e))[Len(s) + 1] = Append(PathOf(s)[e.parent], Len(s) + 1)
<1> DEFINE t == Append(s, e)
           g == PathOf(t)
           f == [n \in 0..Len(s) |-> g[n]]
<1>1. /\ Len(s) \in Nat /\ t \in Seq(Entries) /\ Len(t) = Len(s) + 1
      /\ \A n \in 1..Len(s) : t[n] = s[n]
      /\ t[Len(s) + 1] = e
  BY DEF IsTree
<1> HIDE DEF t
<1>2. IsTree(t)
  <2>1. \A n \in DOMAIN t : n \in 1..Len(s) \/ n = Len(s) + 1
    BY <1>1
  <2>2. QED
    BY <1>1, <2>1 DEF IsTree
<1>3. IsPath(t, Len(s) + 1, g)
  BY <1>1, <1>2, PathOfTree
<1> HIDE DEF g
<1>4. ASSUME NEW n \in 0..Len(s)
      PROVE  f[n] = IF n = 0 THEN <<>> ELSE Append(f[s[n].parent], n)
  <2>1. CASE n = 0
    BY <1>1, <1>3, <2>1 DEF IsPath
  <2>2. CASE n # 0
    <3>1. s[n].parent \in 0..Len(s) /\ t[n] = s[n]
      BY <1>1, <2>2 DEF IsTree
    <3>2. f[s[n].parent] = g[s[n].parent] /\ f[n] = g[n]
      BY <3>1
    <3>3. g[n] = Append(g[t[n].parent], n)
      <4>1. n \in 0..(Len(s) + 1)
        BY <1>1
      <4>2. QED
        BY <1>3, <2>2, <4>1, PathValue
    <3>4. QED
      BY <2>2, <3>1, <3>2, <3>3
  <2>3. QED
    BY <2>1, <2>2
<1>5. f[e.parent] = g[e.parent]
  OBVIOUS
<1> HIDE DEF f
<1>6. IsPath(s, Len(s), f)
  BY <1>4 DEF IsPath, f
<1>7. f = PathOf(s)
  BY <1>1, <1>6, PathOfTree, PathsAgree
<1>8. g[Len(s) + 1] = Append(g[e.parent], Len(s) + 1)
  <2>1. Len(s) + 1 \in 0..(Len(s) + 1) /\ Len(s) + 1 # 0
    BY <1>1
  <2>2. g[Len(s) + 1] = Append(g[t[Len(s) + 1].parent], Len(s) + 1)
    BY <1>3, <2>1, PathValue
  <2>3. QED
    BY <1>1, <2>2
<1>9. QED
  BY <1>2, <1>5, <1>7, <1>8 DEF t, g

------------------------------------------------------------------------------
(* What the model is shown *)

\* The entries are a tree, and what is to become a parent or the leaf is in it.
Trees ==
  /\ \A n \in DOMAIN entries : entries[n].parent \in 0..(n - 1)
  /\ leaf \in 0..Len(entries) /\ op.target \in 0..Len(entries)
  /\ \A a \in Actors : io[a].on => io[a].parent \in 0..Len(entries)
                                    /\ io[a].target \in 0..Len(entries)

\* Where the context of a call is the one the model is shown next.
Seeing == {"snapshot", "taking", "hook", "emit", "drained", "inject", "model", "cancelled",
           "turnSnapshot"}

Follows(p) ==
  /\ at[p] \in Seeing => context[p] = Branch
  /\ io[p].on => io[p].parent = leaf

Following == crossed \/ \A p \in Prompts : Follows(p)

LEMMA TreesJoined ==
  ASSUME Shapes, Trees, NEW a \in Actors, Joined(a), UNCHANGED op
  PROVE  Trees'
<1>1. PICK e \in Entries : entries' = Append(entries, e) /\ e.parent = io[a].parent
  BY EntryJoins
<1>2. /\ Len(entries) \in Nat /\ Len(entries') = Len(entries) + 1
      /\ DOMAIN entries' = 1..(Len(entries) + 1)
      /\ \A n \in 1..Len(entries) : entries'[n] = entries[n]
      /\ entries'[Len(entries) + 1] = e
  BY <1>1 DEF Shapes
<1>3. io[a].parent \in 0..Len(entries) /\ io[a].target \in 0..Len(entries)
  BY DEF Joined, Trees
<1>4. \A n \in DOMAIN entries' : entries'[n].parent \in 0..(n - 1)
  <2>1. ASSUME NEW n \in DOMAIN entries' PROVE entries'[n].parent \in 0..(n - 1)
    <3>1. CASE n = Len(entries) + 1
      BY <1>1, <1>2, <1>3, <3>1
    <3>2. CASE n # Len(entries) + 1
      <4>1. n \in 1..Len(entries) /\ n \in DOMAIN entries
        BY <1>2, <2>1, <3>2 DEF Shapes
      <4>2. QED
        BY <1>2, <4>1 DEF Trees
    <3>3. QED
      BY <3>1, <3>2
  <2>2. QED
    BY <2>1
<1>5. leaf' \in 0..Len(entries')
  BY <1>2, <1>3 DEF Joined
<1>6. op'.target \in 0..Len(entries')
  BY <1>2 DEF Trees
<1>7. ASSUME NEW b \in Actors, io'[b].on
      PROVE  io'[b].parent \in 0..Len(entries') /\ io'[b].target \in 0..Len(entries')
  <2>1. io' = [io EXCEPT ![a] = NoIO]
    BY DEF Joined
  <2>2. b # a
    BY <1>7, <2>1 DEF Shapes, NoIO
  <2>3. io'[b] = io[b]
    BY <2>1, <2>2 DEF Shapes
  <2>4. QED
    BY <1>2, <1>7, <2>3 DEF Trees
<1>8. QED
  BY <1>4, <1>5, <1>6, <1>7 DEF Trees

LEMMA TreesIO ==
  ASSUME Shapes, Trees, NEW a \in Actors, NEW r, io' = [io EXCEPT ![a] = r],
         r.on => r.parent \in 0..Len(entries) /\ r.target \in 0..Len(entries),
         UNCHANGED <<entries, leaf>>, op'.target \in 0..Len(entries)
  PROVE  Trees'
<1>1. \A b \in Actors : io'[b] = IF b = a THEN r ELSE io[b]
  BY DEF Shapes
<1>2. QED
  BY <1>1 DEF Trees

LEMMA TreesAppends ==
  ASSUME Shapes, Trees, NEW a \in Actors, NEW item, NEW queued, Appends(a, item, queued),
         UNCHANGED <<entries, leaf>>, op'.target = op.target
  PROVE  Trees'
<1> DEFINE r == [on |-> TRUE, item |-> item, parent |-> leaf, queued |-> queued, target |-> 0]
<1>1. r.parent \in 0..Len(entries) /\ r.target \in 0..Len(entries) /\ io' = [io EXCEPT ![a] = r]
  BY DEF Appends, Trees, Shapes
<1> HIDE DEF r
<1>2. QED
  BY <1>1, TreesIO DEF Trees

LEMMA TreesKept ==
  ASSUME IInv, Moving, Appending, Trees, Next
  PROVE  Trees'
<1>0. Shapes /\ 0 \in 0..Len(entries) /\ Caller \in Actors /\ Operator \in Actors /\ ~NoIO.on
  BY ActorsNamed DEF Moving, Shapes, NoIO
<1> USE DEF tree
<1>1. ASSUME NEW p \in Prompts, Step(p) \/ Throw(p) PROVE Trees'
  <2>0. p \in Actors /\ UNCHANGED op
    BY <1>0, <1>1, ActorsNamed, Working
  <2>1. CASE Saved(p)
    BY <1>0, <2>0, <2>1, TreesJoined DEF Saved
  <2>2. CASE Save(p)
    BY <1>0, <2>0, <2>2, TreesAppends DEF Save
  <2>3. CASE Throw(p)
    <3>1. io' = [io EXCEPT ![p] = NoIO] /\ UNCHANGED <<entries, leaf>>
      BY <2>3 DEF Throw
    <3>2. QED
      BY <1>0, <2>0, <3>1, TreesIO DEF Trees
  <2>4. CASE Step(p) /\ ~Saved(p) /\ ~Save(p)
    <3>1. UNCHANGED <<entries, leaf, io>>
      BY <2>4 DEF Step, Begin, Taken, Launch, Emitted, Inject, Respond,
         Heard, NextTurn, Flushed, Finish
    <3>2. QED
      BY <2>0, <3>1 DEF Trees
  <2>5. QED
    BY <1>1, <2>1, <2>2, <2>3, <2>4
<1>2. CASE User
  <2>1. CASE Write
    BY <1>0, <2>1, TreesAppends DEF Write, Trees
  <2>2. CASE User /\ ~Write
    <3>1. UNCHANGED <<entries, leaf, io>> /\ op'.target = op.target
      BY <2>2 DEF User, Prompt, Enqueue, Abort, Operate, IInv, Types
    <3>2. QED
      BY <3>1 DEF Trees
  <2>3. QED
    BY <1>2, <2>1, <2>2
<1>3. CASE OpAppends
  <2>1. CASE op.at = "compact"
    <3>1. op'.target = op.target
      BY <1>3, <2>1 DEF OpAppends, IInv, Types
    <3>2. QED
      BY <1>0, <1>3, <2>1, <3>1, TreesAppends DEF OpAppends
  <2>2. CASE op.at = "navigate"
    <3>1. PICK n \in DOMAIN entries, next \in {"summarize", "ending"} :
              LET goal == IF entries[n].item.kind \in UserKinds THEN entries[n].parent ELSE n
              IN  /\ io' = [io EXCEPT ![Operator] =
                              [on |-> TRUE, item |-> Item("leaf", 0),
                               parent |-> leaf, queued |-> FALSE, target |-> goal]]
                  /\ op' = [at |-> next, target |-> goal]
      BY <1>3, <2>2 DEF OpAppends
    <3> DEFINE goal == IF entries[n].item.kind \in UserKinds THEN entries[n].parent ELSE n
               r == [on |-> TRUE, item |-> Item("leaf", 0),
                     parent |-> leaf, queued |-> FALSE, target |-> goal]
    <3>2. goal \in 0..Len(entries)
      <4>1. n \in 1..Len(entries) /\ entries[n].parent \in 0..(n - 1)
        BY <1>0 DEF Trees, Shapes
      <4>2. QED
        BY <1>0, <4>1 DEF Shapes
    <3>3. r.parent \in 0..Len(entries) /\ r.target \in 0..Len(entries)
      BY <3>2 DEF Trees
    <3>4. io' = [io EXCEPT ![Operator] = r] /\ op'.target = goal
      BY <3>1
    <3>5. UNCHANGED <<entries, leaf>>
      BY <1>3 DEF OpAppends
    <3> HIDE DEF r, goal
    <3>6. QED
      BY <1>0, <3>2, <3>3, <3>4, <3>5, TreesIO
  <2>3. CASE op.at = "summarize"
    <3> DEFINE r == [on |-> TRUE, item |-> Item("branch_summary", 0),
                     parent |-> op.target, queued |-> FALSE, target |-> 0]
    <3>1. op'.target = op.target /\ io' = [io EXCEPT ![Operator] = r] /\ UNCHANGED <<entries, leaf>>
      BY <1>3, <2>3 DEF OpAppends, IInv, Types
    <3>2. r.parent \in 0..Len(entries) /\ r.target \in 0..Len(entries)
      BY <1>0 DEF Trees
    <3> HIDE DEF r
    <3>3. QED
      BY <1>0, <3>1, <3>2, TreesIO DEF Trees
  <2>4. QED
    BY <1>3, <2>1, <2>2, <2>3 DEF OpAppends
<1>4. CASE OpSaved \/ WriteSaved
  BY <1>0, <1>4, TreesJoined DEF OpSaved, WriteSaved
<1>5. CASE OpEnds
  <2>1. /\ io' = [io EXCEPT ![Operator] = NoIO] /\ UNCHANGED <<entries, leaf>>
        /\ op'.target \in 0..Len(entries)
    BY <1>0, <1>5 DEF OpEnds, NoOp
  <2>2. QED
    BY <1>0, <2>1, TreesIO
<1>6. CASE WriteFails
  <2>1. io' = [io EXCEPT ![Caller] = NoIO] /\ UNCHANGED <<entries, leaf, op>>
    BY <1>6 DEF WriteFails
  <2>2. QED
    BY <1>0, <2>1, TreesIO DEF Trees
<1>7. QED
  BY <1>1, <1>2, <1>3, <1>4, <1>5, <1>6 DEF Next, Operation

LEMMA BranchStays ==
  ASSUME UNCHANGED <<entries, leaf>>
  PROVE  Branch' = Branch
BY BranchIsPath DEF Branch

\* What a call saves extends the branch.
LEMMA BranchGrows ==
  ASSUME IInv, Moving, Trees, ~crossed, NEW p \in Prompts, Follows(p), Saved(p)
  PROVE  Branch' = Append(Branch, Len(entries) + 1)
<1>1. Shapes /\ p \in Actors /\ io[p].on /\ io[p].parent = leaf /\ SavesWell(p)
  BY ActorsNamed DEF Moving, Saves, SavesWell, Saved, Joined, Follows
<1>2. PICK e \in Entries : entries' = Append(entries, e) /\ e.parent = leaf
  BY <1>1, EntryJoins DEF Saved
<1>3. io[p].item.kind # "leaf"
  <2>1. io[p].item \in Messages \union Writes
    BY <1>1, HeadIn DEF SavesWell, Shapes, IInv, Types
  <2>2. QED
    BY <2>1 DEF Messages, Writes, QueueNames
<1>4. leaf' = Len(entries) + 1
  BY <1>3 DEF Saved, Joined
<1>5. IsTree(entries) /\ leaf \in 0..Len(entries)
  BY <1>1 DEF Trees, IsTree, Shapes
<1>6. PathOf(Append(entries, e))[Len(entries) + 1] = Append(PathOf(entries)[leaf], Len(entries) + 1)
  BY <1>2, <1>5, PathGrows
<1>7. Branch' = PathOf(entries')[leaf']
  BY DEF Branch, PathOf, IsPath
<1>8. QED
  BY <1>2, <1>4, <1>6, <1>7, BranchIsPath

LEMMA FollowsSteps ==
  ASSUME IInv, Moving, Appending, Trees, ~crossed, NEW p \in Prompts, Follows(p),
         Step(p) \/ Throw(p)
  PROVE  Follows(p)'
<1>0. /\ Shapes /\ p \in Actors /\ at = [q \in Prompts |-> at[q]]
      /\ context = [q \in Prompts |-> context[q]] /\ io = [a \in Actors |-> io[a]]
  BY ActorsNamed DEF Moving, Shapes, IInv, Types
<1>1. CASE Saved(p)
  <2>1. ~io'[p].on /\ at' = at
    BY <1>0, <1>1 DEF Saved, Joined, NoIO
  <2>2. CASE io[p].queued
    <3>1. at[p] \in Flushing
      BY <1>1, <2>2 DEF Saved, Joined, Moving, Saves
    <3>2. QED
      BY <2>1, <3>1 DEF Follows, Flushing, Final, Seeing
  <2>3. CASE ~io[p].queued
    <3>1. context'[p] = Append(context[p], Len(entries) + 1)
      BY <1>0, <1>1, <2>3 DEF Saved
    <3>2. QED
      BY <1>1, <2>1, <3>1, BranchGrows DEF Follows
  <2>4. QED
    BY <2>2, <2>3
<1>2. CASE ~Saved(p)
  <2>1. UNCHANGED <<entries, leaf>> /\ Branch' = Branch
    BY <1>2, BranchStays DEF Step, Begin, Taken, Launch, Save, Emitted, Inject, Respond,
         Heard, NextTurn, Flushed, Finish, Throw, tree
  <2>2. io'[p].on => io'[p].parent = leaf
    <3>1. CASE Save(p)
      BY <1>0, <3>1 DEF Save, Appends
    <3>2. CASE Throw(p)
      BY <1>0, <3>2 DEF Throw, NoIO
    <3>3. CASE ~Save(p) /\ ~Throw(p)
      <4>1. UNCHANGED io
        BY <1>2, <3>3 DEF Step, Begin, Taken, Launch, Emitted, Inject, Respond, Heard, NextTurn,
           Flushed, Finish, tree
      <4>2. QED
        BY <2>1, <4>1 DEF Follows
    <3>4. QED
      BY <3>1, <3>2, <3>3
  <2>3. at'[p] \in Seeing => context'[p] = Branch
    <3> USE <1>0 DEF Goto, runs, Seeing, Follows
    <3>1. CASE Begin(p) \/ Taken(p) \/ Launch(p) \/ Inject(p) \/ Heard(p) \/ Respond(p) \/ Save(p)
      BY <3>1 DEF Begin, Taken, Launch, Inject, Heard, Respond, Responds, Save
    <3>2. CASE Emitted(p)
      BY <3>2 DEF Emitted, Drain, GoesOn, AfterTurn, Saving
    <3>3. CASE NextTurn(p)
      BY <3>3 DEF NextTurn, Drain, GoesOn
    <3>4. CASE Flushed(p)
      <4>1. CASE at[p] = "flushNext"
        BY <3>4, <4>1 DEF Flushed, Snapshot
      <4>2. CASE at[p] # "flushNext"
        BY <3>4, <4>2 DEF Flushed, AfterTurn, RunFails, Responds, Flushing, Final
      <4>3. QED
        BY <4>1, <4>2
    <3>5. CASE Finish(p)
      BY <3>5 DEF Finish, Rejects, Forgets
    <3>6. CASE Throw(p)
      BY <3>6 DEF Throw, Rejects, Forgets, RunFails, Responds
    <3>7. QED
      BY <1>2, <3>1, <3>2, <3>3, <3>4, <3>5, <3>6 DEF Step
  <2>4. QED
    BY <2>1, <2>2, <2>3 DEF Follows
<1>3. QED
  BY <1>1, <1>2

\* A call that is over shows nothing to the model.
LEMMA OverFollows ==
  ASSUME Appending, NEW q \in Prompts, Over(q)
  PROVE  Follows(q)
BY DEF Appending, Over, Follows, Seeing, Saving, Flushing, Final

LEMMA FollowingKept ==
  ASSUME IInv, Moving, Appending, Appending', Trees, Following, Next
  PROVE  Following'
<1> SUFFICES ASSUME ~crossed', NEW q \in Prompts PROVE Follows(q)'
  BY DEF Following
<1>0. Shapes /\ ~crossed /\ Follows(q)
  BY CrossedGrows DEF Moving, Following
<1>1. ASSUME NEW p \in Prompts, Step(p) \/ Throw(p) PROVE Follows(q)'
  <2>1. CASE q = p
    BY <1>0, <1>1, <2>1, FollowsSteps
  <2>2. CASE q # p
    <3>1. ~Over(p) /\ Untouched(q)
      BY <1>0, <1>1, <2>2, Working, UntouchedBesides
    <3>2. Over(q)
      BY <1>0, <2>2, <3>1 DEF IInv, HandlesExact
    <3>3. Over(q)'
      BY <3>1, <3>2 DEF Over, Untouched
    <3>4. QED
      BY <3>3, OverFollows DEF Follows, Appending, Over, Seeing, Saving, Flushing, Final
  <2>3. QED
    BY <2>1, <2>2
<1>2. ASSUME NEW p \in Prompts, Prompt(p) PROVE Follows(q)'
  <2>1. UNCHANGED <<entries, leaf, io>> /\ Branch' = Branch
    BY <1>2, BranchStays DEF Prompt, tree
  <2>2. CASE q = p
    BY <1>0, <1>2, <2>1, <2>2 DEF Prompt, Follows, Shapes
  <2>3. CASE q # p
    BY <1>0, <1>2, <2>1, <2>3, UntouchedBesides DEF Follows, Untouched
  <2>4. QED
    BY <2>2, <2>3
<1>3. CASE Others
  <2>0. Untouched(q)
    BY <1>0, <1>3, UntouchedByOthers
  <2>1. CASE UNCHANGED <<entries, leaf>>
    BY <1>0, <2>0, <2>1, BranchStays DEF Follows, Untouched
  <2>2. CASE OpSaved \/ WriteSaved
    <3>1. Over(q)
      BY <1>0, <2>2 DEF OpSaved, WriteSaved, Joined, Moving, Alone
    <3>2. Over(q)'
      BY <2>0, <3>1 DEF Over, Untouched
    <3>3. QED
      BY <3>2 DEF Follows, Appending, Over, Seeing, Saving, Flushing, Final
  <2>3. QED
    BY <1>3, <2>1, <2>2 DEF Others, Operation, OpAppends, OpEnds, Enqueue, Write, Abort, Operate,
       WriteFails, tree
<1>4. QED
  BY <1>1, <1>2, <1>3 DEF Next, User, Others

LEMMA FollowingInductive == Spec => [](IInv /\ Appending /\ Moving /\ Trees /\ Following)
<1>1. Init => Trees /\ Following
  <2> SUFFICES ASSUME Init PROVE Trees /\ Following
    OBVIOUS
  <2>1. Trees
    BY DEF Init, Trees, NoIO, NoOp
  <2>2. Following
    BY ActorsNamed DEF Init, Following, Follows, Seeing, NoIO
  <2>3. QED
    BY <2>1, <2>2
<1>2. /\ IInv /\ Appending /\ Moving /\ Trees /\ Following /\ Appending' /\ [Next]_vars
      => Trees' /\ Following'
  <2>1. CASE Next
    BY <2>1, TreesKept, FollowingKept
  <2>2. ASSUME UNCHANGED vars PROVE (Trees <=> Trees') /\ (Following <=> Following')
    <3>1. Branch' = Branch
      BY <2>2, BranchStays DEF vars, tree
    <3>2. QED
      BY <2>2, <3>1 DEF vars, handles, runs, tree, queues, writes, Trees, Following, Follows
  <2>3. QED
    BY <2>1, <2>2
<1>3. QED
  BY <1>1, <1>2, MovingInductive, PTL DEF Spec

(* Unless something was let in beside something unfinished, the model is shown exactly
   the messages saved on the branch of the session. *)
THEOREM BranchShown == Spec => []ModelSeesBranch
<1>1. Following => ModelSeesBranch
  BY DEF Following, Follows, ModelSeesBranch, Seeing
<1>2. QED
  BY <1>1, FollowingInductive, PTL

------------------------------------------------------------------------------
(* Queued messages: lists of them *)

\* A list holds no number twice.
Distinct(s) ==
  \A i, j \in DOMAIN s : IsQueued(s[i]) /\ IsQueued(s[j]) /\ s[i].n = s[j].n => i = j

LEMMA NumberedOfTwo ==
  ASSUME NEW s \in Seq(Messages), NEW t \in Seq(Messages)
  PROVE  /\ Numbered(s \o t) = Numbered(s) \union Numbered(t)
         /\ Distinct(s \o t) <=> /\ Distinct(s) /\ Distinct(t)
                                 /\ Numbered(s) \cap Numbered(t) = {}
<1> DEFINE r == s \o t
<1>1. /\ DOMAIN r = 1..(Len(s) + Len(t)) /\ DOMAIN s = 1..Len(s) /\ DOMAIN t = 1..Len(t)
      /\ Len(s) \in Nat /\ Len(t) \in Nat
      /\ \A i \in DOMAIN s : i \in DOMAIN r /\ r[i] = s[i]
      /\ \A i \in DOMAIN t : Len(s) + i \in DOMAIN r /\ r[Len(s) + i] = t[i]
  OBVIOUS
<1> HIDE DEF r
<1>2. \A i \in DOMAIN r : i \in DOMAIN s \/ \E j \in DOMAIN t : i = Len(s) + j
  <2>1. ASSUME NEW i \in DOMAIN r, i \notin DOMAIN s PROVE \E j \in DOMAIN t : i = Len(s) + j
    <3>1. i - Len(s) \in DOMAIN t /\ i = Len(s) + (i - Len(s))
      BY <1>1, <2>1
    <3>2. QED
      BY <3>1
  <2>2. QED
    BY <2>1
<1>3. Numbered(r) = Numbered(s) \union Numbered(t)
  <2>1. ASSUME NEW n \in Numbered(r) PROVE n \in Numbered(s) \union Numbered(t)
    BY <1>1, <1>2, <2>1 DEF Numbered
  <2>2. Numbered(s) \subseteq Numbered(r)
    BY <1>1 DEF Numbered
  <2>3. Numbered(t) \subseteq Numbered(r)
    BY <1>1 DEF Numbered
  <2>4. QED
    BY <2>1, <2>2, <2>3
<1>4. ASSUME Distinct(r) PROVE Distinct(s) /\ Distinct(t) /\ Numbered(s) \cap Numbered(t) = {}
  <2>1. Distinct(s)
    BY <1>1, <1>4 DEF Distinct
  <2>2. Distinct(t)
    <3>1. ASSUME NEW i \in DOMAIN t, NEW j \in DOMAIN t, IsQueued(t[i]), IsQueued(t[j]),
                 t[i].n = t[j].n
          PROVE  i = j
      <4>1. Len(s) + i = Len(s) + j
        BY <1>1, <1>4, <3>1 DEF Distinct
      <4>2. QED
        BY <1>1, <4>1
    <3>2. QED
      BY <3>1 DEF Distinct
  <2>3. ASSUME NEW n \in Numbered(s), n \in Numbered(t) PROVE FALSE
    <3>1. PICK i \in DOMAIN s : IsQueued(s[i]) /\ s[i].n = n
      BY DEF Numbered
    <3>2. PICK j \in DOMAIN t : IsQueued(t[j]) /\ t[j].n = n
      BY <2>3 DEF Numbered
    <3>3. i = Len(s) + j
      BY <1>1, <1>4, <3>1, <3>2 DEF Distinct
    <3>4. QED
      BY <1>1, <3>3
  <2>4. QED
    BY <2>1, <2>2, <2>3
<1>5. ASSUME Distinct(s), Distinct(t), Numbered(s) \cap Numbered(t) = {} PROVE Distinct(r)
  <2>1. ASSUME NEW i \in DOMAIN r, NEW j \in DOMAIN r, IsQueued(r[i]), IsQueued(r[j]),
               r[i].n = r[j].n
        PROVE  i = j
    <3>1. CASE i \in DOMAIN s /\ j \in DOMAIN s
      BY <1>1, <1>5, <2>1, <3>1 DEF Distinct
    <3>2. CASE i \notin DOMAIN s /\ j \notin DOMAIN s
      <4>1. PICK x \in DOMAIN t : i = Len(s) + x
        BY <1>2, <3>2
      <4>2. PICK y \in DOMAIN t : j = Len(s) + y
        BY <1>2, <3>2
      <4>3. x = y
        BY <1>1, <1>5, <2>1, <4>1, <4>2 DEF Distinct
      <4>4. QED
        BY <4>1, <4>2, <4>3
    <3>3. CASE i \in DOMAIN s /\ j \notin DOMAIN s
      <4>1. PICK y \in DOMAIN t : j = Len(s) + y
        BY <1>2, <3>3
      <4>2. s[i].n \in Numbered(s) /\ t[y].n \in Numbered(t)
        BY <1>1, <2>1, <3>3, <4>1 DEF Numbered
      <4>3. QED
        BY <1>1, <1>5, <2>1, <3>3, <4>1, <4>2
    <3>4. CASE i \notin DOMAIN s /\ j \in DOMAIN s
      <4>1. PICK y \in DOMAIN t : i = Len(s) + y
        BY <1>2, <3>4
      <4>2. s[j].n \in Numbered(s) /\ t[y].n \in Numbered(t)
        BY <1>1, <2>1, <3>4, <4>1 DEF Numbered
      <4>3. QED
        BY <1>1, <1>5, <2>1, <3>4, <4>1, <4>2
    <3>5. QED
      BY <3>1, <3>2, <3>3, <3>4
  <2>2. QED
    BY <2>1 DEF Distinct
<1>6. QED
  BY <1>3, <1>4, <1>5 DEF r

LEMMA NumberedOfNone ==
  ASSUME NEW s, \A i \in DOMAIN s : ~IsQueued(s[i])
  PROVE  Numbered(s) = {} /\ Distinct(s)
BY DEF Numbered, Distinct

LEMMA NumberedOfEmpty == Numbered(<<>>) = {} /\ Distinct(<<>>)
BY NumberedOfNone

LEMMA NumberedOfOne ==
  ASSUME NEW m
  PROVE  /\ IsQueued(m) => Numbered(<<m>>) = {m.n}
         /\ ~IsQueued(m) => Numbered(<<m>>) = {}
         /\ Distinct(<<m>>)
<1>1. DOMAIN <<m>> = {1} /\ <<m>>[1] = m
  OBVIOUS
<1>2. QED
  BY <1>1 DEF Numbered, Distinct

\* The first messages of a list are taken out of it.
LEMMA NumberedSplit ==
  ASSUME NEW s \in Seq(Messages), Distinct(s), NEW k \in 0..Len(s)
  PROVE  LET d == SubSeq(s, 1, k)
             r == SubSeq(s, k + 1, Len(s))
         IN  /\ Numbered(s) = Numbered(d) \union Numbered(r)
             /\ Numbered(d) \cap Numbered(r) = {} /\ Distinct(d) /\ Distinct(r)
<1> DEFINE d == SubSeq(s, 1, k)
           r == SubSeq(s, k + 1, Len(s))
<1>1. d \in Seq(Messages) /\ r \in Seq(Messages) /\ Len(d) = k /\ Len(r) = Len(s) - k
  OBVIOUS
<1>2. /\ \A i \in 1..k : d[i] = s[i]
      /\ \A i \in 1..(Len(s) - k) : r[i] = s[k + i]
  OBVIOUS
<1> HIDE DEF d, r
<1>0. s = d \o r
  <2> DEFINE c == d \o r
  <2>1. c \in Seq(Messages) /\ Len(c) = Len(s)
    BY <1>1
  <2>2. ASSUME NEW i \in 1..Len(s) PROVE c[i] = s[i]
    <3>1. CASE i <= k
      BY <1>1, <1>2, <3>1
    <3>2. CASE i > k
      <4>1. i - k \in 1..(Len(s) - k) /\ k + (i - k) = i
        BY <3>2
      <4>2. c[i] = r[i - k]
        BY <1>1, <3>2
      <4>3. QED
        BY <1>2, <4>1, <4>2
    <3>3. i <= k \/ i > k
      OBVIOUS
    <3>4. QED
      BY <3>1, <3>2, <3>3
  <2> HIDE DEF c
  <2>3. c = s
    BY <2>1, <2>2
  <2>4. QED
    BY <2>3 DEF c
<1>3. /\ Numbered(s) = Numbered(d) \union Numbered(r)
      /\ Numbered(d) \cap Numbered(r) = {} /\ Distinct(d) /\ Distinct(r)
  BY <1>0, <1>1, NumberedOfTwo
<1>4. QED
  BY <1>3 DEF d, r

------------------------------------------------------------------------------
(* Queued messages: where they are *)

\* Every queued message is in one place, and there once; what is flushed is a write.
OnePlace ==
  \A n \in 1..used.queued : \E s \in Slots : \A u \in Slots : n \in Numbers(u) <=> u = s
Bounded == \A u \in Slots : Numbers(u) \subseteq 1..used.queued
Lists ==
  /\ \A q \in QueueNames : Distinct(queue[q])
  /\ \A p \in Prompts : Distinct(held[p]) /\ Distinct(todo[p])
SavedOnce ==
  \A i, j \in DOMAIN entries :
    IsQueued(entries[i].item) /\ IsQueued(entries[j].item) /\ entries[i].item.n = entries[j].item.n
    => i = j
FlushesWrites == \A p \in Prompts : io[p].on /\ io[p].queued => io[p].item \in Writes

Placed == OnePlace /\ Bounded /\ Lists /\ SavedOnce /\ FlushesWrites

LEMMA SlotKinds ==
  /\ \A q \in QueueNames : <<"queue", q>> \in Slots
  /\ \A p \in Prompts : <<"held", p>> \in Slots /\ <<"todo", p>> \in Slots
  /\ <<"saved", 0>> \in Slots /\ <<"gone", 0>> \in Slots
  /\ \A u \in Slots : \/ \E q \in QueueNames : u = <<"queue", q>>
                      \/ \E p \in Prompts : u = <<"held", p>> \/ u = <<"todo", p>>
                      \/ u = <<"saved", 0>> \/ u = <<"gone", 0>>
BY DEF Slots

GoneNumbers == {m.n : m \in gone}

LEMMA SlotNumbers ==
  /\ \A q \in QueueNames : Numbers(<<"queue", q>>) = Numbered(queue[q])
  /\ \A p \in Prompts : Numbers(<<"held", p>>) = Numbered(held[p])
  /\ \A p \in Prompts : Numbers(<<"todo", p>>) = Numbered(todo[p])
  /\ Numbers(<<"saved", 0>>) = SavedNumbers
  /\ Numbers(<<"gone", 0>>) = GoneNumbers
BY DEF Numbers, GoneNumbers

LEMMA SlotNumbersNext ==
  /\ \A q \in QueueNames : Numbers(<<"queue", q>>)' = Numbered(queue'[q])
  /\ \A p \in Prompts : Numbers(<<"held", p>>)' = Numbered(held'[p])
  /\ \A p \in Prompts : Numbers(<<"todo", p>>)' = Numbered(todo'[p])
  /\ Numbers(<<"saved", 0>>)' = SavedNumbers'
  /\ Numbers(<<"gone", 0>>)' = GoneNumbers'
BY DEF Numbers, GoneNumbers

\* The slots in which nothing changes.
LEMMA SlotsSame ==
  ASSUME NEW A,
         \A q \in QueueNames : <<"queue", q>> \in A \/ queue'[q] = queue[q],
         \A p \in Prompts : <<"held", p>> \in A \/ Numbered(held'[p]) = Numbered(held[p]),
         \A p \in Prompts : <<"todo", p>> \in A \/ Numbered(todo'[p]) = Numbered(todo[p]),
         <<"saved", 0>> \in A \/ SavedNumbers' = SavedNumbers,
         <<"gone", 0>> \in A \/ GoneNumbers' = GoneNumbers
  PROVE  \A u \in Slots : u \notin A => Numbers(u)' = Numbers(u)
<1>1. ASSUME NEW u \in Slots, u \notin A PROVE Numbers(u)' = Numbers(u)
  <2>1. CASE \E q \in QueueNames : u = <<"queue", q>>
    BY <1>1, <2>1, SlotNumbers, SlotNumbersNext
  <2>2. CASE \E p \in Prompts : u = <<"held", p>>
    BY <1>1, <2>2, SlotNumbers, SlotNumbersNext
  <2>3. CASE \E p \in Prompts : u = <<"todo", p>>
    BY <1>1, <2>3, SlotNumbers, SlotNumbersNext
  <2>4. CASE u = <<"saved", 0>>
    BY <1>1, <2>4, SlotNumbers, SlotNumbersNext
  <2>5. CASE u = <<"gone", 0>>
    BY <1>1, <2>5, SlotNumbers, SlotNumbersNext
  <2>6. QED
    BY <2>1, <2>2, <2>3, <2>4, <2>5, SlotKinds
<1>2. QED
  BY <1>1

\* Nothing moves.
LEMMA NoneMoved ==
  ASSUME OnePlace, Bounded, used'.queued = used.queued,
         \A u \in Slots : Numbers(u)' = Numbers(u)
  PROVE  OnePlace' /\ Bounded'
<1>1. Slots' = Slots
  BY DEF Slots
<1>2. OnePlace'
  BY <1>1 DEF OnePlace
<1>3. Bounded'
  BY <1>1 DEF Bounded
<1>4. QED
  BY <1>2, <1>3

\* Some of what is in s moves to t.
LEMMA Moved ==
  ASSUME OnePlace, Bounded, used'.queued = used.queued,
         NEW s \in Slots, NEW t \in Slots, s # t,
         \A u \in Slots : u \notin {s, t} => Numbers(u)' = Numbers(u),
         Numbers(s)' \union Numbers(t)' = Numbers(s) \union Numbers(t),
         Numbers(s)' \cap Numbers(t)' = {}
  PROVE  OnePlace' /\ Bounded'
<1>1. Slots' = Slots
  BY DEF Slots
<1>2. ASSUME NEW n \in 1..used.queued
      PROVE  \E v \in Slots : \A u \in Slots : n \in Numbers(u)' <=> u = v
  <2>1. PICK v \in Slots : \A u \in Slots : n \in Numbers(u) <=> u = v
    BY DEF OnePlace
  <2>2. CASE v \notin {s, t}
    BY <2>1, <2>2
  <2>3. CASE v \in {s, t} /\ n \in Numbers(s)'
    <3>1. \A u \in Slots : n \in Numbers(u)' <=> u = s
      BY <2>1, <2>3
    <3>2. QED
      BY <3>1
  <2>4. CASE v \in {s, t} /\ n \notin Numbers(s)'
    <3>1. \A u \in Slots : n \in Numbers(u)' <=> u = t
      BY <2>1, <2>4
    <3>2. QED
      BY <3>1
  <2>5. QED
    BY <2>2, <2>3, <2>4
<1>3. OnePlace'
  BY <1>1, <1>2 DEF OnePlace
<1>4. ASSUME NEW u \in Slots PROVE Numbers(u)' \subseteq 1..used.queued
  BY DEF Bounded
<1>5. Bounded'
  BY <1>1, <1>4 DEF Bounded
<1>6. QED
  BY <1>3, <1>5

\* All that is in r and s moves to t.
LEMMA Emptied ==
  ASSUME OnePlace, Bounded, used'.queued = used.queued,
         NEW r \in Slots, NEW s \in Slots, NEW t \in Slots, t \notin {r, s},
         \A u \in Slots : u \notin {r, s, t} => Numbers(u)' = Numbers(u),
         Numbers(r)' = {}, Numbers(s)' = {},
         Numbers(t)' = Numbers(t) \union Numbers(r) \union Numbers(s)
  PROVE  OnePlace' /\ Bounded'
<1>1. Slots' = Slots
  BY DEF Slots
<1>2. ASSUME NEW n \in 1..used.queued
      PROVE  \E v \in Slots : \A u \in Slots : n \in Numbers(u)' <=> u = v
  <2>1. PICK v \in Slots : \A u \in Slots : n \in Numbers(u) <=> u = v
    BY DEF OnePlace
  <2>2. CASE v \notin {r, s, t}
    BY <2>1, <2>2
  <2>3. CASE v \in {r, s, t}
    <3>1. \A u \in Slots : n \in Numbers(u)' <=> u = t
      BY <2>1, <2>3
    <3>2. QED
      BY <3>1
  <2>4. QED
    BY <2>2, <2>3
<1>3. OnePlace'
  BY <1>1, <1>2 DEF OnePlace
<1>4. ASSUME NEW u \in Slots PROVE Numbers(u)' \subseteq 1..used.queued
  BY DEF Bounded
<1>5. Bounded'
  BY <1>1, <1>4 DEF Bounded
<1>6. QED
  BY <1>3, <1>5

\* A number is not in two places.
LEMMA Apart ==
  ASSUME OnePlace, Bounded, NEW s \in Slots, NEW t \in Slots, s # t
  PROVE  Numbers(s) \cap Numbers(t) = {}
BY DEF OnePlace, Bounded

------------------------------------------------------------------------------
Where == OnePlace /\ Bounded /\ Lists /\ SavedOnce

LEMMA QueuedCount ==
  ASSUME IInv, Next
  PROVE  /\ used.queued \in Nat /\ used'.queued \in Nat
         /\ ~(\E kind \in QueueNames : Enqueue(kind)) => used'.queued = used.queued
<1>0. used \in [Acts -> Nat]
  BY DEF IInv, Types
<1>1. \/ used' = used
      \/ \E kind \in Acts : May(kind) /\ (kind = "queued" => \E k \in QueueNames : Enqueue(k))
  BY DEF Next, Operation, User, Step, Begin, Taken, Launch, Save, Saved, Emitted, Inject, Respond,
         Heard, NextTurn, Flushed, Finish, Throw, OpAppends, OpSaved, OpEnds, Prompt, Enqueue,
         Write, Abort, Operate, WriteSaved, WriteFails, Acts
<1>2. QED
  BY <1>0, <1>1 DEF May, Acts

LEMMA EntriesSame ==
  ASSUME entries' = entries
  PROVE  SavedNumbers' = SavedNumbers /\ (SavedOnce => SavedOnce')
BY DEF SavedNumbers, SavedOnce

LEMMA GoneSame == gone' = gone => GoneNumbers' = GoneNumbers
BY DEF GoneNumbers

\* Nothing that is queued, drained or saved changes.
LEMMA NothingMoves ==
  ASSUME Where, used'.queued = used.queued, UNCHANGED <<queue, held, todo, entries, gone>>
  PROVE  Where'
<1> DEFINE A == {}
<1> HIDE DEF A
<1>0. SavedNumbers' = SavedNumbers /\ GoneNumbers' = GoneNumbers
  BY EntriesSame, GoneSame
<1>1. \A u \in Slots : u \notin A => Numbers(u)' = Numbers(u)
  BY <1>0, SlotsSame
<1>2. OnePlace' /\ Bounded'
  BY <1>1, NoneMoved DEF Where, A
<1>3. QED
  BY <1>2, EntriesSame DEF Where, Lists

\* Call p takes d out of a queue.
LEMMA DrainMoves ==
  ASSUME Where, Shapes, used'.queued = used.queued, NEW p \in Prompts, NEW kind \in QueueNames,
         held[p] = <<>>, NEW d, NEW r,
         held' = [held EXCEPT ![p] = d], queue' = [queue EXCEPT ![kind] = r],
         Numbered(queue[kind]) = Numbered(d) \union Numbered(r),
         Numbered(d) \cap Numbered(r) = {}, Distinct(d), Distinct(r),
         UNCHANGED <<todo, entries, gone>>
  PROVE  Where'
<1> DEFINE s == <<"queue", kind>>
           t == <<"held", p>>
<1>1. s \in Slots /\ t \in Slots /\ s # t
  BY SlotKinds
<1>2. /\ \A q \in QueueNames : queue'[q] = IF q = kind THEN r ELSE queue[q]
      /\ \A q \in Prompts : held'[q] = IF q = p THEN d ELSE held[q]
  BY DEF Shapes
<1>3. \A u \in Slots : u \notin {s, t} => Numbers(u)' = Numbers(u)
  <2>1. \A q \in QueueNames : <<"queue", q>> \in {s, t} \/ queue'[q] = queue[q]
    BY <1>2
  <2>2. \A q \in Prompts : <<"held", q>> \in {s, t} \/ Numbered(held'[q]) = Numbered(held[q])
    BY <1>2
  <2>3. /\ \A q \in Prompts : Numbered(todo'[q]) = Numbered(todo[q])
        /\ SavedNumbers' = SavedNumbers /\ GoneNumbers' = GoneNumbers
    BY EntriesSame, GoneSame
  <2>4. QED
    BY <2>1, <2>2, <2>3, SlotsSame
<1>4. /\ Numbers(s)' = Numbered(r) /\ Numbers(t)' = Numbered(d)
      /\ Numbers(s) = Numbered(queue[kind]) /\ Numbers(t) = {}
  BY <1>2, SlotNumbers, SlotNumbersNext, NumberedOfEmpty
<1> HIDE DEF s, t
<1>5. OnePlace' /\ Bounded'
  BY <1>1, <1>3, <1>4, Moved DEF Where
<1>6. Lists'
  BY <1>2 DEF Where, Lists
<1>7. QED
  BY <1>5, <1>6, EntriesSame DEF Where

\* What call p has drained is next to be saved.
LEMMA InjectMoves ==
  ASSUME Where, Shapes, used'.queued = used.queued, NEW p \in Prompts, todo[p] = <<>>, NEW x,
         todo' = [todo EXCEPT ![p] = x], held' = [held EXCEPT ![p] = <<>>],
         Numbered(x) = Numbered(held[p]), Distinct(x),
         UNCHANGED <<queue, entries, gone>>
  PROVE  Where'
<1> DEFINE s == <<"held", p>>
           t == <<"todo", p>>
<1>1. s \in Slots /\ t \in Slots /\ s # t
  BY SlotKinds
<1>2. /\ \A q \in Prompts : todo'[q] = IF q = p THEN x ELSE todo[q]
      /\ \A q \in Prompts : held'[q] = IF q = p THEN <<>> ELSE held[q]
  BY DEF Shapes
<1>3. \A u \in Slots : u \notin {s, t} => Numbers(u)' = Numbers(u)
  BY <1>2, SlotsSame, EntriesSame, GoneSame
<1>4. /\ Numbers(s)' = {} /\ Numbers(t)' = Numbered(held[p])
      /\ Numbers(s) = Numbered(held[p]) /\ Numbers(t) = {}
  BY <1>2, SlotNumbers, SlotNumbersNext, NumberedOfEmpty
<1> HIDE DEF s, t
<1>5. OnePlace' /\ Bounded'
  BY <1>1, <1>3, <1>4, Moved DEF Where
<1>6. Lists'
  BY <1>2, NumberedOfEmpty DEF Where, Lists
<1>7. QED
  BY <1>5, <1>6, EntriesSame DEF Where

\* What call p has to save changes, but holds no queued message before or after.
LEMMA OtherTodo ==
  ASSUME Where, Shapes, used'.queued = used.queued, NEW p \in Prompts, NEW x,
         todo' = [todo EXCEPT ![p] = x], Numbered(todo[p]) = {}, Numbered(x) = {}, Distinct(x),
         UNCHANGED <<queue, held, entries, gone>>
  PROVE  Where'
<1>2. \A q \in Prompts : todo'[q] = IF q = p THEN x ELSE todo[q]
  BY DEF Shapes
<1>3. \A u \in Slots : u \notin {} => Numbers(u)' = Numbers(u)
  BY <1>2, SlotsSame, EntriesSame, GoneSame
<1>5. OnePlace' /\ Bounded'
  BY <1>3, NoneMoved DEF Where
<1>6. Lists'
  BY <1>2 DEF Where, Lists
<1>7. QED
  BY <1>5, <1>6, EntriesSame DEF Where

\* An entry joins the tree.
LEMMA SavedGrow ==
  ASSUME Shapes, NEW e \in Entries, entries' = Append(entries, e)
  PROVE  /\ IsQueued(e.item) => SavedNumbers' = SavedNumbers \union {e.item.n}
         /\ ~IsQueued(e.item) => SavedNumbers' = SavedNumbers
         /\ SavedOnce /\ (IsQueued(e.item) => e.item.n \notin SavedNumbers) => SavedOnce'
<1>1. /\ DOMAIN entries = 1..Len(entries) /\ DOMAIN entries' = 1..(Len(entries) + 1)
      /\ Len(entries) \in Nat
      /\ \A i \in DOMAIN entries : entries'[i] = entries[i]
      /\ entries'[Len(entries) + 1] = e
  BY DEF Shapes
<1>2. DOMAIN entries' = DOMAIN entries \union {Len(entries) + 1} /\ Len(entries) + 1 \notin DOMAIN entries
  BY <1>1
<1>3. /\ IsQueued(e.item) => SavedNumbers' = SavedNumbers \union {e.item.n}
      /\ ~IsQueued(e.item) => SavedNumbers' = SavedNumbers
  BY <1>1, <1>2 DEF SavedNumbers
<1>4. ASSUME SavedOnce, IsQueued(e.item) => e.item.n \notin SavedNumbers PROVE SavedOnce'
  <2>1. \A i \in DOMAIN entries : IsQueued(entries[i].item) => entries[i].item.n \in SavedNumbers
    BY DEF SavedNumbers
  <2>2. QED
    BY <1>1, <1>2, <1>4, <2>1 DEF SavedOnce
<1>5. QED
  BY <1>3, <1>4

LEMMA MarkJoins ==
  ASSUME Where, Shapes, used'.queued = used.queued, NEW e \in Entries,
         entries' = Append(entries, e), ~IsQueued(e.item),
         UNCHANGED <<queue, held, todo, gone>>
  PROVE  Where'
<1> DEFINE A == {}
<1> HIDE DEF A
<1>0. SavedNumbers' = SavedNumbers /\ GoneNumbers' = GoneNumbers
  BY SavedGrow, GoneSame
<1>1. \A u \in Slots : u \notin A => Numbers(u)' = Numbers(u)
  BY <1>0, SlotsSame
<1>2. OnePlace' /\ Bounded'
  BY <1>1, NoneMoved DEF Where, A
<1>3. QED
  BY <1>2, SavedGrow DEF Where, Lists

LEMMA HeadTail ==
  ASSUME NEW S, NEW s \in Seq(S), s # <<>>
  PROVE  s = <<Head(s)>> \o Tail(s) /\ <<Head(s)>> \in Seq(S) /\ Tail(s) \in Seq(S)
<1> DEFINE x == Tail(s)
           c == <<Head(s)>> \o x
<1>1. /\ Len(s) \in Nat \ {0} /\ x \in Seq(S) /\ Len(x) = Len(s) - 1 /\ Head(s) = s[1]
      /\ \A i \in 1..Len(x) : x[i] = s[i + 1]
      /\ <<Head(s)>> \in Seq(S)
  OBVIOUS
<1> HIDE DEF x
<1>2. c \in Seq(S) /\ Len(c) = Len(s)
  BY <1>1
<1>3. ASSUME NEW i \in 1..Len(s) PROVE c[i] = s[i]
  <2>1. CASE i = 1
    BY <1>1, <2>1
  <2>2. CASE i # 1
    <3>1. i - 1 \in 1..Len(x) /\ (i - 1) + 1 = i
      BY <1>1, <2>2
    <3>2. c[i] = x[i - 1]
      BY <1>1, <2>2
    <3>3. QED
      BY <1>1, <3>1, <3>2
  <2>3. QED
    BY <2>1, <2>2
<1> HIDE DEF c
<1>4. c = s
  BY <1>2, <1>3
<1>5. QED
  BY <1>1, <1>4 DEF c, x

\* The next message of call p joins the tree.
LEMMA MessageJoins ==
  ASSUME Where, Shapes, used'.queued = used.queued, NEW p \in Prompts, NEW e \in Entries,
         entries' = Append(entries, e), todo[p] # <<>>, e.item = Head(todo[p]),
         todo' = [todo EXCEPT ![p] = Tail(@)],
         UNCHANGED <<queue, held, gone>>
  PROVE  Where'
<1> DEFINE s == <<"todo", p>>
           t == <<"saved", 0>>
           h == Head(todo[p])
           x == Tail(todo[p])
<1>1. s \in Slots /\ t \in Slots /\ s # t
  BY SlotKinds
<1>2. /\ todo[p] \in Seq(Messages) /\ Len(todo[p]) \in Nat \ {0}
      /\ \A q \in Prompts : todo'[q] = IF q = p THEN x ELSE todo[q]
  BY DEF Shapes
<1>3. todo[p] = <<h>> \o x /\ <<h>> \in Seq(Messages) /\ x \in Seq(Messages)
  BY <1>2, HeadTail
<1>4. Distinct(todo[p])
  BY <1>2 DEF Where, Lists
<1>5. /\ Numbered(todo[p]) = Numbered(<<h>>) \union Numbered(x)
      /\ Numbered(<<h>>) \cap Numbered(x) = {} /\ Distinct(x)
  <2>1. /\ Numbered(<<h>> \o x) = Numbered(<<h>>) \union Numbered(x)
        /\ Distinct(<<h>> \o x) => /\ Distinct(<<h>>) /\ Distinct(x)
                                   /\ Numbered(<<h>>) \cap Numbered(x) = {}
    BY <1>3, NumberedOfTwo
  <2>2. QED
    BY Zenon, <1>3, <1>4, <2>1
<1> HIDE DEF h, x
<1>6. \A u \in Slots : u \notin {s, t} => Numbers(u)' = Numbers(u)
  BY <1>2, SlotsSame, GoneSame
<1>7. /\ Numbers(s)' = Numbered(x) /\ Numbers(s) = Numbered(todo[p])
      /\ Numbers(t)' = SavedNumbers' /\ Numbers(t) = SavedNumbers
  BY <1>2, SlotNumbers, SlotNumbersNext
<1>8. Numbers(s) \cap Numbers(t) = {}
  BY <1>1, Apart DEF Where
<1>9. SavedNumbers' = SavedNumbers \union Numbered(<<h>>)
  BY SavedGrow, NumberedOfOne DEF h
<1>10. SavedOnce'
  BY <1>5, <1>7, <1>8, SavedGrow, NumberedOfOne DEF h, Where
<1> HIDE DEF s, t
<1>11. OnePlace' /\ Bounded'
  BY <1>1, <1>5, <1>6, <1>7, <1>8, <1>9, Moved DEF Where
<1>12. Lists'
  BY <1>2, <1>5 DEF Where, Lists
<1>13. QED
  BY <1>10, <1>11, <1>12 DEF Where

\* A failure takes away what call p had drained or still to save.
LEMMA LostMoves ==
  ASSUME Where, Shapes, used'.queued = used.queued, NEW p \in Prompts,
         todo' = [q \in Prompts |-> IF q = p THEN todo'[p] ELSE todo[q]],
         held' = [held EXCEPT ![p] = <<>>],
         Numbered(todo'[p]) = {}, Distinct(todo'[p]), UNCHANGED <<queue, entries>>,
         GoneNumbers' = GoneNumbers \union Numbered(todo[p]) \union Numbered(held[p])
  PROVE  Where'
<1> DEFINE r == <<"todo", p>>
           s == <<"held", p>>
           t == <<"gone", 0>>
<1>1. r \in Slots /\ s \in Slots /\ t \in Slots /\ t \notin {r, s}
  BY SlotKinds
<1>2. /\ \A q \in Prompts : q # p => todo'[q] = todo[q]
      /\ \A q \in Prompts : held'[q] = IF q = p THEN <<>> ELSE held[q]
  BY DEF Shapes
<1>3. \A u \in Slots : u \notin {r, s, t} => Numbers(u)' = Numbers(u)
  <2>1. \A q \in QueueNames : queue'[q] = queue[q]
    OBVIOUS
  <2>2. /\ \A q \in Prompts : <<"held", q>> \in {r, s, t} \/ Numbered(held'[q]) = Numbered(held[q])
        /\ \A q \in Prompts : <<"todo", q>> \in {r, s, t} \/ Numbered(todo'[q]) = Numbered(todo[q])
    BY <1>2
  <2>3. SavedNumbers' = SavedNumbers /\ <<"gone", 0>> \in {r, s, t}
    BY EntriesSame
  <2>4. QED
    BY <2>1, <2>2, <2>3, SlotsSame
<1>4. /\ Numbers(r)' = {} /\ Numbers(s)' = {}
      /\ Numbers(t)' = Numbers(t) \union Numbers(r) \union Numbers(s)
  BY <1>2, SlotNumbers, SlotNumbersNext, NumberedOfEmpty
<1> HIDE DEF r, s, t
<1>5. OnePlace' /\ Bounded'
  BY <1>1, <1>3, <1>4, Emptied DEF Where
<1>6. Lists'
  BY <1>2, NumberedOfEmpty DEF Where, Lists
<1>7. QED
  BY <1>5, <1>6, EntriesSame DEF Where

\* A failure puts back what call p had drained.
LEMMA RestoreMoves ==
  ASSUME Where, Shapes, used'.queued = used.queued, NEW p \in Prompts, NEW kind \in QueueNames,
         todo[p] = <<>>,
         todo' = [q \in Prompts |-> IF q = p THEN todo'[p] ELSE todo[q]],
         held' = [held EXCEPT ![p] = <<>>],
         Numbered(todo'[p]) = {}, Distinct(todo'[p]), UNCHANGED <<gone, entries>>,
         queue' = [queue EXCEPT ![kind] = held[p] \o @]
  PROVE  Where'
<1> DEFINE s == <<"held", p>>
           t == <<"queue", kind>>
<1>1. s \in Slots /\ t \in Slots /\ s # t
  BY SlotKinds
<1>2. /\ \A q \in Prompts : q # p => todo'[q] = todo[q]
      /\ \A q \in Prompts : held'[q] = IF q = p THEN <<>> ELSE held[q]
      /\ \A q \in QueueNames : queue'[q] = IF q = kind THEN held[p] \o queue[kind] ELSE queue[q]
  BY DEF Shapes
<1>3. held[p] \in Seq(Messages) /\ queue[kind] \in Seq(Messages)
  BY QueuedAreMessages DEF Shapes
<1>4. Numbers(s) = Numbered(held[p]) /\ Numbers(t) = Numbered(queue[kind])
  BY SlotNumbers
<1>5. Numbered(held[p]) \cap Numbered(queue[kind]) = {}
  BY <1>1, <1>4, Apart DEF Where
<1>6. /\ Numbered(held[p] \o queue[kind]) = Numbered(held[p]) \union Numbered(queue[kind])
      /\ Distinct(held[p] \o queue[kind])
  BY <1>3, <1>5, NumberedOfTwo DEF Where, Lists
<1>7. \A u \in Slots : u \notin {s, t} => Numbers(u)' = Numbers(u)
  <2>1. \A q \in Prompts : Numbered(todo'[q]) = Numbered(todo[q])
    BY <1>2, NumberedOfEmpty
  <2>2. SavedNumbers' = SavedNumbers /\ GoneNumbers' = GoneNumbers
    BY EntriesSame, GoneSame
  <2>3. \A q \in QueueNames : <<"queue", q>> \in {s, t} \/ queue'[q] = queue[q]
    BY <1>2
  <2>4. \A q \in Prompts : <<"held", q>> \in {s, t} \/ Numbered(held'[q]) = Numbered(held[q])
    BY <1>2
  <2> HIDE DEF s, t
  <2>5. QED
    BY <2>1, <2>2, <2>3, <2>4, SlotsSame
<1>8. Numbers(s)' = {} /\ Numbers(t)' = Numbers(t) \union Numbers(s)
  BY <1>2, <1>4, <1>6, SlotNumbersNext, NumberedOfEmpty
<1> HIDE DEF s, t
<1>9. OnePlace' /\ Bounded'
  BY <1>1, <1>7, <1>8, Moved DEF Where
<1>10. Lists'
  BY <1>2, <1>6, NumberedOfEmpty DEF Where, Lists
<1>11. QED
  BY <1>9, <1>10, EntriesSame DEF Where

------------------------------------------------------------------------------
\* What call p drains.
LEMMA DrainWhere ==
  ASSUME Where, Shapes, used'.queued = used.queued, NEW p \in Prompts, NEW kind \in QueueNames,
         held[p] = <<>>, Drain(p, kind), UNCHANGED <<todo, entries, gone>>
  PROVE  Where'
<1> DEFINE s == queue[kind]
           d == Drained(kind)
           r == SubSeq(s, Len(d) + 1, Len(s))
<1>1. s \in Seq(Messages) /\ s # <<>> /\ Len(s) \in Nat \ {0} /\ Distinct(s)
  BY QueuedAreMessages DEF Drain, Shapes, Where, Lists
<1>2. d \in {s, <<Head(s)>>}
  BY DEF Drained
<1>3. /\ Numbered(s) = Numbered(d) \union Numbered(r)
      /\ Numbered(d) \cap Numbered(r) = {} /\ Distinct(d) /\ Distinct(r)
  <2>1. CASE d = s
    <3>1. r = <<>>
      BY <1>1, <2>1
    <3>2. QED
      BY <1>1, <2>1, <3>1, NumberedOfEmpty
  <2>2. CASE d = <<Head(s)>>
    <3>1. r = Tail(s)
      BY <1>1, <2>2
    <3>2. s = d \o r /\ d \in Seq(Messages) /\ r \in Seq(Messages)
      BY <1>1, <2>2, <3>1, HeadTail
    <3> HIDE DEF s, d, r
    <3>3. /\ Numbered(d \o r) = Numbered(d) \union Numbered(r)
          /\ Distinct(d \o r) => /\ Distinct(d) /\ Distinct(r)
                                 /\ Numbered(d) \cap Numbered(r) = {}
      BY <3>2, NumberedOfTwo
    <3>4. QED
      BY Zenon, <1>1, <3>2, <3>3
  <2>3. QED
    BY <1>2, <2>1, <2>2
<1>4. held' = [held EXCEPT ![p] = d] /\ queue' = [queue EXCEPT ![kind] = r]
  BY DEF Drain, Shapes
<1> HIDE DEF d, r
<1>5. QED
  BY <1>3, <1>4, DrainMoves

LEMMA StepWhere ==
  ASSUME IInv, Moving, Placed, NEW p \in Prompts, Step(p), used'.queued = used.queued
  PROVE  Where'
<1>0. /\ Shapes /\ Where /\ HoldsWell(p) /\ SavesWell(p) /\ p \in Actors /\ p \in Nat
      /\ held[p] \in Seq(Messages) /\ todo[p] \in Seq(Messages)
  <2>1. Shapes /\ HoldsWell(p) /\ SavesWell(p)
    BY DEF Moving, Holding, Saves, SavesWell
  <2>2. held[p] \in Seq(Messages) /\ todo[p] \in Seq(Messages)
    BY <2>1, QueuedAreMessages DEF Shapes
  <2>3. Where
    BY DEF Placed, Where
  <2>4. p \in Actors /\ p \in Nat
    BY ActorsNamed DEF Prompts
  <2>5. QED
    BY <2>1, <2>2, <2>3, <2>4
<1>1. /\ Numbered(<<Item("assistant", p)>>) = {} /\ Distinct(<<Item("assistant", p)>>)
      /\ Numbered(<<Item("prompt", p)>>) = {} /\ Distinct(<<Item("prompt", p)>>)
      /\ Numbered(<<>>) = {} /\ Distinct(<<>>)
  BY NumberedOfOne, NumberedOfEmpty DEF Item, IsQueued, QueueNames
<1> USE DEF runs, tree, queues
<1>2. CASE Begin(p)
  <2>1. /\ held' = [held EXCEPT ![p] = queue["nextTurn"]]
        /\ queue' = [queue EXCEPT !["nextTurn"] = <<>>]
        /\ UNCHANGED <<todo, entries, gone>> /\ held[p] = <<>>
    BY <1>0, <1>2 DEF Begin, HoldsWell
  <2>2. Distinct(queue["nextTurn"]) /\ "nextTurn" \in QueueNames
    BY <1>0 DEF Where, Lists, QueueNames
  <2>3. QED
    BY <1>0, <1>1, <2>1, <2>2, DrainMoves
<1>3. CASE Taken(p) \/ Save(p) \/ Heard(p)
  BY <1>0, <1>3, NothingMoves DEF Taken, Save, Heard
<1>4. CASE Launch(p)
  <2> DEFINE x == held[p] \o <<Item("prompt", p)>>
  <2>1. <<Item("prompt", p)>> \in Seq(Messages) /\ Distinct(held[p])
    BY <1>0, ItemIn DEF Where, Lists
  <2>2. Numbered(x) = Numbered(held[p]) /\ Distinct(x)
    <3> DEFINE t == <<Item("prompt", p)>>
    <3>1. Numbered(t) = {} /\ Distinct(t) /\ t \in Seq(Messages)
      BY <1>1, <2>1
    <3> HIDE DEF t
    <3>2. /\ Numbered(held[p] \o t) = Numbered(held[p]) \union Numbered(t)
          /\ Distinct(held[p] \o t)
      <4>1. /\ held[p] \in Seq(Messages) /\ Distinct(held[p])
            /\ Numbered(held[p]) \cap Numbered(t) = {}
        BY <1>0, <2>1, <3>1
      <4> HIDE <1>0
      <4>2. QED
        BY <3>1, <4>1, NumberedOfTwo
    <3>3. QED
      BY <3>1, <3>2 DEF t
  <2>3. /\ todo' = [todo EXCEPT ![p] = x] /\ held' = [held EXCEPT ![p] = <<>>]
        /\ UNCHANGED <<queue, entries, gone>> /\ todo[p] = <<>>
    BY <1>0, <1>4 DEF Launch, HoldsWell, Saving
  <2> HIDE DEF x
  <2>4. QED
    BY <1>0, <2>2, <2>3, InjectMoves
<1>5. CASE Saved(p)
  <2>1. PICK e \in Entries : entries' = Append(entries, e) /\ e.item = io[p].item
    BY <1>0, <1>5, EntryJoins DEF Saved
  <2>2. CASE io[p].queued
    <3>1. ~IsQueued(e.item) /\ UNCHANGED <<queue, held, todo, gone>>
      BY <1>5, <2>1, <2>2, KindsDiffer DEF Saved, Joined, Placed, FlushesWrites
    <3>2. QED
      BY <1>0, <2>1, <3>1, MarkJoins
  <2>3. CASE ~io[p].queued
    <3>1. /\ todo[p] # <<>> /\ e.item = Head(todo[p])
          /\ todo' = [todo EXCEPT ![p] = Tail(@)] /\ UNCHANGED <<queue, held, gone>>
      BY <1>0, <1>5, <2>1, <2>3 DEF Saved, Joined, SavesWell
    <3>2. QED
      BY <1>0, <2>1, <3>1, MessageJoins
  <2>4. QED
    BY <2>2, <2>3
<1>6. CASE Emitted(p)
  <2>1. CASE Drain(p, "steer")
    <3>1. held[p] = <<>> /\ UNCHANGED <<todo, entries, gone>>
      BY <1>0, <1>6 DEF Emitted, HoldsWell, Saving
    <3>2. QED
      BY <1>0, <2>1, <3>1, DrainWhere DEF QueueNames
  <2>2. CASE UNCHANGED <<held, queue>>
    BY <1>0, <1>6, <2>2, NothingMoves DEF Emitted
  <2>3. QED
    BY <1>6, <2>1, <2>2 DEF Emitted, GoesOn, Saving
<1>7. CASE Inject(p)
  <2>1. /\ todo' = [todo EXCEPT ![p] = held[p]] /\ held' = [held EXCEPT ![p] = <<>>]
        /\ UNCHANGED <<queue, entries, gone>> /\ todo[p] = <<>>
    BY <1>0, <1>7 DEF Inject, HoldsWell, Saving
  <2>2. Distinct(held[p])
    BY <1>0 DEF Where, Lists
  <2>3. QED
    BY <1>0, <2>1, <2>2, InjectMoves
<1>8. CASE Respond(p)
  <2>1. /\ todo' = [todo EXCEPT ![p] = <<Item("assistant", p)>>] /\ todo[p] = <<>>
        /\ UNCHANGED <<queue, held, entries, gone>>
    BY <1>0, <1>8 DEF Respond, Responds, HoldsWell, Saving
  <2>2. QED
    BY <1>0, <1>1, <2>1, OtherTodo
<1>9. CASE NextTurn(p)
  <2>1. ASSUME NEW kind \in QueueNames, Drain(p, kind) PROVE Where'
    <3>1. held[p] = <<>> /\ UNCHANGED <<todo, entries, gone>>
      BY <1>0, <1>9 DEF NextTurn, HoldsWell
    <3>2. QED
      BY <1>0, <2>1, <3>1, DrainWhere
  <2>2. CASE UNCHANGED <<held, queue>>
    BY <1>0, <1>9, <2>2, NothingMoves DEF NextTurn
  <2>3. QED
    BY <1>9, <2>1, <2>2 DEF NextTurn, GoesOn, QueueNames
<1>10. CASE Flushed(p)
  <2>1. UNCHANGED <<queue, held, entries, gone>> /\ todo[p] = <<>>
    BY <1>0, <1>10 DEF Flushed, HoldsWell, Saving, Flushing, Final
  <2>2. todo' = todo \/ todo' = [todo EXCEPT ![p] = <<Item("assistant", p)>>]
    BY <1>10 DEF Flushed, RunFails, Responds
  <2>3. QED
    BY <1>0, <1>1, <2>1, <2>2, NothingMoves, OtherTodo
<1>11. CASE Finish(p)
  <2>1. UNCHANGED <<queue, held, entries, gone>> /\ todo' = [todo EXCEPT ![p] = <<>>]
    BY <1>11 DEF Finish, Rejects, Forgets
  <2>2. \A i \in DOMAIN todo[p] : ~IsQueued(todo[p][i])
    <3>1. CASE todo[p] = <<>>
      BY <3>1
    <3>2. CASE todo[p] # <<>>
      BY <1>0, <1>11, <3>2 DEF Finish, HoldsWell, Saving, Final
    <3>3. QED
      BY <3>1, <3>2
  <2>3. QED
    BY <1>0, <1>1, <2>1, <2>2, OtherTodo, NumberedOfNone
<1>12. QED
  BY <1>2, <1>3, <1>4, <1>5, <1>6, <1>7, <1>8, <1>9, <1>10, <1>11 DEF Step

\* What a failure takes away.
LEMMA LostNumbers ==
  ASSUME Shapes, NEW p \in Prompts,
         held[p] = <<>> \/ at[p] = "hook" \/ p \in orphaned
  PROVE  {m.n : m \in Lost(p)} = Numbered(todo[p]) \union Numbered(held[p])
<1> DEFINE r == IF at[p] = "hook" \/ p \in orphaned THEN held[p] ELSE <<>>
           s == todo[p] \o r
<1>1. r = held[p] /\ todo[p] \in Seq(Messages) /\ held[p] \in Seq(Messages)
  BY QueuedAreMessages DEF Shapes
<1>2. Numbered(s) = Numbered(todo[p]) \union Numbered(held[p])
  BY <1>1, NumberedOfTwo
<1>3. Lost(p) = {m \in ToSet(s) : IsQueued(m)}
  BY DEF Lost, IsQueued
<1> HIDE DEF s
<1>4. {m.n : m \in Lost(p)} = Numbered(s)
  BY <1>3 DEF Numbered, ToSet
<1>5. QED
  BY <1>2, <1>4

LEMMA EmptyToSet == ToSet(<<>>) = {}
BY DEF ToSet

LEMMA ThrowWhere ==
  ASSUME IInv, Moving, Placed, NEW p \in Prompts, Throw(p), used'.queued = used.queued
  PROVE  Where'
<1>0. /\ Shapes /\ Where /\ HoldsWell(p)
      /\ held' = [held EXCEPT ![p] = <<>>] /\ entries' = entries
      /\ queue' = Restored(p) /\ gone' = gone \union Lost(p)
  BY DEF Moving, Holding, Placed, Where, Throw
<1>1. /\ Numbered(<<Item("assistant", p)>>) = {} /\ Distinct(<<Item("assistant", p)>>)
      /\ Numbered(<<>>) = {} /\ Distinct(<<>>)
  BY NumberedOfOne, NumberedOfEmpty DEF Item, IsQueued, QueueNames
<1>2. todo' = [q \in Prompts |-> IF q = p THEN todo'[p] ELSE todo[q]]
  BY <1>0 DEF Throw, Rejects, Forgets, RunFails, Responds, Shapes
<1>3. Numbered(todo'[p]) = {} /\ Distinct(todo'[p])
  <2>1. todo'[p] \in {<<>>, <<Item("assistant", p)>>} \/ (p \in failing /\ todo' = todo)
    BY <1>0 DEF Throw, Rejects, Forgets, RunFails, Responds, Shapes
  <2>2. CASE p \in failing /\ todo' = todo
    BY <1>0, <2>2, NumberedOfNone DEF HoldsWell
  <2>3. QED
    BY <1>1, <2>1, <2>2
<1>4. CASE at[p] \in {"taking", "drained"} /\ p \notin orphaned
  <2> DEFINE kind == Head(held[p]).kind
  <2>1. held[p] # <<>> /\ held[p] \in Seq(Queued) /\ todo[p] = <<>>
    BY <1>0, <1>4 DEF HoldsWell, Shapes, Saving
  <2>2. kind \in QueueNames
    <3>1. Head(held[p]) \in Queued
      BY <2>1, HeadIn
    <3>2. QED
      BY <3>1 DEF Queued
  <2>3. queue' = [queue EXCEPT ![kind] = held[p] \o @]
    BY <1>0, <1>4 DEF Restored
  <2>4. gone' = gone
    <3>1. Lost(p) = {}
      <4>1. todo[p] \o (IF at[p] = "hook" \/ p \in orphaned THEN held[p] ELSE <<>>) = <<>>
        BY <1>4, <2>1
      <4>2. QED
        BY <4>1, EmptyToSet DEF Lost
    <3>2. QED
      BY <1>0, <3>1
  <2> HIDE DEF kind
  <2>5. QED
    BY <1>0, <1>2, <1>3, <2>1, <2>2, <2>3, <2>4, RestoreMoves
<1>5. CASE ~(at[p] \in {"taking", "drained"} /\ p \notin orphaned)
  <2>1. held[p] = <<>> \/ at[p] = "hook" \/ p \in orphaned
    BY <1>0, <1>5 DEF HoldsWell
  <2>2. queue' = queue
    BY <1>0, <1>5 DEF Restored
  <2>3. GoneNumbers' = GoneNumbers \union Numbered(todo[p]) \union Numbered(held[p])
    BY <1>0, <2>1, LostNumbers DEF GoneNumbers
  <2>4. QED
    BY <1>0, <1>2, <1>3, <2>2, <2>3, LostMoves
<1>6. QED
  BY <1>4, <1>5

------------------------------------------------------------------------------
LEMMA AppendIsTwo ==
  ASSUME NEW S, NEW s \in Seq(S), NEW m \in S
  PROVE  Append(s, m) = s \o <<m>> /\ <<m>> \in Seq(S)
<1> DEFINE c == s \o <<m>>
<1>1. c \in Seq(S) /\ Len(c) = Len(s) + 1 /\ Append(s, m) \in Seq(S) /\ <<m>> \in Seq(S)
      /\ Len(Append(s, m)) = Len(s) + 1 /\ Len(s) \in Nat
  OBVIOUS
<1>2. ASSUME NEW i \in 1..(Len(s) + 1) PROVE c[i] = Append(s, m)[i]
  <2>1. CASE i \in 1..Len(s)
    BY <2>1
  <2>2. CASE i = Len(s) + 1
    BY <2>2
  <2>3. QED
    BY <1>1, <2>1, <2>2
<1> HIDE DEF c
<1>3. c = Append(s, m)
  BY <1>1, <1>2
<1>4. QED
  BY <1>1, <1>3 DEF c

\* A message is queued: its number is new.
LEMMA EnqueueWhere ==
  ASSUME IInv, Shapes, Where, NEW kind \in QueueNames, Enqueue(kind)
  PROVE  Where'
<1> DEFINE m == Item(kind, used.queued + 1)
           t == <<"queue", kind>>
           x == Append(queue[kind], m)
<1>1. /\ used.queued \in Nat /\ used'.queued = used.queued + 1
      /\ \A q \in QueueNames : queue'[q] = IF q = kind THEN x ELSE queue[q]
      /\ UNCHANGED <<held, todo, entries, gone>>
  BY DEF Enqueue, IInv, Types, Acts, May, Shapes, runs, tree
<1>2. m \in Messages /\ m.n = used.queued + 1 /\ IsQueued(m)
  BY <1>1 DEF Item, IsQueued, Messages
<1>3. t \in Slots /\ Slots' = Slots
  BY SlotKinds DEF Slots
<1>4. queue[kind] \in Seq(Messages) /\ <<m>> \in Seq(Messages) /\ x = queue[kind] \o <<m>>
  <2>1. queue[kind] \in Seq(Messages)
    BY QueuedAreMessages DEF Shapes
  <2> HIDE DEF m
  <2>2. QED
    BY <1>2, <2>1, AppendIsTwo
<1>5. Numbers(t) = Numbered(queue[kind]) /\ Numbers(t)' = Numbered(x)
  BY <1>1, SlotNumbers, SlotNumbersNext
<1>6. \A u \in Slots : used.queued + 1 \notin Numbers(u)
  BY <1>1 DEF Where, Bounded
<1>7. Numbered(<<m>>) = {used.queued + 1} /\ Distinct(<<m>>)
  BY <1>2, NumberedOfOne
<1>8. Distinct(queue[kind]) /\ Numbered(queue[kind]) \cap Numbered(<<m>>) = {}
  BY <1>3, <1>5, <1>6, <1>7 DEF Where, Lists
<1> HIDE DEF m, x
<1>9. Numbered(x) = Numbered(queue[kind]) \union {used.queued + 1} /\ Distinct(x)
  <2>1. /\ Numbered(queue[kind] \o <<m>>) = Numbered(queue[kind]) \union Numbered(<<m>>)
        /\ Distinct(queue[kind] \o <<m>>)
    BY <1>4, <1>7, <1>8, NumberedOfTwo
  <2>2. QED
    BY <1>4, <1>7, <2>1
<1>10. \A u \in Slots : u \notin {t} => Numbers(u)' = Numbers(u)
  <2>1. SavedNumbers' = SavedNumbers /\ GoneNumbers' = GoneNumbers
    BY <1>1, EntriesSame, GoneSame
  <2>2. \A q \in QueueNames : <<"queue", q>> \in {t} \/ queue'[q] = queue[q]
    BY <1>1
  <2> HIDE DEF t
  <2>3. QED
    BY <1>1, <2>1, <2>2, SlotsSame
<1> HIDE DEF t
<1>11. ASSUME NEW n \in 1..used'.queued
       PROVE  \E s \in Slots : \A u \in Slots : n \in Numbers(u)' <=> u = s
  <2>1. CASE n = used.queued + 1
    <3>1. \A u \in Slots : n \in Numbers(u)' <=> u = t
      BY <1>5, <1>6, <1>9, <1>10, <2>1
    <3>2. QED
      BY <1>3, <3>1
  <2>2. CASE n # used.queued + 1
    <3>1. n \in 1..used.queued
      BY <1>1, <1>11, <2>2
    <3>2. PICK s \in Slots : \A u \in Slots : n \in Numbers(u) <=> u = s
      BY <3>1 DEF Where, OnePlace
    <3>3. \A u \in Slots : n \in Numbers(u)' <=> n \in Numbers(u)
      BY <1>5, <1>9, <1>10, <2>2
    <3>4. QED
      BY <3>2, <3>3
  <2>3. QED
    BY <2>1, <2>2
<1>12. ASSUME NEW u \in Slots PROVE Numbers(u)' \subseteq 1..used'.queued
  <2>1. Numbers(u) \subseteq 1..used.queued /\ 1..used.queued \subseteq 1..used'.queued
        /\ used.queued + 1 \in 1..used'.queued
    BY <1>1 DEF Where, Bounded
  <2>2. QED
    BY <1>5, <1>9, <1>10, <2>1
<1>13. Lists'
  BY <1>1, <1>9 DEF Where, Lists
<1>14. OnePlace' /\ Bounded'
  BY <1>3, <1>11, <1>12 DEF OnePlace, Bounded
<1>15. QED
  BY <1>1, <1>13, <1>14, EntriesSame DEF Where

\* Both queues of a run are emptied.
LEMMA AbortWhere ==
  ASSUME Shapes, Where, Abort, used'.queued = used.queued
  PROVE  Where'
<1> DEFINE r == <<"queue", "steer">>
           s == <<"queue", "followUp">>
           t == <<"gone", 0>>
           both == queue["steer"] \o queue["followUp"]
<1>1. /\ \A q \in QueueNames : queue'[q] = IF q \in {"steer", "followUp"} THEN <<>> ELSE queue[q]
      /\ UNCHANGED <<held, todo, entries>> /\ gone' = gone \union ToSet(both)
  BY DEF Abort, Shapes, tree, QueueNames
<1>2. r \in Slots /\ s \in Slots /\ t \in Slots /\ t \notin {r, s}
      /\ "steer" \in QueueNames /\ "followUp" \in QueueNames
  BY SlotKinds DEF QueueNames
<1>3. /\ queue["steer"] \in Seq(Queued) /\ queue["followUp"] \in Seq(Queued)
      /\ queue["steer"] \in Seq(Messages) /\ queue["followUp"] \in Seq(Messages)
  BY <1>2, QueuedAreMessages DEF Shapes
<1>4. Numbered(both) = Numbered(queue["steer"]) \union Numbered(queue["followUp"])
  BY <1>3, NumberedOfTwo
<1>5. \A m \in ToSet(both) : IsQueued(m)
  <2>1. both \in Seq(Queued)
    BY <1>3
  <2> HIDE DEF both
  <2>2. QED
    BY <2>1, ToSetIn DEF Queued, IsQueued
<1> HIDE DEF both
<1>6. {m.n : m \in ToSet(both)} = Numbered(both)
  BY <1>5 DEF Numbered, ToSet
<1>7. GoneNumbers' = GoneNumbers \union Numbered(queue["steer"]) \union Numbered(queue["followUp"])
  BY <1>1, <1>4, <1>6 DEF GoneNumbers
<1>8. /\ Numbers(r) = Numbered(queue["steer"]) /\ Numbers(s) = Numbered(queue["followUp"])
      /\ Numbers(r)' = {} /\ Numbers(s)' = {}
      /\ Numbers(t)' = Numbers(t) \union Numbers(r) \union Numbers(s)
  BY <1>1, <1>2, <1>7, SlotNumbers, SlotNumbersNext, NumberedOfEmpty
<1>9. \A u \in Slots : u \notin {r, s, t} => Numbers(u)' = Numbers(u)
  <2>1. \A q \in QueueNames : <<"queue", q>> \in {r, s, t} \/ queue'[q] = queue[q]
    BY <1>1
  <2>2. SavedNumbers' = SavedNumbers
    BY <1>1, EntriesSame
  <2>3. <<"gone", 0>> \in {r, s, t}
    OBVIOUS
  <2> HIDE DEF r, s, t
  <2>4. QED
    BY <1>1, <2>1, <2>2, <2>3, SlotsSame
<1> HIDE DEF r, s, t
<1>10. OnePlace' /\ Bounded'
  BY <1>2, <1>8, <1>9, Emptied DEF Where
<1>11. Lists'
  BY <1>1, NumberedOfEmpty DEF Where, Lists
<1>12. QED
  BY <1>1, <1>10, <1>11, EntriesSame DEF Where

LEMMA OthersWhere ==
  ASSUME IInv, Moving, Numbering, Placed, Others \/ \E p \in Prompts : Prompt(p),
         ~(\E kind \in QueueNames : Enqueue(kind)), used'.queued = used.queued
  PROVE  Where'
<1>0. Shapes /\ Where /\ Caller \in Actors /\ Operator \in Actors
  BY ActorsNamed DEF Moving, Placed, Where
<1>1. CASE Abort
  BY <1>0, <1>1, AbortWhere
<1>2. CASE OpSaved
  <2>1. PICK e \in Entries : entries' = Append(entries, e) /\ e.item = io[Operator].item
    BY <1>0, <1>2, EntryJoins DEF OpSaved
  <2>2. ~IsQueued(e.item)
    BY <1>2, <2>1, KindsDiffer DEF OpSaved, Joined, Numbering
  <2>3. QED
    BY <1>0, <1>2, <2>1, <2>2, MarkJoins DEF OpSaved, runs, queues
<1>3. CASE WriteSaved
  <2>1. PICK e \in Entries : entries' = Append(entries, e) /\ e.item = io[Caller].item
    BY <1>0, <1>3, EntryJoins DEF WriteSaved
  <2>2. ~IsQueued(e.item)
    BY <1>3, <2>1, KindsDiffer DEF WriteSaved, Joined, Numbering
  <2>3. QED
    BY <1>0, <1>3, <2>1, <2>2, MarkJoins DEF WriteSaved, runs, queues
<1>4. CASE ~Abort /\ ~OpSaved /\ ~WriteSaved
  <2>1. UNCHANGED <<queue, held, todo, entries, gone>>
    BY <1>4 DEF Others, Operation, OpAppends, OpEnds, Write, Operate, WriteFails, Prompt, runs,
                tree, queues
  <2>2. QED
    BY <1>0, <2>1, NothingMoves
<1>5. QED
  BY <1>1, <1>2, <1>3, <1>4

\* What is flushed is a write.
LEMMA FlushesKept ==
  ASSUME IInv, Moving, Appending, FlushesWrites, Next
  PROVE  FlushesWrites'
<1> SUFFICES ASSUME NEW q \in Prompts, io'[q].on, io'[q].queued PROVE io'[q].item \in Writes
  BY DEF FlushesWrites
<1>0. Shapes /\ q \in Actors
  BY ActorsNamed DEF Moving
<1>1. CASE Save(q)
  <2>1. CASE Appends(q, Head(todo[q]), FALSE)
    BY <1>0, <2>1 DEF Appends, Shapes
  <2>2. CASE pending # <<>> /\ Appends(q, Head(pending), TRUE)
    <3>1. io'[q].item = Head(pending)
      BY <1>0, <2>2 DEF Appends, Shapes
    <3>2. QED
      BY <2>2, <3>1, HeadIn DEF IInv, Types
  <2>3. QED
    BY <1>1, <2>1, <2>2 DEF Save
<1>2. CASE Saved(q) \/ Throw(q)
  BY <1>0, <1>2 DEF Saved, Joined, Throw, NoIO, Shapes
<1>3. CASE (Step(q) /\ ~Save(q) /\ ~Saved(q)) \/ Prompt(q)
  <2>1. UNCHANGED io
    BY <1>3 DEF Step, Begin, Taken, Launch, Emitted, Inject, Respond, Heard, NextTurn, Flushed,
                Finish, Prompt, tree
  <2>2. QED
    BY <2>1 DEF FlushesWrites
<1>4. ASSUME NEW p \in Prompts, p # q, Step(p) \/ Throw(p) \/ Prompt(p)
      PROVE  io'[q].item \in Writes
  BY <1>0, <1>4, UntouchedBesides DEF Untouched, FlushesWrites
<1>5. CASE Others
  BY <1>0, <1>5, UntouchedByOthers DEF Untouched, FlushesWrites
<1>6. QED
  BY <1>1, <1>2, <1>3, <1>4, <1>5 DEF Next, User, Others

LEMMA PlacedInductive ==
  Spec => [](IInv /\ Appending /\ Moving /\ Numbering /\ Placed)
<1>1. Init => Placed
  <2> SUFFICES ASSUME Init PROVE Placed
    OBVIOUS
  <2>1. /\ \A q \in QueueNames : Numbered(queue[q]) = {} /\ Distinct(queue[q])
        /\ \A p \in Prompts : Numbered(held[p]) = {} /\ Distinct(held[p])
        /\ \A p \in Prompts : Numbered(todo[p]) = {} /\ Distinct(todo[p])
        /\ SavedNumbers = {} /\ GoneNumbers = {}
    BY NumberedOfEmpty DEF Init, SavedNumbers, GoneNumbers
  <2>2. \A u \in Slots : Numbers(u) = {}
    <3>1. ASSUME NEW u \in Slots PROVE Numbers(u) = {}
      <4>1. CASE \E q \in QueueNames : u = <<"queue", q>>
        BY <2>1, <4>1, SlotNumbers
      <4>2. CASE \E p \in Prompts : u = <<"held", p>> \/ u = <<"todo", p>>
        BY <2>1, <4>2, SlotNumbers
      <4>3. CASE u = <<"saved", 0>> \/ u = <<"gone", 0>>
        BY <2>1, <4>3, SlotNumbers
      <4>4. QED
        BY <4>1, <4>2, <4>3, SlotKinds
    <3>2. QED
      BY <3>1
  <2>3. used.queued = 0
    BY DEF Init, Acts
  <2>4. OnePlace /\ Bounded
    BY <2>2, <2>3 DEF OnePlace, Bounded
  <2>5. Lists
    BY <2>1 DEF Lists
  <2>6. SavedOnce /\ FlushesWrites
    BY ActorsNamed DEF Init, SavedOnce, FlushesWrites, NoIO
  <2>7. QED
    BY <2>4, <2>5, <2>6 DEF Placed
<1>2. IInv /\ Appending /\ Moving /\ Numbering /\ Placed /\ [Next]_vars => Placed'
  <2> SUFFICES ASSUME IInv, Appending, Moving, Numbering, Placed, [Next]_vars PROVE Placed'
    OBVIOUS
  <2>1. CASE Next
    <3>0. Shapes /\ Where
      BY DEF Moving, Placed, Where
    <3>1. Where'
      <4>1. CASE \E kind \in QueueNames : Enqueue(kind)
        BY <3>0, <4>1, EnqueueWhere
      <4>2. CASE ~(\E kind \in QueueNames : Enqueue(kind))
        <5>1. used'.queued = used.queued
          BY <2>1, <4>2, QueuedCount
        <5>2. CASE \E p \in Prompts : Step(p) \/ Throw(p)
          BY <5>1, <5>2, StepWhere, ThrowWhere
        <5>3. CASE Others \/ \E p \in Prompts : Prompt(p)
          BY <4>2, <5>1, <5>3, OthersWhere
        <5>4. QED
          BY <2>1, <5>2, <5>3 DEF Next, User, Others
      <4>3. QED
        BY <4>1, <4>2
    <3>2. QED
      BY <2>1, <3>1, FlushesKept DEF Placed, Where
  <2>2. CASE UNCHANGED vars
    <3>0. UNCHANGED <<queue, held, todo, entries, gone, io, used>>
      BY <2>2 DEF vars, runs, tree, queues
    <3>1. Where'
      BY <3>0, NothingMoves DEF Placed, Where
    <3>2. FlushesWrites'
      BY <3>0 DEF FlushesWrites, Placed
    <3>3. QED
      BY <3>1, <3>2 DEF Placed, Where
  <2>3. QED
    BY <2>1, <2>2
<1>3. Spec => [](IInv /\ Appending /\ Moving /\ Numbering)
  BY KeptInductive, PTL
<1>4. QED
  BY <1>1, <1>2, <1>3, PTL DEF Spec

(* Whatever fails or is aborted while a queued message moves from its queue to the
   session, it is in one place, and it is saved once. *)
THEOREM QueuedMessagesKept == Spec => []QueuedOnce
<1>1. Moving /\ Placed => QueuedOnce
  <2> SUFFICES ASSUME Moving, Placed PROVE QueuedOnce
    OBVIOUS

                <2>1. ASSUME NEW n \in 1..used.queued PROVE Cardinality({slot \in Slots : n \in Numbers(slot)}) = 1
    <3>1. PICK s \in Slots : \A u \in Slots : n \in Numbers(u) <=> u = s
      BY DEF Placed, OnePlace
    <3>2. {slot \in Slots : n \in Numbers(slot)} = {s}
      BY <3>1
    <3>3. QED
      BY <3>2, FS_Singleton
  <2>2. ASSUME NEW i \in DOMAIN entries, NEW j \in DOMAIN entries, IsQueued(entries[i].item),
               entries[i].item = entries[j].item
        PROVE  i = j
    BY <2>2 DEF Placed, SavedOnce
  <2>3. QED
    BY <2>1, <2>2 DEF QueuedOnce
<1>2. QED
  BY <1>1, PlacedInductive, PTL
==============================================================================
