---------------------------- MODULE AgentHarness ----------------------------
(***************************************************************************)
(* The agent harness (packages/agent/src/harness/agent-harness.ts): the    *)
(* other owner of the agent loop.  It lets in one prompt, compaction or    *)
(* move in the session tree at a time, saves every message of a run as its *)
(* event arrives, puts off what callers write meanwhile, and takes a new   *)
(* snapshot of the session before each turn.                               *)
(*                                                                         *)
(* A step ends where the code awaits something that takes time: a          *)
(* listener or hook, the model, or the append of a line to the session     *)
(* file.  An append is two steps: the parent of the new entry is read      *)
(* before, the entry joins the tree and becomes its leaf after             *)
(* (packages/agent/src/harness/session).  Everything between may come from *)
(* listeners that call the harness back.  A prompt is over for new ones    *)
(* once its agent_end is reached, but goes on for its listeners, its last  *)
(* flush and its caller.                                                   *)
(*                                                                         *)
(* Tool calls are part of a turn, the settings that are written with       *)
(* setModel() and the like are one kind of write, and what a compaction    *)
(* keeps is left out.                                                      *)
(*                                                                         *)
(* A definition introduced as a mistaken variant is in no specification:   *)
(* put in the place of the one after it, it breaks a property.             *)
(***************************************************************************)
EXTENDS Naturals, FiniteSets, SequencesExt

CONSTANTS MaxPrompts, \* bound: calls of prompt()
          QueueMode,  \* of steering and follow-ups: "all" or "one-at-a-time"
          MaxEach,    \* bound: acts of one kind: prompts, responses that call tools,
                      \* messages queued, writes, aborts, operations, failures
          MaxActs     \* bound: all of them

ASSUME AgentHarnessAssumption ==
  /\ QueueMode \in {"all", "one-at-a-time"}
  /\ MaxPrompts \in Nat /\ MaxEach \in Nat /\ MaxActs \in Nat

VARIABLES phase, runPromise, controller,  \* the last two by the call they belong to
          signals,   \* calls whose abort signal is raised
          at,        \* where each call of prompt() is
          failing,   \* calls that report a failed run
          stop,      \* how the last response of each ended
          todo,      \* messages each has still to save
          held,      \* messages each has drained, while listeners hear of it
          orphaned,  \* calls whose queue was replaced since
          context,   \* the entries each shows the model
          queue,     \* steerQueue, followUpQueue and nextTurnQueue
          pending,   \* pendingSessionWrites
          entries,   \* of the session, a tree by their parents
          leaf,      \* position of the current leaf, 0 at the root
          io,        \* the append each actor waits for
          op,        \* compact() or navigateTree()
          deferred,  \* the writes put off, in order
          left,      \* those of a failed prompt or an operation without a flush
          gone,      \* queued messages that abort() or a failure took away
          crossed,   \* something was let in beside something unfinished
          used       \* how many acts of each kind there were

handles == <<phase, runPromise, controller, signals>>
runs == <<at, failing, stop, todo, held, orphaned, context>>
tree == <<entries, leaf, io>>
queues == <<queue, gone>>
writes == <<pending, deferred, left>>
vars == <<handles, runs, tree, queues, writes, op, crossed, used>>

Prompts == 1..MaxPrompts   \* the calls, in the order they are made
None == 0
Caller == MaxPrompts + 1
Operator == MaxPrompts + 2
Actors == 1..Operator
Acts == {"prompt", "turn", "queued", "write", "abort", "op", "fault"}
QueueNames == {"steer", "followUp", "nextTurn"}
NoIO == [on |-> FALSE]
NoOp == [at |-> "off", target |-> 0]

Init ==
  /\ phase = "idle" /\ runPromise = None /\ controller = None /\ signals = {}
  /\ at = [p \in Prompts |-> "new"] /\ failing = {} /\ orphaned = {}
  /\ stop = [p \in Prompts |-> "none"]
  /\ todo = [p \in Prompts |-> <<>>] /\ held = todo /\ context = todo
  /\ queue = [q \in QueueNames |-> <<>>] /\ gone = {}
  /\ pending = <<>> /\ deferred = <<>> /\ left = {}
  /\ entries = <<>> /\ leaf = 0 /\ io = [a \in Actors |-> NoIO] /\ op = NoOp
  /\ crossed = FALSE
  /\ used = [kind \in Acts |-> 0]

May(kind) ==
  /\ used[kind] < MaxEach /\ SumFunction(used) < MaxActs
  /\ used' = [used EXCEPT ![kind] = @ + 1]

Over(p) == at[p] \in {"new", "done", "failed"}
InProgress == (\E p \in Prompts : ~Over(p)) \/ op.at # "off" \/ io[Caller].on
LetIn == crossed' = (crossed \/ InProgress)

Goto(p, s) == at' = [at EXCEPT ![p] = s]

------------------------------------------------------------------------------
(* The session *)

\* The positions from the root to the leaf.
Branch ==
  LET path[n \in 0..Len(entries)] ==
        IF n = 0 THEN <<>> ELSE Append(path[entries[n].parent], n)
  IN  path[leaf]

\* A message or entry: callers' messages and writes are numbered.
Item(kind, n) == [kind |-> kind, n |-> n]

\* Actor a starts to append an item under the current leaf; queued says that it
\* is the first of the pending writes.
Appends(a, item, queued) ==
  io' = [io EXCEPT ![a] = [on |-> TRUE, item |-> item, parent |-> leaf,
                           queued |-> queued, target |-> 0]]

\* What the append of actor a leaves: an entry that moves the leaf to itself, or
\* to its target.
Joined(a) ==
  /\ io[a].on
  /\ entries' = Append(entries, [item |-> io[a].item, parent |-> io[a].parent])
  /\ leaf' = IF io[a].item.kind = "leaf" THEN io[a].target ELSE Len(entries) + 1
  /\ io' = [io EXCEPT ![a] = NoIO]

------------------------------------------------------------------------------
(* prompt() and executeTurn() *)

\* prompt(): the phase is taken before anything is awaited, and the context read.
Prompt(p) ==
  /\ at[p] = "new" /\ phase = "idle" /\ \A q \in 1..(p - 1) : at[q] # "new"
  /\ May("prompt")
  /\ phase' = "turn" /\ runPromise' = p
  /\ Goto(p, "snapshot") /\ context' = [context EXCEPT ![p] = Branch]
  /\ LetIn
  /\ UNCHANGED <<controller, signals, failing, stop, todo, held, orphaned, tree, queues,
                 writes, op>>

\* The system prompt is there: messages for the next turn are taken.
Begin(p) ==
  /\ at[p] = "snapshot"
  /\ held' = [held EXCEPT ![p] = queue["nextTurn"]]
  /\ queue' = [queue EXCEPT !["nextTurn"] = <<>>]
  /\ Goto(p, IF queue["nextTurn"] = <<>> THEN "hook" ELSE "taking")
  /\ UNCHANGED <<handles, failing, stop, todo, orphaned, context, tree, gone, writes, op,
                 crossed, used>>

Taken(p) ==
  /\ at[p] = "taking" /\ Goto(p, "hook")
  /\ UNCHANGED <<handles, failing, stop, todo, held, orphaned, context, tree, queues, writes,
                 op, crossed, used>>

\* The hook before_agent_start has answered: the loop starts, and can be aborted.
Launch(p) ==
  /\ at[p] = "hook"
  /\ controller' = p
  /\ todo' = [todo EXCEPT ![p] = held[p] \o <<Item("prompt", p)>>]
  /\ held' = [held EXCEPT ![p] = <<>>]
  /\ Goto(p, "emit")
  /\ UNCHANGED <<phase, runPromise, signals, failing, stop, orphaned, context, tree, queues,
                 writes, op, crossed, used>>

\* A call that is over leaves nothing of its run.
Forgets(p, s) ==
  /\ Goto(p, s) /\ runPromise' = None
  /\ stop' = [stop EXCEPT ![p] = "none"] /\ todo' = [todo EXCEPT ![p] = <<>>]
  /\ context' = [context EXCEPT ![p] = <<>>]
  /\ failing' = failing \ {p} /\ signals' = signals \ {p} /\ orphaned' = orphaned \ {p}

\* A prompt that fails, from the catch clause on.
Rejects(p) ==
  /\ phase' = "idle"
  /\ Forgets(p, "failed")
  /\ left' = left \union ToSet(pending)

------------------------------------------------------------------------------
(* The run: handleAgentEvent, and what the loop asks of the harness *)

Saving == {"emit", "inject", "respond"}

\* The flushes that end executeTurn, however the run ended.
Final == {"flushFinal", "flushFinalFailing"}
Flushing == {"flushTurn", "flushTurnFailing", "flushNext", "flushEnd"} \union Final

\* message_end of the next message, or the first pending write.
Save(p) ==
  /\ ~io[p].on
  /\ \/ at[p] \in Saving /\ todo[p] # <<>> /\ Appends(p, Head(todo[p]), FALSE)
     \/ at[p] \in Flushing /\ pending # <<>> /\ Appends(p, Head(pending), TRUE)
  /\ UNCHANGED <<handles, runs, entries, leaf, queues, writes, op, crossed, used>>

\* Mistaken variant: the last is taken out.
ShiftedLast(queued) == IF queued /\ pending # <<>> THEN Front(pending) ELSE pending

\* The pending writes when one has been appended: the first is taken out, which
\* need not be it.
Shifted(queued) == IF queued /\ pending # <<>> THEN Tail(pending) ELSE pending

Saved(p) ==
  /\ Joined(p)
  /\ pending' = Shifted(io[p].queued)
  /\ IF io[p].queued THEN UNCHANGED <<todo, context>>
     ELSE /\ todo' = [todo EXCEPT ![p] = Tail(@)]
          /\ context' = [context EXCEPT ![p] = Append(@, Len(entries) + 1)]
  /\ UNCHANGED <<handles, at, failing, stop, held, orphaned, queues, deferred, left, op,
                 crossed, used>>

Call(p) == IF p \in signals THEN "cancelled" ELSE "model"

Drained(kind) == IF QueueMode = "all" THEN queue[kind] ELSE <<Head(queue[kind])>>

\* drainQueuedMessages of a queue that has some.
Drain(p, kind) ==
  /\ queue[kind] # <<>>
  /\ held' = [held EXCEPT ![p] = Drained(kind)]
  /\ queue' = [queue EXCEPT ![kind] = SubSeq(@, Len(Drained(kind)) + 1, Len(@))]
  /\ orphaned' = orphaned \ {p}
  /\ Goto(p, "drained")

\* The loop goes on to s without draining a queue.
GoesOn(p, s) == Goto(p, s) /\ UNCHANGED <<held, queue, orphaned>>

\* Where a turn goes from its save point.
AfterTurn(p) == IF stop[p] \in {"error", "aborted"} THEN "flushEnd" ELSE "flushNext"

\* All messages of a group are saved.
Emitted(p) ==
  /\ at[p] \in Saving /\ todo[p] = <<>> /\ ~io[p].on
  /\ CASE at[p] = "emit" -> Drain(p, "steer") \/ (queue["steer"] = <<>> /\ GoesOn(p, Call(p)))
       [] at[p] = "inject" -> GoesOn(p, Call(p))
       [] at[p] = "respond" -> GoesOn(p, IF pending = <<>> THEN AfterTurn(p) ELSE "flushTurn")
  /\ UNCHANGED <<handles, failing, stop, todo, context, tree, gone, writes, op, crossed,
                 used>>

\* The listeners have heard that the queue is shorter: its messages are next.
Inject(p) ==
  /\ at[p] = "drained"
  /\ todo' = [todo EXCEPT ![p] = held[p]] /\ held' = [held EXCEPT ![p] = <<>>]
  /\ Goto(p, "inject")
  /\ UNCHANGED <<handles, failing, stop, orphaned, context, tree, queues, writes, op,
                 crossed, used>>

Responds(p, s) ==
  /\ stop' = [stop EXCEPT ![p] = s]
  /\ todo' = [todo EXCEPT ![p] = <<Item("assistant", p)>>]
  /\ Goto(p, "respond")

\* The model answers; called with a raised signal it answers "aborted".
Respond(p) ==
  /\ \E s \in {"answer", "call", "error", "aborted"} :
       /\ at[p] \in {"model", "cancelled"}
       /\ s = "aborted" => p \in signals
       /\ at[p] = "cancelled" => s = "aborted"
       /\ IF s = "call" THEN May("turn") ELSE UNCHANGED used
       /\ Responds(p, s)
  /\ UNCHANGED <<handles, failing, held, orphaned, context, tree, queues, writes, op, crossed>>

\* The listeners of agent_end have returned, and there is something to flush.
Heard(p) ==
  /\ at[p] = "settling" /\ pending # <<>>
  /\ Goto(p, "flushFinal")
  /\ UNCHANGED <<handles, failing, stop, todo, held, orphaned, context, tree, queues, writes,
                 op, crossed, used>>

\* The next turn: what is steered, another call, a follow-up, or the end.
NextTurn(p) ==
  /\ at[p] = "turnSnapshot"
  /\ \/ Drain(p, "steer")
     \/ queue["steer"] = <<>> /\ stop[p] = "call" /\ GoesOn(p, Call(p))
     \/ queue["steer"] = <<>> /\ stop[p] # "call" /\ Drain(p, "followUp")
     \/ queue["steer"] = <<>> /\ stop[p] # "call" /\ queue["followUp"] = <<>>
        /\ GoesOn(p, "flushEnd")
  /\ UNCHANGED <<handles, failing, stop, todo, context, tree, gone, writes, op, crossed,
                 used>>

\* Mistaken variant: the snapshot of the last turn is kept.
SnapshotKept(p) == context[p]

\* The context of a new turn, once the writes are saved.
Snapshot(p) == Branch

\* Where the phase becomes idle.
BecomesIdle(p) == at[p] = "flushEnd"

\* emitRunFailure: the failure is a message of its own, a turn_end and an
\* agent_end; if these fail too the prompt fails.
RunFails(p) ==
  IF p \in failing
  THEN Goto(p, "flushFinalFailing") /\ UNCHANGED <<failing, stop, todo>>
  ELSE failing' = failing \union {p} /\ Responds(p, "error")

\* Mistaken variant: the handle of the run stays.
ReleasedNever(p) == controller

\* The run's end clears the controller, whosever it is.
Released(p) == None

\* Nothing is pending any more.
Flushed(p) ==
  /\ at[p] \in Flushing \ Final /\ pending = <<>> /\ ~io[p].on
  /\ phase' = IF BecomesIdle(p) THEN "idle" ELSE phase
  /\ CASE at[p] = "flushTurn" -> Goto(p, AfterTurn(p))
       [] at[p] = "flushTurnFailing" -> TRUE
       [] at[p] = "flushNext" -> Goto(p, "turnSnapshot")
       [] at[p] = "flushEnd" -> Goto(p, "settling")
  /\ IF at[p] = "flushTurnFailing" THEN RunFails(p) ELSE UNCHANGED <<failing, stop, todo>>
  /\ context' = IF at[p] = "flushNext" THEN [context EXCEPT ![p] = Snapshot(p)] ELSE context
  /\ UNCHANGED <<runPromise, controller, signals, held, orphaned, tree, queues, writes, op,
                 crossed, used>>

\* The same at the end of executeTurn.
Finish(p) ==
  /\ at[p] \in Final \union {"settling"} /\ pending = <<>> /\ ~io[p].on
  /\ controller' = Released(p)
  /\ IF at[p] = "flushFinalFailing" THEN Rejects(p)
     ELSE Forgets(p, "done") /\ UNCHANGED <<phase, left>>
  /\ UNCHANGED <<held, tree, queues, pending, deferred, op, crossed, used>>

\* Mistaken variant: what was drained is dropped.
RestoredNever(p) == queue

\* What was drained goes back to the head of the queue, unless abort() has
\* replaced the queue.
Restored(p) ==
  IF at[p] \notin {"taking", "drained"} \/ p \in orphaned THEN queue
  ELSE LET kind == Head(held[p]).kind IN [queue EXCEPT ![kind] = held[p] \o @]

Awaiting == {"snapshot", "taking", "hook", "emit", "drained", "inject", "model", "cancelled",
             "respond", "flushNext", "flushEnd", "turnSnapshot", "settling"}

\* The queued messages that a failure takes away: those of a group that is not all
\* saved, those already drained when a hook throws or when abort() replaced the queue.
Lost(p) ==
  LET lost == todo[p] \o IF at[p] = "hook" \/ p \in orphaned THEN held[p] ELSE <<>>
  IN  {m \in ToSet(lost) : m.kind \in QueueNames}

\* A listener or hook throws, or an append fails.
Throw(p) ==
  /\ at[p] \in Awaiting \/ io[p].on
  /\ May("fault")
  /\ io' = [io EXCEPT ![p] = NoIO]
  /\ queue' = Restored(p) /\ held' = [held EXCEPT ![p] = <<>>]
  /\ gone' = gone \union Lost(p)
  /\ \/ /\ at[p] \in {"snapshot", "taking", "hook"} \union Final
        /\ Rejects(p)
        /\ controller' = IF at[p] \in Final THEN Released(p) ELSE controller
     \/ /\ at[p] \notin {"snapshot", "taking", "hook"} \union Final
        /\ RunFails(p)
        /\ UNCHANGED <<phase, runPromise, controller, signals, orphaned, context, left>>
     \/ /\ at[p] = "respond" /\ todo[p] = <<>>   \* a listener of turn_end
        /\ Goto(p, "flushTurnFailing")
        /\ UNCHANGED <<phase, runPromise, controller, signals, failing, stop, todo, orphaned,
                       context, left>>
  /\ UNCHANGED <<entries, leaf, pending, deferred, op, crossed>>

------------------------------------------------------------------------------
(* Callers *)

\* steer() and followUp() are refused when idle; nextTurn() is not.
Enqueue(kind) ==
  /\ kind = "nextTurn" \/ phase # "idle"
  /\ May("queued")
  /\ queue' = [queue EXCEPT ![kind] = Append(@, Item(kind, used.queued + 1))]
  /\ UNCHANGED <<handles, runs, tree, gone, writes, op, crossed>>

\* A write is put off.
Defers == phase # "idle"

\* appendMessage(), setModel() and the other setters.
Write ==
  /\ May("write")
  /\ LET w == Item("write", used.write + 1)
     IN  IF Defers
         THEN /\ pending' = Append(pending, w) /\ deferred' = Append(deferred, w)
              /\ left' = IF op.at # "off" THEN left \union {w} ELSE left
              /\ UNCHANGED <<io, crossed>>
         ELSE /\ ~io[Caller].on /\ Appends(Caller, w, FALSE)
              /\ LetIn
              /\ UNCHANGED writes
  /\ UNCHANGED <<handles, runs, entries, leaf, queues, op>>

WriteSaved ==
  /\ Joined(Caller)
  /\ UNCHANGED <<handles, runs, queues, writes, op, crossed, used>>

WriteFails ==
  /\ io[Caller].on /\ May("fault")
  /\ io' = [io EXCEPT ![Caller] = NoIO]
  /\ UNCHANGED <<handles, runs, entries, leaf, queues, writes, op, crossed>>

\* The run that abort() reaches.
Reached == {controller} \ {None}

\* abort(): both queues of the run are replaced, and the run that can be reached
\* is aborted.
Abort ==
  /\ May("abort")
  /\ queue' = [queue EXCEPT !["steer"] = <<>>, !["followUp"] = <<>>]
  /\ gone' = gone \union ToSet(queue["steer"] \o queue["followUp"])
  /\ orphaned' = orphaned \union {p \in Prompts : at[p] = "drained"}
  /\ signals' = signals \union Reached
  /\ UNCHANGED <<phase, runPromise, controller, at, failing, stop, todo, held, context, tree,
                 writes, op, crossed>>

------------------------------------------------------------------------------
(* compact() and navigateTree() *)

Operate(which) ==
  /\ phase = "idle" /\ op.at = "off"
  /\ May("op")
  /\ phase' = IF which = "compact" THEN "compaction" ELSE "branch_summary"
  /\ op' = [op EXCEPT !.at = which]
  /\ LetIn
  /\ UNCHANGED <<runPromise, controller, signals, runs, tree, queues, writes>>

UserKinds == QueueNames \union {"prompt"}

\* What an operation appends: the compaction; or the entry that moves the leaf
\* (to the parent of a user's message, else to the entry), then a summary under it.
OpAppends ==
  /\ op.at \in {"compact", "navigate", "summarize"}
  /\ ~io[Operator].on
  /\ CASE op.at = "compact" ->
            /\ Appends(Operator, Item("compaction", 0), FALSE)
            /\ op' = [op EXCEPT !.at = "ending"]
       [] op.at = "navigate" ->
            \E n \in DOMAIN entries, next \in {"summarize", "ending"} :
              LET goal == IF entries[n].item.kind \in UserKinds THEN entries[n].parent ELSE n
              IN  /\ io' = [io EXCEPT ![Operator] =
                              [on |-> TRUE, item |-> Item("leaf", 0),
                               parent |-> leaf, queued |-> FALSE, target |-> goal]]
                  /\ op' = [at |-> next, target |-> goal]
       [] op.at = "summarize" ->
            /\ io' = [io EXCEPT ![Operator] =
                        [on |-> TRUE, item |-> Item("branch_summary", 0),
                         parent |-> op.target, queued |-> FALSE, target |-> 0]]
            /\ op' = [op EXCEPT !.at = "ending"]
  /\ UNCHANGED <<handles, runs, entries, leaf, queues, writes, crossed, used>>

OpSaved ==
  /\ Joined(Operator)
  /\ UNCHANGED <<handles, runs, queues, writes, op, crossed, used>>

\* It ends, or fails or is cancelled at any await.
OpEnds ==
  /\ op.at # "off"
  /\ phase' = "idle" /\ op' = NoOp
  /\ io' = [io EXCEPT ![Operator] = NoIO]
  /\ UNCHANGED <<runPromise, controller, signals, runs, entries, leaf, queues, writes,
                 crossed, used>>

------------------------------------------------------------------------------
Step(p) ==
  \/ Begin(p) \/ Taken(p) \/ Launch(p) \/ Save(p) \/ Saved(p) \/ Emitted(p) \/ Inject(p)
  \/ Respond(p) \/ Heard(p) \/ NextTurn(p) \/ Flushed(p) \/ Finish(p)

Operation == OpAppends \/ OpSaved \/ OpEnds

User ==
  \/ \E p \in Prompts : Prompt(p)
  \/ \E kind \in QueueNames : Enqueue(kind)
  \/ Write \/ Abort
  \/ \E which \in {"compact", "navigate"} : Operate(which)

Next ==
  \/ \E p \in Prompts : Step(p) \/ Throw(p)
  \/ Operation \/ User \/ WriteSaved \/ WriteFails

\* The model, the listeners and the file system answer in the end: weak fairness
\* of each call and of the operation.  They can always step until they are over,
\* which Settles checks too, as to compute it here takes TLC too long.
Fairness ==
  /\ \A p \in Prompts : <>[](~Over(p)) => []<><<Step(p)>>_vars
  /\ <>[](op.at # "off") => []<><<Operation>>_vars

Spec == Init /\ [][Next]_vars /\ Fairness
------------------------------------------------------------------------------
(* Properties *)

InLoop == {"emit", "drained", "inject", "model", "cancelled", "respond", "flushTurn",
           "flushTurnFailing", "flushNext", "turnSnapshot",
           "flushEnd", "settling", "flushFinal", "flushFinalFailing"}
Busy == {"snapshot", "taking", "hook"} \union (InLoop \ {"settling", "flushFinal"})
Steps == {"new", "snapshot", "taking", "hook", "done", "failed"} \union InLoop

TypeOK ==
  /\ phase \in {"idle", "turn", "compaction", "branch_summary"}
  /\ runPromise \in Prompts \union {None} /\ controller \in Prompts \union {None}
  /\ at \in [Prompts -> Steps]
  /\ signals \subseteq Prompts /\ failing \subseteq Prompts /\ orphaned \subseteq Prompts
  /\ \A n \in DOMAIN entries : entries[n].parent \in 0..(n - 1)
  /\ leaf \in 0..Len(entries)
  /\ \A p \in Prompts : held[p] # <<>> => at[p] \in {"taking", "hook", "drained"}
  /\ op.at \in {"off", "compact", "navigate", "summarize", "ending"}

\* The phase is that of the one operation in progress, until a listener of an
\* agent_end throws or something that was let in beside fails.
PhaseExact ==
  LET busy == {p \in Prompts : at[p] \in Busy}
  IN  used.fault = 0 =>
        /\ phase = "turn" <=> busy # {}
        /\ phase \in {"compaction", "branch_summary"} <=> op.at # "off"
        /\ Cardinality(busy) <= 1

\* What waitForIdle() waits for and what abort() reaches is in progress; and both
\* are there for the whole of a run unless another was let in beside it.
HandlesExact ==
  /\ runPromise # None => ~Over(runPromise)
  /\ controller # None => at[controller] \in InLoop
  /\ crossed \/ \A p \in Prompts : /\ ~Over(p) => runPromise = p
                                   /\ at[p] \in InLoop => controller = p

\* Where an item is in the session.
SavedAt(m) == {i \in DOMAIN entries : entries[i].item = m}

\* The writes put off that are no longer pending.
DeferredSaved == 1..(Len(deferred) - Len(pending))

\* Every write put off is saved once, in order, unless two calls flush at once.
DeferredKept ==
  crossed \/
    /\ pending = SubSeq(deferred, Len(deferred) - Len(pending) + 1, Len(deferred))
    /\ \A i \in DOMAIN deferred :
         Cardinality(SavedAt(deferred[i])) = IF i \in DeferredSaved THEN 1 ELSE 0
    /\ \A i, j \in DeferredSaved : i < j =>
         \A a \in SavedAt(deferred[i]), b \in SavedAt(deferred[j]) : a < b

\* Idle, nothing is pending but what compact(), navigateTree() or a prompt that
\* failed leave behind.
IdleFlushed ==
  phase = "idle" /\ (used.fault = 0 \/ ~crossed) => ToSet(pending) \subseteq left

\* The model is shown exactly what is saved on the branch.
ModelSeesBranch ==
  \A p \in Prompts : at[p] \in {"model", "cancelled"} => crossed \/ context[p] = Branch

\* Where queued messages are, and the numbers of those there.
Slots == ({"queue"} \X QueueNames) \union ({"held", "todo"} \X Prompts)
         \union {<<"saved", 0>>, <<"gone", 0>>}

IsQueued(m) == m.kind \in QueueNames
Numbered(s) == {s[i].n : i \in {i \in DOMAIN s : IsQueued(s[i])}}
SavedNumbers == {entries[i].item.n : i \in {i \in DOMAIN entries : IsQueued(entries[i].item)}}

Numbers(slot) ==
  CASE slot[1] = "queue" -> Numbered(queue[slot[2]])
    [] slot[1] = "held" -> Numbered(held[slot[2]])
    [] slot[1] = "todo" -> Numbered(todo[slot[2]])
    [] slot[1] = "saved" -> SavedNumbers
    [] slot[1] = "gone" -> {m.n : m \in gone}

\* A queued message is in one place, whatever fails or is aborted while it moves from
\* its queue to the session; a listener that throws puts back what was drained.
QueuedOnce ==
  /\ \A n \in 1..used.queued : Cardinality({slot \in Slots : n \in Numbers(slot)}) = 1
  /\ \A i, j \in DOMAIN entries :
       IsQueued(entries[i].item) /\ entries[i].item = entries[j].item => i = j

\* Every prompt and operation that is let in ends, and is never stuck before.
Settles ==
  /\ [](\A p \in Prompts : Over(p) \/ ENABLED Step(p))
  /\ \A p \in Prompts : at[p] # "new" ~> Over(p)
  /\ op.at # "off" ~> op.at = "off"
=============================================================================
