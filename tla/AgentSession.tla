---------------------------- MODULE AgentSession ----------------------------
(***************************************************************************)
(* The agent session: what happens around the runs of the agent            *)
(* (packages/coding-agent/src/core/agent-session.ts).  Calls of prompt()   *)
(* start runs, wait for them, and afterwards try a failed response again,  *)
(* compact an overflowing conversation, or go on with what is still        *)
(* queued; messages are copied to the saved session as the events of the   *)
(* agent arrive; bash results wait for the end of a run; compact() by the  *)
(* user stops listening to the agent, aborts it, and replaces the          *)
(* transcript.                                                             *)
(*                                                                         *)
(* Several calls of prompt() may be in progress: the session refuses a     *)
(* second one only while a run is active, not while the first waits to try *)
(* again, compacts or asks the extensions; it refuses no second compact(). *)
(* A step ends at an await that takes time.  All automatic compactions use *)
(* one abort controller, and so do all by the user: the first of them to   *)
(* end clears it, and those that started before it then fail where they    *)
(* read it.  The run itself is the one of AgentLoop, at the grain of       *)
(* its responses and tool results and with one tool call in a response;    *)
(* where a conversation is cut is Compaction's.                            *)
(*                                                                         *)
(* Left out: custom messages, messages for the next turn, the copy of the  *)
(* queues kept for the display, listeners that throw, and prompts refused  *)
(* for want of a model or a key.                                           *)
(*                                                                         *)
(* A definition introduced as a mistaken variant is in no specification:   *)
(* put in the place of the one after it, it breaks a property.             *)
(***************************************************************************)
EXTENDS Compaction, SequencesExt

CONSTANTS Prompts,      \* calls of prompt(), each made at most once
          None,         \* no call, no message
          Stops,        \* how a response may end, of AllStops
          MaxRetries,   \* settings.retry.maxRetries
          MaxCalls,     \* bound: responses that call a tool
          MaxSteers,    \* bound: calls of steer() and followUp()
          MaxBash,      \* bound: bash results
          MaxAborts,    \* bound: calls of abort()
          MaxCompacts   \* bound: calls of compact(), numbered in their order

\* "full" is an answer whose usage is above the threshold; "overflow" an error
\* that says so; "length" a response cut off before its first token because the
\* input fills the window; "fatal" any error that is not tried again.
FailedStops == {"retryable", "overflow", "fatal"}
AllStops == {"answer", "full", "call", "length", "aborted"} \union FailedStops

ASSUME AgentSessionAssumption ==
  /\ None \notin Prompts /\ None \notin [id : Nat, kind : {"assistant"}, stop : AllStops]
  /\ Stops \subseteq AllStops \ {"aborted", "call"}
  /\ MaxRetries \in Nat /\ MaxCalls \in Nat /\ MaxSteers \in Nat /\ MaxBash \in Nat
  /\ MaxAborts \in Nat /\ MaxCompacts \in Nat

VARIABLES at,            \* where each call of prompt() is
          before,        \* calls still in the check before their own message
          handled,       \* the response a call retries or compacts after
          plan,          \* the compaction of each call
          run,           \* the call whose run is active, None when idle
          stage,         \* what the run waits for
          aborted,       \* its abort signal
          steering,      \* messages in the agent's steering queue
          followUps,     \* and in its queue of follow-ups
          messages,      \* agent.state.messages
          saved,         \* the path of the session
          lastAssistant, \* _lastAssistantMessage
          connected,     \* whether the session listens to the agent
          retryAttempt,  \* _retryAttempt
          retrier,       \* the call that owns _retryAbortController
          overflowTried, \* _overflowRecoveryAttempted
          pendingBash,   \* _pendingBashMessages
          autoController, \* whether _autoCompactionAbortController is set
          manual,        \* where each call of compact() is
          manualPlan,    \* the compaction of each
          controller,    \* whether _compactionAbortController is set
          created,       \* messages and entries ever made
          failures,      \* failed responses in a row
          missed,        \* messages the session did not hear of
          crossed,       \* a run started beside another call
          used           \* how much of each bound is used

agent == <<run, stage, aborted>>
queues == <<steering, followUps>>
callers == <<at, before, handled, plan, autoController>>
compactions == <<manual, manualPlan, controller>>
transcript == <<messages, saved, created, missed>>
recovery == <<lastAssistant, retryAttempt, retrier, overflowTried, failures>>
vars == <<agent, callers, queues, transcript, connected, recovery, pendingBash,
          compactions, crossed, used>>

Compacts == 1..MaxCompacts
NoPlan == [on |-> FALSE]

Init ==
  /\ at = [p \in Prompts |-> "new"] /\ before = {}
  /\ handled = [p \in Prompts |-> None] /\ plan = [p \in Prompts |-> NoPlan]
  /\ autoController = FALSE /\ controller = FALSE
  /\ manual = [c \in Compacts |-> "new"] /\ manualPlan = [c \in Compacts |-> NoPlan]
  /\ run = None /\ stage = "off" /\ aborted = FALSE /\ steering = 0 /\ followUps = 0
  /\ messages = <<>> /\ saved = <<>> /\ created = 0 /\ missed = {}
  /\ lastAssistant = None /\ retryAttempt = 0 /\ retrier = None
  /\ overflowTried = FALSE /\ failures = 0
  /\ connected = TRUE /\ pendingBash = <<>> /\ crossed = FALSE
  /\ used = [call |-> 0, steer |-> 0, bash |-> 0, abort |-> 0]

Settled(p) == at[p] \in {"new", "done", "rejected"}
CompactOpen(c) == manual[c] \in {"aborting", "ready", "summarizing"}
May(what, max) == used[what] < max /\ used' = [used EXCEPT ![what] = @ + 1]

Waiting == steering + followUps > 0   \* hasQueuedMessages()

Message(n, kind) == [id |-> n, kind |-> kind]
Response(n, stop) == [id |-> n, kind |-> "assistant", stop |-> stop]
IsResponse(m) == m.kind = "assistant"
Failed(m) == IsResponse(m) /\ m.stop \in FailedStops \union {"length"}

\* buildSessionContext on a path: the newest compaction, what it kept, what
\* came after.
Context(path) ==
  LET last == LastCompaction(path)
  IN  IF last = 0 THEN path
      ELSE <<path[last]>> \o Shown(path, Min(At(path, path[last].kept)))

------------------------------------------------------------------------------
(* Events: message_end reaches the transcript, and the saved session if it  *)
(* listens.                                                                 *)

Emit(new) ==
  /\ messages' = messages \o new
  /\ created' = created + Len(new)
  /\ saved' = IF connected THEN saved \o new ELSE saved
  /\ missed' = IF connected THEN missed ELSE missed \union {m.id : m \in ToSet(new)}

\* A user's message in a run.
HearUser ==
  /\ overflowTried' = (overflowTried /\ ~connected)
  /\ failures' = 0
  /\ UNCHANGED <<lastAssistant, retryAttempt, retrier>>

\* A response: any but an error ends a series of retries, and allows another
\* recovery from an overflow.
HearResponse(m) ==
  /\ lastAssistant' = IF connected THEN m ELSE lastAssistant
  /\ overflowTried' = (overflowTried /\ (~connected \/ m.stop \in FailedStops))
  /\ retryAttempt' = IF connected /\ m.stop \notin FailedStops THEN 0 ELSE retryAttempt
  /\ failures' = IF m.stop \in FailedStops THEN failures + 1 ELSE 0
  /\ UNCHANGED retrier

------------------------------------------------------------------------------
(* The run, at the grain of AgentLoop's responses and results *)

\* first says whether the queue is polled before the first turn.
StartRun(p, first) ==
  /\ run' = p /\ stage' = first /\ aborted' = FALSE
  /\ at' = [at EXCEPT ![p] = "running"]
  /\ crossed' = (crossed \/ (\E c \in Compacts : CompactOpen(c))
                       \/ (\E q \in Prompts \ {p} : ~Settled(q)))

\* The model answers.  Called with a raised signal it answers "aborted"; aborted
\* while it streams it may have finished before.
Respond ==
  \E stop \in Stops \union {"call", "aborted"} :
    /\ stage \in {"model", "cancelled"}
    /\ stop = "aborted" => aborted
    /\ stage = "cancelled" => stop = "aborted"
    /\ IF stop = "call" THEN May("call", MaxCalls) ELSE UNCHANGED used
    /\ HearResponse(Response(created + 1, stop))
    /\ Emit(<<Response(created + 1, stop)>>)
    /\ stage' = IF stop = "call" THEN "tool"
                ELSE IF stop \in FailedStops \union {"aborted"} THEN "end" ELSE "over"
    /\ UNCHANGED <<run, aborted, callers, queues, connected, pendingBash, compactions, crossed>>

\* The tool call has its result.
ToolResult ==
  /\ stage = "tool"
  /\ Emit(<<Message(created + 1, "toolResult")>>)
  /\ stage' = "turn"
  /\ UNCHANGED <<run, aborted, callers, queues, connected, recovery, pendingBash, compactions,
                 crossed, used>>

CallsModel == stage' = IF aborted THEN "cancelled" ELSE "model"

\* A message from a queue is next, one at a time.
Inject ==
  /\ CallsModel
  /\ Emit(<<Message(created + 1, "user")>>)
  /\ HearUser

\* Before a turn the loop takes what is steered; when it would stop, a
\* follow-up too.
Poll ==
  /\ \/ /\ stage \in {"turn", "over"} /\ steering > 0
        /\ steering' = steering - 1 /\ Inject
        /\ UNCHANGED followUps
     \/ /\ stage = "over" /\ steering = 0 /\ followUps > 0
        /\ followUps' = followUps - 1 /\ Inject
        /\ UNCHANGED steering
     \/ /\ stage = "turn" /\ steering = 0
        /\ CallsModel
        /\ UNCHANGED <<queues, transcript, recovery>>
     \/ /\ stage = "over" /\ steering = 0 /\ followUps = 0
        /\ stage' = "end"
        /\ UNCHANGED <<queues, transcript, recovery>>
  /\ UNCHANGED <<run, aborted, callers, connected, pendingBash, compactions, crossed, used>>

------------------------------------------------------------------------------
(* After a run: _handlePostAgentRun, _checkCompaction, _runAutoCompaction    *)

\* The last message goes when it is a response, whichever.
DropResponse(msgs) ==
  IF msgs # <<>> /\ IsResponse(msgs[Len(msgs)]) THEN Front(msgs) ELSE msgs

\* Made before the newest compaction of the path.
Stale(m, path) ==
  LastCompaction(path) # 0 /\ m.id < path[LastCompaction(path)].id

Reported(msgs) == {i \in DOMAIN msgs : IsResponse(msgs[i])
                                       /\ msgs[i].stop \notin FailedStops \union {"aborted"}}

\* The usage of a failed response is that of the last one that reported some.
Large(m, msgs, path) ==
  \/ m.stop = "full"
  \/ /\ m.stop \in FailedStops /\ Reported(msgs) # {}
     /\ LET u == msgs[Max(Reported(msgs))] IN u.stop \in {"full", "length"} /\ ~Stale(u, path)

\* Why to compact after response m; ahead says that a new prompt asks.
Reason(m, ahead, msgs, path) ==
  IF (m.stop = "aborted" /\ ~ahead) \/ Stale(m, path) THEN "none"
  ELSE IF m.stop \in {"overflow", "length"}
  THEN IF overflowTried THEN "none" ELSE "overflow"
  ELSE IF Large(m, msgs, path) THEN "threshold" ELSE "none"

\* What to compact when message r reaches the budget; again says that the
\* response is asked for again afterwards.
Planned(path, r, again) ==
  IF ~CanCompact(path, r) THEN NoPlan
  ELSE [on |-> TRUE, again |-> again, kept |-> Prepared(path, r).kept]

\* _checkCompaction up to its await, on transcript msgs and path: what it plans,
\* and what it leaves of the transcript and the one-shot flag.
Checked(m, ahead, msgs, path) ==
  LET reason == Reason(m, ahead, msgs, path)
      recover == reason = "overflow"
  IN  {[plan |-> pl,
        messages |-> IF recover THEN DropResponse(msgs) ELSE msgs,
        tried |-> overflowTried \/ recover] :
         pl \in IF reason = "none" THEN {NoPlan}
               ELSE {Planned(path, r, recover) : r \in BudgetPoints(path)}}

\* Mistaken variant: what waited is dropped.
FlushedNowhere(msgs) == msgs

\* _flushPendingBashMessages, on a transcript or a path.
Flushed(msgs) == msgs \o pendingBash

\* Call p has nothing more to do after its runs: its own message is next, or the
\* end.
Proceed(p, msgs, path) ==
  /\ messages' = Flushed(msgs) /\ saved' = Flushed(path) /\ pendingBash' = <<>>
  /\ at' = [at EXCEPT ![p] = IF p \in before THEN "asking" ELSE "done"]
  /\ before' = before \ {p}

\* The end of _handlePostAgentRun after response m: a compaction, or the queue.
AfterRetries(p, m, msgs) ==
  \E c \in Checked(m, FALSE, msgs, saved) :
    /\ overflowTried' = c.tried
    /\ plan' = [plan EXCEPT ![p] = c.plan]
    /\ autoController' = (autoController \/ c.plan.on)
    /\ handled' = [handled EXCEPT ![p] = None]
    /\ UNCHANGED <<created, missed>>
    /\ IF ~c.plan.on /\ ~Waiting
       THEN Proceed(p, c.messages, saved)
       ELSE /\ messages' = c.messages
            /\ at' = [at EXCEPT ![p] = IF c.plan.on THEN "compacting" ELSE "continue"]
            /\ UNCHANGED <<saved, pendingBash, before>>

\* Mistaken variant: the end of the run is missed.
RunOverUnseen == manual

\* The compactions by the user that wait for the run they aborted go on.
RunOver == [c \in Compacts |-> IF manual[c] = "aborting" THEN "ready" ELSE manual[c]]

MayRetry(m) == m.stop = "retryable" /\ retryAttempt < MaxRetries

\* The run ends and the call that started it looks at the last response.
EndRun(p) ==
  /\ run = p /\ stage = "end"
  /\ run' = None /\ stage' = "off" /\ aborted' = FALSE
  /\ manual' = RunOver
  /\ controller' = (controller \/ RunOver # manual)
  /\ lastAssistant' = None
  /\ IF lastAssistant = None
     THEN /\ Proceed(p, messages, saved)
          /\ UNCHANGED <<created, missed, handled, plan, autoController, retryAttempt, retrier,
                         overflowTried>>
     ELSE IF MayRetry(lastAssistant)
     THEN /\ retryAttempt' = retryAttempt + 1 /\ retrier' = p
          /\ messages' = DropResponse(messages)
          /\ at' = [at EXCEPT ![p] = "waiting"]
          /\ handled' = [handled EXCEPT ![p] = lastAssistant]
          /\ UNCHANGED <<saved, created, missed, before, plan, autoController, overflowTried,
                         pendingBash>>
     ELSE /\ retryAttempt' = IF lastAssistant.stop \in FailedStops THEN 0 ELSE retryAttempt
          /\ AfterRetries(p, lastAssistant, messages)
          /\ UNCHANGED retrier
  /\ UNCHANGED <<queues, connected, failures, manualPlan, crossed, used>>

\* The wait before a retry is aborted.
RetryCancelled(p) ==
  /\ at[p] = "cancelled"
  /\ retryAttempt' = 0 /\ retrier' = None
  /\ AfterRetries(p, handled[p], messages)
  /\ UNCHANGED <<agent, queues, connected, lastAssistant, failures, compactions, crossed, used>>

\* It is over.
RetryWaited(p) ==
  /\ at[p] = "waiting"
  /\ at' = [at EXCEPT ![p] = "continue"] /\ retrier' = None
  /\ handled' = [handled EXCEPT ![p] = None]
  /\ UNCHANGED <<agent, before, plan, autoController, queues, transcript, connected, lastAssistant,
                 retryAttempt, overflowTried, failures, pendingBash, compactions, crossed, used>>

\* A call fails: prompt() rejects, but not without the flush.
Rejects(p) ==
  /\ at' = [at EXCEPT ![p] = "rejected"] /\ before' = before \ {p}
  /\ messages' = Flushed(messages) /\ saved' = Flushed(saved) /\ pendingBash' = <<>>

\* agent.continue(): after a response it runs what is queued, else it calls the
\* model again.
Continue(p) ==
  /\ at[p] = "continue"
  /\ LET afterResponse == messages # <<>> /\ IsResponse(messages[Len(messages)])
     IN  IF run # None \/ messages = <<>> \/ (afterResponse /\ ~Waiting)
         THEN /\ Rejects(p)
              /\ UNCHANGED <<agent, queues, created, missed, recovery, crossed>>
         ELSE /\ UNCHANGED <<before, pendingBash>>
              /\ IF afterResponse
                 THEN /\ StartRun(p, IF steering > 0 THEN "model" ELSE "turn")
                      /\ steering' = IF steering > 0 THEN steering - 1 ELSE 0
                      /\ followUps' = IF steering > 0 THEN followUps ELSE followUps - 1
                      /\ Emit(<<Message(created + 1, "user")>>)
                      /\ HearUser
                 ELSE /\ StartRun(p, "turn")
                      /\ UNCHANGED <<queues, transcript, recovery>>
  /\ plan' = [plan EXCEPT ![p] = NoPlan]
  /\ UNCHANGED <<handled, autoController, connected, compactions, used>>

CompactionEntry(pl) ==
  [id |-> created + 1, kind |-> "compaction", kept |-> pl.kept, covers |-> {}]

\* Mistaken variant: the transcript is left as it is.
RebuiltNever(path) == messages

\* The transcript after a compaction.
Rebuilt(path) == Context(path)

\* Mistaken variant: what is queued is left.
GoesOnAgain(again) == again

\* After a compaction the agent goes on to ask again, or with what is queued.
GoesOn(again) == again \/ Waiting

\* The summary is there, and so is the controller.  When the response is to be
\* asked for again, an error that is last in the rebuilt transcript is dropped.
Compacted(p) ==
  /\ at[p] \in {"precompacting", "compacting"} /\ autoController
  /\ autoController' = FALSE
  /\ created' = created + 1
  /\ LET path == Append(saved, CompactionEntry(plan[p]))
         new == Rebuilt(path)
         again == plan[p].again
         drops == again /\ IsResponse(new[Len(new)]) /\ new[Len(new)].stop \in FailedStops
     IN  IF GoesOn(again)
         THEN /\ saved' = path /\ messages' = IF drops THEN Front(new) ELSE new
              /\ at' = [at EXCEPT ![p] = "continue"]
              /\ before' = IF at[p] = "precompacting" THEN before \union {p} ELSE before
              /\ UNCHANGED <<plan, pendingBash>>
         ELSE /\ plan' = [plan EXCEPT ![p] = NoPlan]
              /\ IF at[p] = "precompacting"
                 THEN /\ saved' = path /\ messages' = new
                      /\ at' = [at EXCEPT ![p] = "asking"]
                      /\ UNCHANGED <<before, pendingBash>>
                 ELSE Proceed(p, new, path)
  /\ UNCHANGED <<agent, handled, queues, missed, connected, recovery, compactions, crossed, used>>

\* It failed, for want of the controller too, or was cancelled: after a run the queue decides.
CompactionFailed(p) ==
  /\ at[p] \in {"precompacting", "compacting"}
  /\ autoController' = FALSE
  /\ plan' = [plan EXCEPT ![p] = NoPlan]
  /\ IF at[p] = "compacting" /\ ~Waiting
     THEN Proceed(p, messages, saved)
     ELSE /\ at' = [at EXCEPT ![p] = IF @ = "compacting" THEN "continue" ELSE "asking"]
          /\ UNCHANGED <<messages, saved, before, pendingBash>>
  /\ UNCHANGED <<agent, handled, queues, created, missed, connected, recovery, compactions,
                 crossed, used>>

------------------------------------------------------------------------------
(* prompt() *)

Responses(msgs) == {i \in DOMAIN msgs : IsResponse(msgs[i])}

Queue ==
  \/ steering' = steering + 1 /\ UNCHANGED followUps
  \/ followUps' = followUps + 1 /\ UNCHANGED steering

\* While a run is active the message is queued.  Otherwise the pending bash
\* results are flushed and the last response is checked first.
Enter(p) ==
  /\ at[p] = "new" /\ run # None
  /\ at' = [at EXCEPT ![p] = "done"]
  /\ Queue
  /\ UNCHANGED <<agent, before, handled, plan, autoController, transcript, connected, recovery,
                 pendingBash, compactions, crossed, used>>

EnterIdle(p) ==
  /\ at[p] = "new" /\ run = None
  /\ saved' = Flushed(saved) /\ pendingBash' = <<>>
  /\ LET msgs == Flushed(messages)
     IN  IF Responses(msgs) = {}
         THEN /\ messages' = msgs
              /\ at' = [at EXCEPT ![p] = "asking"]
              /\ UNCHANGED <<plan, autoController, overflowTried>>
         ELSE \E c \in Checked(msgs[Max(Responses(msgs))], TRUE, msgs, saved') :
                /\ messages' = c.messages
                /\ overflowTried' = c.tried
                /\ plan' = [plan EXCEPT ![p] = c.plan]
                /\ autoController' = (autoController \/ c.plan.on)
                /\ at' = [at EXCEPT ![p] = IF c.plan.on THEN "precompacting" ELSE "asking"]
  /\ UNCHANGED <<agent, before, handled, queues, created, missed, connected, lastAssistant,
                 retryAttempt, retrier, failures, compactions, crossed, used>>

\* The extensions have answered before_agent_start; whether a run is active is
\* not looked at again, and agent.prompt() throws if one is.
Launch(p) ==
  /\ at[p] = "asking"
  /\ IF run # None
     THEN /\ Rejects(p)
          /\ UNCHANGED <<agent, created, missed, recovery, crossed>>
     ELSE /\ StartRun(p, "turn")
          /\ Emit(<<Message(created + 1, "user")>>)
          /\ HearUser
          /\ UNCHANGED <<before, pendingBash>>
  /\ UNCHANGED <<handled, plan, autoController, queues, connected, compactions, used>>

------------------------------------------------------------------------------
(* What callers and the user do beside *)

InProgress == \E p \in Prompts : ~Settled(p)

\* steer() and followUp(), for a call in progress.
Steer ==
  /\ InProgress /\ May("steer", MaxSteers)
  /\ Queue
  /\ UNCHANGED <<agent, callers, transcript, connected, recovery, pendingBash, compactions,
                 crossed>>

\* Mistaken variant: only while the model streams.
DefersStreaming == stage = "model"

\* state.isStreaming is set for the whole run.
Defers == run # None

\* recordBashResult: deferred while a run is active.
RecordBash ==
  /\ May("bash", MaxBash)
  /\ created' = created + 1
  /\ LET m == Message(created + 1, "bash")
     IN  IF Defers
         THEN pendingBash' = Append(pendingBash, m) /\ UNCHANGED <<messages, saved>>
         ELSE /\ messages' = Append(messages, m) /\ saved' = Append(saved, m)
              /\ UNCHANGED pendingBash
  /\ UNCHANGED <<agent, callers, queues, missed, connected, recovery, compactions, crossed>>

\* Mistaken variant: an idle agent is aborted too.
StopAllIdle ==
  /\ aborted' = TRUE
  /\ at' = IF retrier # None /\ at[retrier] = "waiting"
           THEN [at EXCEPT ![retrier] = "cancelled"] ELSE at

\* What abort() does to the wait of a retry, and to the run.
StopAll ==
  /\ aborted' = (run # None)
  /\ at' = IF retrier # None /\ at[retrier] = "waiting"
           THEN [at EXCEPT ![retrier] = "cancelled"] ELSE at

Abort ==
  /\ run # None \/ retrier # None
  /\ May("abort", MaxAborts)
  /\ StopAll
  /\ UNCHANGED <<run, stage, before, handled, plan, autoController, queues, transcript, connected,
                 recovery, pendingBash, compactions, crossed>>

\* compact(), whatever is in progress: it disconnects, aborts, and waits for the
\* run it aborted.
Compact(c) ==
  /\ manual[c] = "new" /\ \A d \in 1..(c - 1) : manual[d] # "new"
  /\ connected' = FALSE
  /\ StopAll
  /\ manual' = [manual EXCEPT ![c] = IF run # None THEN "aborting" ELSE "ready"]
  /\ controller' = (controller \/ run = None)
  /\ UNCHANGED <<run, stage, before, handled, plan, autoController, queues, transcript, recovery,
                 pendingBash, manualPlan, crossed, used>>

\* It ends: the controller is cleared and the session listens again, whichever
\* other calls go on.
Reconnects(c) ==
  /\ manual' = [manual EXCEPT ![c] = "over"]
  /\ manualPlan' = [manualPlan EXCEPT ![c] = NoPlan]
  /\ controller' = FALSE /\ connected' = TRUE

\* The path is read; with nothing to compact, or without the controller, it throws.
CompactPrepares(c) ==
  /\ manual[c] = "ready"
  /\ \E r \in BudgetPoints(saved) :
       LET pl == Planned(saved, r, FALSE)
       IN  IF pl.on /\ controller
           THEN /\ manual' = [manual EXCEPT ![c] = "summarizing"]
                /\ manualPlan' = [manualPlan EXCEPT ![c] = pl]
                /\ UNCHANGED <<controller, connected>>
           ELSE Reconnects(c)
  /\ UNCHANGED <<agent, callers, queues, transcript, recovery, pendingBash, crossed, used>>

CompactDone(c) ==
  /\ manual[c] = "summarizing" /\ controller
  /\ saved' = Append(saved, CompactionEntry(manualPlan[c]))
  /\ created' = created + 1
  /\ messages' = Rebuilt(saved')
  /\ Reconnects(c)
  /\ UNCHANGED <<agent, callers, queues, missed, recovery, pendingBash, crossed, used>>

\* The summary failed or was cancelled, or the controller is gone.
CompactFailed(c) ==
  /\ manual[c] = "summarizing"
  /\ Reconnects(c)
  /\ UNCHANGED <<agent, callers, queues, transcript, recovery, pendingBash, crossed, used>>

------------------------------------------------------------------------------
\* A call that is to continue does so before anything else happens.
Continuing == \E p \in Prompts : at[p] = "continue"

Call(p) ==
  \/ Continue(p)
  \/ /\ ~Continuing
     /\ \/ EndRun(p) \/ RetryCancelled(p) \/ RetryWaited(p)
        \/ Compacted(p) \/ CompactionFailed(p) \/ Launch(p)

Run == ~Continuing /\ (Respond \/ ToolResult \/ Poll)

Manual(c) == ~Continuing /\ (CompactPrepares(c) \/ CompactDone(c) \/ CompactFailed(c))

User ==
  /\ ~Continuing
  /\ \/ \E p \in Prompts : Enter(p) \/ EnterIdle(p)
     \/ Steer \/ RecordBash \/ Abort
     \/ \E c \in Compacts : Compact(c)

Next ==
  \/ Run \/ User
  \/ \E p \in Prompts : Call(p)
  \/ \E c \in Compacts : Manual(c)

\* When a call, or a compaction by the user, has a step to make by itself.
Ready(p) ==
  \/ at[p] = "continue"
  \/ /\ ~Continuing
     /\ at[p] \in {"precompacting", "asking", "waiting", "cancelled", "compacting"}
        \/ (run = p /\ stage = "end")
ManualReady(c) == ~Continuing /\ manual[c] \in {"ready", "summarizing"}

\* The model, the tools, the extensions and the waits answer in the end; callers
\* need not act.  For the last two this is weak fairness with what enables the
\* action written out, since to compute it takes TLC too long.
Fairness ==
  /\ WF_vars(Run)
  /\ \A p \in Prompts : <>[]Ready(p) => []<><<Call(p)>>_vars
  /\ \A c \in Compacts : <>[]ManualReady(c) => []<><<Manual(c)>>_vars

Spec == Init /\ [][Next]_vars /\ Fairness
------------------------------------------------------------------------------
(* Properties *)

Steps == {"new", "precompacting", "asking", "running", "waiting", "cancelled", "continue",
          "compacting", "done", "rejected"}

TypeOK ==
  /\ at \in [Prompts -> Steps] /\ before \subseteq Prompts
  /\ run \in Prompts \union {None} /\ retrier \in Prompts \union {None}
  /\ stage \in {"off", "model", "cancelled", "tool", "turn", "over", "end"}
  /\ aborted \in BOOLEAN /\ connected \in BOOLEAN /\ overflowTried \in BOOLEAN
  /\ crossed \in BOOLEAN
  /\ steering \in Nat /\ followUps \in Nat /\ failures \in Nat /\ created \in Nat
  /\ retryAttempt \in 0..MaxRetries
  /\ \A s \in {messages, saved, pendingBash} : \A i \in DOMAIN s : s[i].id \in 1..created
  /\ missed \subseteq 1..created
  /\ autoController \in BOOLEAN /\ controller \in BOOLEAN
  /\ manual \in [Compacts -> {"new", "aborting", "ready", "summarizing", "over"}]

\* However many calls of prompt() and compact() are in progress, exactly the one
\* whose run is active waits for it; the agent is aborted only while it runs; a
\* session that does not listen has a compact() in progress that will make it;
\* and only while one is past its abort() is there one to cancel.
OneRun ==
  /\ \A p \in Prompts : at[p] = "running" <=> run = p
  /\ run = None <=> stage = "off"
  /\ aborted => run # None
  /\ ~connected => \E c \in Compacts : CompactOpen(c)
  /\ controller => \E c \in Compacts : manual[c] \in {"ready", "summarizing"}

\* The agent is at rest: no call, run or compaction is in progress.
AtRest == ~InProgress /\ \A c \in Compacts : ~CompactOpen(c)

\* What is on the path is saved once.
SavedOnce == \A i, j \in DOMAIN saved : saved[i].id = saved[j].id => i = j

BashResults(path) == {i \in DOMAIN path : path[i].kind = "bash"}

\* Every bash result is saved exactly once, at the latest when the session is
\* at rest, whichever call flushes it.
BashSavedOnce ==
  /\ SavedOnce
  /\ Cardinality(BashResults(saved)) + Len(pendingBash) = used.bash
  /\ AtRest => pendingBash = <<>>

\* A tool result follows its call at once, in the transcript and on the path,
\* whatever bash results and compactions come meanwhile; unless a run was
\* started beside another call or compaction in progress.
Paired(msgs) ==
  \A i \in DOMAIN msgs : msgs[i].kind = "toolResult" =>
    i > 1 /\ IsResponse(msgs[i - 1]) /\ msgs[i - 1].stop = "call"
CallsPaired == crossed \/ (Paired(messages) /\ Paired(saved))

\* The transcript is the conversation that is saved: the same messages in the same
\* order, but for failed responses taken off it and for what was emitted while
\* nobody listened.  When runs start beside other calls, one of them may take off
\* an answer that came before the failed response it means.
SavedAgrees ==
  LET context == Context(saved)
  IN  /\ \A i \in DOMAIN messages :
           messages[i].id \in missed <=>
             \A a \in DOMAIN context : context[a] # messages[i]
      /\ \A i \in DOMAIN messages, a \in DOMAIN context : messages[i] = context[a] =>
           \A j \in DOMAIN messages, b \in DOMAIN context :
             i < j /\ messages[j] = context[b] => a < b
      /\ crossed \/ \A a \in DOMAIN context :
                      context[a] \in ToSet(messages) \/ Failed(context[a])

\* No queued message waits in a session at rest.
NothingStranded == AtRest /\ missed = {} => ~Waiting

\* Every call of prompt() and compact() that is made comes to an end.
Settles ==
  /\ \A p \in Prompts : at[p] # "new" ~> at[p] \in {"done", "rejected"}
  /\ \A c \in Compacts : CompactOpen(c) ~> manual[c] = "over"
==============================================================================
