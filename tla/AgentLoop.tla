------------------------------ MODULE AgentLoop ------------------------------
(***************************************************************************)
(* The agent: the loop of model calls and tool calls                       *)
(* (packages/agent/src/agent-loop.ts) under its stateful wrapper Agent     *)
(* (packages/agent/src/agent.ts), which owns the transcript, the two       *)
(* queues of user messages, and the one run that may be active.            *)
(*                                                                         *)
(* pc says which await the run is at.  Callers may steer, queue a          *)
(* follow-up, clear the queues or abort between any two of them.  An event *)
(* is reduced into the state and then awaited on its listeners; a listener *)
(* that throws (a session file that cannot be written) fails the run, and  *)
(* so does a model call that throws.  Tool calls of one assistant message  *)
(* run one after the other or all together; those still running when the   *)
(* run fails are orphans: nobody waits for them and nobody stops them.     *)
(*                                                                         *)
(* Events that change no state and are followed at once by another         *)
(* (message_start and message_update, tool_execution_update, turn_start of *)
(* later turns) are part of the step of the event after them.              *)
(*                                                                         *)
(* A definition introduced as a mistaken variant is in no specification:   *)
(* put in the place of the one after it, it breaks a property.             *)
(***************************************************************************)
EXTENDS Naturals, Sequences, SequencesExt, FiniteSets

CONSTANTS SteeringMode,    \* "all" or "one-at-a-time"
          FollowUpMode,    \* "all" or "one-at-a-time"
          ToolExecution,   \* "parallel" or "sequential"
          MaxCalls,        \* bound: tool calls in one assistant message
          MaxTurns,        \* bound: turns that may call tools or be tried again
          MaxMsgs,         \* bound: user messages ever sent
          MaxFaults        \* bound: listeners or model calls that throw

ASSUME LoopAssumption ==
  /\ SteeringMode \in {"all", "one-at-a-time"}
  /\ FollowUpMode \in {"all", "one-at-a-time"}
  /\ ToolExecution \in {"parallel", "sequential"}
  /\ MaxCalls \in Nat /\ MaxTurns \in Nat /\ MaxMsgs \in Nat /\ MaxFaults \in Nat

Calls == 1..MaxCalls

VARIABLES pc,           \* where the run is; "idle" when there is no activeRun
          aborted,      \* the abort signal of the active run
          steering,     \* steeringQueue
          followUp,     \* followUpQueue
          messages,     \* _state.messages, the transcript
          context,      \* currentContext.messages, the loop's own copy
          pending,      \* messages drained or prompted and not yet emitted
          more,         \* hasMoreToolCalls
          skipPoll,     \* skipInitialSteeringPoll
          turn,         \* assistant messages so far, over all runs
          called,       \* tool calls in the current assistant message
          sequential,   \* its calls run one by one
          next,         \* the call being prepared or executed
          status,       \* status[c]: how far call c of this turn is
          terminators,  \* calls of this turn whose result says terminate
          results,      \* results of this turn in the transcript
          pendingToolCalls,  \* _state.pendingToolCalls
          orphans,      \* calls of failed runs that still run
          sent,         \* user messages ever sent
          cleared,      \* those removed from a queue by a caller
          faults        \* listeners and model calls that have thrown

queues == <<steering, followUp, sent, cleared>>
tools == <<called, sequential, next, status, terminators, results, pendingToolCalls>>
vars == <<pc, aborted, queues, messages, context, pending, more, skipPoll, turn,
          tools, orphans, faults>>

active == pc # "idle"

User(n, via) == [role |-> "user", id |-> n, via |-> via]
Assistant(t, n, stop) ==
  [role |-> "assistant", turn |-> t, calls |-> n, stop |-> stop]
ToolResult(t, c) == [role |-> "toolResult", turn |-> t, call |-> c]

\* The first k results of turn t, in the order of the calls.
Results(t, k) == [c \in 1..k |-> ToolResult(t, c)]

Init ==
  /\ pc = "idle" /\ aborted = FALSE
  /\ steering = <<>> /\ followUp = <<>> /\ sent = 0 /\ cleared = {}
  /\ messages = <<>> /\ context = <<>> /\ pending = <<>>
  /\ more = FALSE /\ skipPoll = FALSE
  /\ turn = 0 /\ called = 0 /\ sequential = FALSE /\ next = 1 /\ results = 0
  /\ status = [c \in Calls |-> "none"] /\ terminators = {}
  /\ pendingToolCalls = {} /\ orphans = {}
  /\ faults = 0

------------------------------------------------------------------------------
(* PendingMessageQueue *)

\* Mistaken variant: the newest message is taken.
DrainedNewest(queue, mode) ==
  IF mode = "all" \/ queue = <<>> THEN queue ELSE <<queue[Len(queue)]>>

\* What drain() returns and what it leaves.
Drained(queue, mode) ==
  IF mode = "all" \/ queue = <<>> THEN queue ELSE <<Head(queue)>>

\* Mistaken variant: what was taken stays queued.
LeftWhole(queue, mode) == queue

Left(queue, mode) ==
  IF mode = "all" \/ queue = <<>> THEN <<>> ELSE Tail(queue)

\* steer() and followUp() may be called at any time.
Steer ==
  /\ sent < MaxMsgs
  /\ sent' = sent + 1
  /\ steering' = Append(steering, User(sent + 1, "steer"))
  /\ UNCHANGED <<pc, aborted, followUp, cleared, messages, context, pending, more,
                 skipPoll, turn, tools, orphans, faults>>

FollowUp ==
  /\ sent < MaxMsgs
  /\ sent' = sent + 1
  /\ followUp' = Append(followUp, User(sent + 1, "followUp"))
  /\ UNCHANGED <<pc, aborted, steering, cleared, messages, context, pending, more,
                 skipPoll, turn, tools, orphans, faults>>

\* clearAllQueues().
ClearQueues ==
  /\ steering # <<>> \/ followUp # <<>>
  /\ cleared' = cleared \union {m.id : m \in ToSet(steering) \union ToSet(followUp)}
  /\ steering' = <<>> /\ followUp' = <<>>
  /\ UNCHANGED <<pc, aborted, sent, messages, context, pending, more, skipPoll,
                 turn, tools, orphans, faults>>

\* abort() raises the signal of the active run, if there is one.
Abort ==
  /\ active /\ ~aborted
  /\ aborted' = TRUE
  /\ UNCHANGED <<pc, queues, messages, context, pending, more, skipPoll, turn,
                 tools, orphans, faults>>

------------------------------------------------------------------------------
(* Starting a run: runWithLifecycle and the head of runAgentLoop.  The     *)
(* context is a snapshot of the transcript with the prompts added.         *)

StartRun(prompts, skip) ==
  /\ ~active
  /\ pc' = "begin" /\ aborted' = FALSE
  /\ pending' = prompts /\ context' = messages \o prompts
  /\ skipPoll' = skip /\ more' = TRUE
  /\ UNCHANGED <<messages, turn, tools, orphans, faults>>

\* prompt() with one user message.
Prompt ==
  /\ sent < MaxMsgs
  /\ sent' = sent + 1
  /\ StartRun(<<User(sent + 1, "prompt")>>, FALSE)
  /\ UNCHANGED <<steering, followUp, cleared>>

LastRole == messages[Len(messages)].role

\* continue() after an assistant message runs what is queued, steering first.
ContinueQueued ==
  /\ messages # <<>> /\ LastRole = "assistant"
  /\ \/ /\ steering # <<>>
        /\ steering' = Left(steering, SteeringMode)
        /\ StartRun(Drained(steering, SteeringMode), TRUE)
        /\ UNCHANGED followUp
     \/ /\ steering = <<>> /\ followUp # <<>>
        /\ followUp' = Left(followUp, FollowUpMode)
        /\ StartRun(Drained(followUp, FollowUpMode), FALSE)
        /\ UNCHANGED steering
  /\ UNCHANGED <<sent, cleared>>

\* continue() after a user message or a tool result calls the model again.
ContinueTranscript ==
  /\ messages # <<>> /\ LastRole # "assistant"
  /\ StartRun(<<>>, FALSE)
  /\ UNCHANGED queues

\* Before it tries again, the session takes a failed response off the transcript.
DropFailed ==
  /\ ~active /\ messages # <<>> /\ LastRole = "assistant"
  /\ messages[Len(messages)].stop = "error" /\ turn < MaxTurns
  /\ messages' = Front(messages)
  /\ UNCHANGED <<pc, aborted, queues, context, pending, more, skipPoll, turn, tools,
                 orphans, faults>>

------------------------------------------------------------------------------
(* Failure.  A rejection anywhere in the run ends the loop; its local      *)
(* state is gone and handleRunFailure takes over.                          *)

Throw ==
  /\ faults < MaxFaults
  /\ faults' = faults + 1
  /\ pc' = "failing"

\* The run goes on at p, or the listener throws after the state was reduced.
Awaited(p) == (pc' = p /\ UNCHANGED faults) \/ Throw

\* Calls whose task runs on when Promise.all rejects on call c.
LeftRunning(c) ==
  {[turn |-> turn, call |-> d] :
     d \in {d \in Calls \ {c} : status[d] \in {"prepared", "returned"}}}

\* The message of handleRunFailure; a listener that throws on it ends the run,
\* on its message_start before it is in the transcript.
FailureMessage ==
  /\ pc = "failing"
  /\ LET stop == IF aborted THEN "aborted" ELSE "error"
     IN  messages' = Append(messages, Assistant(turn + 1, 0, stop))
  /\ turn' = turn + 1
  /\ pending' = <<>>
  /\ \/ pc' = "failureEnd" /\ UNCHANGED faults
     \/ faults < MaxFaults /\ faults' = faults + 1 /\ pc' = "finish"
  /\ UNCHANGED <<aborted, queues, context, more, skipPoll, tools, orphans>>

FailureUnseen ==
  /\ pc = "failing"
  /\ faults < MaxFaults
  /\ faults' = faults + 1 /\ pc' = "finish"
  /\ UNCHANGED <<aborted, queues, messages, context, pending, more, skipPoll, turn,
                 tools, orphans>>

\* Its turn_end and agent_end.
FailureEnd ==
  /\ pc = "failureEnd"
  /\ pc' = "finish"
  /\ UNCHANGED <<aborted, queues, messages, context, pending, more, skipPoll, turn,
                 tools, orphans, faults>>

\* finishRun() clears the runtime state; the locals of the loop are gone.
FinishRun ==
  /\ pc = "finish"
  /\ pc' = "idle" /\ aborted' = FALSE
  /\ pendingToolCalls' = {}
  /\ context' = <<>> /\ pending' = <<>> /\ more' = FALSE /\ skipPoll' = FALSE
  /\ called' = 0 /\ sequential' = FALSE /\ next' = 1 /\ results' = 0
  /\ terminators' = {}
  /\ status' = [c \in Calls |-> "none"]
  /\ UNCHANGED <<queues, messages, turn, orphans, faults>>

------------------------------------------------------------------------------
(* The loop: runAgentLoop, runLoop and streamAssistantResponse. *)

\* A listener of message_start or turn_start, transformContext, getApiKey or
\* the stream function throws before the step that follows.
RunThrows ==
  /\ \/ pc = "prompting" /\ pending # <<>>
     \/ pc \in {"inject", "streaming", "aborting", "agentEnd"}
  /\ Throw
  /\ UNCHANGED <<aborted, queues, messages, context, pending, more, skipPoll, turn,
                 tools, orphans>>

\* agent_start and the first turn_start.
Begin ==
  /\ pc = "begin"
  /\ Awaited("prompting")
  /\ UNCHANGED <<aborted, queues, messages, context, pending, more, skipPoll, turn,
                 tools, orphans>>

\* The prompts are in the context already.
EmitPrompt ==
  /\ pc = "prompting" /\ pending # <<>>
  /\ messages' = Append(messages, Head(pending))
  /\ pending' = Tail(pending)
  /\ Awaited("prompting")
  /\ UNCHANGED <<aborted, queues, context, more, skipPoll, turn, tools, orphans>>

\* getSteeringMessages(), before the first turn and after every turn.  With no
\* tool calls left and nothing drained the inner loop ends.
PollSteering ==
  /\ pc = "poll" \/ (pc = "prompting" /\ pending = <<>>)
  /\ pending' = IF skipPoll THEN <<>> ELSE Drained(steering, SteeringMode)
  /\ steering' = IF skipPoll THEN steering ELSE Left(steering, SteeringMode)
  /\ skipPoll' = FALSE
  /\ pc' = IF more \/ pending' # <<>> THEN "inject" ELSE "followUp"
  /\ UNCHANGED <<aborted, followUp, sent, cleared, messages, context, more, turn,
                 tools, orphans, faults>>

\* Mistaken variant: the message is emitted but not given to the model.
InjectUnseen ==
  /\ pc = "inject" /\ pending # <<>>
  /\ messages' = Append(messages, Head(pending))
  /\ pending' = Tail(pending)
  /\ Awaited("inject")
  /\ UNCHANGED <<aborted, queues, context, more, skipPoll, turn, tools, orphans>>

\* A drained message enters the transcript and the context.
Inject ==
  /\ pc = "inject" /\ pending # <<>>
  /\ messages' = Append(messages, Head(pending))
  /\ context' = Append(context, Head(pending))
  /\ pending' = Tail(pending)
  /\ Awaited("inject")
  /\ UNCHANGED <<aborted, queues, more, skipPoll, turn, tools, orphans>>

\* The model is called with the context and the signal.
CallModel ==
  /\ pc = "inject" /\ pending = <<>>
  /\ pc' = IF aborted THEN "aborting" ELSE "streaming"
  /\ UNCHANGED <<aborted, queues, messages, context, pending, more, skipPoll, turn,
                 tools, orphans, faults>>

\* Where the loop goes with n tool calls and a stop reason.
AfterResponse(n, stop) ==
  IF stop # "ok" THEN "agentEnd" ELSE IF n = 0 THEN "turnEnd" ELSE "calls"

\* How the calls of a response can run: one by one if the loop is configured so
\* or if a tool that is called asks for it.
Modes(n) ==
  IF ToolExecution = "sequential" THEN {TRUE} ELSE IF n = 0 THEN {FALSE} ELSE BOOLEAN

\* The response is complete.  A provider called with a raised signal answers
\* "aborted"; one that is aborted while it streams may have finished before.
\* A response that failed ends the run and its tool calls are not executed.
Respond ==
  \E n \in 0..MaxCalls, stop \in {"ok", "error", "aborted"} :
    /\ pc \in {"streaming", "aborting"}
    /\ pc = "aborting" => stop = "aborted"
    /\ stop = "aborted" => aborted
    /\ n > 0 => turn < MaxTurns
    /\ turn' = turn + 1
    /\ messages' = Append(messages, Assistant(turn + 1, n, stop))
    /\ context' = Append(context, Assistant(turn + 1, n, stop))
    /\ called' = n /\ sequential' \in Modes(n)
    /\ next' = 1 /\ results' = 0 /\ terminators' = {}
    /\ status' = [c \in Calls |-> "none"]
    /\ more' = FALSE
    /\ Awaited(AfterResponse(n, stop))
    /\ UNCHANGED <<aborted, queues, pending, skipPoll, pendingToolCalls, orphans>>

\* turn_end; Agent passes no hook that changes the context or stops the run.
TurnEnd ==
  /\ pc = "turnEnd"
  /\ Awaited("poll")
  /\ UNCHANGED <<aborted, queues, messages, context, pending, more, skipPoll, turn,
                 tools, orphans>>

\* getFollowUpMessages(), when the agent would stop.
PollFollowUp ==
  /\ pc = "followUp"
  /\ pending' = Drained(followUp, FollowUpMode)
  /\ followUp' = Left(followUp, FollowUpMode)
  /\ pc' = IF pending' # <<>> THEN "inject" ELSE "agentEnd"
  /\ UNCHANGED <<aborted, steering, sent, cleared, messages, context, more, skipPoll,
                 turn, tools, orphans, faults>>

AgentEnd ==
  /\ pc = "agentEnd"
  /\ Awaited("finish")
  /\ UNCHANGED <<aborted, queues, messages, context, pending, more, skipPoll, turn,
                 tools, orphans>>

------------------------------------------------------------------------------
(* Tool calls: executeToolCallsSequential and executeToolCallsParallel.    *)
(* Calls are prepared one by one in source order; in parallel mode those   *)
(* that passed start together once all are prepared.                       *)

Id(c) == [turn |-> turn, call |-> c]

StartCall ==
  /\ pc = "calls" /\ status[next] = "none"
  /\ status' = [status EXCEPT ![next] = "started"]
  /\ pendingToolCalls' = pendingToolCalls \union {Id(next)}
  /\ Awaited("calls")
  /\ UNCHANGED <<aborted, queues, messages, context, pending, more, skipPoll, turn,
                 called, sequential, next, terminators, results, orphans>>

\* prepareToolCall: the tool is missing, its arguments are invalid, a hook
\* blocks the call or the run is aborted; or else the call may execute.
Refuse ==
  /\ pc = "calls" /\ status[next] = "started"
  /\ status' = [status EXCEPT ![next] = "immediate"]
  /\ UNCHANGED <<pc, aborted, queues, messages, context, pending, more, skipPoll,
                 turn, called, sequential, next, terminators, results, pendingToolCalls,
                 orphans, faults>>

Prepare ==
  /\ pc = "calls" /\ status[next] = "started" /\ ~aborted
  /\ status' = [status EXCEPT ![next] = "prepared"]
  /\ UNCHANGED <<pc, aborted, queues, messages, context, pending, more, skipPoll,
                 turn, called, sequential, next, terminators, results, pendingToolCalls,
                 orphans, faults>>

\* Mistaken variant: the calls after the first prepared one are forgotten.
StartsAlone == TRUE

\* No call is prepared after this one: they run one by one, or it is the last,
\* or the run was aborted.
StartsNow == sequential \/ next >= called \/ aborted

\* After a prepared call comes the next one, or the execution of those prepared.
AfterPrepared ==
  /\ pc = "calls" /\ status[next] = "prepared"
  /\ \/ StartsNow /\ pc' = "executing" /\ next' = next
     \/ ~StartsNow /\ pc' = pc /\ next' = next + 1
  /\ UNCHANGED <<aborted, queues, messages, context, pending, more, skipPoll, turn,
                 called, sequential, status, terminators, results, pendingToolCalls, orphans,
                 faults>>

\* The end of a refused call.  In parallel mode an abort skips the calls after
\* it; in sequential mode its result message comes first.
EndRefused ==
  /\ pc = "calls" /\ status[next] = "immediate"
  /\ status' = [status EXCEPT ![next] = "ended"]
  /\ pendingToolCalls' = pendingToolCalls \ {Id(next)}
  /\ \/ StartsNow /\ next' = next /\ Awaited("executing")
     \/ ~StartsNow /\ next' = next + 1 /\ Awaited("calls")
  /\ UNCHANGED <<aborted, queues, messages, context, pending, more, skipPoll, turn,
                 called, sequential, terminators, results, orphans>>

\* The tool returns or throws and afterToolCall has seen the result.
ToolReturns(c) ==
  /\ pc = "executing" /\ status[c] = "prepared"
  /\ status' = [status EXCEPT ![c] = "returned"]
  /\ terminators' \in {terminators, terminators \union {c}}
  /\ UNCHANGED <<pc, aborted, queues, messages, context, pending, more, skipPoll,
                 turn, called, sequential, next, results, pendingToolCalls, orphans, faults>>

\* Its tool_execution_end.  A listener that throws rejects Promise.all at once
\* and the calls still running become orphans.
EndCall(c) ==
  /\ pc = "executing" /\ status[c] = "returned"
  /\ status' = [status EXCEPT ![c] = "ended"]
  /\ pendingToolCalls' = pendingToolCalls \ {Id(c)}
  /\ \/ pc' = "executing" /\ UNCHANGED <<orphans, faults>>
     \/ Throw /\ orphans' = orphans \union LeftRunning(c)
  /\ UNCHANGED <<aborted, queues, messages, context, pending, more, skipPoll, turn,
                 called, sequential, next, terminators, results>>

\* A listener threw on an update of the tool: once the tool has settled its
\* task rejects, without a tool_execution_end.
CallRejects(c) ==
  /\ pc = "executing" /\ status[c] = "returned"
  /\ Throw
  /\ orphans' = orphans \union LeftRunning(c)
  /\ UNCHANGED <<aborted, queues, messages, context, pending, more, skipPoll, turn,
                 tools>>

\* Mistaken variant: calls that an abort skipped are waited for.
BatchEndedAll == \A c \in 1..called : status[c] = "ended"

\* The results are emitted when every call begun has ended.
BatchEnded == \A c \in Calls : status[c] \in {"none", "ended"}

\* Mistaken variant: the last result first.
LastResult == next - results

\* The call whose result comes next.
NextResult == results + 1

\* A sequential batch goes on with the next call unless it was aborted.
MoreCalls == sequential /\ next < called /\ ~aborted

\* One result message, in the order of the calls.  After the last one the
\* context gets them all, and the turn asks for another unless every result
\* says terminate.
EmitResult ==
  /\ pc = "executing" /\ BatchEnded
  /\ messages' = Append(messages, ToolResult(turn, NextResult))
  /\ results' = results + 1
  /\ \/ /\ results' < next
        /\ Awaited("executing")
        /\ UNCHANGED <<context, more, next>>
     \/ /\ results' >= next /\ MoreCalls
        /\ Awaited("calls")
        /\ next' = next + 1
        /\ UNCHANGED <<context, more>>
     \/ /\ results' >= next /\ ~MoreCalls
        /\ Awaited("turnEnd")
        /\ context' = context \o Results(turn, next)
        /\ more' = ~(1..next \subseteq terminators)
        /\ UNCHANGED next
  /\ UNCHANGED <<aborted, queues, pending, skipPoll, turn, called, sequential, status,
                 terminators, pendingToolCalls, orphans>>

\* A listener of the result's message_start throws.
ResultThrows ==
  /\ pc = "executing" /\ BatchEnded
  /\ Throw
  /\ UNCHANGED <<aborted, queues, messages, context, pending, more, skipPoll, turn,
                 tools, orphans>>

\* An orphan finishes.  Its tool_execution_end is reduced, and reaches the
\* listeners if any run is active then; with none processEvents throws and the
\* rejected Promise.all swallows it.
OrphanEnds(o) ==
  /\ o \in orphans
  /\ orphans' = orphans \ {o}
  /\ pendingToolCalls' = pendingToolCalls \ {o}
  /\ UNCHANGED <<pc, aborted, queues, messages, context, pending, more, skipPoll,
                 turn, called, sequential, next, status, terminators, results, faults>>

\* It may instead reject without one: an update of it came when no run was
\* active, or met a listener that threw.
OrphanRejects(o) ==
  /\ o \in orphans
  /\ orphans' = orphans \ {o}
  /\ UNCHANGED <<pc, aborted, queues, messages, context, pending, more, skipPoll,
                 turn, tools, faults>>

------------------------------------------------------------------------------
Loop ==
  \/ Begin \/ EmitPrompt \/ PollSteering \/ Inject \/ CallModel \/ Respond
  \/ StartCall \/ Refuse \/ Prepare \/ AfterPrepared \/ EndRefused \/ EmitResult
  \/ TurnEnd \/ PollFollowUp \/ AgentEnd
  \/ FailureMessage \/ FailureEnd \/ FinishRun

Tool(c) == ToolReturns(c) \/ EndCall(c) \/ CallRejects(c)

Caller ==
  \/ Prompt \/ ContinueQueued \/ ContinueTranscript \/ DropFailed
  \/ Steer \/ FollowUp \/ ClearQueues \/ Abort

Next ==
  \/ Loop \/ Caller \/ RunThrows \/ ResultThrows \/ FailureUnseen
  \/ \E c \in Calls : Tool(c)
  \/ \E o \in orphans : OrphanEnds(o) \/ OrphanRejects(o)
  \/ pc = "idle" /\ UNCHANGED vars

\* Listeners, the model and the tools settle in the end; callers need not act.
Fairness == WF_vars(Loop) /\ \A c \in Calls : WF_vars(Tool(c))

Spec == Init /\ [][Next]_vars /\ Fairness
------------------------------------------------------------------------------
(* Properties *)

UserMessages == [role : {"user"}, id : 1..MaxMsgs, via : {"prompt", "steer", "followUp"}]
Message == UserMessages
  \union [role : {"assistant"}, turn : Nat, calls : 0..MaxCalls,
          stop : {"ok", "error", "aborted"}]
  \union [role : {"toolResult"}, turn : Nat, call : Nat]

ControlOK ==
  /\ pc \in {"idle", "begin", "prompting", "poll", "inject", "streaming", "aborting",
             "calls", "executing", "turnEnd", "followUp", "agentEnd", "failing",
             "failureEnd", "finish"}
  /\ aborted \in BOOLEAN /\ more \in BOOLEAN /\ skipPoll \in BOOLEAN
  /\ faults \in 0..MaxFaults

QueuesOK ==
  /\ steering \in Seq(UserMessages) /\ followUp \in Seq(UserMessages)
  /\ pending \in Seq(UserMessages)
  /\ sent \in 0..MaxMsgs /\ cleared \subseteq 1..MaxMsgs

TranscriptOK ==
  /\ messages \in Seq(Message) /\ context \in Seq(Message)
  /\ turn \in Nat

ToolsOK ==
  /\ called \in 0..MaxCalls /\ sequential \in BOOLEAN /\ next \in Nat \ {0} /\ results \in Nat
  /\ status \in [Calls -> {"none", "started", "immediate", "prepared", "returned", "ended"}]
  /\ terminators \subseteq Calls
  /\ pendingToolCalls \subseteq [turn : Nat, call : Calls]
  /\ orphans \subseteq [turn : Nat, call : Calls]

TypeOK == ControlOK /\ QueuesOK /\ TranscriptOK /\ ToolsOK

\* The results of an assistant message follow it without a gap and in the
\* order of its calls, whatever the order they finish in, and whatever is
\* steered, aborted or fails meanwhile.
ResultsInOrder ==
  \A i \in DOMAIN messages :
    messages[i].role = "toolResult" =>
      /\ i > 1
      /\ LET m == messages[i]
             p == messages[i - 1]
         IN  IF m.call = 1
             THEN /\ p.role = "assistant" /\ p.turn = m.turn /\ p.stop = "ok"
                  /\ p.calls > 0
             ELSE p = ToolResult(m.turn, m.call - 1)

\* The model is never called in a live run while a call of the run's previous
\* turn has no result.
CallsAreAnswered ==
  pc = "streaming" =>
    \A c \in 1..called : ToolResult(turn, c) \in ToSet(messages)

\* The loop keeps its own copy of the transcript; when it calls the model the
\* two agree, although prompts, injected messages, responses and results reach
\* them at different steps.
ContextMirrorsTranscript ==
  pc \in {"streaming", "aborting"} => context = messages

Waiting(n) == {i \in DOMAIN steering : steering[i].id = n}
Following(n) == {i \in DOMAIN followUp : followUp[i].id = n}
InFlight(n) == {i \in DOMAIN pending : pending[i].id = n}
Delivered(n) == {i \in DOMAIN messages : messages[i].role = "user" /\ messages[i].id = n}
Copies(n) == Cardinality(Waiting(n)) + Cardinality(Following(n)) + Cardinality(InFlight(n))
             + Cardinality(Delivered(n)) + (IF n \in cleared THEN 1 ELSE 0)

\* No user message is ever in two places or delivered twice, and only a failed
\* run can lose one.
DeliveredOnce ==
  \A n \in 1..sent : Copies(n) <= 1 /\ (faults = 0 => Copies(n) = 1)

\* Messages sent the same way are delivered in the order they were sent.
DeliveredInOrder ==
  \A i, j \in DOMAIN messages :
    /\ i < j /\ messages[i].role = "user" /\ messages[j].role = "user"
    /\ messages[i].via = messages[j].via
    => messages[i].id < messages[j].id

\* The calls shown as pending are those started and not ended, and none is
\* shown when the agent is idle.
PendingCallsExact ==
  /\ active \/ pendingToolCalls = {}
  /\ pc \in {"failing", "failureEnd", "finish"} \/
     pendingToolCalls =
       {Id(c) : c \in {c \in Calls :
                         status[c] \in {"started", "immediate", "prepared", "returned"}}}

\* Every run ends: no abort, refusal or failure leaves it waiting for a call
\* that nobody runs.
RunEnds == active ~> ~active
=============================================================================
