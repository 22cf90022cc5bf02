--------------------------- MODULE AgentLoopProofs ---------------------------
(***************************************************************************)
(* Proofs about AgentLoop for every queue mode, tool mode and bound, and   *)
(* about the stream a run reads a response from (StreamReaders).           *)
(***************************************************************************)
EXTENDS AgentLoop, StreamReaders, SequenceTheorems, FiniteSetTheorems, TLAPS

USE LoopAssumption DEF LoopAssumption

\* How far the batch of tool calls is.
Batch ==
  /\ pc = "calls" =>
       /\ next \in 1..called
       /\ results = IF sequential THEN next - 1 ELSE 0
  /\ pc = "executing" => next \in 1..called /\ results < next

\* The last message while a batch runs.
LastOfBatch ==
  pc \in {"calls", "executing"} =>
    /\ messages # <<>>
    /\ messages[Len(messages)] =
         IF results = 0 THEN Assistant(turn, called, "ok") ELSE ToolResult(turn, results)

\* How the loop's context and the transcript differ at each await.
Contexts ==
  /\ pc \in {"begin", "prompting"} => context = messages \o pending
  /\ pc \in {"poll", "inject", "streaming", "aborting", "turnEnd", "followUp"} =>
       context = messages
  /\ pc \in {"calls", "executing"} => messages = context \o Results(turn, results)

\* Outside a batch no call is under way; inside one orphans are of earlier turns.
Tasks ==
  /\ pc \in {"calls", "executing", "failing", "failureEnd", "finish"} \/ BatchEnded
  /\ \A o \in orphans :
       o.turn <= turn /\ (pc \in {"calls", "executing"} => o.turn < turn)

------------------------------------------------------------------------------
(* Messages and queues *)

LEMMA MessageTypes ==
  /\ UserMessages \subseteq Message
  /\ \A t \in Nat, n \in 0..MaxCalls, stop \in {"ok", "error", "aborted"} :
       Assistant(t, n, stop) \in Message
  /\ \A t \in Nat, c \in Nat : ToolResult(t, c) \in Message
BY DEF Message, Assistant, ToolResult

LEMMA NewUserType ==
  ASSUME sent \in 0..MaxMsgs, sent < MaxMsgs, NEW via \in {"prompt", "steer", "followUp"}
  PROVE  User(sent + 1, via) \in UserMessages
BY DEF User, UserMessages

LEMMA DrainTypes ==
  ASSUME NEW q \in Seq(UserMessages), NEW mode
  PROVE  Drained(q, mode) \in Seq(UserMessages) /\ Left(q, mode) \in Seq(UserMessages)
BY EmptySeq, HeadTailProperties DEF Drained, Left

LEMMA UserSeqIsMessageSeq == Seq(UserMessages) \subseteq Seq(Message)
BY MessageTypes, SeqMonotonic

LEMMA ResultsType ==
  ASSUME NEW t \in Nat, NEW k \in Nat
  PROVE  Results(t, k) \in Seq(Message) /\ Len(Results(t, k)) = k
<1>1. Results(t, k) \in [1..k -> Message]
  BY MessageTypes DEF Results
<1>2. QED
  BY <1>1, SeqDef DEF Results

------------------------------------------------------------------------------
(* Type correctness, one group of variables at a time. *)

\* Where an awaited step leads.
LEMMA AwaitedTypes ==
  ASSUME ControlOK, NEW p, Awaited(p)
  PROVE  pc' \in {p, "failing"} /\ faults' \in 0..MaxFaults
BY DEF Awaited, Throw, ControlOK

LEMMA ControlStep == ASSUME ControlOK, [Next]_vars PROVE ControlOK'
<1> USE DEF ControlOK
<1>1. CASE Begin \/ EmitPrompt \/ Inject \/ TurnEnd \/ AgentEnd \/ StartCall \/ EndRefused
  BY <1>1, AwaitedTypes
     DEF Begin, EmitPrompt, Inject, TurnEnd, AgentEnd, StartCall, EndRefused
<1>2. CASE Respond
  BY <1>2, AwaitedTypes DEF Respond, AfterResponse
<1>3. CASE EmitResult
  BY <1>3, AwaitedTypes DEF EmitResult
<1>4. CASE PollSteering \/ CallModel \/ PollFollowUp
  BY <1>4 DEF PollSteering, CallModel, PollFollowUp
<1>12. CASE FailureMessage \/ FailureEnd \/ FinishRun
  <2>1. /\ aborted' \in BOOLEAN /\ more' \in BOOLEAN /\ skipPoll' \in BOOLEAN
    BY <1>12, Zenon DEF FailureMessage, FailureEnd, FinishRun
  <2>2. pc' \in {"idle", "failureEnd", "finish"} /\ faults' \in 0..MaxFaults
    BY <1>12 DEF FailureMessage, FailureEnd, FinishRun
  <2>3. QED
    BY <2>1, <2>2
<1>5. CASE Refuse \/ Prepare \/ AfterPrepared \/ RunThrows \/ ResultThrows \/ FailureUnseen
  BY <1>5 DEF Refuse, Prepare, AfterPrepared, StartsNow, RunThrows, ResultThrows,
              FailureUnseen, Throw
<1>6. CASE Prompt \/ ContinueQueued \/ ContinueTranscript \/ DropFailed
  BY <1>6 DEF Prompt, ContinueQueued, ContinueTranscript, DropFailed, StartRun
<1>7. CASE Steer \/ FollowUp \/ ClearQueues \/ Abort
  BY <1>7 DEF Steer, FollowUp, ClearQueues, Abort
<1>8. ASSUME NEW c \in Calls, Tool(c) PROVE ControlOK'
  BY <1>8 DEF Tool, ToolReturns, EndCall, CallRejects, Throw, tools
<1>9. ASSUME NEW o \in orphans, OrphanEnds(o) \/ OrphanRejects(o) PROVE ControlOK'
  BY <1>9 DEF OrphanEnds, OrphanRejects, tools
<1>10. CASE UNCHANGED vars
  BY <1>10 DEF vars
<1>11. QED
  BY <1>1, <1>2, <1>3, <1>4, <1>5, <1>6, <1>7, <1>8, <1>9, <1>10, <1>12
     DEF Next, Loop, Caller

LEMMA PendingTypes ==
  ASSUME QueuesOK, pending # <<>>
  PROVE  /\ Head(pending) \in Message /\ Head(pending) \in UserMessages
         /\ Tail(pending) \in Seq(UserMessages)
BY HeadTailProperties, MessageTypes DEF QueuesOK

LEMMA QueuesStep == ASSUME QueuesOK, [Next]_vars PROVE QueuesOK'
<1>0. /\ <<>> \in Seq(UserMessages)
      /\ \A mode : /\ Drained(steering, mode) \in Seq(UserMessages)
                   /\ Left(steering, mode) \in Seq(UserMessages)
                   /\ Drained(followUp, mode) \in Seq(UserMessages)
                   /\ Left(followUp, mode) \in Seq(UserMessages)
  BY EmptySeq, DrainTypes DEF QueuesOK
<1>1. CASE EmitPrompt \/ Inject
  BY <1>1, PendingTypes DEF EmitPrompt, Inject, queues, QueuesOK
<1>2. CASE PollSteering \/ PollFollowUp \/ FailureMessage \/ FinishRun
  BY <1>2, <1>0 DEF PollSteering, PollFollowUp, FailureMessage, FinishRun, queues, QueuesOK
<1>3. CASE Prompt
  <2>1. User(sent + 1, "prompt") \in UserMessages
    BY <1>3, NewUserType DEF Prompt, QueuesOK
  <2>2. QED
    BY <1>3, <2>1 DEF Prompt, StartRun, QueuesOK
<1>4. CASE ContinueQueued \/ ContinueTranscript
  BY <1>4, <1>0 DEF ContinueQueued, ContinueTranscript, StartRun, queues, QueuesOK
<1>5. CASE Steer
  <2>1. User(sent + 1, "steer") \in UserMessages
    BY <1>5, NewUserType DEF Steer, QueuesOK
  <2>2. QED
    BY <1>5, <2>1 DEF Steer, QueuesOK
<1>6. CASE FollowUp
  <2>1. User(sent + 1, "followUp") \in UserMessages
    BY <1>6, NewUserType DEF FollowUp, QueuesOK
  <2>2. QED
    BY <1>6, <2>1 DEF FollowUp, QueuesOK
<1>7. CASE ClearQueues
  <2>1. ToSet(steering) \union ToSet(followUp) \subseteq UserMessages
    BY ElementOfSeq, LenProperties DEF QueuesOK, ToSet
  <2>2. {m.id : m \in ToSet(steering) \union ToSet(followUp)} \subseteq 1..MaxMsgs
    BY <2>1 DEF UserMessages
  <2>3. QED
    BY <1>7, <1>0, <2>2 DEF ClearQueues, QueuesOK
<1>8. CASE Abort \/ DropFailed \/ Begin \/ CallModel \/ Respond \/ TurnEnd \/ AgentEnd
           \/ FailureEnd \/ StartCall \/ Refuse \/ Prepare \/ AfterPrepared \/ EndRefused
           \/ EmitResult \/ RunThrows \/ ResultThrows \/ FailureUnseen
  BY <1>8 DEF Abort, DropFailed, Begin, CallModel, Respond, TurnEnd, AgentEnd,
              FailureEnd, StartCall, Refuse, Prepare, AfterPrepared, StartsNow, EndRefused,
              EmitResult, RunThrows, ResultThrows, FailureUnseen, queues, QueuesOK
<1>9. ASSUME NEW c \in Calls, Tool(c) PROVE QueuesOK'
  BY <1>9 DEF Tool, ToolReturns, EndCall, CallRejects, Throw, queues, QueuesOK
<1>10. ASSUME NEW o \in orphans, OrphanEnds(o) \/ OrphanRejects(o) PROVE QueuesOK'
  BY <1>10 DEF OrphanEnds, OrphanRejects, queues, QueuesOK
<1>11. CASE UNCHANGED vars
  BY <1>11 DEF vars, queues, QueuesOK
<1>12. QED
  BY <1>1, <1>2, <1>3, <1>4, <1>5, <1>6, <1>7, <1>8, <1>9, <1>10, <1>11
     DEF Next, Loop, Caller

LEMMA FrontType ==
  ASSUME NEW s \in Seq(Message), s # <<>>
  PROVE  /\ Front(s) \in Seq(Message) /\ Len(Front(s)) = Len(s) - 1
         /\ \A i \in 1..(Len(s) - 1) : Front(s)[i] = s[i]
<1>1. Len(s) \in Nat /\ Len(s) > 0
  BY EmptySeq, LenProperties
<1> DEFINE n == Len(s) - 1
<1>2. n \in Nat /\ \A i \in 1..n : s[i] \in Message
  BY <1>1, ElementOfSeq
<1> HIDE DEF n
<1>3. SubSeq(s, 1, n) \in Seq(Message)
  BY <1>2, SubSeqProperties
<1>4. Len(SubSeq(s, 1, n)) = n /\ \A i \in 1..n : SubSeq(s, 1, n)[i] = s[i]
  <2>1. /\ Len(SubSeq(s, 1, n)) = IF 1 <= n THEN n - 1 + 1 ELSE 0
        /\ \A i \in 1..(n - 1 + 1) : SubSeq(s, 1, n)[i] = s[1 + i - 1]
    BY <1>2, SubSeqProperties
  <2>2. n - 1 + 1 = n /\ (\A i \in 1..n : 1 + i - 1 = i) /\ (~(1 <= n) => n = 0)
    BY <1>2
  <2>3. QED
    BY <2>1, <2>2
<1>5. QED
  BY <1>1, <1>2, <1>3, <1>4 DEF Front, n

LEMMA TranscriptStep ==
  ASSUME QueuesOK, TranscriptOK, ToolsOK, [Next]_vars PROVE TranscriptOK'
<1> USE DEF TranscriptOK
<1>1. CASE EmitPrompt \/ Inject
  <2>1. Head(pending) \in Message
    BY <1>1, PendingTypes DEF EmitPrompt, Inject
  <2>2. /\ messages' = Append(messages, Head(pending)) /\ turn' = turn
        /\ context' \in {context, Append(context, Head(pending))}
    BY <1>1 DEF EmitPrompt, Inject
  <2>3. QED
    BY <2>1, <2>2
<1>2. CASE Respond
  <2>1. PICK n \in 0..MaxCalls, stop \in {"ok", "error", "aborted"} :
          /\ turn' = turn + 1
          /\ messages' = Append(messages, Assistant(turn + 1, n, stop))
          /\ context' = Append(context, Assistant(turn + 1, n, stop))
    BY <1>2 DEF Respond
  <2>2. Assistant(turn + 1, n, stop) \in Message /\ turn + 1 \in Nat
    BY MessageTypes
  <2>3. QED
    BY <2>1, <2>2
<1>3. CASE FailureMessage
  <2>1. turn + 1 \in Nat /\ 0 \in 0..MaxCalls
    OBVIOUS
  <2>2. \A stop \in {"ok", "error", "aborted"} : Assistant(turn + 1, 0, stop) \in Message
    BY <2>1, MessageTypes
  <2>3. QED
    BY <1>3, <2>2 DEF FailureMessage
<1>4. CASE EmitResult
  <2>1. ToolResult(turn, NextResult) \in Message
    BY MessageTypes DEF NextResult, ToolsOK
  <2>2. context \o Results(turn, next) \in Seq(Message)
    BY ResultsType, ConcatProperties DEF ToolsOK
  <2>3. /\ messages' = Append(messages, ToolResult(turn, NextResult)) /\ turn' = turn
        /\ context' \in {context, context \o Results(turn, next)}
    BY <1>4 DEF EmitResult
  <2>4. messages' \in Seq(Message)
    BY <2>1, <2>3
  <2>5. context' \in Seq(Message)
    BY <2>2, <2>3
  <2>6. QED
    BY <2>3, <2>4, <2>5
<1>5. CASE Prompt
  <2>1. <<User(sent + 1, "prompt")>> \in Seq(Message)
    BY <1>5, NewUserType, MessageTypes DEF Prompt, QueuesOK
  <2>2. messages \o <<User(sent + 1, "prompt")>> \in Seq(Message)
    BY <2>1, ConcatProperties
  <2>3. QED
    BY <1>5, <2>2 DEF Prompt, StartRun
<1>6. CASE ContinueQueued
  <2>1. /\ messages \o Drained(steering, SteeringMode) \in Seq(Message)
        /\ messages \o Drained(followUp, FollowUpMode) \in Seq(Message)
    BY DrainTypes, UserSeqIsMessageSeq, ConcatProperties DEF QueuesOK
  <2>2. QED
    BY <1>6, <2>1 DEF ContinueQueued, StartRun
<1>7. CASE ContinueTranscript
  BY <1>7, ConcatEmptySeq DEF ContinueTranscript, StartRun
<1>8. CASE FinishRun
  BY <1>8, EmptySeq DEF FinishRun
<1>14. CASE DropFailed
  <2>1. Front(messages) \in Seq(Message)
    BY <1>14, FrontType DEF DropFailed
  <2>2. QED
    BY <1>14, <2>1 DEF DropFailed
<1>9. CASE Steer \/ FollowUp \/ ClearQueues \/ Abort \/ Begin \/ PollSteering \/ CallModel
           \/ TurnEnd \/ PollFollowUp \/ AgentEnd \/ FailureEnd \/ StartCall \/ Refuse
           \/ Prepare \/ AfterPrepared \/ EndRefused \/ RunThrows \/ ResultThrows \/ FailureUnseen
  BY <1>9 DEF Steer, FollowUp, ClearQueues, Abort, Begin, PollSteering, CallModel, TurnEnd,
              PollFollowUp, AgentEnd, FailureEnd, StartCall, Refuse, Prepare, AfterPrepared,
              StartsNow, EndRefused, RunThrows, ResultThrows, FailureUnseen
<1>10. ASSUME NEW c \in Calls, Tool(c) PROVE TranscriptOK'
  BY <1>10 DEF Tool, ToolReturns, EndCall, CallRejects, Throw, tools
<1>11. ASSUME NEW o \in orphans, OrphanEnds(o) \/ OrphanRejects(o) PROVE TranscriptOK'
  BY <1>11 DEF OrphanEnds, OrphanRejects, tools
<1>12. CASE UNCHANGED vars
  BY <1>12 DEF vars
<1>13. QED
  BY <1>1, <1>2, <1>3, <1>4, <1>5, <1>6, <1>7, <1>8, <1>9, <1>10, <1>11, <1>12,
     <1>14 DEF Next, Loop, Caller

LEMMA ToolsStep ==
  ASSUME TranscriptOK, ToolsOK, Batch, [Next]_vars PROVE ToolsOK'
<1> USE DEF ToolsOK
<1>1. CASE StartCall
  <2>1. Id(next) \in [turn : Nat, call : Calls]
    BY <1>1 DEF StartCall, Batch, Id, Calls, TranscriptOK
  <2>2. QED
    BY <1>1, <2>1 DEF StartCall
<1>2. CASE Respond
  <2>1. PICK n \in 0..MaxCalls, stop \in {"ok", "error", "aborted"} :
          called' = n /\ sequential' \in Modes(n)
    BY <1>2 DEF Respond
  <2>2. sequential' \in BOOLEAN
    BY <2>1 DEF Modes
  <2>3. QED
    BY <1>2, <2>1, <2>2 DEF Respond
<1>3. CASE Refuse \/ Prepare \/ AfterPrepared \/ EndRefused \/ EmitResult
  BY <1>3 DEF Refuse, Prepare, AfterPrepared, StartsNow, EndRefused, EmitResult
<1>4. CASE FinishRun
  <2>1. sequential' \in BOOLEAN
    BY <1>4, Zenon DEF FinishRun
  <2>2. QED
    BY <1>4, <2>1 DEF FinishRun
<1>5. ASSUME NEW c \in Calls, Tool(c) PROVE ToolsOK'
  <2>1. LeftRunning(c) \subseteq [turn : Nat, call : Calls]
    BY DEF LeftRunning, TranscriptOK
  <2>2. QED
    BY <1>5, <2>1 DEF Tool, ToolReturns, EndCall, CallRejects, Throw, tools
<1>6. ASSUME NEW o \in orphans, OrphanEnds(o) \/ OrphanRejects(o) PROVE ToolsOK'
  BY <1>6 DEF OrphanEnds, OrphanRejects, tools
<1>7. CASE Prompt \/ ContinueQueued \/ ContinueTranscript \/ DropFailed
  BY <1>7 DEF Prompt, ContinueQueued, ContinueTranscript, DropFailed, StartRun, tools
<1>8. CASE Steer \/ FollowUp \/ ClearQueues \/ Abort \/ Begin \/ EmitPrompt \/ PollSteering
           \/ Inject \/ CallModel \/ TurnEnd \/ PollFollowUp \/ AgentEnd \/ FailureMessage
           \/ FailureEnd \/ RunThrows \/ ResultThrows \/ FailureUnseen
  BY <1>8 DEF Steer, FollowUp, ClearQueues, Abort, Begin, EmitPrompt, PollSteering, Inject,
              CallModel, TurnEnd, PollFollowUp, AgentEnd, FailureMessage, FailureEnd,
              RunThrows, ResultThrows, FailureUnseen, tools
<1>9. CASE UNCHANGED vars
  BY <1>9 DEF vars, tools
<1>10. QED
  BY <1>1, <1>2, <1>3, <1>4, <1>5, <1>6, <1>7, <1>8, <1>9 DEF Next, Loop, Caller

\* The progress of a batch; it is what types the call being started.
LEMMA BatchStep ==
  ASSUME ControlOK, ToolsOK, Batch, [Next]_vars PROVE Batch'
<1> USE DEF Batch
<1>1. CASE Respond
  <2>1. PICK n \in 0..MaxCalls, stop \in {"ok", "error", "aborted"} :
          /\ called' = n /\ next' = 1 /\ results' = 0
          /\ pc' \in {AfterResponse(n, stop), "failing"}
    BY <1>1, AwaitedTypes DEF Respond
  <2>2. QED
    BY <2>1 DEF AfterResponse
<1>2. CASE EmitResult
  <2>1. pc = "executing" /\ next \in 1..called /\ results < next
    BY <1>2 DEF EmitResult
  <2>2. \/ results' < next /\ next' = next /\ pc' \in {"executing", "failing"}
        \/ /\ results' >= next /\ next < called /\ next' = next + 1
           /\ sequential /\ pc' \in {"calls", "failing"}
        \/ pc' \in {"turnEnd", "failing"}
    BY <1>2, AwaitedTypes DEF EmitResult, MoreCalls
  <2>3. results' = results + 1 /\ called' = called /\ sequential' = sequential
    BY <1>2 DEF EmitResult
  <2>4. QED
    BY <2>1, <2>2, <2>3 DEF ToolsOK
<1>3. CASE StartCall \/ Refuse \/ Prepare \/ AfterPrepared \/ EndRefused
  <2>1. pc = "calls" /\ UNCHANGED <<called, sequential, results>>
    BY <1>3 DEF StartCall, Refuse, Prepare, AfterPrepared, StartsNow, EndRefused
  <2>2. \/ next' = next /\ pc' \in {"calls", "executing", "failing"}
        \/ /\ ~sequential /\ next < called
           /\ next' = next + 1 /\ pc' \in {"calls", "failing"}
    <3>1. CASE StartCall \/ Refuse \/ Prepare
      BY <3>1, AwaitedTypes DEF StartCall, Refuse, Prepare
    <3>2. ~StartsNow => ~sequential /\ next < called
      BY DEF StartsNow, ToolsOK
    <3>3. CASE AfterPrepared \/ EndRefused
      BY <3>2, <3>3, AwaitedTypes DEF AfterPrepared, EndRefused
    <3>4. QED
      BY <1>3, <3>1, <3>3
  <2>3. QED
    BY <2>1, <2>2 DEF ToolsOK
<1>4. CASE Begin \/ EmitPrompt \/ PollSteering \/ Inject \/ CallModel \/ TurnEnd
           \/ PollFollowUp \/ AgentEnd \/ FailureMessage \/ FailureEnd \/ FinishRun
           \/ RunThrows \/ ResultThrows \/ FailureUnseen
  <2>1. pc' \notin {"calls", "executing"}
    BY <1>4, AwaitedTypes
       DEF Begin, EmitPrompt, PollSteering, Inject, CallModel, TurnEnd, PollFollowUp,
           AgentEnd, FailureMessage, FailureEnd, FinishRun, RunThrows, ResultThrows,
           FailureUnseen, Throw
  <2>2. QED
    BY <2>1
<1>5. CASE Prompt \/ ContinueQueued \/ ContinueTranscript \/ DropFailed
  BY <1>5 DEF Prompt, ContinueQueued, ContinueTranscript, DropFailed, StartRun, active
<1>6. CASE Steer \/ FollowUp \/ ClearQueues \/ Abort
  BY <1>6 DEF Steer, FollowUp, ClearQueues, Abort, tools
<1>7. ASSUME NEW c \in Calls, Tool(c) PROVE Batch'
  BY <1>7 DEF Tool, ToolReturns, EndCall, CallRejects, Throw, tools
<1>8. ASSUME NEW o \in orphans, OrphanEnds(o) \/ OrphanRejects(o) PROVE Batch'
  BY <1>8 DEF OrphanEnds, OrphanRejects, tools
<1>9. CASE UNCHANGED vars
  BY <1>9 DEF vars, tools
<1>10. QED
  BY <1>1, <1>2, <1>3, <1>4, <1>5, <1>6, <1>7, <1>8, <1>9 DEF Next, Loop, Caller

LEMMA InitTypes == Init => TypeOK /\ Batch
<1> SUFFICES ASSUME Init PROVE TypeOK /\ Batch
  OBVIOUS
<1>1. ControlOK
  <2>1. /\ aborted \in BOOLEAN /\ more \in BOOLEAN /\ skipPoll \in BOOLEAN
    BY Zenon DEF Init
  <2>2. pc = "idle" /\ faults \in 0..MaxFaults
    BY DEF Init
  <2>3. QED
    BY <2>1, <2>2 DEF ControlOK
<1>2. QueuesOK /\ TranscriptOK
  BY EmptySeq DEF Init, QueuesOK, TranscriptOK
<1>3. ToolsOK /\ Batch
  <2>1. sequential \in BOOLEAN
    BY Zenon DEF Init
  <2>2. QED
    BY <2>1 DEF Init, ToolsOK, Batch
<1>4. QED
  BY <1>1, <1>2, <1>3 DEF TypeOK

LEMMA BatchInvariant == Spec => [](TypeOK /\ Batch)
<1>1. TypeOK /\ Batch /\ [Next]_vars => (TypeOK /\ Batch)'
  BY ControlStep, QueuesStep, TranscriptStep, ToolsStep, BatchStep DEF TypeOK
<1>2. QED
  BY <1>1, InitTypes, PTL DEF Spec

\* Every variable keeps its type, whatever the interleaving of the run, its
\* tools and its callers.
THEOREM TypeCorrect == Spec => []TypeOK
BY BatchInvariant, PTL

------------------------------------------------------------------------------
(* The order of the results *)

LEMMA LastOfAppend ==
  ASSUME NEW s \in Seq(Message), NEW m \in Message
  PROVE  /\ Append(s, m) # <<>>
         /\ Append(s, m)[Len(Append(s, m))] = m
BY AppendProperties

\* What a message may follow for the results to stay in order.
Follows(m) ==
  m.role = "toolResult" =>
    /\ messages # <<>>
    /\ LET p == messages[Len(messages)]
       IN  IF m.call = 1
           THEN p.role = "assistant" /\ p.turn = m.turn /\ p.stop = "ok" /\ p.calls > 0
           ELSE p = ToolResult(m.turn, m.call - 1)

LEMMA OrderOfAppend ==
  ASSUME TranscriptOK, ResultsInOrder, NEW m \in Message, Follows(m),
         messages' = Append(messages, m)
  PROVE  ResultsInOrder'
<1>1. /\ DOMAIN messages = 1..Len(messages) /\ DOMAIN messages' = 1..(Len(messages) + 1)
      /\ messages'[Len(messages) + 1] = m /\ Len(messages) \in Nat
      /\ \A i \in 1..Len(messages) : messages'[i] = messages[i]
  BY AppendProperties, LenProperties DEF TranscriptOK
<1>2. SUFFICES ASSUME NEW i \in DOMAIN messages', messages'[i].role = "toolResult"
               PROVE  /\ i > 1
                      /\ LET q == messages'[i]
                             p == messages'[i - 1]
                         IN  IF q.call = 1
                             THEN /\ p.role = "assistant" /\ p.turn = q.turn
                                  /\ p.stop = "ok" /\ p.calls > 0
                             ELSE p = ToolResult(q.turn, q.call - 1)
  BY DEF ResultsInOrder
<1>3. CASE i \in 1..Len(messages)
  <2>1. messages'[i] = messages[i] /\ i \in DOMAIN messages
    BY <1>1, <1>3
  <2>2. i > 1
    BY <1>2, <2>1 DEF ResultsInOrder
  <2>3. messages'[i - 1] = messages[i - 1]
    BY <1>1, <1>3, <2>2
  <2>4. QED
    BY <1>2, <2>1, <2>2, <2>3 DEF ResultsInOrder
<1>4. CASE i = Len(messages) + 1
  <2>1. messages'[i] = m /\ messages # <<>>
    BY <1>1, <1>2, <1>4 DEF Follows
  <2>2. Len(messages) > 0
    BY <2>1, EmptySeq DEF TranscriptOK
  <2>3. messages'[i - 1] = messages[Len(messages)] /\ i > 1
    <3>1. i - 1 = Len(messages) /\ Len(messages) \in 1..Len(messages)
      BY <1>1, <1>4, <2>2
    <3>2. QED
      BY <1>1, <2>2, <1>4, <3>1
  <2>4. QED
    BY <1>2, <2>1, <2>3 DEF Follows
<1>5. QED
  BY <1>1, <1>3, <1>4

LEMMA OrderStep ==
  ASSUME TypeOK, Batch, LastOfBatch, ResultsInOrder, [Next]_vars
  PROVE  (LastOfBatch /\ ResultsInOrder)'
<1> USE DEF TypeOK, TranscriptOK, ToolsOK
<1>1. CASE EmitPrompt \/ Inject
  <2>1. Head(pending) \in Message /\ Head(pending).role = "user"
    BY <1>1, PendingTypes DEF EmitPrompt, Inject, UserMessages
  <2>2. messages' = Append(messages, Head(pending)) /\ Follows(Head(pending))
    BY <1>1, <2>1 DEF EmitPrompt, Inject, Follows
  <2>3. pc' \notin {"calls", "executing"}
    BY <1>1, AwaitedTypes DEF EmitPrompt, Inject
  <2>4. QED
    BY <2>1, <2>2, <2>3, OrderOfAppend DEF LastOfBatch
<1>2. CASE Respond
  <2>1. PICK n \in 0..MaxCalls, stop \in {"ok", "error", "aborted"} :
          /\ messages' = Append(messages, Assistant(turn + 1, n, stop)) /\ turn' = turn + 1
          /\ called' = n /\ results' = 0 /\ pc' \in {AfterResponse(n, stop), "failing"}
    BY <1>2, AwaitedTypes DEF Respond
  <2>2. Assistant(turn + 1, n, stop) \in Message
    BY MessageTypes
  <2>3. Follows(Assistant(turn + 1, n, stop))
    BY DEF Follows, Assistant
  <2>4. ResultsInOrder'
    BY <2>1, <2>2, <2>3, OrderOfAppend
  <2>5. pc' = "calls" => stop = "ok"
    BY <2>1 DEF AfterResponse
  <2>6. messages' # <<>> /\ messages'[Len(messages')] = Assistant(turn + 1, n, stop)
    BY <2>1, <2>2, LastOfAppend
  <2>7. pc' # "executing"
    BY <2>1 DEF AfterResponse
  <2>8. QED
    BY <2>1, <2>4, <2>5, <2>6, <2>7 DEF LastOfBatch
<1>3. CASE FailureMessage
  <2>1. \E stop \in {"ok", "error", "aborted"} :
           messages' = Append(messages, Assistant(turn + 1, 0, stop))
    BY <1>3 DEF FailureMessage
  <2>2. turn + 1 \in Nat /\ 0 \in 0..MaxCalls
    OBVIOUS
  <2>3. \A stop \in {"ok", "error", "aborted"} :
           Assistant(turn + 1, 0, stop) \in Message /\ Follows(Assistant(turn + 1, 0, stop))
    BY <2>2, MessageTypes DEF Follows, Assistant
  <2>4. pc' \notin {"calls", "executing"}
    BY <1>3 DEF FailureMessage
  <2>5. QED
    BY <2>1, <2>3, <2>4, OrderOfAppend DEF LastOfBatch
<1>4. CASE EmitResult
  <2>1. /\ messages' = Append(messages, ToolResult(turn, results + 1))
        /\ turn' = turn /\ results' = results + 1 /\ pc = "executing"
    BY <1>4 DEF EmitResult, NextResult
  <2>2. ToolResult(turn, results + 1) \in Message
    BY MessageTypes
  <2>3. called > 0
    BY <2>1 DEF Batch
  <2>4. Follows(ToolResult(turn, results + 1))
    BY <2>1, <2>3 DEF Follows, LastOfBatch, ToolResult, Assistant
  <2>5. ResultsInOrder'
    BY <2>1, <2>2, <2>4, OrderOfAppend
  <2>6. messages' # <<>> /\ messages'[Len(messages')] = ToolResult(turn, results + 1)
    BY <2>1, <2>2, LastOfAppend
  <2>7. QED
    BY <2>1, <2>5, <2>6 DEF LastOfBatch
<1>5. CASE StartCall \/ Refuse \/ Prepare \/ AfterPrepared \/ EndRefused
  <2>1. pc = "calls" /\ UNCHANGED <<messages, turn, called, results>>
    BY <1>5 DEF StartCall, Refuse, Prepare, AfterPrepared, StartsNow, EndRefused
  <2>2. QED
    BY <2>1 DEF LastOfBatch, ResultsInOrder
<1>6. CASE Begin \/ PollSteering \/ CallModel \/ TurnEnd \/ PollFollowUp \/ AgentEnd
           \/ FailureEnd \/ FinishRun \/ RunThrows \/ ResultThrows
           \/ FailureUnseen
  <2>1. pc' \notin {"calls", "executing"}
    BY <1>6, AwaitedTypes
       DEF Begin, PollSteering, CallModel, TurnEnd, PollFollowUp, AgentEnd, FailureEnd,
           FinishRun, RunThrows, ResultThrows,
           FailureUnseen, Throw
  <2>2. UNCHANGED messages
    BY <1>6
       DEF Begin, PollSteering, CallModel, TurnEnd, PollFollowUp, AgentEnd, FailureEnd,
           FinishRun, RunThrows, ResultThrows, FailureUnseen
  <2>3. QED
    BY <2>1, <2>2 DEF LastOfBatch, ResultsInOrder
<1>7. CASE Prompt \/ ContinueQueued \/ ContinueTranscript
  <2>1. pc' = "begin" /\ UNCHANGED messages
    BY <1>7 DEF Prompt, ContinueQueued, ContinueTranscript, StartRun
  <2>2. QED
    BY <2>1 DEF LastOfBatch, ResultsInOrder
<1>12. CASE DropFailed
  <2>1. messages # <<>> /\ messages' = Front(messages) /\ pc' = "idle"
    BY <1>12 DEF DropFailed, active
  <2>2. /\ DOMAIN messages' = 1..(Len(messages) - 1) /\ DOMAIN messages = 1..Len(messages)
        /\ \A i \in 1..(Len(messages) - 1) : messages'[i] = messages[i]
        /\ Len(messages) \in Nat
    BY <2>1, FrontType, LenProperties
  <2>3. ResultsInOrder'
    <3>1. SUFFICES ASSUME NEW i \in DOMAIN messages', messages'[i].role = "toolResult"
                   PROVE  i > 1 /\ messages'[i - 1] = messages[i - 1]
                          /\ messages'[i] = messages[i] /\ i \in DOMAIN messages
      BY DEF ResultsInOrder
    <3>2. messages'[i] = messages[i] /\ i \in DOMAIN messages
      BY <2>2
    <3>3. i > 1
      BY <3>1, <3>2 DEF ResultsInOrder
    <3>4. QED
      BY <2>2, <3>2, <3>3
  <2>4. QED
    BY <2>1, <2>3 DEF LastOfBatch
<1>8. CASE Steer \/ FollowUp \/ ClearQueues \/ Abort \/ UNCHANGED vars
  <2>1. UNCHANGED <<pc, messages, turn, called, results>>
    BY <1>8 DEF Steer, FollowUp, ClearQueues, Abort, vars, tools
  <2>2. QED
    BY <2>1 DEF LastOfBatch, ResultsInOrder
<1>9. ASSUME NEW c \in Calls, Tool(c) PROVE (LastOfBatch /\ ResultsInOrder)'
  <2>1. UNCHANGED <<messages, turn, called, results>> /\ pc' \in {pc, "failing"}
    BY <1>9 DEF Tool, ToolReturns, EndCall, CallRejects, Throw, tools
  <2>2. QED
    BY <2>1 DEF LastOfBatch, ResultsInOrder
<1>10. ASSUME NEW o \in orphans, OrphanEnds(o) \/ OrphanRejects(o)
        PROVE  (LastOfBatch /\ ResultsInOrder)'
  <2>1. UNCHANGED <<pc, messages, turn, called, results>>
    BY <1>10 DEF OrphanEnds, OrphanRejects, tools
  <2>2. QED
    BY <2>1 DEF LastOfBatch, ResultsInOrder
<1>11. QED
  BY <1>1, <1>2, <1>3, <1>4, <1>5, <1>6, <1>7, <1>8, <1>9, <1>10, <1>12
     DEF Next, Loop, Caller

LEMMA OrderInvariant == Spec => [](TypeOK /\ Batch /\ LastOfBatch /\ ResultsInOrder)
<1>1. Init => LastOfBatch /\ ResultsInOrder
  BY DEF Init, LastOfBatch, ResultsInOrder
<1>2. TypeOK /\ Batch /\ LastOfBatch /\ ResultsInOrder /\ [Next]_vars
      => (LastOfBatch /\ ResultsInOrder)'
  BY OrderStep
<1>3. QED
  BY <1>1, <1>2, BatchInvariant, PTL DEF Spec

\* The results of a turn follow its assistant message in the order of its
\* calls: parallel tools may finish in any order and callers may steer, abort
\* or queue at any await.
THEOREM ResultsOrdered == Spec => []ResultsInOrder
BY OrderInvariant, PTL

------------------------------------------------------------------------------
(* The loop's context and the transcript *)

\* Moving the head of t to the end of s leaves their concatenation.
LEMMA MoveHead ==
  ASSUME NEW s \in Seq(Message), NEW t \in Seq(Message), t # <<>>
  PROVE  Append(s, Head(t)) \o Tail(t) = s \o t
<1>1. Head(t) \in Message /\ Tail(t) \in Seq(Message) /\ <<Head(t)>> \in Seq(Message)
  BY HeadTailProperties
<1>2. Append(s, Head(t)) = s \o <<Head(t)>>
  BY <1>1, AppendIsConcat
<1>3. (s \o <<Head(t)>>) \o Tail(t) = s \o (<<Head(t)>> \o Tail(t))
  BY <1>1, ConcatAssociative
<1>4. Len(t) \in Nat /\ Len(t) > 0 /\ Len(Tail(t)) = Len(t) - 1
  BY HeadTailProperties, LenProperties, EmptySeq
<1>5. \A i \in 1..Len(t) : (<<Head(t)>> \o Tail(t))[i] = t[i]
  BY <1>1, <1>4, ConcatProperties, HeadTailProperties
<1>6. <<Head(t)>> \o Tail(t) \in Seq(Message) /\ Len(<<Head(t)>> \o Tail(t)) = Len(t)
  BY <1>1, <1>4, ConcatProperties
<1>7. <<Head(t)>> \o Tail(t) = t
  BY <1>5, <1>6, SeqEqual
<1>8. QED
  BY <1>2, <1>3, <1>7

LEMMA NextResults ==
  ASSUME NEW t \in Nat, NEW k \in Nat, NEW s \in Seq(Message)
  PROVE  Append(s \o Results(t, k), ToolResult(t, k + 1)) = s \o Results(t, k + 1)
<1> DEFINE r == ToolResult(t, k + 1)
<1>1. /\ Results(t, k) \in Seq(Message) /\ Len(Results(t, k)) = k
      /\ Results(t, k + 1) \in Seq(Message) /\ Len(Results(t, k + 1)) = k + 1
      /\ r \in Message
  BY ResultsType, MessageTypes
<1> HIDE DEF r
<1>2. /\ Append(Results(t, k), r) \in Seq(Message) /\ Len(Append(Results(t, k), r)) = k + 1
      /\ \A i \in 1..k : Append(Results(t, k), r)[i] = Results(t, k)[i]
      /\ Append(Results(t, k), r)[k + 1] = r
  BY <1>1, AppendProperties
<1>3. \A i \in 1..(k + 1) : Append(Results(t, k), r)[i] = Results(t, k + 1)[i]
  BY <1>2 DEF Results, r
<1>4. Append(Results(t, k), r) = Results(t, k + 1)
  BY <1>1, <1>2, <1>3, SeqEqual
<1>5. Append(s \o Results(t, k), r) = (s \o Results(t, k)) \o <<r>>
  <2>1. s \o Results(t, k) \in Seq(Message)
    BY <1>1, ConcatProperties
  <2>2. QED
    BY <1>1, <2>1, AppendIsConcat
<1>6. <<r>> \in Seq(Message) /\ Append(Results(t, k), r) = Results(t, k) \o <<r>>
  BY <1>1, AppendIsConcat
<1>7. (s \o Results(t, k)) \o <<r>> = s \o (Results(t, k) \o <<r>>)
  <2>1. Results(t, k) \in Seq(Message) /\ <<r>> \in Seq(Message)
    BY <1>1, <1>6
  <2>2. \A u, v \in Seq(Message) : (s \o u) \o v = s \o (u \o v)
    BY ConcatAssociative
  <2>3. QED
    BY <2>1, <2>2
<1>8. QED
  BY <1>4, <1>5, <1>6, <1>7 DEF r

LEMMA ContextStep ==
  ASSUME TypeOK, Batch, Contexts, [Next]_vars PROVE Contexts'
<1> USE DEF TypeOK, TranscriptOK, ToolsOK, Contexts
<1>1. CASE EmitPrompt
  <2>1. pending \in Seq(Message)
    BY UserSeqIsMessageSeq DEF QueuesOK
  <2>2. Append(messages, Head(pending)) \o Tail(pending) = messages \o pending
    BY <1>1, <2>1, MoveHead DEF EmitPrompt
  <2>3. pc' \in {"prompting", "failing"} /\ context = messages \o pending
    BY <1>1, AwaitedTypes DEF EmitPrompt
  <2>4. QED
    BY <1>1, <2>2, <2>3 DEF EmitPrompt
<1>2. CASE PollSteering
  <2>1. context = messages
    BY <1>2, ConcatEmptySeq DEF PollSteering
  <2>2. pc' \in {"inject", "followUp"} /\ UNCHANGED <<context, messages>>
    BY <1>2 DEF PollSteering
  <2>3. QED
    BY <2>1, <2>2
<1>3. CASE Inject
  <2>1. pc = "inject" /\ pc' \in {"inject", "failing"}
    BY <1>3, AwaitedTypes DEF Inject
  <2>2. messages' = Append(messages, Head(pending)) /\ context' = Append(context, Head(pending))
    BY <1>3 DEF Inject
  <2>3. QED
    BY <2>1, <2>2
<1>4. CASE Respond
  <2>1. PICK n \in 0..MaxCalls, stop \in {"ok", "error", "aborted"} :
          /\ messages' = Append(messages, Assistant(turn + 1, n, stop))
          /\ context' = Append(context, Assistant(turn + 1, n, stop))
          /\ pc \in {"streaming", "aborting"}
          /\ results' = 0 /\ turn' = turn + 1 /\ pc' \in {AfterResponse(n, stop), "failing"}
    BY <1>4, AwaitedTypes DEF Respond
  <2>2. context' = messages'
    BY <2>1
  <2>3. pc' \in {"agentEnd", "turnEnd", "calls", "failing"}
    BY <2>1 DEF AfterResponse
  <2>4. Assistant(turn + 1, n, stop) \in Message
    BY MessageTypes
  <2>5. context' \in Seq(Message)
    BY <2>1, <2>4
  <2>6. Results(turn', 0) = <<>>
    BY DEF Results
  <2>7. messages' = context' \o Results(turn', results')
    BY <2>1, <2>2, <2>5, <2>6, ConcatEmptySeq
  <2>8. QED
    BY <2>2, <2>3, <2>7
<1>5. CASE EmitResult
  <2>1. pc = "executing" /\ results < next /\ turn' = turn /\ results' = results + 1
    BY <1>5 DEF EmitResult, Batch
  <2>2. messages' = Append(messages, ToolResult(turn, results + 1))
    BY <1>5 DEF EmitResult, NextResult
  <2>3. messages' = context \o Results(turn, results + 1)
    <3>1. messages = context \o Results(turn, results) /\ results \in Nat
      BY <2>1
    <3>2. Append(context \o Results(turn, results), ToolResult(turn, results + 1))
          = context \o Results(turn, results + 1)
      BY NextResults
    <3>3. QED
      BY <2>2, <3>1, <3>2
  <2>4. \/ pc' \in {"executing", "calls", "failing"} /\ context' = context
        \/ /\ pc' \in {"turnEnd", "failing"} /\ results' >= next
           /\ context' = context \o Results(turn, next)
    BY <1>5, AwaitedTypes DEF EmitResult
  <2>5. results' >= next => next = results + 1
    BY <2>1
  <2>6. QED
    BY <2>1, <2>3, <2>4, <2>5
<1>6. CASE StartCall \/ Refuse \/ Prepare \/ AfterPrepared \/ EndRefused
  <2>1. pc = "calls" /\ pc' \in {"calls", "executing", "failing"}
    BY <1>6, AwaitedTypes DEF StartCall, Refuse, Prepare, AfterPrepared, StartsNow, EndRefused
  <2>2. UNCHANGED <<messages, context, turn, results>>
    BY <1>6 DEF StartCall, Refuse, Prepare, AfterPrepared, StartsNow, EndRefused
  <2>3. QED
    BY <2>1, <2>2
<1>7. CASE Begin \/ CallModel \/ TurnEnd \/ PollFollowUp
  <2>1. /\ UNCHANGED <<messages, context>>
        /\ \/ pc = "begin" /\ pc' \in {"prompting", "failing"} /\ UNCHANGED pending
           \/ /\ pc \in {"inject", "turnEnd", "followUp"}
              /\ pc' \in {"streaming", "aborting", "poll", "inject", "agentEnd", "failing"}
    BY <1>7, AwaitedTypes DEF Begin, CallModel, TurnEnd, PollFollowUp
  <2>2. QED
    BY <2>1
<1>8. CASE AgentEnd \/ FailureMessage \/ FailureEnd \/ FinishRun \/ RunThrows \/ ResultThrows
           \/ FailureUnseen
  <2>1. pc' \in {"failing", "failureEnd", "finish", "idle"}
    BY <1>8, AwaitedTypes
       DEF AgentEnd, FailureMessage, FailureEnd, FinishRun, RunThrows, ResultThrows,
           FailureUnseen, Throw
  <2>2. QED
    BY <2>1
<1>9. CASE Prompt \/ ContinueQueued \/ ContinueTranscript
  <2>1. pc' = "begin" /\ context' = messages \o pending' /\ UNCHANGED messages
    BY <1>9 DEF Prompt, ContinueQueued, ContinueTranscript, StartRun
  <2>2. QED
    BY <2>1
<1>14. CASE DropFailed
  BY <1>14 DEF DropFailed, active
<1>10. CASE Steer \/ FollowUp \/ ClearQueues \/ Abort \/ UNCHANGED vars
  <2>1. UNCHANGED <<pc, messages, context, pending, turn, results>>
    BY <1>10 DEF Steer, FollowUp, ClearQueues, Abort, vars, tools
  <2>2. QED
    BY <2>1
<1>11. ASSUME NEW c \in Calls, Tool(c) PROVE Contexts'
  <2>1. /\ UNCHANGED <<messages, context, turn, results>>
        /\ pc = "executing" /\ pc' \in {"executing", "failing"}
    BY <1>11 DEF Tool, ToolReturns, EndCall, CallRejects, Throw, tools
  <2>2. QED
    BY <2>1
<1>12. ASSUME NEW o \in orphans, OrphanEnds(o) \/ OrphanRejects(o) PROVE Contexts'
  <2>1. UNCHANGED <<pc, messages, context, pending, turn, results>>
    BY <1>12 DEF OrphanEnds, OrphanRejects, tools
  <2>2. QED
    BY <2>1
<1>13. QED
  BY <1>1, <1>2, <1>3, <1>4, <1>5, <1>6, <1>7, <1>8, <1>9, <1>10, <1>11, <1>12,
     <1>14 DEF Next, Loop, Caller

\* The model is always called with the whole transcript: the copy the loop
\* keeps and the transcript the listeners build are equal at every call.
THEOREM ContextExact == Spec => []ContextMirrorsTranscript
<1>1. Init => Contexts
  BY DEF Init, Contexts
<1>2. TypeOK /\ Batch /\ Contexts /\ [Next]_vars => Contexts'
  BY ContextStep
<1>3. Contexts => ContextMirrorsTranscript
  BY DEF Contexts, ContextMirrorsTranscript
<1>4. QED
  BY <1>1, <1>2, <1>3, BatchInvariant, PTL DEF Spec

------------------------------------------------------------------------------
(* The pending calls *)

Live == {c \in Calls : status[c] \in {"started", "immediate", "prepared", "returned"}}
LiveIds == {Id(c) : c \in Live}

\* A step of the live run outside a batch, or one that changes neither the
\* calls nor the turn.
LEMMA TasksKept ==
  ASSUME Tasks, PendingCallsExact,
         UNCHANGED <<turn, status, pendingToolCalls, orphans>>,
         pc = "idle" <=> pc' = "idle",
         \/ pc' \in {"failing", "failureEnd", "finish"}
         \/ /\ pc \notin {"failing", "failureEnd", "finish"}
            /\ pc \in {"calls", "executing"} => pc' \in {"calls", "executing"} \/ BatchEnded
            /\ pc' \in {"calls", "executing"} => pc \in {"calls", "executing"}
  PROVE  (Tasks /\ PendingCallsExact)'
<1>1. BatchEnded' = BatchEnded
  BY DEF BatchEnded
<1>2. Tasks'
  BY <1>1 DEF Tasks
<1>3. LiveIds' = LiveIds
  BY DEF LiveIds, Live, Id
<1>4. PendingCallsExact'
  BY <1>3 DEF PendingCallsExact, active, LiveIds, Live
<1>5. QED
  BY <1>2, <1>4

LEMMA EndedMeansNoneLive == ASSUME BatchEnded PROVE LiveIds = {}
BY DEF BatchEnded, LiveIds, Live

LEMMA TasksStep ==
  ASSUME TypeOK, Batch, Tasks, PendingCallsExact, [Next]_vars
  PROVE  (Tasks /\ PendingCallsExact)'
<1> USE DEF TypeOK, TranscriptOK, ToolsOK
<1>1. CASE Begin \/ EmitPrompt \/ PollSteering \/ Inject \/ CallModel \/ TurnEnd
           \/ PollFollowUp \/ AgentEnd \/ RunThrows \/ ResultThrows
  <2>1. /\ UNCHANGED <<turn, status, pendingToolCalls, orphans>>
        /\ pc \notin {"idle", "calls", "failing", "failureEnd", "finish"}
    BY <1>1 DEF Begin, EmitPrompt, PollSteering, Inject, CallModel, TurnEnd, PollFollowUp,
                AgentEnd, RunThrows, ResultThrows, tools
  <2>2. /\ pc' # "idle"
        /\ pc = "executing" => pc' = "failing"
        /\ pc' \notin {"calls", "executing"}
    BY <1>1, AwaitedTypes
       DEF Begin, EmitPrompt, PollSteering, Inject, CallModel, TurnEnd, PollFollowUp,
           AgentEnd, RunThrows, ResultThrows, Throw
  <2>3. QED
    BY <2>1, <2>2, TasksKept
<1>2. CASE FailureEnd \/ FailureUnseen
  <2>1. /\ UNCHANGED <<turn, status, pendingToolCalls, orphans>>
        /\ pc # "idle" /\ pc' = "finish"
    BY <1>2 DEF FailureEnd, FailureUnseen, tools
  <2>2. QED
    BY <2>1, TasksKept
<1>3. CASE EmitResult
  <2>1. /\ UNCHANGED <<turn, status, pendingToolCalls, orphans>> /\ BatchEnded
        /\ pc = "executing" /\ pc' \in {"executing", "calls", "turnEnd", "failing"}
    BY <1>3, AwaitedTypes DEF EmitResult
  <2>2. QED
    BY <2>1, TasksKept
<1>4. CASE Respond
  <2>1. /\ pc \in {"streaming", "aborting"} /\ pc' \in {"agentEnd", "turnEnd", "calls", "failing"}
        /\ UNCHANGED <<pendingToolCalls, orphans>>
        /\ turn' = turn + 1 /\ status' = [c \in Calls |-> "none"]
    BY <1>4, AwaitedTypes DEF Respond, AfterResponse
  <2>2. pendingToolCalls = {}
    BY <2>1, EndedMeansNoneLive DEF Tasks, PendingCallsExact, LiveIds, Live
  <2>3. BatchEnded'
    BY <2>1 DEF BatchEnded
  <2>4. \A o \in orphans : o.turn < turn'
    BY <2>1 DEF Tasks
  <2>5. Tasks'
    BY <2>1, <2>3, <2>4 DEF Tasks
  <2>6. Live' = {}
    BY <2>1 DEF Live
  <2>7. QED
    BY <2>1, <2>2, <2>5, <2>6 DEF PendingCallsExact, Live
<1>5. CASE StartCall
  <2>1. /\ pc = "calls" /\ pc' \in {"calls", "failing"} /\ next \in Calls
        /\ UNCHANGED <<turn, orphans>>
        /\ status' = [status EXCEPT ![next] = "started"]
        /\ pendingToolCalls' = pendingToolCalls \union {Id(next)}
    BY <1>5, AwaitedTypes DEF StartCall, Batch, Calls
  <2>2. Live' = Live \union {next}
    BY <2>1 DEF Live
  <2>3. LiveIds' = LiveIds \union {Id(next)}
    BY <2>1, <2>2 DEF LiveIds, Id
  <2>4. pendingToolCalls = LiveIds
    BY <2>1 DEF PendingCallsExact, LiveIds, Live
  <2>5. QED
    BY <2>1, <2>3, <2>4 DEF Tasks, PendingCallsExact, active, LiveIds, Live
<1>16. CASE AfterPrepared
  <2>1. /\ pc = "calls" /\ pc' \in {"calls", "executing"}
        /\ UNCHANGED <<turn, status, pendingToolCalls, orphans>>
    BY <1>16 DEF AfterPrepared
  <2>2. QED
    BY <2>1, TasksKept
<1>6. CASE Refuse \/ Prepare
  <2>1. /\ pc = "calls" /\ pc' \in {"calls", "executing"} /\ next \in Calls
        /\ UNCHANGED <<turn, orphans, pendingToolCalls>> /\ status[next] = "started"
        /\ \E s \in {"immediate", "prepared"} : status' = [status EXCEPT ![next] = s]
    BY <1>6 DEF Refuse, Prepare, Batch, Calls
  <2>2. Live' = Live
    BY <2>1 DEF Live
  <2>3. LiveIds' = LiveIds
    BY <2>1, <2>2 DEF LiveIds, Id
  <2>4. QED
    BY <2>1, <2>3 DEF Tasks, PendingCallsExact, active, LiveIds, Live
<1>7. CASE EndRefused
  <2>1. /\ pc = "calls" /\ pc' \in {"calls", "executing", "failing"} /\ next \in Calls
        /\ UNCHANGED <<turn, orphans>>
        /\ status' = [status EXCEPT ![next] = "ended"]
        /\ pendingToolCalls' = pendingToolCalls \ {Id(next)}
    BY <1>7, AwaitedTypes DEF EndRefused, Batch, Calls
  <2>2. Live' = Live \ {next}
    BY <2>1 DEF Live
  <2>3. LiveIds' = LiveIds \ {Id(next)}
    BY <2>1, <2>2 DEF LiveIds, Id
  <2>4. pendingToolCalls = LiveIds
    BY <2>1 DEF PendingCallsExact, LiveIds, Live
  <2>5. QED
    BY <2>1, <2>3, <2>4 DEF Tasks, PendingCallsExact, active, LiveIds, Live
<1>8. ASSUME NEW c \in Calls, ToolReturns(c) PROVE (Tasks /\ PendingCallsExact)'
  <2>1. /\ pc = "executing" /\ pc' = pc /\ status[c] = "prepared"
        /\ UNCHANGED <<turn, orphans, pendingToolCalls>>
        /\ status' = [status EXCEPT ![c] = "returned"]
    BY <1>8 DEF ToolReturns
  <2>2. Live' = Live
    BY <2>1 DEF Live
  <2>3. LiveIds' = LiveIds
    BY <2>1, <2>2 DEF LiveIds, Id
  <2>4. QED
    BY <2>1, <2>3 DEF Tasks, PendingCallsExact, active, LiveIds, Live
<1>9. ASSUME NEW c \in Calls, EndCall(c) PROVE (Tasks /\ PendingCallsExact)'
  <2>1. /\ pc = "executing" /\ UNCHANGED turn
        /\ status' = [status EXCEPT ![c] = "ended"]
        /\ pendingToolCalls' = pendingToolCalls \ {Id(c)}
        /\ \/ pc' = "executing" /\ UNCHANGED orphans
           \/ pc' = "failing" /\ orphans' = orphans \union LeftRunning(c)
    BY <1>9 DEF EndCall, Throw
  <2>2. Live' = Live \ {c}
    BY <2>1 DEF Live
  <2>3. LiveIds' = LiveIds \ {Id(c)}
    BY <2>1, <2>2 DEF LiveIds, Id
  <2>4. pendingToolCalls = LiveIds
    BY <2>1 DEF PendingCallsExact, LiveIds, Live
  <2>5. PendingCallsExact'
    BY <2>1, <2>3, <2>4 DEF PendingCallsExact, active, LiveIds, Live
  <2>6. \A o \in LeftRunning(c) : o.turn = turn
    BY DEF LeftRunning
  <2>7. Tasks'
    BY <2>1, <2>6 DEF Tasks
  <2>8. QED
    BY <2>5, <2>7
<1>17. ASSUME NEW c \in Calls, CallRejects(c) PROVE (Tasks /\ PendingCallsExact)'
  <2>1. /\ pc = "executing" /\ pc' = "failing" /\ UNCHANGED <<turn, status, pendingToolCalls>>
        /\ orphans' = orphans \union LeftRunning(c)
    BY <1>17 DEF CallRejects, Throw, tools
  <2>2. \A o \in LeftRunning(c) : o.turn = turn
    BY DEF LeftRunning
  <2>3. QED
    BY <2>1, <2>2 DEF Tasks, PendingCallsExact, active
<1>10. CASE FailureMessage
  <2>1. /\ pc' \in {"failureEnd", "finish"} /\ UNCHANGED <<orphans, pendingToolCalls>>
        /\ turn' = turn + 1
    BY <1>10 DEF FailureMessage, tools
  <2>2. \A o \in orphans : o.turn <= turn'
    BY <2>1 DEF Tasks
  <2>3. QED
    BY <2>1, <2>2 DEF Tasks, PendingCallsExact, active
<1>11. CASE FinishRun
  <2>1. /\ pc = "finish" /\ pc' = "idle" /\ pendingToolCalls' = {} /\ UNCHANGED <<turn, orphans>>
        /\ status' = [c \in Calls |-> "none"]
    BY <1>11 DEF FinishRun
  <2>2. BatchEnded' /\ Live' = {}
    BY <2>1 DEF BatchEnded, Live
  <2>3. QED
    BY <2>1, <2>2 DEF Tasks, PendingCallsExact, Live
<1>12. CASE Prompt \/ ContinueQueued \/ ContinueTranscript
  <2>1. /\ pc = "idle" /\ pc' = "begin"
        /\ UNCHANGED <<turn, status, pendingToolCalls, orphans>>
    BY <1>12 DEF Prompt, ContinueQueued, ContinueTranscript, StartRun, active, tools
  <2>2. LiveIds' = LiveIds /\ BatchEnded' = BatchEnded
    BY <2>1 DEF LiveIds, Live, Id, BatchEnded
  <2>3. QED
    BY <2>1, <2>2 DEF Tasks, PendingCallsExact, active, LiveIds, Live
<1>13. CASE Steer \/ FollowUp \/ ClearQueues \/ Abort \/ DropFailed \/ UNCHANGED vars
  <2>1. UNCHANGED <<pc, turn, status, pendingToolCalls, orphans>>
    BY <1>13 DEF Steer, FollowUp, ClearQueues, Abort, DropFailed, vars, tools
  <2>2. LiveIds' = LiveIds /\ BatchEnded' = BatchEnded
    BY <2>1 DEF LiveIds, Live, Id, BatchEnded
  <2>3. QED
    BY <2>1, <2>2 DEF Tasks, PendingCallsExact, active, LiveIds, Live
<1>14. ASSUME NEW o \in orphans, OrphanEnds(o) \/ OrphanRejects(o)
        PROVE  (Tasks /\ PendingCallsExact)'
  <2>1. /\ UNCHANGED <<pc, turn, status>> /\ orphans' = orphans \ {o}
        /\ pendingToolCalls' \in {pendingToolCalls, pendingToolCalls \ {o}}
    BY <1>14 DEF OrphanEnds, OrphanRejects, tools
  <2>2. LiveIds' = LiveIds /\ BatchEnded' = BatchEnded
    BY <2>1 DEF LiveIds, Live, Id, BatchEnded
  <2>3. pc \notin {"failing", "failureEnd", "finish"} => o \notin LiveIds
    BY EndedMeansNoneLive DEF Tasks, LiveIds, Id
  <2>4. PendingCallsExact'
    BY <2>1, <2>2, <2>3 DEF PendingCallsExact, active, LiveIds, Live
  <2>5. QED
    BY <2>1, <2>2, <2>4 DEF Tasks
<1>15. QED
  BY <1>1, <1>2, <1>3, <1>4, <1>5, <1>6, <1>7, <1>8, <1>9, <1>10, <1>11, <1>12, <1>13, <1>14,
     <1>16, <1>17 DEF Next, Loop, Caller, Tool

\* The calls shown as pending are the calls under way, in every interleaving
\* of parallel tools, failures and calls left over from failed runs; an idle
\* agent shows none.
THEOREM PendingExact == Spec => []PendingCallsExact
<1>1. Init => Tasks /\ PendingCallsExact
  BY DEF Init, Tasks, PendingCallsExact, BatchEnded, active
<1>2. TypeOK /\ Batch /\ Tasks /\ PendingCallsExact /\ [Next]_vars
      => (Tasks /\ PendingCallsExact)'
  BY TasksStep
<1>3. QED
  BY <1>1, <1>2, BatchInvariant, PTL DEF Spec

------------------------------------------------------------------------------
(* Answered calls *)

\* Which calls have their results, and where.
Answered ==
  /\ pc = "executing" /\ ~sequential => aborted \/ next = called
  /\ pc \in {"idle", "begin", "prompting"} => called = 0 /\ results = 0
  /\ pc \in {"poll", "inject", "turnEnd", "followUp"} => aborted \/ results >= called
  /\ pc = "streaming" => results >= called
  /\ pc \notin {"failing", "failureEnd", "finish"} =>
       \A k \in 1..results : ToolResult(turn, k) \in ToSet(messages)

LEMMA ToSetOfAppend ==
  ASSUME NEW s \in Seq(Message), NEW m \in Message
  PROVE  ToSet(s) \subseteq ToSet(Append(s, m)) /\ m \in ToSet(Append(s, m))
<1>1. /\ DOMAIN s = 1..Len(s) /\ DOMAIN Append(s, m) = 1..(Len(s) + 1) /\ Len(s) \in Nat
      /\ Append(s, m)[Len(s) + 1] = m
      /\ \A i \in 1..Len(s) : Append(s, m)[i] = s[i]
  BY AppendProperties, LenProperties
<1>2. QED
  BY <1>1 DEF ToSet

LEMMA AnsweredStep ==
  ASSUME TypeOK, Batch, Answered, [Next]_vars PROVE Answered'
<1> USE DEF TypeOK, ControlOK, TranscriptOK, ToolsOK, Answered
<1>1. CASE EmitPrompt \/ Inject
  <2>1. Head(pending) \in Message
    BY <1>1, PendingTypes DEF EmitPrompt, Inject
  <2>2. messages' = Append(messages, Head(pending))
    BY <1>1 DEF EmitPrompt, Inject
  <2>3. ToSet(messages) \subseteq ToSet(messages')
    BY <2>1, <2>2, ToSetOfAppend
  <2>4. /\ UNCHANGED <<aborted, turn, called, sequential, next, results>>
        /\ pc \in {"prompting", "inject"} /\ pc' \in {pc, "failing"}
    BY <1>1, AwaitedTypes DEF EmitPrompt, Inject, tools
  <2>5. QED
    BY <2>3, <2>4
<1>2. CASE Respond
  <2>1. PICK n \in 0..MaxCalls, stop \in {"ok", "error", "aborted"} :
          called' = n /\ results' = 0 /\ pc' \in {AfterResponse(n, stop), "failing"}
    BY <1>2, AwaitedTypes DEF Respond
  <2>2. pc' = "turnEnd" => called' = 0
    BY <2>1 DEF AfterResponse
  <2>3. pc' \in {"agentEnd", "turnEnd", "calls", "failing"}
    BY <2>1 DEF AfterResponse
  <2>4. QED
    BY <2>1, <2>2, <2>3
<1>3. CASE EmitResult
  <2>1. /\ messages' = Append(messages, ToolResult(turn, results + 1))
        /\ UNCHANGED <<aborted, turn, called, sequential>> /\ results' = results + 1
    BY <1>3 DEF EmitResult, NextResult
  <2>2. ToolResult(turn, results + 1) \in Message
    BY MessageTypes
  <2>3. ToSet(messages) \subseteq ToSet(messages') /\ ToolResult(turn, results + 1) \in ToSet(messages')
    BY <2>1, <2>2, ToSetOfAppend
  <2>4. pc = "executing" /\ next \in 1..called /\ results < next
    BY <1>3 DEF EmitResult, Batch
  <2>5. \/ pc' \in {"executing", "failing"} /\ next' = next
        \/ sequential /\ pc' \in {"calls", "failing"}
        \/ results' >= next /\ ~MoreCalls /\ pc' \in {"turnEnd", "failing"}
    BY <1>3, AwaitedTypes DEF EmitResult, MoreCalls
  <2>6. \A k \in 1..results' : ToolResult(turn, k) \in ToSet(messages')
    BY <2>1, <2>3, <2>4
  <2>7. results' >= next /\ ~MoreCalls => aborted \/ results' >= called
    BY <2>1, <2>4 DEF MoreCalls
  <2>8. pc' = "executing" /\ ~sequential' => aborted' \/ next' = called'
    BY <2>1, <2>4, <2>5
  <2>9. pc' = "turnEnd" => aborted' \/ results' >= called'
    BY <2>1, <2>5, <2>7
  <2>10. pc' \in {"executing", "calls", "turnEnd", "failing"}
    BY <2>5
  <2>11. QED
    BY <2>1, <2>6, <2>8, <2>9, <2>10
<1>4. CASE StartCall \/ Refuse
  <2>1. /\ UNCHANGED <<messages, turn, results>> /\ pc = "calls" /\ pc' \in {"calls", "failing"}
    BY <1>4, AwaitedTypes DEF StartCall, Refuse
  <2>2. QED
    BY <2>1
<1>5. CASE Prepare \/ AfterPrepared \/ EndRefused
  <2>1. /\ UNCHANGED <<aborted, messages, turn, called, sequential, results>> /\ next \in 1..called
        /\ pc = "calls"
        /\ \/ pc' \in {"calls", "failing"}
           \/ /\ next' = next /\ pc' = "executing"
              /\ ~sequential => aborted \/ next >= called
    BY <1>5, AwaitedTypes DEF Prepare, AfterPrepared, StartsNow, EndRefused, Batch
  <2>2. QED
    BY <2>1
<1>14. CASE CallModel
  <2>1. /\ UNCHANGED <<aborted, messages, turn, called, sequential, results>> /\ pc = "inject"
        /\ pc' = IF aborted THEN "aborting" ELSE "streaming"
    BY <1>14 DEF CallModel, tools
  <2>2. QED
    BY <2>1
<1>6. CASE Begin \/ PollSteering \/ TurnEnd \/ PollFollowUp
  <2>1. /\ UNCHANGED <<aborted, messages, turn, called, sequential, results>>
        /\ \/ pc = "begin" /\ pc' \in {"prompting", "failing"}
           \/ pc = "prompting" /\ pc' \in {"inject", "followUp"}
           \/ /\ pc \in {"poll", "inject", "turnEnd", "followUp"}
              /\ pc' \in {"poll", "inject", "followUp", "agentEnd", "failing"}
    BY <1>6, AwaitedTypes DEF Begin, PollSteering, TurnEnd, PollFollowUp, tools
  <2>2. QED
    BY <2>1
<1>7. CASE AgentEnd \/ FailureMessage \/ FailureEnd \/ RunThrows \/ ResultThrows \/ FailureUnseen
  <2>1. pc' \in {"failing", "failureEnd", "finish"}
    BY <1>7, AwaitedTypes
       DEF AgentEnd, FailureMessage, FailureEnd, RunThrows, ResultThrows, FailureUnseen, Throw
  <2>2. QED
    BY <2>1
<1>8. CASE FinishRun
  <2>1. pc' = "idle" /\ called' = 0 /\ results' = 0
    BY <1>8 DEF FinishRun
  <2>2. QED
    BY <2>1
<1>9. CASE Prompt \/ ContinueQueued \/ ContinueTranscript
  <2>1. /\ pc = "idle" /\ pc' = "begin" /\ UNCHANGED <<messages, turn, called, sequential, results>>
    BY <1>9 DEF Prompt, ContinueQueued, ContinueTranscript, StartRun, active, tools
  <2>2. QED
    BY <2>1
<1>15. CASE DropFailed
  <2>1. pc' = "idle" /\ called' = 0 /\ results' = 0
    BY <1>15 DEF DropFailed, active, tools
  <2>2. QED
    BY <2>1
<1>10. CASE Steer \/ FollowUp \/ ClearQueues \/ Abort \/ UNCHANGED vars
  <2>1. /\ UNCHANGED <<pc, messages, turn, called, sequential, next, results>>
        /\ aborted' \in {aborted, TRUE}
    BY <1>10 DEF Steer, FollowUp, ClearQueues, Abort, vars, tools
  <2>2. QED
    BY <2>1
<1>11. ASSUME NEW c \in Calls, Tool(c) PROVE Answered'
  <2>1. /\ UNCHANGED <<aborted, messages, turn, called, sequential, next, results>>
        /\ pc = "executing" /\ pc' \in {"executing", "failing"}
    BY <1>11 DEF Tool, ToolReturns, EndCall, CallRejects, Throw, tools
  <2>2. QED
    BY <2>1
<1>12. ASSUME NEW o \in orphans, OrphanEnds(o) \/ OrphanRejects(o) PROVE Answered'
  <2>1. UNCHANGED <<pc, aborted, messages, turn, called, sequential, next, results>>
    BY <1>12 DEF OrphanEnds, OrphanRejects, tools
  <2>2. QED
    BY <2>1
<1>13. QED
  BY <1>1, <1>2, <1>3, <1>4, <1>5, <1>6, <1>7, <1>8, <1>9, <1>10, <1>11, <1>12,
     <1>14, <1>15 DEF Next, Loop, Caller

\* Unless the run is aborted, the model is never called while a call of the
\* turn before has no result in the transcript, in either tool mode.
THEOREM CallsAnswered == Spec => []CallsAreAnswered
<1>1. Init => Answered
  BY DEF Init, Answered
<1>2. TypeOK /\ Batch /\ Answered /\ [Next]_vars => Answered'
  BY AnsweredStep
<1>3. TypeOK /\ Answered => CallsAreAnswered
  BY DEF TypeOK, ToolsOK, Answered, CallsAreAnswered
<1>4. QED
  BY <1>1, <1>2, <1>3, BatchInvariant, PTL DEF Spec

------------------------------------------------------------------------------
(* Delivery.                                                               *)
(*                                                                         *)
(* A user message travels from a queue through pending to the transcript.  *)
(* Each of these keeps its messages in order, and each is ahead of those   *)
(* it is filled from; what a step moves is the front of one of them.       *)

\* m may come before l: they differ, and m is older if they were sent one way.
Before(m, l) ==
  m.role = "user" /\ l.role = "user" =>
    m.id # l.id /\ (m.via = l.via => m.id < l.id)

InOrder(s) == \A i, j \in 1..Len(s) : i < j => Before(s[i], s[j])
Precedes(s, t) == \A i \in 1..Len(s), j \in 1..Len(t) : Before(s[i], t[j])

\* User message n is in s.
Holds(s, n) == \E i \in 1..Len(s) : s[i].role = "user" /\ s[i].id = n

\* s is a stretch of t.
Stretch(s, t) ==
  \E k \in Nat : /\ Len(s) + k <= Len(t)
                 /\ \A i \in 1..Len(s) : s[i] = t[i + k]

Order ==
  /\ InOrder(messages) /\ InOrder(pending) /\ InOrder(steering) /\ InOrder(followUp)
  /\ Precedes(messages, pending) /\ Precedes(messages, steering)
  /\ Precedes(messages, followUp)
  /\ Precedes(pending, steering) /\ Precedes(pending, followUp)
  /\ Precedes(steering, followUp) /\ Precedes(followUp, steering)

\* Each queue holds what was sent its way.
Ways ==
  /\ \A i \in 1..Len(steering) : steering[i].via = "steer"
  /\ \A i \in 1..Len(followUp) : followUp[i].via = "followUp"

Somewhere(n) ==
  Holds(messages, n) \/ Holds(pending, n) \/ Holds(steering, n) \/ Holds(followUp, n)

\* Only what was sent is anywhere, and what a caller cleared is nowhere.
Known ==
  /\ \A n : Somewhere(n) => n \in 1..sent
  /\ \A n \in cleared : n \in 1..sent /\ ~Somewhere(n)

\* While nothing has failed pending is dropped or replaced only when it is empty.
Undropped ==
  faults = 0 =>
    /\ pc \notin {"failing", "failureEnd"}
    /\ pc \in {"begin", "prompting", "inject"} \/ pending = <<>>

Accounted == faults = 0 => \A n \in 1..sent : n \in cleared \/ Somewhere(n)

Carried == Order /\ Ways /\ Known /\ Accounted

------------------------------------------------------------------------------
(* Order and membership in sequences *)

LEMMA OthersAnywhere ==
  ASSUME NEW m, NEW l, m.role # "user" \/ l.role # "user" PROVE Before(m, l)
BY DEF Before

LEMMA StretchKeeps ==
  ASSUME NEW s \in Seq(Message), NEW t \in Seq(Message), NEW u \in Seq(Message),
         Stretch(s, t)
  PROVE  /\ InOrder(t) => InOrder(s)
         /\ Precedes(t, u) => Precedes(s, u)
         /\ Precedes(u, t) => Precedes(u, s)
         /\ \A n : Holds(s, n) => Holds(t, n)
<1>1. PICK k \in Nat : Len(s) + k <= Len(t) /\ \A i \in 1..Len(s) : s[i] = t[i + k]
  BY DEF Stretch
<1>2. Len(s) \in Nat /\ Len(t) \in Nat /\ Len(u) \in Nat
  BY LenProperties
<1>3. \A i \in 1..Len(s) : i + k \in 1..Len(t) /\ s[i] = t[i + k]
  BY <1>1, <1>2
<1>4. ASSUME InOrder(t) PROVE InOrder(s)
  <2>1. \A i, j \in 1..Len(s) : i < j => i + k < j + k
    BY <1>2
  <2>2. QED
    BY <1>3, <1>4, <2>1 DEF InOrder
<1>5. QED
  BY <1>3, <1>4 DEF Precedes, Holds

LEMMA StretchTakes ==
  ASSUME NEW s \in Seq(Message), NEW t \in Seq(Message), Stretch(s, t)
  PROVE  \A i \in 1..Len(s) : \E j \in 1..Len(t) : s[i] = t[j]
<1>1. PICK k \in Nat : Len(s) + k <= Len(t) /\ \A i \in 1..Len(s) : s[i] = t[i + k]
  BY DEF Stretch
<1>2. \A i \in 1..Len(s) : i + k \in 1..Len(t)
  BY <1>1, LenProperties
<1>3. QED
  BY <1>1, <1>2

LEMMA AppendKeeps ==
  ASSUME NEW s \in Seq(Message), NEW u \in Seq(Message), NEW m \in Message
  PROVE  /\ InOrder(s) /\ (\A i \in 1..Len(s) : Before(s[i], m)) => InOrder(Append(s, m))
         /\ Precedes(s, u) /\ (\A j \in 1..Len(u) : Before(m, u[j]))
              => Precedes(Append(s, m), u)
         /\ Precedes(u, s) /\ (\A i \in 1..Len(u) : Before(u[i], m))
              => Precedes(u, Append(s, m))
         /\ \A n : Holds(Append(s, m), n) <=> Holds(s, n) \/ (m.role = "user" /\ m.id = n)
<1> DEFINE t == Append(s, m)
<1>1. Len(s) \in Nat /\ Len(t) = Len(s) + 1
  BY LenProperties
<1>2. (\A i \in 1..Len(s) : t[i] = s[i]) /\ t[Len(t)] = m
  BY <1>1
<1>3. \A i \in 1..Len(t) : i \in 1..Len(s) \/ i = Len(t)
  BY <1>1
<1>4. \A i \in 1..Len(s) : i \in 1..Len(t) /\ i < Len(t)
  BY <1>1
<1>5. Len(t) \in 1..Len(t)
  BY <1>1
<1> HIDE DEF t
<1>6. ASSUME InOrder(s), \A i \in 1..Len(s) : Before(s[i], m) PROVE InOrder(t)
  <2>1. SUFFICES ASSUME NEW i \in 1..Len(t), NEW j \in 1..Len(t), i < j
                 PROVE  Before(t[i], t[j])
    BY DEF InOrder
  <2>2. i \in 1..Len(s)
    BY <1>1, <2>1
  <2>3. QED
    BY <1>2, <1>3, <1>6, <2>1, <2>2 DEF InOrder
<1>7. Precedes(s, u) /\ (\A j \in 1..Len(u) : Before(m, u[j])) => Precedes(t, u)
  BY <1>2, <1>3 DEF Precedes
<1>8. Precedes(u, s) /\ (\A i \in 1..Len(u) : Before(u[i], m)) => Precedes(u, t)
  BY <1>2, <1>3 DEF Precedes
<1>9. \A n : Holds(t, n) <=> Holds(s, n) \/ (m.role = "user" /\ m.id = n)
  BY <1>2, <1>3, <1>4, <1>5 DEF Holds
<1>10. QED
  BY <1>6, <1>7, <1>8, <1>9 DEF t

LEMMA EmptyKeeps ==
  ASSUME NEW u
  PROVE  /\ InOrder(<<>>) /\ Precedes(<<>>, u) /\ Precedes(u, <<>>)
         /\ \A n : ~Holds(<<>>, n)
BY DEF InOrder, Precedes, Holds

\* The first of t comes before the rest of it.
LEMMA HeadGoesFirst ==
  ASSUME NEW t \in Seq(Message), t # <<>>
  PROVE  /\ Head(t) \in Message /\ Tail(t) \in Seq(Message) /\ Stretch(Tail(t), t)
         /\ 1 \in 1..Len(t) /\ Head(t) = t[1]
         /\ InOrder(t) => \A j \in 1..Len(Tail(t)) : Before(Head(t), Tail(t)[j])
         /\ \A n : Holds(t, n) <=>
                     Holds(Tail(t), n) \/ (Head(t).role = "user" /\ Head(t).id = n)
<1>1. /\ Head(t) \in Message /\ Tail(t) \in Seq(Message) /\ Len(Tail(t)) = Len(t) - 1
      /\ \A i \in 1..Len(Tail(t)) : Tail(t)[i] = t[i + 1]
  BY HeadTailProperties
<1>2. Len(t) \in Nat \ {0} /\ Head(t) = t[1]
  BY EmptySeq
<1>3. \A i \in 1..Len(Tail(t)) : i + 1 \in 1..Len(t) /\ 1 < i + 1
  BY <1>1, <1>2
<1>4. \A i \in 1..Len(t) : i = 1 \/ (i - 1 \in 1..Len(Tail(t)) /\ Tail(t)[i - 1] = t[i])
  BY <1>1, <1>2
<1>5. Stretch(Tail(t), t)
  BY <1>1, <1>2 DEF Stretch
<1>6. 1 \in 1..Len(t)
  BY <1>2
<1>7. InOrder(t) => \A j \in 1..Len(Tail(t)) : Before(Head(t), Tail(t)[j])
  BY <1>1, <1>2, <1>3, <1>6 DEF InOrder
<1>8. \A n : Holds(t, n) <=>
               Holds(Tail(t), n) \/ (Head(t).role = "user" /\ Head(t).id = n)
  BY <1>1, <1>2, <1>3, <1>4, <1>6 DEF Holds
<1>9. QED
  BY <1>1, <1>2, <1>5, <1>6, <1>7, <1>8

\* What a queue gives comes before what it keeps, and nothing is lost between.
LEMMA DrainKeeps ==
  ASSUME NEW q \in Seq(Message), NEW mode
  PROVE  /\ Drained(q, mode) \in Seq(Message) /\ Left(q, mode) \in Seq(Message)
         /\ Stretch(Drained(q, mode), q) /\ Stretch(Left(q, mode), q)
         /\ InOrder(q) => Precedes(Drained(q, mode), Left(q, mode))
         /\ \A n : Holds(q, n) <=> Holds(Drained(q, mode), n) \/ Holds(Left(q, mode), n)
         /\ q # <<>> => Drained(q, mode) # <<>>
<1>1. CASE mode = "all" \/ q = <<>>
  <2>1. Drained(q, mode) = q /\ Left(q, mode) = <<>>
    BY <1>1 DEF Drained, Left
  <2>2. Stretch(q, q) /\ Stretch(<<>>, q)
    BY LenProperties DEF Stretch
  <2>3. QED
    BY <2>1, <2>2, EmptyKeeps, EmptySeq
<1>2. CASE ~(mode = "all" \/ q = <<>>)
  <2>1. Drained(q, mode) = <<Head(q)>> /\ Left(q, mode) = Tail(q) /\ q # <<>>
    BY <1>2 DEF Drained, Left
  <2>2. <<Head(q)>> \in Seq(Message) /\ Len(<<Head(q)>>) = 1 /\ <<Head(q)>>[1] = Head(q)
    BY <2>1, HeadGoesFirst
  <2>3. Stretch(<<Head(q)>>, q)
    <3>1. Len(q) \in Nat /\ 1 <= Len(q) /\ q[1] = Head(q)
      BY <2>1, HeadGoesFirst, LenProperties
    <3>2. Len(<<Head(q)>>) + 0 <= Len(q) /\ \A i \in 1..Len(<<Head(q)>>) : i = 1 /\ i + 0 = 1
      BY <2>2, <3>1
    <3>3. QED
      BY <2>2, <3>1, <3>2 DEF Stretch
  <2>4. \A i \in 1..Len(<<Head(q)>>) : <<Head(q)>>[i] = Head(q)
    BY <2>2
  <2>5. 1 \in 1..Len(<<Head(q)>>)
    BY <2>2
  <2>6. InOrder(q) => Precedes(<<Head(q)>>, Tail(q))
    BY <2>1, <2>4, HeadGoesFirst DEF Precedes
  <2>7. \A n : Holds(<<Head(q)>>, n) <=> Head(q).role = "user" /\ Head(q).id = n
    BY <2>4, <2>5 DEF Holds
  <2>8. QED
    BY <2>1, <2>2, <2>3, <2>6, <2>7, HeadGoesFirst
<1>3. QED
  BY <1>1, <1>2
------------------------------------------------------------------------------
(* Undropped is preserved. *)

\* Where an awaited step leads while nothing has failed.
LEMMA AwaitedCalm ==
  ASSUME ControlOK, NEW p, Awaited(p)
  PROVE  faults' = 0 => faults = 0 /\ pc' = p
BY DEF Awaited, Throw, ControlOK

LEMMA UndroppedStep == ASSUME ControlOK, Undropped, [Next]_vars PROVE Undropped'
<1> USE DEF Undropped
<1>1. CASE EmitPrompt \/ Inject
  <2>1. pc \in {"prompting", "inject"} /\ Awaited(pc)
    BY <1>1 DEF EmitPrompt, Inject
  <2>2. QED
    BY <2>1, AwaitedCalm
<1>2. CASE Begin \/ TurnEnd \/ AgentEnd \/ StartCall
  <2>1. /\ UNCHANGED pending
        /\ \/ pc = "begin" /\ Awaited("prompting")
           \/ pc = "turnEnd" /\ Awaited("poll")
           \/ pc = "agentEnd" /\ Awaited("finish")
           \/ pc = "calls" /\ Awaited("calls")
    BY <1>2 DEF Begin, TurnEnd, AgentEnd, StartCall
  <2>2. QED
    BY <2>1, AwaitedCalm
<1>3. CASE Respond
  <2>1. PICK n \in 0..MaxCalls, stop \in {"ok", "error", "aborted"} :
          /\ pc \in {"streaming", "aborting"} /\ UNCHANGED pending
          /\ Awaited(AfterResponse(n, stop))
    BY <1>3 DEF Respond
  <2>2. faults' = 0 => faults = 0 /\ pc' = AfterResponse(n, stop)
    BY <2>1, AwaitedCalm
  <2>3. QED
    BY <2>1, <2>2 DEF AfterResponse
<1>4. CASE EndRefused \/ EmitResult
  <2>1. /\ pc \in {"calls", "executing"} /\ UNCHANGED pending
        /\ \E p \in {"executing", "calls", "turnEnd"} : Awaited(p)
    BY <1>4 DEF EndRefused, EmitResult
  <2>2. QED
    BY <2>1, AwaitedCalm
<1>5. CASE PollSteering \/ PollFollowUp
  <2>1. /\ UNCHANGED faults
        /\ pc' = "inject" \/ (pc' \in {"followUp", "agentEnd"} /\ pending' = <<>>)
    BY <1>5 DEF PollSteering, PollFollowUp
  <2>2. QED
    BY <2>1
<1>6. CASE CallModel
  <2>1. UNCHANGED <<faults, pending>> /\ pending = <<>> /\ pc' \in {"aborting", "streaming"}
    BY <1>6 DEF CallModel
  <2>2. QED
    BY <2>1
<1>7. CASE Refuse \/ Prepare \/ AfterPrepared
  <2>1. UNCHANGED <<faults, pending>> /\ pc = "calls" /\ pc' \in {"calls", "executing"}
    BY <1>7 DEF Refuse, Prepare, AfterPrepared
  <2>2. QED
    BY <2>1
<1>8. CASE FailureMessage \/ FailureEnd
  <2>1. /\ pc \in {"failing", "failureEnd"} /\ faults' \in {faults, faults + 1}
    BY <1>8 DEF FailureMessage, FailureEnd
  <2>2. QED
    BY <2>1 DEF ControlOK
<1>9. CASE FinishRun
  BY <1>9 DEF FinishRun
<1>10. CASE RunThrows \/ ResultThrows \/ FailureUnseen
  <2>1. faults' = faults + 1
    BY <1>10 DEF RunThrows, ResultThrows, FailureUnseen, Throw
  <2>2. QED
    BY <2>1 DEF ControlOK
<1>11. CASE Prompt \/ ContinueQueued \/ ContinueTranscript
  <2>1. UNCHANGED faults /\ pc' = "begin"
    BY <1>11 DEF Prompt, ContinueQueued, ContinueTranscript, StartRun
  <2>2. QED
    BY <2>1
<1>12. CASE DropFailed \/ Steer \/ FollowUp \/ ClearQueues \/ Abort \/ UNCHANGED vars
  <2>1. UNCHANGED <<pc, faults, pending>>
    BY <1>12 DEF DropFailed, Steer, FollowUp, ClearQueues, Abort, vars
  <2>2. QED
    BY <2>1
<1>13. ASSUME NEW c \in Calls, Tool(c) PROVE Undropped'
  <2>1. /\ pc = "executing" /\ UNCHANGED pending
        /\ (pc' = pc /\ faults' = faults) \/ faults' = faults + 1
    BY <1>13 DEF Tool, ToolReturns, EndCall, CallRejects, Throw
  <2>2. QED
    BY <2>1 DEF ControlOK
<1>14. ASSUME NEW o \in orphans, OrphanEnds(o) \/ OrphanRejects(o) PROVE Undropped'
  BY <1>14 DEF OrphanEnds, OrphanRejects
<1>15. QED
  BY <1>1, <1>2, <1>3, <1>4, <1>5, <1>6, <1>7, <1>8, <1>9, <1>10, <1>11, <1>12, <1>13,
     <1>14 DEF Next, Loop, Caller

------------------------------------------------------------------------------
(* Carried is preserved, by what a step does to the places of messages. *)

\* Where the sequences of messages live.
LEMMA Places ==
  ASSUME TypeOK
  PROVE  /\ messages \in Seq(Message) /\ pending \in Seq(Message)
         /\ steering \in Seq(Message) /\ followUp \in Seq(Message)
         /\ sent \in Nat /\ faults \in Nat
BY UserSeqIsMessageSeq DEF TypeOK, TranscriptOK, QueuesOK, ControlOK

\* A step that moves no user message.
LEMMA CarriedStill ==
  ASSUME Carried, faults' = 0 => faults = 0,
         UNCHANGED <<messages, pending, steering, followUp, sent, cleared>>
  PROVE  Carried'
BY DEF Carried, Order, Ways, Known, Accounted, Somewhere, InOrder, Precedes, Holds

\* Forgetting what is pending; it is empty while nothing has failed.
LEMMA CarriedWithoutPending ==
  ASSUME TypeOK, Carried, faults' = 0 => faults = 0 /\ pending = <<>>, pending' = <<>>,
         UNCHANGED <<messages, steering, followUp, sent, cleared>>
  PROVE  Carried'
<1>1. Order' /\ Ways'
  BY EmptyKeeps DEF Carried, Order, Ways, InOrder, Precedes
<1>2. \A n : ~Holds(pending', n)
  BY EmptyKeeps
<1>3. \A n : /\ Somewhere(n)' => Somewhere(n)
             /\ pending = <<>> => (Somewhere(n) <=> Somewhere(n)')
  BY <1>2 DEF Somewhere, Holds
<1>4. Known' /\ Accounted'
  BY <1>3 DEF Carried, Known, Accounted
<1>5. QED
  BY <1>1, <1>4 DEF Carried

\* A message that no user sent enters the transcript.
LEMMA CarriedOverOther ==
  ASSUME TypeOK, Carried, NEW m \in Message, m.role # "user",
         messages' = Append(messages, m), faults' = 0 => faults = 0,
         UNCHANGED <<pending, steering, followUp, sent, cleared>>
  PROVE  Carried'
<1>1. \A l : Before(m, l) /\ Before(l, m)
  BY OthersAnywhere
<1>2. Order' /\ Ways'
  BY <1>1, Places, AppendKeeps DEF Carried, Order, Ways
<1>3. \A n : Somewhere(n)' <=> Somewhere(n)
  BY Places, AppendKeeps DEF Somewhere
<1>4. QED
  BY <1>2, <1>3 DEF Carried, Known, Accounted

\* After a failure, one does and what was pending is lost.
LEMMA CarriedFailing ==
  ASSUME TypeOK, Carried, NEW m \in Message, m.role # "user",
         messages' = Append(messages, m), faults' # 0, pending' = <<>>,
         UNCHANGED <<steering, followUp, sent, cleared>>
  PROVE  Carried'
<1>1. \A l : Before(m, l) /\ Before(l, m)
  BY OthersAnywhere
<1>2. /\ InOrder(messages') /\ Precedes(messages', steering)
      /\ Precedes(messages', followUp)
  BY <1>1, Places, AppendKeeps DEF Carried, Order
<1>3. Order' /\ Ways'
  BY <1>2, EmptyKeeps DEF Carried, Order, Ways
<1>4. \A n : Somewhere(n)' => Somewhere(n)
  BY Places, AppendKeeps, EmptyKeeps DEF Somewhere
<1>5. QED
  BY <1>3, <1>4 DEF Carried, Known, Accounted

\* The first of what is pending enters the transcript.
LEMMA CarriedAlong ==
  ASSUME TypeOK, Carried, pending # <<>>, faults' = 0 => faults = 0,
         messages' = Append(messages, Head(pending)), pending' = Tail(pending),
         UNCHANGED <<steering, followUp, sent, cleared>>
  PROVE  Carried'
<1> DEFINE m == Head(pending)
<1>1. /\ m \in Message /\ pending' \in Seq(Message) /\ Stretch(pending', pending)
      /\ 1 \in 1..Len(pending) /\ m = pending[1]
      /\ InOrder(pending) => \A j \in 1..Len(pending') : Before(m, pending'[j])
      /\ \A n : Holds(pending, n) <=> Holds(pending', n) \/ (m.role = "user" /\ m.id = n)
  BY Places, HeadGoesFirst
<1> HIDE DEF m
<1>2. messages' = Append(messages, m)
  BY DEF m
<1>3. /\ \A i \in 1..Len(messages) : Before(messages[i], m)
      /\ \A j \in 1..Len(steering) : Before(m, steering[j])
      /\ \A j \in 1..Len(followUp) : Before(m, followUp[j])
      /\ \A j \in 1..Len(pending') : Before(m, pending'[j])
  BY <1>1 DEF Carried, Order, Precedes
<1>4. /\ InOrder(pending') /\ Precedes(messages, pending')
      /\ Precedes(pending', steering) /\ Precedes(pending', followUp)
  BY <1>1, Places, StretchKeeps DEF Carried, Order
<1>5. /\ InOrder(messages') /\ Precedes(messages', pending')
      /\ Precedes(messages', steering) /\ Precedes(messages', followUp)
  <2>1. InOrder(messages')
    BY <1>1, <1>2, <1>3, Places, AppendKeeps DEF Carried, Order
  <2>2. \A u \in Seq(Message) :
           Precedes(messages, u) /\ (\A j \in 1..Len(u) : Before(m, u[j]))
             => Precedes(messages', u)
    BY <1>1, <1>2, Places, AppendKeeps
  <2>5. Precedes(messages', pending')
    BY <1>1, <1>3, <1>4, <2>2
  <2>3. Precedes(messages', steering) /\ Precedes(messages', followUp)
    BY <1>1, <1>2, <1>3, Places, AppendKeeps DEF Carried, Order
  <2>4. QED
    BY <2>1, <2>3, <2>5
<1>6. Order' /\ Ways'
  BY <1>4, <1>5 DEF Carried, Order, Ways
<1>7. \A n : Somewhere(n)' <=> Somewhere(n)
  BY <1>1, <1>2, Places, AppendKeeps DEF Somewhere
<1>8. QED
  BY <1>6, <1>7 DEF Carried, Known, Accounted

\* A queue gives what is pending next: nothing was pending, or a failure loses it.
LEMMA CarriedToPending ==
  ASSUME TypeOK, Carried, faults' = 0 => faults = 0 /\ pending = <<>>,
         NEW mode,
         \/ /\ pending' = Drained(steering, mode) /\ steering' = Left(steering, mode)
            /\ UNCHANGED followUp
         \/ /\ pending' = Drained(followUp, mode) /\ followUp' = Left(followUp, mode)
            /\ UNCHANGED steering,
         UNCHANGED <<messages, sent, cleared>>
  PROVE  Carried'
<1>0. \A n : pending = <<>> => ~Holds(pending, n)
  BY EmptyKeeps
<1>1. CASE /\ pending' = Drained(steering, mode) /\ steering' = Left(steering, mode)
           /\ UNCHANGED followUp
  <2>1. /\ pending' \in Seq(Message) /\ steering' \in Seq(Message)
        /\ Stretch(pending', steering) /\ Stretch(steering', steering)
        /\ InOrder(steering) => Precedes(pending', steering')
        /\ \A n : Holds(steering, n) <=> Holds(pending', n) \/ Holds(steering', n)
    BY <1>1, Places, DrainKeeps
  <2>2. /\ InOrder(pending') /\ Precedes(messages, pending')
        /\ Precedes(pending', followUp) /\ Precedes(pending', steering')
    BY <2>1, Places, StretchKeeps DEF Carried, Order
  <2>3. /\ InOrder(steering') /\ Precedes(messages, steering')
        /\ Precedes(steering', followUp) /\ Precedes(followUp, steering')
    BY <2>1, Places, StretchKeeps DEF Carried, Order
  <2>4. \A i \in 1..Len(steering') : steering'[i].via = "steer"
    <3>1. \A i \in 1..Len(steering') : \E j \in 1..Len(steering) : steering'[i] = steering[j]
      BY <2>1, Places, StretchTakes
    <3>2. QED
      BY <3>1 DEF Carried, Ways
  <2>5. Order' /\ Ways'
    BY <1>1, <2>2, <2>3, <2>4 DEF Carried, Order, Ways
  <2>6. \A n : /\ Somewhere(n)' => Somewhere(n)
               /\ pending = <<>> => (Somewhere(n)' <=> Somewhere(n))
    BY <1>0, <1>1, <2>1 DEF Somewhere
  <2>7. QED
    BY <2>5, <2>6 DEF Carried, Known, Accounted
<1>2. CASE /\ pending' = Drained(followUp, mode) /\ followUp' = Left(followUp, mode)
           /\ UNCHANGED steering
  <2>1. /\ pending' \in Seq(Message) /\ followUp' \in Seq(Message)
        /\ Stretch(pending', followUp) /\ Stretch(followUp', followUp)
        /\ InOrder(followUp) => Precedes(pending', followUp')
        /\ \A n : Holds(followUp, n) <=> Holds(pending', n) \/ Holds(followUp', n)
    BY <1>2, Places, DrainKeeps
  <2>2. /\ InOrder(pending') /\ Precedes(messages, pending')
        /\ Precedes(pending', followUp') /\ Precedes(pending', steering)
    BY <2>1, Places, StretchKeeps DEF Carried, Order
  <2>3. /\ InOrder(followUp') /\ Precedes(messages, followUp')
        /\ Precedes(steering, followUp') /\ Precedes(followUp', steering)
    BY <2>1, Places, StretchKeeps DEF Carried, Order
  <2>4. \A i \in 1..Len(followUp') : followUp'[i].via = "followUp"
    <3>1. \A i \in 1..Len(followUp') : \E j \in 1..Len(followUp) : followUp'[i] = followUp[j]
      BY <2>1, Places, StretchTakes
    <3>2. QED
      BY <3>1 DEF Carried, Ways
  <2>5. Order' /\ Ways'
    BY <1>2, <2>2, <2>3, <2>4 DEF Carried, Order, Ways
  <2>6. \A n : /\ Somewhere(n)' => Somewhere(n)
               /\ pending = <<>> => (Somewhere(n)' <=> Somewhere(n))
    BY <1>0, <1>2, <2>1 DEF Somewhere
  <2>7. QED
    BY <2>5, <2>6 DEF Carried, Known, Accounted
<1>3. QED
  BY <1>1, <1>2

\* The newest message comes after all that were sent.
LEMMA NewestGoesLast ==
  ASSUME TypeOK, Carried, NEW via
  PROVE  LET m == User(sent + 1, via)
         IN  /\ \A i \in 1..Len(messages) : Before(messages[i], m)
             /\ \A i \in 1..Len(pending) : Before(pending[i], m)
             /\ \A i \in 1..Len(steering) : Before(steering[i], m)
             /\ \A i \in 1..Len(followUp) : Before(followUp[i], m)
             /\ via # "steer" => \A i \in 1..Len(steering) : Before(m, steering[i])
             /\ via # "followUp" => \A i \in 1..Len(followUp) : Before(m, followUp[i])
<1> DEFINE m == User(sent + 1, via)
<1>1. m.role = "user" /\ m.id = sent + 1 /\ m.via = via
  BY DEF User
<1> HIDE DEF m
<1>2. ASSUME NEW s, \A n : Holds(s, n) => n \in 1..sent
      PROVE  \A i \in 1..Len(s) : /\ Before(s[i], m)
                                  /\ s[i].via # via => Before(m, s[i])
  <2>1. \A i \in 1..Len(s) : s[i].role = "user" => s[i].id \in 1..sent
    BY <1>2 DEF Holds
  <2>2. QED
    BY <1>1, <2>1, Places DEF Before
<1>3. /\ \A n : Holds(messages, n) => n \in 1..sent
      /\ \A n : Holds(pending, n) => n \in 1..sent
      /\ \A n : Holds(steering, n) => n \in 1..sent
      /\ \A n : Holds(followUp, n) => n \in 1..sent
  BY DEF Carried, Known, Somewhere
<1>4. QED
  BY <1>2, <1>3 DEF m, Carried, Ways

LEMMA CarriedPrompt == ASSUME TypeOK, Undropped, Carried, Prompt PROVE Carried'
<1> DEFINE m == User(sent + 1, "prompt")
<1>1. /\ m \in Message /\ m.role = "user" /\ m.id = sent + 1
  BY NewUserType, MessageTypes DEF Prompt, User, TypeOK, QueuesOK
<1>2. /\ pending' = <<m>> /\ sent' = sent + 1
      /\ UNCHANGED <<messages, steering, followUp, cleared, faults>>
  BY DEF Prompt, StartRun
<1>3. /\ \A i \in 1..Len(messages) : Before(messages[i], m)
      /\ \A i \in 1..Len(steering) : Before(m, steering[i])
      /\ \A i \in 1..Len(followUp) : Before(m, followUp[i])
  BY NewestGoesLast
<1> HIDE DEF m
<1>4. Len(pending') = 1 /\ \A i \in 1..Len(pending') : pending'[i] = m
  BY <1>2
<1>5. /\ InOrder(pending') /\ Precedes(messages, pending')
      /\ Precedes(pending', steering) /\ Precedes(pending', followUp)
  BY <1>3, <1>4 DEF InOrder, Precedes
<1>6. Order' /\ Ways'
  BY <1>2, <1>5 DEF Carried, Order, Ways
<1>7. \A n : Holds(pending', n) <=> n = sent + 1
  BY <1>1, <1>4 DEF Holds
<1>8. faults = 0 => pending = <<>>
  BY DEF Undropped, Prompt, StartRun, active
<1>9. \A n : /\ Somewhere(n)' => Somewhere(n) \/ n = sent + 1
             /\ pending = <<>> /\ Somewhere(n) => Somewhere(n)'
  BY <1>2, <1>7, EmptyKeeps DEF Somewhere
<1>10. Known'
  BY <1>2, <1>9, Places DEF Carried, Known
<1>11. Accounted'
  <2>1. SUFFICES ASSUME faults = 0, NEW n \in 1..(sent + 1) PROVE n \in cleared \/ Somewhere(n)'
    BY <1>2 DEF Accounted
  <2>2. n \in 1..sent \/ n = sent + 1
    BY Places
  <2>3. n = sent + 1 => Somewhere(n)'
    BY <1>7 DEF Somewhere
  <2>4. QED
    BY <1>8, <1>9, <2>1, <2>2, <2>3 DEF Carried, Accounted
<1>12. QED
  BY <1>6, <1>10, <1>11 DEF Carried

\* A queue that takes the newest message.
LEMMA QueueGrows ==
  ASSUME TypeOK, Carried, sent < MaxMsgs, NEW via \in {"steer", "followUp"},
         NEW q \in Seq(Message), InOrder(q), Precedes(messages, q), Precedes(pending, q),
         \A i \in 1..Len(q) : Before(q[i], User(sent + 1, via)) /\ q[i].via = via
  PROVE  LET r == Append(q, User(sent + 1, via))
         IN  /\ InOrder(r) /\ Precedes(messages, r) /\ Precedes(pending, r)
             /\ \A i \in 1..Len(r) : r[i].via = via
             /\ \A n : Holds(r, n) <=> Holds(q, n) \/ n = sent + 1
<1> DEFINE m == User(sent + 1, via)
           r == Append(q, m)
<1>1. m \in Message /\ m.role = "user" /\ m.id = sent + 1 /\ m.via = via
  BY NewUserType, MessageTypes DEF User, TypeOK, QueuesOK
<1>2. /\ \A i \in 1..Len(messages) : Before(messages[i], m)
      /\ \A i \in 1..Len(pending) : Before(pending[i], m)
      /\ \A i \in 1..Len(q) : Before(q[i], m)
  BY NewestGoesLast
<1>3. \A i \in 1..Len(r) : r[i].via = via
  BY <1>1, LenProperties
<1> HIDE DEF m
<1>4. InOrder(r) /\ \A n : Holds(r, n) <=> Holds(q, n) \/ n = sent + 1
  BY <1>1, <1>2, AppendKeeps
<1>5. Precedes(messages, r) /\ Precedes(pending, r)
  BY <1>1, <1>2, Places, AppendKeeps
<1>6. QED
  BY <1>3, <1>4, <1>5 DEF m

\* A message joins the end of a queue.
LEMMA CarriedQueued == ASSUME TypeOK, Carried, Steer \/ FollowUp PROVE Carried'
<1>1. CASE Steer
  <2>1. /\ steering' = Append(steering, User(sent + 1, "steer")) /\ sent' = sent + 1
        /\ sent < MaxMsgs /\ UNCHANGED <<messages, pending, followUp, cleared, faults>>
    BY <1>1 DEF Steer
  <2>2. /\ \A i \in 1..Len(steering) : Before(steering[i], User(sent + 1, "steer"))
        /\ \A i \in 1..Len(followUp) : /\ Before(followUp[i], User(sent + 1, "steer"))
                                       /\ Before(User(sent + 1, "steer"), followUp[i])
    BY NewestGoesLast
  <2>3. /\ InOrder(steering') /\ Precedes(messages, steering') /\ Precedes(pending, steering')
        /\ \A i \in 1..Len(steering') : steering'[i].via = "steer"
        /\ \A n : Holds(steering', n) <=> Holds(steering, n) \/ n = sent + 1
    <3>1. /\ steering \in Seq(Message) /\ InOrder(steering)
          /\ Precedes(messages, steering) /\ Precedes(pending, steering)
          /\ \A i \in 1..Len(steering) : steering[i].via = "steer"
      BY Places DEF Carried, Order, Ways
    <3>2. QED
      BY <2>1, <2>2, <3>1, QueueGrows
  <2>4. User(sent + 1, "steer") \in Message
    BY <2>1, NewUserType, MessageTypes DEF TypeOK, QueuesOK
  <2>5. Precedes(steering', followUp) /\ Precedes(followUp, steering')
    BY <2>1, <2>2, <2>4, Places, AppendKeeps DEF Carried, Order
  <2>6. Order' /\ Ways'
    BY <2>1, <2>3, <2>5 DEF Carried, Order, Ways
  <2>7. \A n : Somewhere(n)' <=> Somewhere(n) \/ n = sent + 1
    BY <2>1, <2>3 DEF Somewhere
  <2>8. QED
    BY <2>1, <2>6, <2>7, Places DEF Carried, Known, Accounted
<1>2. CASE FollowUp
  <2>1. /\ followUp' = Append(followUp, User(sent + 1, "followUp")) /\ sent' = sent + 1
        /\ sent < MaxMsgs /\ UNCHANGED <<messages, pending, steering, cleared, faults>>
    BY <1>2 DEF FollowUp
  <2>2. /\ \A i \in 1..Len(followUp) : Before(followUp[i], User(sent + 1, "followUp"))
        /\ \A i \in 1..Len(steering) : /\ Before(steering[i], User(sent + 1, "followUp"))
                                       /\ Before(User(sent + 1, "followUp"), steering[i])
    BY NewestGoesLast
  <2>3. /\ InOrder(followUp') /\ Precedes(messages, followUp') /\ Precedes(pending, followUp')
        /\ \A i \in 1..Len(followUp') : followUp'[i].via = "followUp"
        /\ \A n : Holds(followUp', n) <=> Holds(followUp, n) \/ n = sent + 1
    <3>1. /\ followUp \in Seq(Message) /\ InOrder(followUp)
          /\ Precedes(messages, followUp) /\ Precedes(pending, followUp)
          /\ \A i \in 1..Len(followUp) : followUp[i].via = "followUp"
      BY Places DEF Carried, Order, Ways
    <3>2. QED
      BY <2>1, <2>2, <3>1, QueueGrows
  <2>4. User(sent + 1, "followUp") \in Message
    BY <2>1, NewUserType, MessageTypes DEF TypeOK, QueuesOK
  <2>5. Precedes(followUp', steering) /\ Precedes(steering, followUp')
    BY <2>1, <2>2, <2>4, Places, AppendKeeps DEF Carried, Order
  <2>6. Order' /\ Ways'
    BY <2>1, <2>3, <2>5 DEF Carried, Order, Ways
  <2>7. \A n : Somewhere(n)' <=> Somewhere(n) \/ n = sent + 1
    BY <2>1, <2>3 DEF Somewhere
  <2>8. QED
    BY <2>1, <2>6, <2>7, Places DEF Carried, Known, Accounted
<1>3. QED
  BY <1>1, <1>2

\* Clearing the queues moves what they hold to cleared.
LEMMA CarriedCleared == ASSUME TypeOK, Carried, ClearQueues PROVE Carried'
<1>1. /\ steering' = <<>> /\ followUp' = <<>>
      /\ UNCHANGED <<messages, pending, sent, faults>>
      /\ cleared' = cleared \union {m.id : m \in ToSet(steering) \union ToSet(followUp)}
  BY DEF ClearQueues
<1>2. Order' /\ Ways'
  BY <1>1, EmptyKeeps DEF Carried, Order, Ways
<1>3. \A q : q \in Seq(UserMessages) =>
         \A n : n \in {m.id : m \in ToSet(q)} <=> Holds(q, n)
  <2>1. SUFFICES ASSUME NEW q \in Seq(UserMessages), NEW n
                 PROVE  n \in {m.id : m \in ToSet(q)} <=> Holds(q, n)
    OBVIOUS
  <2>2. \A i \in 1..Len(q) : q[i].role = "user"
    <3>1. \A i \in 1..Len(q) : q[i] \in UserMessages
      BY ElementOfSeq
    <3>2. QED
      BY <3>1 DEF UserMessages
  <2>3. ToSet(q) = {q[i] : i \in 1..Len(q)}
    BY LenProperties DEF ToSet
  <2>4. QED
    BY <2>2, <2>3 DEF Holds
<1>4. \A n : n \in cleared' <=> n \in cleared \/ Holds(steering, n) \/ Holds(followUp, n)
  BY <1>1, <1>3 DEF TypeOK, QueuesOK
<1>5. \A n : ~Holds(steering', n) /\ ~Holds(followUp', n)
  BY <1>1, EmptyKeeps
<1>6. \A n : /\ Holds(steering, n) \/ Holds(followUp, n)
                => ~Holds(messages, n) /\ ~Holds(pending, n)
  BY DEF Carried, Order, Precedes, Before, Holds
<1>7. \A n : Somewhere(n)' <=> Holds(messages, n) \/ Holds(pending, n)
  BY <1>1, <1>5 DEF Somewhere
<1>8. Known'
  BY <1>1, <1>4, <1>6, <1>7 DEF Carried, Known, Somewhere
<1>9. Accounted'
  BY <1>1, <1>4, <1>7 DEF Carried, Accounted, Somewhere
<1>10. QED
  BY <1>2, <1>8, <1>9 DEF Carried

\* The response that is taken off the transcript is no user message.
LEMMA CarriedDropped == ASSUME TypeOK, Carried, DropFailed PROVE Carried'
<1>1. /\ messages \in Seq(Message) /\ messages # <<>> /\ messages' = Front(messages)
      /\ messages[Len(messages)].role = "assistant"
      /\ UNCHANGED <<pending, steering, followUp, sent, cleared, faults>>
  BY Places DEF DropFailed, LastRole, queues
<1>2. /\ messages' \in Seq(Message) /\ Len(messages') = Len(messages) - 1
      /\ \A i \in 1..(Len(messages) - 1) : messages'[i] = messages[i]
      /\ Len(messages) \in Nat
  BY <1>1, FrontType, LenProperties
<1>3. Stretch(messages', messages)
  <2>1. Len(messages') + 0 <= Len(messages)
    BY <1>2
  <2>2. \A i \in 1..Len(messages') : i + 0 = i /\ messages'[i] = messages[i + 0]
    BY <1>2
  <2>3. QED
    BY <2>1, <2>2 DEF Stretch
<1>4. /\ InOrder(messages') /\ Precedes(messages', pending)
      /\ Precedes(messages', steering) /\ Precedes(messages', followUp)
  BY <1>2, <1>3, Places, StretchKeeps DEF Carried, Order
<1>5. \A n : Holds(messages', n) <=> Holds(messages, n)
  <2>1. \A i \in 1..Len(messages) : i \in 1..Len(messages') \/ i = Len(messages)
    BY <1>2
  <2>2. \A i \in 1..Len(messages') : i \in 1..Len(messages) /\ messages'[i] = messages[i]
    BY <1>2
  <2>3. QED
    BY <1>1, <2>1, <2>2 DEF Holds
<1>6. \A n : Somewhere(n)' <=> Somewhere(n)
  BY <1>1, <1>5 DEF Somewhere
<1>7. QED
  BY <1>1, <1>4, <1>6 DEF Carried, Order, Ways, Known, Accounted

\* Every step is one of these.
LEMMA CarriedStep ==
  ASSUME TypeOK, Undropped, Carried, [Next]_vars PROVE Carried'
<1> USE DEF TypeOK
<1>0. faults \in Nat
  BY Places
<1>1. CASE EmitPrompt \/ Inject
  <2>1. \E p : Awaited(p)
    BY <1>1 DEF EmitPrompt, Inject
  <2>2. faults' = 0 => faults = 0
    BY <2>1, AwaitedCalm
  <2>3. QED
    BY <1>1, <2>2, CarriedAlong DEF EmitPrompt, Inject, queues
<1>2. CASE Respond
  <2>1. PICK n \in 0..MaxCalls, stop \in {"ok", "error", "aborted"} :
          /\ messages' = Append(messages, Assistant(turn + 1, n, stop))
          /\ Awaited(AfterResponse(n, stop))
          /\ UNCHANGED <<pending, steering, followUp, sent, cleared>>
    BY <1>2 DEF Respond, queues
  <2>2. /\ Assistant(turn + 1, n, stop) \in Message
        /\ Assistant(turn + 1, n, stop).role # "user"
    <3>1. turn + 1 \in Nat
      BY DEF TranscriptOK
    <3>2. QED
      BY <3>1, MessageTypes DEF Assistant
  <2>3. faults' = 0 => faults = 0
    BY <2>1, AwaitedCalm
  <2>4. QED
    BY <2>1, <2>2, <2>3, CarriedOverOther
<1>3. CASE EmitResult
  <2>1. /\ messages' = Append(messages, ToolResult(turn, NextResult))
        /\ \E p : Awaited(p)
        /\ UNCHANGED <<pending, steering, followUp, sent, cleared>>
    BY <1>3 DEF EmitResult, queues
  <2>2. /\ ToolResult(turn, NextResult) \in Message
        /\ ToolResult(turn, NextResult).role # "user"
    <3>1. turn \in Nat /\ NextResult \in Nat
      BY DEF TranscriptOK, ToolsOK, NextResult
    <3>2. QED
      BY <3>1, MessageTypes DEF ToolResult
  <2>3. faults' = 0 => faults = 0
    BY <2>1, AwaitedCalm
  <2>4. QED
    BY <2>1, <2>2, <2>3, CarriedOverOther
<1>4. CASE FailureMessage
  <2>1. PICK m : /\ m \in Message /\ m.role # "user" /\ messages' = Append(messages, m)
    <3>1. turn + 1 \in Nat /\ 0 \in 0..MaxCalls
      BY DEF TranscriptOK
    <3>2. \A stop \in {"ok", "error", "aborted"} :
             /\ Assistant(turn + 1, 0, stop) \in Message
             /\ Assistant(turn + 1, 0, stop).role # "user"
      BY <3>1, MessageTypes DEF Assistant
    <3>3. QED
      BY <1>4, <3>2 DEF FailureMessage
  <2>2. /\ faults # 0 /\ faults' # 0 /\ pending' = <<>>
        /\ UNCHANGED <<steering, followUp, sent, cleared>>
    BY <1>0, <1>4 DEF FailureMessage, Undropped, queues
  <2>3. QED
    BY <2>1, <2>2, CarriedFailing
<1>5. CASE FinishRun
  <2>1. /\ pending' = <<>> /\ UNCHANGED <<faults, messages, steering, followUp, sent, cleared>>
        /\ faults = 0 => pending = <<>>
    BY <1>5 DEF FinishRun, Undropped, queues
  <2>2. QED
    BY <2>1, CarriedWithoutPending
<1>6. CASE ContinueTranscript
  <2>1. /\ pending' = <<>> /\ UNCHANGED <<faults, messages, steering, followUp, sent, cleared>>
        /\ faults = 0 => pending = <<>>
    BY <1>6 DEF ContinueTranscript, StartRun, active, Undropped, queues
  <2>2. QED
    BY <2>1, CarriedWithoutPending
<1>7. CASE PollSteering
  <2>1. /\ faults = 0 => pending = <<>>
        /\ UNCHANGED <<faults, messages, followUp, sent, cleared>>
    BY <1>7 DEF PollSteering, Undropped
  <2>2. \/ pending' = <<>> /\ UNCHANGED steering
        \/ /\ pending' = Drained(steering, SteeringMode)
           /\ steering' = Left(steering, SteeringMode)
    BY <1>7 DEF PollSteering
  <2>3. QED
    BY <2>1, <2>2, CarriedWithoutPending, CarriedToPending
<1>8. CASE PollFollowUp
  <2>1. /\ faults = 0 => pending = <<>>
        /\ pending' = Drained(followUp, FollowUpMode)
        /\ followUp' = Left(followUp, FollowUpMode)
        /\ UNCHANGED <<faults, messages, steering, sent, cleared>>
    BY <1>8 DEF PollFollowUp, Undropped
  <2>2. QED
    BY <2>1, CarriedToPending
<1>9. CASE ContinueQueued
  <2>1. /\ faults = 0 => pending = <<>>
        /\ UNCHANGED <<faults, messages, sent, cleared>>
    BY <1>9 DEF ContinueQueued, StartRun, active, Undropped
  <2>2. \/ /\ pending' = Drained(steering, SteeringMode)
           /\ steering' = Left(steering, SteeringMode) /\ UNCHANGED followUp
        \/ /\ pending' = Drained(followUp, FollowUpMode)
           /\ followUp' = Left(followUp, FollowUpMode) /\ UNCHANGED steering
    BY <1>9 DEF ContinueQueued, StartRun
  <2>3. QED
    BY <2>1, <2>2, CarriedToPending
<1>10. CASE Begin \/ TurnEnd \/ AgentEnd \/ StartCall \/ EndRefused
  <2>1. /\ UNCHANGED <<messages, pending, steering, followUp, sent, cleared>>
        /\ \E p : Awaited(p)
    BY <1>10 DEF Begin, TurnEnd, AgentEnd, StartCall, EndRefused, queues
  <2>2. QED
    BY <2>1, AwaitedCalm, CarriedStill
<1>11. CASE CallModel \/ Refuse \/ Prepare \/ AfterPrepared \/ FailureEnd \/ Abort
            \/ RunThrows \/ ResultThrows \/ FailureUnseen \/ UNCHANGED vars
  <2>1. /\ UNCHANGED <<messages, pending, steering, followUp, sent, cleared>>
        /\ faults' \in {faults, faults + 1}
    BY <1>11 DEF CallModel, Refuse, Prepare, AfterPrepared, FailureEnd, Abort, RunThrows,
                 ResultThrows, FailureUnseen, Throw, queues, vars
  <2>2. QED
    BY <1>0, <2>1, CarriedStill
<1>12. ASSUME NEW c \in Calls, Tool(c) PROVE Carried'
  <2>1. /\ UNCHANGED <<messages, pending, steering, followUp, sent, cleared>>
        /\ faults' \in {faults, faults + 1}
    BY <1>12 DEF Tool, ToolReturns, EndCall, CallRejects, Throw, queues
  <2>2. QED
    BY <1>0, <2>1, CarriedStill
<1>13. ASSUME NEW o \in orphans, OrphanEnds(o) \/ OrphanRejects(o) PROVE Carried'
  <2>1. UNCHANGED <<messages, pending, steering, followUp, sent, cleared, faults>>
    BY <1>13 DEF OrphanEnds, OrphanRejects, queues
  <2>2. QED
    BY <2>1, CarriedStill
<1>14. CASE Prompt \/ Steer \/ FollowUp \/ ClearQueues \/ DropFailed
  BY <1>14, CarriedPrompt, CarriedQueued, CarriedCleared, CarriedDropped
<1>15. QED
  BY <1>1, <1>2, <1>3, <1>4, <1>5, <1>6, <1>7, <1>8, <1>9, <1>10, <1>11, <1>12, <1>13,
     <1>14 DEF Next, Loop, Caller

LEMMA DeliveryInvariant == Spec => [](TypeOK /\ Undropped /\ Carried)
<1>1. Init => Undropped /\ Carried
  <2>1. ASSUME Init PROVE Order /\ Ways
    BY <2>1, EmptyKeeps DEF Init, Order, Ways
  <2>2. ASSUME Init PROVE \A n : ~Somewhere(n)
    BY <2>2, EmptyKeeps DEF Init, Somewhere
  <2>3. ASSUME Init PROVE Known /\ Accounted /\ Undropped
    <3>1. sent = 0 /\ cleared = {} /\ pc = "idle" /\ pending = <<>>
      BY <2>3 DEF Init
    <3>2. Known /\ Accounted
      BY <2>2, <2>3, <3>1 DEF Known, Accounted
    <3>3. QED
      BY <3>1, <3>2 DEF Undropped
  <2>4. QED
    BY <2>1, <2>3 DEF Carried
<1>2. TypeOK /\ Undropped /\ Carried /\ [Next]_vars => Undropped' /\ Carried'
  BY UndroppedStep, CarriedStep DEF TypeOK
<1>3. QED
  BY <1>1, <1>2, BatchInvariant, PTL DEF Spec

\* Messages sent the same way reach the transcript in the order they were sent,
\* whatever is queued, cleared, aborted, dropped or fails in between.
THEOREM MessagesOrdered == Spec => []DeliveredInOrder
<1>1. TypeOK /\ Carried => DeliveredInOrder
  <2> SUFFICES ASSUME TypeOK, Carried PROVE DeliveredInOrder
    OBVIOUS
  <2>1. DOMAIN messages = 1..Len(messages)
    BY Places, LenProperties
  <2>2. QED
    BY <2>1 DEF Carried, Order, InOrder, Before, DeliveredInOrder
<1>2. QED
  BY <1>1, DeliveryInvariant, PTL

\* The places of message n in a sequence that is in order: one if it is there.
LEMMA OnePlace ==
  ASSUME NEW s \in Seq(Message), InOrder(s), NEW n
  PROVE  LET places == {i \in DOMAIN s : s[i].role = "user" /\ s[i].id = n}
         IN  /\ Cardinality(places) = IF Holds(s, n) THEN 1 ELSE 0
<1> DEFINE places == {i \in DOMAIN s : s[i].role = "user" /\ s[i].id = n}
<1>1. DOMAIN s = 1..Len(s) /\ Len(s) \in Nat
  BY LenProperties
<1>2. CASE ~Holds(s, n)
  <2>1. places = {}
    BY <1>1, <1>2 DEF Holds
  <2>2. QED
    BY <1>2, <2>1, FS_EmptySet
<1>3. CASE Holds(s, n)
  <2>1. PICK i \in 1..Len(s) : s[i].role = "user" /\ s[i].id = n
    BY <1>3 DEF Holds
  <2>2. \A j \in 1..Len(s) : s[j].role = "user" /\ s[j].id = n => ~(i < j) /\ ~(j < i)
    BY <2>1 DEF InOrder, Before
  <2>3. \A j \in places : j = i
    BY <1>1, <2>2
  <2>4. places = {i}
    BY <1>1, <2>1, <2>3
  <2>5. QED
    BY <1>3, <2>4, FS_Singleton
<1>4. QED
  BY <1>2, <1>3

\* No user message is delivered twice or is in two places at once, and none is
\* lost unless a listener or a model call has failed.
THEOREM MessagesDeliveredOnce == Spec => []DeliveredOnce
<1>1. TypeOK /\ Carried => DeliveredOnce
  <2> SUFFICES ASSUME TypeOK, Carried, NEW n \in 1..sent
                 PROVE  Copies(n) <= 1 /\ (faults = 0 => Copies(n) = 1)
    BY DEF DeliveredOnce
  <2>1. \A q : q \in Seq(UserMessages) =>
           {i \in DOMAIN q : q[i].id = n}
             = {i \in DOMAIN q : q[i].role = "user" /\ q[i].id = n}
    <3>1. SUFFICES ASSUME NEW q \in Seq(UserMessages)
                   PROVE  \A i \in DOMAIN q : q[i].role = "user"
      OBVIOUS
    <3>2. \A i \in DOMAIN q : q[i] \in UserMessages
      BY LenProperties, ElementOfSeq
    <3>3. QED
      BY <3>2 DEF UserMessages
  <2>2. /\ Cardinality(Waiting(n)) = IF Holds(steering, n) THEN 1 ELSE 0
        /\ Cardinality(Following(n)) = IF Holds(followUp, n) THEN 1 ELSE 0
        /\ Cardinality(InFlight(n)) = IF Holds(pending, n) THEN 1 ELSE 0
        /\ Cardinality(Delivered(n)) = IF Holds(messages, n) THEN 1 ELSE 0
    <3>1. /\ Waiting(n) =
               {i \in DOMAIN steering : steering[i].role = "user" /\ steering[i].id = n}
          /\ Following(n) =
               {i \in DOMAIN followUp : followUp[i].role = "user" /\ followUp[i].id = n}
          /\ InFlight(n) =
               {i \in DOMAIN pending : pending[i].role = "user" /\ pending[i].id = n}
          /\ Delivered(n) =
               {i \in DOMAIN messages : messages[i].role = "user" /\ messages[i].id = n}
      BY <2>1 DEF TypeOK, QueuesOK, Waiting, Following, InFlight, Delivered
    <3>2. InOrder(messages) /\ InOrder(pending) /\ InOrder(steering) /\ InOrder(followUp)
      BY DEF Carried, Order
    <3>3. QED
      BY <3>1, <3>2, Places, OnePlace
  <2>3. /\ Holds(messages, n) => ~Holds(pending, n) /\ ~Holds(steering, n) /\ ~Holds(followUp, n)
        /\ Holds(pending, n) => ~Holds(steering, n) /\ ~Holds(followUp, n)
        /\ Holds(steering, n) => ~Holds(followUp, n)
    BY DEF Carried, Order, Precedes, Before, Holds
  <2>4. /\ n \in cleared => ~Somewhere(n)
        /\ faults = 0 => n \in cleared \/ Somewhere(n)
    BY DEF Carried, Known, Accounted
  <2>5. QED
    BY <2>2, <2>3, <2>4 DEF Copies, Somewhere
<1>2. QED
  BY <1>1, DeliveryInvariant, PTL

------------------------------------------------------------------------------
(* The stream that carries the events of a run (StreamReaders), for any    *)
(* number of readers and events: every event reaches one reader, in order, *)
(* and no reader sleeps while there is one to read.                        *)
(*                                                                         *)
(* The queue always holds the last events accepted, without a gap: those   *)
(* numbered above Low.  The readers have the events up to Low, each event  *)
(* one of them.  A reader is on the waiting list only if it waits with     *)
(* nothing in its hand, and only while the queue is empty, so that the     *)
(* event handed to it is the one after Low.                                *)

Answers == Events \union {NoEvent, Closed}

Streams == [queue : Seq(Events), waiting : Seq(Readers), done : BOOLEAN,
            result : Events \union {NoEvent, Given}, hand : [Readers -> Answers]]

\* the events given to readers are those up to this number
Low == pushed - Len(stream.queue)

\* what is known of the readers that wait
StreamWaiting ==
  /\ \A i \in DOMAIN stream.waiting :
       reader[stream.waiting[i]] = "waits" /\ stream.hand[stream.waiting[i]] = NoEvent
  /\ \A i, j \in DOMAIN stream.waiting : stream.waiting[i] = stream.waiting[j] => i = j
  /\ \A r \in Readers : reader[r] # "waits" => stream.hand[r] = NoEvent

\* the queue holds the events above Low
QueueHolds ==
  /\ Len(stream.queue) <= pushed
  /\ \A i \in DOMAIN stream.queue : stream.queue[i].n = Low + i

\* event n was given to reader r
Has(r, n) == \/ \E i \in DOMAIN got[r] : got[r][i].n = n
             \/ stream.hand[r] \in Events /\ stream.hand[r].n = n

\* each event up to Low was given to one reader, and no other event to any
Shared ==
  /\ \A n \in 1..Low : \E r \in Readers : Has(r, n)
  /\ \A r \in Readers : \A n \in Int : Has(r, n) => n \in 1..Low
  /\ \A r, q \in Readers : \A n \in Int : Has(r, n) /\ Has(q, n) => r = q

StreamInv == StreamTypeOK /\ StreamWaiting /\ NoneStalled /\ QueueHolds /\ Shared /\ ReadInOrder

-----------------------------------------------------------------------------
(* Facts about events and about the operations of a stream *)

\* An event is neither of the two marks of the iteration.
LEMMA EventsApart ==
  /\ NoEvent \notin Events /\ Closed \notin Events /\ NoEvent # Closed
  /\ \A e \in Events : e.n \in 1..MaxEvents /\ e.type \in Kinds
  /\ \A t \in Kinds, n \in 1..MaxEvents : Event(t, n) \in Events /\ Event(t, n).n = n
<1>1. NoEvent.type = "none" /\ Closed.type = "closed"
  BY DEF NoEvent, Closed
<1>2. \A e \in Events : e.type \in {"delta", "done"} /\ e.n \in 1..MaxEvents
  BY DEF Events, Kinds
<1>3. NoEvent \notin Events /\ Closed \notin Events /\ NoEvent # Closed
  BY <1>1, <1>2
<1> QED
  BY <1>2, <1>3 DEF Events, Event, Kinds

\* A stream that is over takes no event.
LEMMA PushOver ==
  ASSUME NEW s, NEW e, s.done
  PROVE  Push(s, e) = s
  BY DEF Push

\* An event nobody waits for goes to the end of the queue.
LEMMA PushQueues ==
  ASSUME NEW s \in Streams, NEW e \in Events, ~s.done, s.waiting = <<>>
  PROVE  /\ Push(s, e) \in Streams
         /\ Push(s, e).queue = Append(s.queue, e)
         /\ Push(s, e).waiting = s.waiting
         /\ Push(s, e).hand = s.hand
<1> DEFINE b == IsComplete(e)
           r == IF b THEN Resolve(s.result, e) ELSE s.result
           q == Append(s.queue, e)
<1>1. r \in Events \union {NoEvent, Given} /\ b \in BOOLEAN
  BY DEF Streams, Resolve, IsComplete
<1>2. Push(s, e) = [s EXCEPT !.done = b, !.result = r, !.queue = q]
  BY DEF Push, IsComplete, Resolve, Streams
<1>3. q \in Seq(Events)
  BY DEF Streams
<1> HIDE DEF b, r, q
<1>4. /\ Push(s, e) \in Streams
      /\ Push(s, e).queue = q
      /\ Push(s, e).waiting = s.waiting
      /\ Push(s, e).hand = s.hand
  BY <1>1, <1>2, <1>3 DEF Streams
<1> QED
  BY <1>4 DEF q

\* An event somebody waits for goes into the hand of the first who does.
LEMMA PushHands ==
  ASSUME NEW s \in Streams, NEW e \in Events, ~s.done, s.waiting # <<>>
  PROVE  /\ Push(s, e) \in Streams
         /\ Push(s, e).queue = s.queue
         /\ Push(s, e).waiting = Tail(s.waiting)
         /\ Push(s, e).hand = [s.hand EXCEPT ![Head(s.waiting)] = e]
<1> DEFINE b == IsComplete(e)
           r == IF b THEN Resolve(s.result, e) ELSE s.result
           h == [s.hand EXCEPT ![Head(s.waiting)] = e]
<1>1. r \in Events \union {NoEvent, Given} /\ b \in BOOLEAN
  BY DEF Streams, Resolve, IsComplete
<1>2. Push(s, e) = [[s EXCEPT !.done = b, !.result = r] EXCEPT !.hand = h, !.waiting = Tail(@)]
  BY DEF Push, IsComplete, Resolve, Streams
<1>3. h \in [Readers -> Answers] /\ Tail(s.waiting) \in Seq(Readers)
  BY DEF Streams, Answers
<1> HIDE DEF b, r, h
<1>4. /\ Push(s, e) \in Streams
      /\ Push(s, e).queue = s.queue
      /\ Push(s, e).waiting = Tail(s.waiting)
      /\ Push(s, e).hand = h
  BY <1>1, <1>2, <1>3 DEF Streams
<1> QED
  BY <1>4 DEF h

\* The end is told to those who wait, and to nobody else.
LEMMA EndTells ==
  ASSUME NEW s \in Streams, NEW e \in {NoEvent, Given}
  PROVE  /\ End(s, e) \in Streams
         /\ End(s, e).queue = s.queue
         /\ End(s, e).waiting = <<>>
         /\ \A r \in Readers :
              \/ End(s, e).hand[r] = s.hand[r] /\ \A i \in DOMAIN s.waiting : s.waiting[i] # r
              \/ End(s, e).hand[r] = Closed /\ \E i \in DOMAIN s.waiting : s.waiting[i] = r
<1> DEFINE v == Resolve(s.result, e)
           h == [r \in Readers |-> IF \E i \in DOMAIN s.waiting : s.waiting[i] = r
                                   THEN Closed ELSE s.hand[r]]
<1>1. v \in Events \union {NoEvent, Given}
  BY DEF Streams, Resolve
<1>2. h \in [Readers -> Answers] /\ <<>> \in Seq(Readers)
  BY DEF Streams, Answers
<1>3. \A r \in Readers :
        \/ h[r] = s.hand[r] /\ \A i \in DOMAIN s.waiting : s.waiting[i] # r
        \/ h[r] = Closed /\ \E i \in DOMAIN s.waiting : s.waiting[i] = r
  OBVIOUS
<1>4. End(s, e) = [s EXCEPT !.done = TRUE, !.result = v, !.hand = h, !.waiting = <<>>]
  BY DEF End, Resolve, Streams
<1> HIDE DEF v, h
<1> QED
  BY <1>1, <1>2, <1>3, <1>4 DEF Streams

\* Asking takes the first event of the queue, or puts the reader on the list.
LEMMA AskedTakes ==
  ASSUME NEW s \in Streams, NEW r \in Readers
  PROVE  /\ Asked(s, r) \in Streams
         /\ Asked(s, r).hand = s.hand
         /\ s.queue # <<>> => /\ Asked(s, r).queue = Tail(s.queue)
                              /\ Asked(s, r).waiting = s.waiting
                              /\ Offered(s) = Head(s.queue)
         /\ s.queue = <<>> /\ s.done => Asked(s, r) = s /\ Offered(s) = Closed
         /\ s.queue = <<>> /\ ~s.done => /\ Asked(s, r).queue = s.queue
                                         /\ Asked(s, r).waiting = Append(s.waiting, r)
                                         /\ Offered(s) = NoEvent
<1>1. CASE s.queue # <<>>
  <2>1. Asked(s, r) = [s EXCEPT !.queue = Tail(@)] /\ Offered(s) = Head(s.queue)
    BY <1>1 DEF Asked, Offered
  <2>2. Tail(s.queue) \in Seq(Events)
    BY <1>1 DEF Streams
  <2> QED
    BY <1>1, <2>1, <2>2 DEF Streams
<1>2. CASE s.queue = <<>> /\ s.done
  BY <1>2 DEF Asked, Offered, Streams
<1>3. CASE s.queue = <<>> /\ ~s.done
  <2> DEFINE w == Append(s.waiting, r)
  <2>1. Asked(s, r) = [s EXCEPT !.waiting = w] /\ Offered(s) = NoEvent
    BY <1>3 DEF Asked, Offered, Streams
  <2>2. w \in Seq(Readers)
    BY DEF Streams
  <2> HIDE DEF w
  <2>3. /\ Asked(s, r) \in Streams
        /\ Asked(s, r).hand = s.hand
        /\ Asked(s, r).queue = s.queue
        /\ Asked(s, r).waiting = w
    BY <2>1, <2>2 DEF Streams
  <2> QED
    BY <1>3, <2>1, <2>3 DEF w
<1> QED
  BY <1>1, <1>2, <1>3

\* What is offered tells the state of the stream.
LEMMA OfferedTells ==
  ASSUME NEW s \in Streams
  PROVE  /\ s.queue # <<>> => Offered(s) \in Events
         /\ Offered(s) = Closed => s.queue = <<>> /\ s.done
         /\ Offered(s) = NoEvent => s.queue = <<>> /\ ~s.done
<1>1. ASSUME s.queue # <<>> PROVE Head(s.queue) \in Events
  <2>1. s.queue \in Seq(Events)
    BY DEF Streams
  <2> QED
    BY <1>1, <2>1
<1> QED
  BY <1>1, EventsApart DEF Offered

\* Going on empties the reader's hand.
LEMMA WokenEmpties ==
  ASSUME NEW s \in Streams, NEW r \in Readers
  PROVE  /\ Woken(s, r) \in Streams
         /\ Woken(s, r).queue = s.queue
         /\ Woken(s, r).waiting = s.waiting
         /\ Woken(s, r).hand = [s.hand EXCEPT ![r] = NoEvent]
<1> DEFINE h == [s.hand EXCEPT ![r] = NoEvent]
<1>1. h \in [Readers -> Answers]
  BY DEF Streams, Answers
<1>2. Woken(s, r) = [s EXCEPT !.hand = h]
  BY DEF Woken, Streams
<1> HIDE DEF h
<1>3. /\ Woken(s, r) \in Streams
      /\ Woken(s, r).queue = s.queue
      /\ Woken(s, r).waiting = s.waiting
      /\ Woken(s, r).hand = h
  BY <1>1, <1>2 DEF Streams
<1> QED
  BY <1>3 DEF h

\* The new stream.
LEMMA NewStreamTyped == NewStream \in Streams
<1>1. [r \in Readers |-> NoEvent] \in [Readers -> Answers]
  BY DEF Answers
<1> QED
  BY <1>1 DEF NewStream, Streams

-----------------------------------------------------------------------------
(* Types *)

LEMMA StreamTypesInit ==
  StreamInit => StreamTypeOK
<1> SUFFICES ASSUME StreamInit PROVE StreamTypeOK
  OBVIOUS
<1>0. 0 \in 0..MaxEvents
  BY MaxEventsAssumption
<1>1. stream \in Streams /\ pushed \in 0..MaxEvents
  BY <1>0, NewStreamTyped DEF StreamInit
<1>2. <<>> \in Seq(Events)
  OBVIOUS
<1>3. reader \in [Readers -> {"asks", "waits", "over"}] /\ got \in [Readers -> Seq(Events)]
  BY <1>2 DEF StreamInit
<1> QED
  BY <1>1, <1>3 DEF StreamTypeOK, Streams, Answers

LEMMA StreamTypesStep ==
  StreamTypeOK /\ StreamWaiting /\ [StreamNext]_streamVars => StreamTypeOK'
<1> SUFFICES ASSUME StreamTypeOK, StreamWaiting, [StreamNext]_streamVars PROVE StreamTypeOK'
  OBVIOUS
<1>0. stream \in Streams
  BY DEF StreamTypeOK, Streams, Answers
<1> DEFINE T == stream' \in Streams /\ pushed' \in 0..MaxEvents
                /\ reader' \in [Readers -> {"asks", "waits", "over"}]
                /\ got' \in [Readers -> Seq(Events)]
<1>q. T => StreamTypeOK'
  BY DEF StreamTypeOK, Streams, Answers
<1>1. ASSUME NEW t \in Kinds, PushEvent(t) PROVE T
  <2>1. Event(t, pushed + 1) \in Events
    BY <1>1, EventsApart, MaxEventsAssumption DEF PushEvent, StreamTypeOK
  <2>2. stream' \in Streams
    BY <1>0, <1>1, <2>1, PushOver, PushQueues, PushHands DEF PushEvent
  <2>3. pushed' \in 0..MaxEvents
    BY <1>1, MaxEventsAssumption DEF PushEvent, StreamTypeOK
  <2> QED
    BY <1>1, <2>2, <2>3 DEF PushEvent, StreamTypeOK
<1>2. ASSUME NEW e \in {NoEvent, Given}, EndStream(e) PROVE T
  BY <1>0, <1>2, EndTells DEF EndStream, StreamTypeOK
<1>3. ASSUME NEW r \in Readers, Take(r) PROVE T
  <2>1. Offered(stream) \in Events
    BY <1>0, <1>3, OfferedTells DEF Take
  <2>2. Append(got[r], Offered(stream)) \in Seq(Events)
    BY <2>1 DEF StreamTypeOK
  <2>3. got' \in [Readers -> Seq(Events)]
    BY <1>3, <2>2 DEF Take, StreamTypeOK
  <2> QED
    BY <1>0, <1>3, <2>3, AskedTakes DEF Take, StreamTypeOK
<1>4. ASSUME NEW r \in Readers, Finish(r) PROVE T
  BY <1>0, <1>4, AskedTakes DEF Finish, StreamTypeOK
<1>5. ASSUME NEW r \in Readers, Wait(r) PROVE T
  BY <1>0, <1>5, AskedTakes DEF Wait, StreamTypeOK
<1>6. ASSUME NEW r \in Readers, Resume(r) PROVE T
  <2>1. stream' \in Streams
    BY <1>0, <1>6, WokenEmpties DEF Resume
  <2>2. stream.hand[r] \in Answers
    BY <1>0 DEF Streams
  <2>3. stream.hand[r] # Closed => Append(got[r], stream.hand[r]) \in Seq(Events)
    BY <1>6, <2>2 DEF Resume, Answers, StreamTypeOK
  <2>4. got' \in [Readers -> Seq(Events)]
    BY <1>6, <2>3 DEF Resume, StreamTypeOK
  <2> QED
    BY <1>6, <2>1, <2>4 DEF Resume, StreamTypeOK
<1>7. ASSUME NEW r \in Readers, Leave(r) PROVE T
  BY <1>0, <1>7 DEF Leave, StreamTypeOK
<1>8. ASSUME UNCHANGED streamVars PROVE T
  BY <1>0, <1>8 DEF streamVars, StreamTypeOK
<1> QED
  BY <1>q, <1>1, <1>2, <1>3, <1>4, <1>5, <1>6, <1>7, <1>8 DEF StreamNext, Reading

-----------------------------------------------------------------------------
(* The waiting list *)

LEMMA WaitingStep ==
  StreamTypeOK /\ StreamWaiting /\ NoneStalled /\ [StreamNext]_streamVars
    => StreamWaiting' /\ NoneStalled'
<1> SUFFICES ASSUME StreamTypeOK, StreamWaiting, NoneStalled, [StreamNext]_streamVars
             PROVE  StreamWaiting' /\ NoneStalled'
  OBVIOUS
<1>0. stream \in Streams /\ reader \in [Readers -> {"asks", "waits", "over"}]
  BY DEF StreamTypeOK, Streams, Answers
<1>w. stream.waiting \in Seq(Readers) /\ stream.hand \in [Readers -> Answers]
      /\ stream.queue \in Seq(Events)
  BY <1>0 DEF Streams
<1>1. ASSUME NEW t \in Kinds, PushEvent(t) PROVE StreamWaiting' /\ NoneStalled'
  <2> DEFINE e == Event(t, pushed + 1)
  <2>1. e \in Events
    BY <1>1, EventsApart, MaxEventsAssumption DEF PushEvent, StreamTypeOK
  <2>2. CASE stream.done
    BY <1>1, <2>2, PushOver DEF PushEvent, StreamWaiting, NoneStalled
  <2>3. CASE ~stream.done /\ stream.waiting = <<>>
    BY <1>0, <1>1, <2>1, <2>3, PushQueues DEF PushEvent, StreamWaiting, NoneStalled
  <2>4. CASE ~stream.done /\ stream.waiting # <<>>
    <3>1. /\ stream'.queue = stream.queue /\ stream'.waiting = Tail(stream.waiting)
          /\ stream'.hand = [stream.hand EXCEPT ![Head(stream.waiting)] = e]
          /\ reader' = reader
      BY <1>0, <1>1, <2>1, <2>4, PushHands DEF PushEvent
    <3>2. /\ \A i \in DOMAIN stream'.waiting :
               i + 1 \in DOMAIN stream.waiting /\ stream'.waiting[i] = stream.waiting[i + 1]
                /\ stream'.waiting[i] \in Readers /\ i \in Nat /\ i + 1 # 1
          /\ 1 \in DOMAIN stream.waiting /\ Head(stream.waiting) = stream.waiting[1]
      BY <1>w, <2>4, <3>1
    <3>3. \A i \in DOMAIN stream'.waiting : stream'.waiting[i] # Head(stream.waiting)
      BY <3>2 DEF StreamWaiting
    <3>4. \A i \in DOMAIN stream'.waiting :
            reader'[stream'.waiting[i]] = "waits" /\ stream'.hand[stream'.waiting[i]] = NoEvent
      BY <1>w, <3>1, <3>2, <3>3 DEF StreamWaiting
    <3>5. \A i, j \in DOMAIN stream'.waiting : stream'.waiting[i] = stream'.waiting[j] => i = j
      BY <3>2 DEF StreamWaiting
    <3>6. \A r \in Readers : reader'[r] # "waits" => stream'.hand[r] = NoEvent
      BY <1>w, <3>1, <3>2 DEF StreamWaiting
    <3>7. NoneStalled'
      BY <2>4, <3>1 DEF NoneStalled
    <3> QED
      BY <3>4, <3>5, <3>6, <3>7 DEF StreamWaiting
  <2> QED
    BY <2>2, <2>3, <2>4
<1>2. ASSUME NEW e \in {NoEvent, Given}, EndStream(e) PROVE StreamWaiting' /\ NoneStalled'
  <2>1. /\ stream'.waiting = <<>> /\ reader' = reader
        /\ \A r \in Readers : stream'.hand[r] = stream.hand[r]
                              \/ \E i \in DOMAIN stream.waiting : stream.waiting[i] = r
    BY <1>0, <1>2, EndTells DEF EndStream
  <2> QED
    BY <2>1 DEF StreamWaiting, NoneStalled
<1>3. ASSUME NEW r \in Readers, Take(r) PROVE StreamWaiting' /\ NoneStalled'
  <2>1. /\ stream.waiting = <<>> /\ stream'.waiting = stream.waiting
        /\ stream'.hand = stream.hand /\ reader' = reader
    BY <1>0, <1>3, AskedTakes DEF Take, NoneStalled
  <2> QED
    BY <2>1 DEF StreamWaiting, NoneStalled
<1>r. \A r \in Readers : reader[r] = "asks" =>
        stream.hand[r] = NoEvent /\ \A i \in DOMAIN stream.waiting : stream.waiting[i] # r
  BY DEF StreamWaiting
<1>4. ASSUME NEW r \in Readers, Finish(r) PROVE StreamWaiting' /\ NoneStalled'
  <2>1. stream' = stream /\ reader[r] = "asks" /\ reader' = [reader EXCEPT ![r] = "over"]
    BY <1>0, <1>4, AskedTakes, OfferedTells DEF Finish
  <2>2. \A i \in DOMAIN stream.waiting : stream.waiting[i] \in Readers \ {r}
    BY <1>r, <1>w, <2>1
  <2> QED
    BY <1>0, <1>r, <2>1, <2>2 DEF StreamWaiting, NoneStalled
<1>5. ASSUME NEW r \in Readers, Wait(r) PROVE StreamWaiting' /\ NoneStalled'
  <2>1. /\ stream'.queue = <<>> /\ stream'.hand = stream.hand
        /\ stream'.waiting = Append(stream.waiting, r)
        /\ reader[r] = "asks" /\ reader' = [reader EXCEPT ![r] = "waits"]
    BY <1>0, <1>5, AskedTakes, OfferedTells DEF Wait
  <2>2. \A i \in DOMAIN stream'.waiting :
          \/ i \in DOMAIN stream.waiting /\ stream'.waiting[i] = stream.waiting[i]
                /\ stream'.waiting[i] \in Readers \ {r}
          \/ i = Len(stream.waiting) + 1 /\ stream'.waiting[i] = r
    BY <1>r, <1>w, <2>1
  <2>3. \A i \in DOMAIN stream'.waiting :
          reader'[stream'.waiting[i]] = "waits" /\ stream'.hand[stream'.waiting[i]] = NoEvent
    BY <1>0, <1>r, <2>1, <2>2 DEF StreamWaiting
  <2>4. \A i, j \in DOMAIN stream'.waiting : stream'.waiting[i] = stream'.waiting[j] => i = j
    BY <2>2 DEF StreamWaiting
  <2>5. \A q \in Readers : reader'[q] # "waits" => stream'.hand[q] = NoEvent
    BY <1>0, <2>1 DEF StreamWaiting
  <2> QED
    BY <2>1, <2>3, <2>4, <2>5 DEF StreamWaiting, NoneStalled
<1>6. ASSUME NEW r \in Readers, Resume(r) PROVE StreamWaiting' /\ NoneStalled'
  <2>1. /\ stream'.queue = stream.queue /\ stream'.waiting = stream.waiting
        /\ stream'.hand = [stream.hand EXCEPT ![r] = NoEvent]
        /\ stream.hand[r] # NoEvent /\ \A q \in Readers \ {r} : reader'[q] = reader[q]
    BY <1>0, <1>6, WokenEmpties DEF Resume
  <2>2. \A i \in DOMAIN stream.waiting : stream.waiting[i] \in Readers \ {r}
    BY <1>w, <2>1 DEF StreamWaiting
  <2>3. \A q \in Readers : stream'.hand[q] = IF q = r THEN NoEvent ELSE stream.hand[q]
    BY <1>w, <2>1
  <2>4. \A i \in DOMAIN stream'.waiting :
          reader'[stream'.waiting[i]] = "waits" /\ stream'.hand[stream'.waiting[i]] = NoEvent
    BY <2>1, <2>2, <2>3 DEF StreamWaiting
  <2>5. \A q \in Readers : reader'[q] # "waits" => stream'.hand[q] = NoEvent
    BY <2>1, <2>3 DEF StreamWaiting
  <2> QED
    BY <2>1, <2>4, <2>5 DEF StreamWaiting, NoneStalled
<1>7. ASSUME NEW r \in Readers, Leave(r) PROVE StreamWaiting' /\ NoneStalled'
  <2>1. stream' = stream /\ reader[r] = "asks" /\ reader' = [reader EXCEPT ![r] = "over"]
    BY <1>7 DEF Leave
  <2>2. \A i \in DOMAIN stream.waiting : stream.waiting[i] \in Readers \ {r}
    BY <1>r, <1>w, <2>1
  <2> QED
    BY <1>0, <1>r, <2>1, <2>2 DEF StreamWaiting, NoneStalled
<1>8. ASSUME UNCHANGED streamVars PROVE StreamWaiting' /\ NoneStalled'
  BY <1>8 DEF streamVars, StreamWaiting, NoneStalled
<1> QED
  BY <1>1, <1>2, <1>3, <1>4, <1>5, <1>6, <1>7, <1>8 DEF StreamNext, Reading

-----------------------------------------------------------------------------
(* The events given to the readers *)

\* What a step does to the events the readers have: nothing, or one reader r
\* is given the event numbered next, later than all it has, as an entry of got
\* or into its empty hand.
Given1(r, n) ==
  \A q \in Readers : \A m \in Int : Has(q, m)' <=> Has(q, m) \/ (q = r /\ m = n)

GivenNone == \A q \in Readers : \A m \in Int : Has(q, m)' <=> Has(q, m)

\* From the queue, one event further: Shared goes on.
LEMMA SharedOneMore ==
  ASSUME StreamTypeOK, StreamTypeOK', QueueHolds, Shared, NEW r \in Readers, NEW n \in Int,
         n = Low + 1, Low' = n, Given1(r, n)
  PROVE  Shared'
<1>1. Low \in Int /\ Low' = Low + 1
  BY DEF StreamTypeOK, Low
<1>2. Low >= 0
  BY DEF StreamTypeOK, Low, QueueHolds
<1>3. \A m \in Int : m \in 1..Low' <=> m \in 1..Low \/ m = n
  BY <1>1, <1>2
<1>4. \A q \in Readers : ~Has(q, n)
  <2>1. n \notin 1..Low
    BY <1>1
  <2> QED
    BY <2>1 DEF Shared
<1>5. \A m \in 1..Low' : \E q \in Readers : Has(q, m)'
  BY <1>3 DEF Shared, Given1
<1>6. \A q \in Readers : \A m \in Int : Has(q, m)' => m \in 1..Low'
  BY <1>3 DEF Shared, Given1
<1>7. \A p, q \in Readers : \A m \in Int : Has(p, m)' /\ Has(q, m)' => p = q
  BY <1>4 DEF Shared, Given1
<1> QED
  BY <1>5, <1>6, <1>7 DEF Shared

\* Nothing given: Shared stays.
LEMMA SharedStays ==
  ASSUME Shared, Low' = Low, GivenNone
  PROVE  Shared'
<1>1. \A m \in 1..Low : m \in Int
  OBVIOUS
<1> QED
  BY <1>1 DEF Shared, GivenNone

\* Hands that change without an event in them give nobody anything.
LEMMA HandsSame ==
  ASSUME got' = got, ReadInOrder,
         \A q \in Readers : \/ stream'.hand[q] = stream.hand[q]
                            \/ stream'.hand[q] \notin Events /\ stream.hand[q] \notin Events
  PROVE  GivenNone /\ ReadInOrder'
BY DEF GivenNone, Has, ReadInOrder

\* An event is added to those a reader was given.
LEMMA Appended ==
  ASSUME NEW s \in Seq(Events), NEW e \in Events
  PROVE  /\ \A i \in DOMAIN Append(s, e) :
              \/ i \in DOMAIN s /\ Append(s, e)[i] = s[i]
              \/ i = Len(s) + 1 /\ Append(s, e)[i] = e
         /\ \A i \in DOMAIN s : i \in DOMAIN Append(s, e) /\ Append(s, e)[i] = s[i] /\ i < Len(s) + 1
         /\ Len(s) + 1 \in DOMAIN Append(s, e) /\ Append(s, e)[Len(s) + 1] = e
         /\ \A i \in DOMAIN s : s[i] \in Events
OBVIOUS

LEMMA Sums == \A p, l \in Int : (p - l) + (l + 1) = p + 1 /\ p - (l - 1) = (p - l) + 1
OBVIOUS

LEMMA AppendedLater ==
  ASSUME NEW s \in Seq(Events), NEW e \in Events,
         \A i, j \in DOMAIN s : i < j => s[i].n < s[j].n,
         \A i \in DOMAIN s : s[i].n < e.n
  PROVE  \A i, j \in DOMAIN Append(s, e) : i < j => Append(s, e)[i].n < Append(s, e)[j].n
<1> DEFINE t == Append(s, e)
<1>1. \A i \in DOMAIN t : \/ i \in DOMAIN s /\ t[i] = s[i]
                          \/ i = Len(s) + 1 /\ t[i] = e
  BY Appended
<1>2. Len(s) \in Int /\ \A i \in DOMAIN s : i \in Int /\ i <= Len(s)
  OBVIOUS
<1> HIDE DEF t
<1>3. \A i, j \in DOMAIN t : i < j => t[i].n < t[j].n
  BY <1>1, <1>2
<1> QED
  BY <1>3 DEF t

\* What the readers were given lies below Low.
LEMMA GivenBelow ==
  ASSUME StreamTypeOK, Shared, NEW r \in Readers
  PROVE  /\ \A i \in DOMAIN got[r] : got[r][i].n \in 1..Low /\ got[r][i] \in Events
         /\ stream.hand[r] \in Events => stream.hand[r].n \in 1..Low
<1>1. got[r] \in Seq(Events)
  BY DEF StreamTypeOK
<1>2. \A i \in DOMAIN got[r] : got[r][i] \in Events
  BY <1>1
<1>3. \A e \in Events : e.n \in Int
  BY EventsApart, MaxEventsAssumption
<1> QED
  BY <1>2, <1>3 DEF Shared, Has

LEMMA PushShares ==
  ASSUME StreamInv, StreamTypeOK', NEW t \in Kinds, PushEvent(t)
  PROVE  QueueHolds' /\ Shared' /\ ReadInOrder'
<1> DEFINE e == Event(t, pushed + 1)
<1>0. stream \in Streams /\ stream.queue \in Seq(Events) /\ pushed \in Nat
  BY MaxEventsAssumption DEF StreamInv, StreamTypeOK, Streams, Answers
<1>1. e \in Events /\ e.n = pushed + 1 /\ got' = got
  BY EventsApart, MaxEventsAssumption DEF PushEvent, StreamInv, StreamTypeOK
<1> HIDE DEF e
<1>2. CASE stream.done
  <2>1. stream' = stream /\ pushed' = pushed
    BY <1>2, PushOver DEF PushEvent
  <2>2. QueueHolds' /\ Low' = Low
    BY <2>1 DEF StreamInv, QueueHolds, Low
  <2>3. GivenNone /\ ReadInOrder'
    <3>1. \A q \in Readers : stream'.hand[q] = stream.hand[q]
      BY <2>1
    <3> QED
      BY <1>1, <3>1, HandsSame DEF StreamInv
  <2> QED
    BY <2>2, <2>3, SharedStays DEF StreamInv
<1>3. CASE ~stream.done /\ stream.waiting = <<>>
  <2>1. /\ stream'.queue = Append(stream.queue, e) /\ stream'.hand = stream.hand
        /\ pushed' = pushed + 1
    BY <1>0, <1>1, <1>3, PushQueues DEF PushEvent, e
  <2>2. Len(stream'.queue) = Len(stream.queue) + 1 /\ Len(stream.queue) \in Nat
    BY <1>0, <1>1, <2>1
  <2>3. Low' = Low
    BY <1>0, <2>1, <2>2 DEF Low
  <2>4. \A i \in DOMAIN stream'.queue :
          \/ i \in DOMAIN stream.queue /\ stream'.queue[i] = stream.queue[i]
          \/ i = Len(stream.queue) + 1 /\ stream'.queue[i] = e
    BY <1>0, <1>1, <2>1, Appended
  <2>5. Low + (Len(stream.queue) + 1) = pushed + 1
    <3>1. Len(stream.queue) \in Int /\ pushed \in Int
      BY <1>0, <2>2
    <3> QED
      BY <3>1, Sums DEF Low
  <2>6. QueueHolds'
    BY <1>0, <1>1, <2>1, <2>2, <2>3, <2>4, <2>5 DEF StreamInv, QueueHolds
  <2>7. GivenNone /\ ReadInOrder'
    <3>1. \A q \in Readers : stream'.hand[q] = stream.hand[q]
      BY <2>1
    <3> QED
      BY <1>1, <3>1, HandsSame DEF StreamInv
  <2> QED
    BY <2>3, <2>6, <2>7, SharedStays DEF StreamInv
<1>4. CASE ~stream.done /\ stream.waiting # <<>>
  <2> DEFINE w == Head(stream.waiting)
  <2>1. stream.waiting \in Seq(Readers)
    BY <1>0 DEF Streams
  <2>2. w \in Readers /\ stream.hand[w] = NoEvent /\ stream.queue = <<>>
    BY <1>4, <2>1 DEF StreamInv, StreamWaiting, NoneStalled
  <2>3. /\ stream'.queue = stream.queue /\ stream'.hand = [stream.hand EXCEPT ![w] = e]
        /\ pushed' = pushed + 1
    BY <1>0, <1>1, <1>4, PushHands DEF PushEvent, e
  <2> HIDE DEF w
  <2>4. Low = pushed /\ Low' = pushed + 1 /\ pushed + 1 \in Int
    BY <1>0, <2>2, <2>3 DEF Low
  <2>5. \A q \in Readers : stream'.hand[q] = IF q = w THEN e ELSE stream.hand[q]
    BY <1>0, <2>3 DEF Streams
  <2>6. Given1(w, pushed + 1)
    BY <1>1, <2>2, <2>5, EventsApart DEF Given1, Has
  <2>7. Shared'
    BY <2>2, <2>4, <2>6, SharedOneMore DEF StreamInv
  <2>8. QueueHolds'
    BY <1>0, <2>2, <2>3, <2>4 DEF QueueHolds
  <2>9. \A i \in DOMAIN got[w] : got[w][i].n < e.n
    BY <1>0, <1>1, <2>2, <2>4, GivenBelow DEF StreamInv
  <2>10. ReadInOrder'
    BY <1>1, <2>5, <2>9 DEF StreamInv, ReadInOrder
  <2> QED
    BY <2>7, <2>8, <2>10
<1> QED
  BY <1>2, <1>3, <1>4

LEMMA TakeShares ==
  ASSUME StreamInv, StreamTypeOK', NEW r \in Readers, Take(r)
  PROVE  QueueHolds' /\ Shared' /\ ReadInOrder'
<1> DEFINE e == Head(stream.queue)
<1>0. stream \in Streams /\ stream.queue \in Seq(Events) /\ stream.queue # <<>>
      /\ pushed \in Nat /\ got \in [Readers -> Seq(Events)]
  BY MaxEventsAssumption DEF StreamInv, StreamTypeOK, Streams, Answers, Take
<1>1. /\ stream'.queue = Tail(stream.queue) /\ stream'.hand = stream.hand /\ pushed' = pushed
      /\ got' = [got EXCEPT ![r] = Append(@, e)]
  BY <1>0, AskedTakes DEF Take
<1>2. /\ Len(stream'.queue) = Len(stream.queue) - 1 /\ Len(stream.queue) \in Nat
      /\ 1 \in DOMAIN stream.queue /\ e = stream.queue[1] /\ e \in Events
      /\ \A i \in DOMAIN stream'.queue : /\ i \in Int /\ i + 1 \in DOMAIN stream.queue
                                        /\ stream'.queue[i] = stream.queue[i + 1]
  BY <1>0, <1>1
<1> HIDE DEF e
<1>3. Low \in Int /\ Low' = Low + 1 /\ e.n = Low + 1
  <2>1. Low \in Int /\ Low' = Low + 1
    <3>1. Len(stream.queue) \in Int /\ pushed \in Int
      BY <1>0, <1>2
    <3>2. pushed - (Len(stream.queue) - 1) = (pushed - Len(stream.queue)) + 1
      BY <3>1, Sums
    <3>3. Low' = pushed' - Len(stream'.queue)
      BY DEF Low
    <3>4. Low' = pushed - (Len(stream.queue) - 1)
      BY <1>1, <1>2, <3>3
    <3>5. Low = pushed - Len(stream.queue) /\ Low \in Int
      BY <3>1 DEF Low
    <3> QED
      BY <3>2, <3>4, <3>5
  <2>2. e.n = Low + 1
    BY <1>2 DEF StreamInv, QueueHolds
  <2> QED
    BY <2>1, <2>2
<1>4. QueueHolds'
  <2>1. \A i \in DOMAIN stream'.queue : i \in Int /\ stream'.queue[i].n = Low + (i + 1)
    BY <1>2 DEF StreamInv, QueueHolds
  <2>2. \A i \in DOMAIN stream'.queue : stream'.queue[i].n = Low' + i
    BY <1>3, <2>1
  <2>3. Len(stream'.queue) <= pushed'
    BY <1>0, <1>1, <1>2 DEF StreamInv, QueueHolds
  <2> QED
    BY <2>2, <2>3 DEF QueueHolds
<1>5. \A q \in Readers : got'[q] = IF q = r THEN Append(got[r], e) ELSE got[q]
  BY <1>0, <1>1
<1>6. Given1(r, Low + 1)
  BY <1>0, <1>1, <1>2, <1>3, <1>5, Appended DEF Given1, Has
<1>7. Shared'
  BY <1>3, <1>6, SharedOneMore DEF StreamInv
<1>8. stream.hand[r] = NoEvent
  BY DEF Take, StreamInv, StreamWaiting
<1>9. \A i \in DOMAIN got[r] : got[r][i].n < e.n
  BY <1>3, GivenBelow DEF StreamInv
<1>10. \A i, j \in DOMAIN got'[r] : i < j => got'[r][i].n < got'[r][j].n
  <2>1. got[r] \in Seq(Events) /\ got'[r] = Append(got[r], e)
    BY <1>0, <1>5
  <2>2. \A i, j \in DOMAIN got[r] : i < j => got[r][i].n < got[r][j].n
    BY DEF StreamInv, ReadInOrder
  <2> QED
    BY <1>2, <1>9, <2>1, <2>2, AppendedLater
<1>11. ReadInOrder'
  BY <1>1, <1>5, <1>8, <1>10, EventsApart DEF StreamInv, ReadInOrder
<1> QED
  BY <1>4, <1>7, <1>11

LEMMA ResumeShares ==
  ASSUME StreamInv, StreamTypeOK', NEW r \in Readers, Resume(r)
  PROVE  QueueHolds' /\ Shared' /\ ReadInOrder'
<1>0. stream \in Streams /\ got \in [Readers -> Seq(Events)]
      /\ stream.hand \in [Readers -> Answers] /\ NoEvent \notin Events /\ Closed \notin Events
  BY EventsApart DEF StreamInv, StreamTypeOK, Streams, Answers
<1>1. /\ stream'.queue = stream.queue /\ pushed' = pushed
      /\ stream'.hand = [stream.hand EXCEPT ![r] = NoEvent] /\ stream.hand[r] # NoEvent
  BY <1>0, WokenEmpties DEF Resume
<1>2. QueueHolds' /\ Low' = Low
  BY <1>1 DEF StreamInv, QueueHolds, Low
<1>3. \A q \in Readers : stream'.hand[q] = IF q = r THEN NoEvent ELSE stream.hand[q]
  BY <1>0, <1>1
<1>4. CASE stream.hand[r] = Closed
  <2>1. got' = got
    BY <1>4 DEF Resume
  <2>2. \A q \in Readers : \/ stream'.hand[q] = stream.hand[q]
                           \/ stream'.hand[q] \notin Events /\ stream.hand[q] \notin Events
    <3>1. \A q \in Readers \ {r} : stream'.hand[q] = stream.hand[q]
      BY <1>3
    <3>2. stream'.hand[r] \notin Events /\ stream.hand[r] \notin Events
      BY <1>0, <1>3, <1>4
    <3> QED
      BY <3>1, <3>2
  <2>3. GivenNone /\ ReadInOrder'
    BY <2>1, <2>2, HandsSame DEF StreamInv
  <2> QED
    BY <1>2, <2>3, SharedStays DEF StreamInv
<1>5. CASE stream.hand[r] # Closed
  <2> DEFINE e == stream.hand[r]
  <2>1. e \in Events
    BY <1>0, <1>1, <1>5 DEF Answers
  <2>2. \A q \in Readers : got'[q] = IF q = r THEN Append(got[r], e) ELSE got[q]
    BY <1>0, <1>5 DEF Resume
  <2>3. \A i \in DOMAIN got[r] : got[r][i].n < e.n
    BY <2>1 DEF StreamInv, ReadInOrder
  <2> HIDE DEF e
  <2>4. GivenNone
    <3>1. \A m \in Int : Has(r, m)' <=> Has(r, m)
      <4> DEFINE s == got[r]
      <4>1. s \in Seq(Events) /\ got'[r] = Append(s, e)
        BY <1>0, <2>2
      <4> HIDE DEF s
      <4>2. \A m \in Int : (\E i \in DOMAIN got'[r] : got'[r][i].n = m)
                            <=> (\E i \in DOMAIN s : s[i].n = m) \/ e.n = m
        <5>1. \A i \in DOMAIN got'[r] : (i \in DOMAIN s /\ got'[r][i] = s[i]) \/ got'[r][i] = e
          BY <2>1, <4>1, Appended
        <5>2. \A i \in DOMAIN s : i \in DOMAIN got'[r] /\ got'[r][i] = s[i]
          BY <2>1, <4>1, Appended
        <5>3. \E i \in DOMAIN got'[r] : got'[r][i] = e
          BY <2>1, <4>1, Appended
        <5> QED
          BY <5>1, <5>2, <5>3
      <4> QED
        BY <1>0, <1>3, <2>1, <4>2 DEF Has, e, s
    <3>2. \A q \in Readers \ {r} : \A m \in Int : Has(q, m)' <=> Has(q, m)
      BY <1>3, <2>2 DEF Has
    <3> QED
      BY <3>1, <3>2 DEF GivenNone
  <2>5. \A i, j \in DOMAIN got'[r] : i < j => got'[r][i].n < got'[r][j].n
    BY <1>0, <2>1, <2>2, <2>3, AppendedLater DEF StreamInv, ReadInOrder
  <2>6. ReadInOrder'
    BY <1>0, <1>3, <2>2, <2>5 DEF StreamInv, ReadInOrder
  <2> QED
    BY <1>2, <2>4, <2>6, SharedStays DEF StreamInv
<1> QED
  BY <1>4, <1>5

-----------------------------------------------------------------------------
(* The invariant *)

LEMMA StreamBegins ==
  StreamInit => StreamInv
<1> SUFFICES ASSUME StreamInit PROVE StreamInv
  OBVIOUS
<1>1. StreamTypeOK
  BY StreamTypesInit
<1>2. /\ stream.queue = <<>> /\ stream.waiting = <<>> /\ pushed = 0
      /\ \A r \in Readers : stream.hand[r] = NoEvent /\ got[r] = <<>>
  BY DEF StreamInit, NewStream
<1>3. Low = 0
  <2>1. Len(stream.queue) = 0
    BY <1>2
  <2>2. Low = pushed - Len(stream.queue) /\ pushed = 0
    BY <1>2 DEF Low
  <2> QED
    BY <2>1, <2>2
<1>4. \A r \in Readers : \A n \in Int : ~Has(r, n)
  BY <1>2, EventsApart DEF Has
<1> QED
  BY <1>1, <1>2, <1>3, <1>4, EventsApart
     DEF StreamInv, StreamWaiting, NoneStalled, QueueHolds, Shared, ReadInOrder

LEMMA StreamInductive ==
  StreamInv /\ [StreamNext]_streamVars => StreamInv'
<1> SUFFICES ASSUME StreamInv, [StreamNext]_streamVars PROVE StreamInv'
  OBVIOUS
<1>1. StreamTypeOK' /\ StreamWaiting' /\ NoneStalled'
  BY StreamTypesStep, WaitingStep DEF StreamInv
<1>0. stream \in Streams
  BY DEF StreamInv, StreamTypeOK, Streams, Answers
<1> DEFINE Goal == QueueHolds' /\ Shared' /\ ReadInOrder'
\* a step that touches no event
<1>2. ASSUME stream'.queue = stream.queue, pushed' = pushed, got' = got,
             \A q \in Readers : stream'.hand[q] = stream.hand[q]
      PROVE  Goal
  <2>1. QueueHolds' /\ Low' = Low
    BY <1>2 DEF StreamInv, QueueHolds, Low
  <2>2. GivenNone /\ ReadInOrder'
    BY <1>2, HandsSame DEF StreamInv
  <2> QED
    BY <2>1, <2>2, SharedStays DEF StreamInv
<1>3. ASSUME NEW t \in Kinds, PushEvent(t) PROVE Goal
  BY <1>1, <1>3, PushShares
<1>4. ASSUME NEW e \in {NoEvent, Given}, EndStream(e) PROVE Goal
  <2>1. stream'.queue = stream.queue /\ pushed' = pushed /\ got' = got
    BY <1>0, <1>4, EndTells DEF EndStream
  <2>2. ASSUME NEW q \in Readers
        PROVE  \/ stream'.hand[q] = stream.hand[q]
               \/ stream'.hand[q] \notin Events /\ stream.hand[q] \notin Events
    <3>1. \/ stream'.hand[q] = stream.hand[q]
          \/ stream'.hand[q] = Closed /\ \E i \in DOMAIN stream.waiting : stream.waiting[i] = q
      BY <1>0, <1>4, EndTells DEF EndStream
    <3> QED
      BY <3>1, EventsApart DEF StreamInv, StreamWaiting
  <2>3. QueueHolds' /\ Low' = Low
    BY <2>1 DEF StreamInv, QueueHolds, Low
  <2>4. GivenNone /\ ReadInOrder'
    BY <2>1, <2>2, HandsSame DEF StreamInv
  <2> QED
    BY <2>3, <2>4, SharedStays DEF StreamInv
<1>5. ASSUME NEW r \in Readers, Take(r) PROVE Goal
  BY <1>1, <1>5, TakeShares
<1>6. ASSUME NEW r \in Readers, Finish(r) PROVE Goal
  <2>1. stream' = stream /\ pushed' = pushed /\ got' = got
    BY <1>0, <1>6, AskedTakes, OfferedTells DEF Finish
  <2> QED
    BY <1>2, <2>1
<1>7. ASSUME NEW r \in Readers, Wait(r) PROVE Goal
  <2>1. stream'.queue = stream.queue /\ stream'.hand = stream.hand /\ pushed' = pushed /\ got' = got
    BY <1>0, <1>7, AskedTakes, OfferedTells DEF Wait
  <2> QED
    BY <1>2, <2>1
<1>8. ASSUME NEW r \in Readers, Resume(r) PROVE Goal
  BY <1>1, <1>8, ResumeShares
<1>9. ASSUME NEW r \in Readers, Leave(r) PROVE Goal
  BY <1>2, <1>9 DEF Leave
<1>10. ASSUME UNCHANGED streamVars PROVE Goal
  BY <1>2, <1>10 DEF streamVars
<1> QED
  BY <1>1, <1>3, <1>4, <1>5, <1>6, <1>7, <1>8, <1>9, <1>10 DEF StreamNext, Reading, StreamInv

LEMMA StreamAlways ==
  StreamSpec => []StreamInv
BY StreamBegins, StreamInductive, PTL DEF StreamSpec

-----------------------------------------------------------------------------
(* Theorems *)

\* The state of a stream and of its readers has its types, whatever is pushed
\* and whenever it ends (event-stream.ts:5-14).
THEOREM StreamTyped ==
  StreamSpec => []StreamTypeOK
<1>1. StreamInv => StreamTypeOK
  BY DEF StreamInv
<1> QED
  BY <1>1, StreamAlways, PTL

\* For any number of readers and events: no reader sleeps while an event is
\* queued (event-stream.ts:34-40, 57-64).
THEOREM NoReaderStalled ==
  StreamSpec => []NoneStalled
<1>1. StreamInv => NoneStalled
  BY DEF StreamInv
<1> QED
  BY <1>1, StreamAlways, PTL

\* For any number of readers and events: each is given its events in the order
\* they were pushed (event-stream.ts:26-67).
THEOREM EventsReadInOrder ==
  StreamSpec => []ReadInOrder
<1>1. StreamInv => ReadInOrder
  BY DEF StreamInv
<1> QED
  BY <1>1, StreamAlways, PTL

\* For any number of readers and events: every event that was accepted is in
\* the queue or was given to one reader, never to two and never to none
\* (event-stream.ts:26-67).
THEOREM EventsGivenOnce ==
  StreamSpec => []EachOnce
<1>1. ASSUME StreamInv PROVE EachOnce
  <2>0. /\ stream.queue \in Seq(Events) /\ pushed \in Nat /\ Low \in Int /\ Low >= 0
        /\ Len(stream.queue) \in Nat /\ Low + Len(stream.queue) = pushed
    <3>1. stream.queue \in Seq(Events) /\ pushed \in Nat
      BY <1>1, MaxEventsAssumption DEF StreamInv, StreamTypeOK
    <3>2. Len(stream.queue) \in Nat /\ Len(stream.queue) <= pushed
      BY <1>1, <3>1 DEF StreamInv, QueueHolds
    <3> QED
      BY <3>1, <3>2 DEF Low
  <2>1. ASSUME NEW r \in Readers, NEW n
        PROVE  n \in Held(r) <=> n \in Int /\ Has(r, n)
    <3>1. \A e \in Events : e.n \in Int
      BY EventsApart, MaxEventsAssumption
    <3>2. \A i \in DOMAIN got[r] : got[r][i].n \in Int
      BY <1>1, <3>1, GivenBelow DEF StreamInv
    <3> QED
      BY <3>1, <3>2 DEF Held, Numbers, Has
  <2>2. ASSUME NEW n PROVE n \in Numbers(stream.queue) <=> n \in (Low + 1)..pushed
    <3>1. \A i \in DOMAIN stream.queue : stream.queue[i].n = Low + i
      BY <1>1 DEF StreamInv, QueueHolds
    <3>2. \A i : i \in DOMAIN stream.queue <=> i \in 1..Len(stream.queue)
      BY <2>0
    <3>3. ASSUME n \in Numbers(stream.queue) PROVE n \in (Low + 1)..pushed
      <4>1. PICK i \in DOMAIN stream.queue : n = Low + i
        BY <3>1, <3>3 DEF Numbers
      <4> QED
        BY <2>0, <3>2, <4>1
    <3>4. ASSUME n \in (Low + 1)..pushed PROVE n \in Numbers(stream.queue)
      <4>1. n - Low \in 1..Len(stream.queue) /\ Low + (n - Low) = n
        BY <2>0, <3>4
      <4>2. stream.queue[n - Low].n = n
        BY <3>1, <3>2, <4>1
      <4> QED
        BY <3>2, <4>1, <4>2 DEF Numbers
    <3> QED
      BY <3>3, <3>4
  <2>3. \A n : n \in 1..pushed <=> n \in 1..Low \/ n \in (Low + 1)..pushed
    BY <2>0
  <2>4. \A n \in 1..Low : n \in Int /\ n \notin (Low + 1)..pushed
    BY <2>0
  <2>5. Numbers(stream.queue) \union UNION {Held(r) : r \in Readers} = 1..pushed
    <3>1. \A n : n \in UNION {Held(r) : r \in Readers} <=> n \in 1..Low
      BY <1>1, <2>1, <2>4 DEF StreamInv, Shared
    <3> QED
      BY <2>2, <2>3, <3>1
  <2>6. \A r \in Readers : Held(r) \intersect Numbers(stream.queue) = {}
    BY <1>1, <2>1, <2>2, <2>4 DEF StreamInv, Shared
  <2>7. \A r \in Readers : \A q \in Readers \ {r} : Held(r) \intersect Held(q) = {}
    BY <1>1, <2>1 DEF StreamInv, Shared
  <2> QED
    BY <2>5, <2>6, <2>7 DEF EachOnce
<1> QED
  BY <1>1, StreamAlways, PTL
==============================================================================
