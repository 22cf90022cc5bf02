# Verification of pi-forge

TLA+ models of the parts of pi-forge that carry its agent: the loop of model and
tool calls, the two owners of that loop, the responses it reads, the session on
disk, the files it shares with other programs, the server it runs as, and one
restartable document workflow. TLC checks them on small instances, and the TLA+
proof system (tlapm) proves the theorems of the `*Proofs` modules for every value
of the constants. `PROJECT.json` lists the components, the runs, the source lines
behind each definition, the hazards, the findings and the theorems.

Paths below are relative to the repository; `A` stands for `packages/agent/src`,
`AI` for `packages/ai/src` and `CA` for `packages/coding-agent/src`.

## 1. The system

pi-forge is a TypeScript monorepo around one idea: an *agent* that sends a
conversation to a model, runs the tools the model asks for, and appends what
happens to a *session* on disk. A terminal UI, an RPC mode, extensions and
document workflows are built on that.

| Component | State it keeps | Operations | What makes it hard | What makes it correct |
|---|---|---|---|---|
| Agent and loop (`A/agent.ts`, `A/agent-loop.ts`) | transcript, the loop's own context, steering and follow-up queue, one active run with its abort signal, pending tool calls | prompt, continue, steer, followUp, clear, abort; a run: respond, prepare and run tools, emit results, poll the queues | every event is awaited on listeners that may throw; tools run in parallel and outlive a failed run; callers act between any two awaits | results follow their calls in order; no call unanswered at the next model call; context equals transcript; no message lost, doubled or overtaken; a run ends |
| File mutation queue (`CA/core/tools/file-mutation-queue.ts`, `write.ts`, `edit.ts`) | a promise chain of registrations, a map from key to the last operation | register, wait, run the body, release | the key needs an asynchronous `realpath`; the map entry is dropped and made anew | one body per file; call order; no lost update; no leak |
| Session manager (`CA/core/session-manager.ts`) | entries, leaf, labels, flushed flag; the JSONL file | append, label, branch, branch with summary, compaction, fork, new session, load | nothing is written before the first reply; an append may fail or be torn; fork re-chains and drops labels | memory is a tree and equals the file; a failure loses a bounded number of entries |
| Compaction (`CA/core/compaction/compaction.ts`) | none: pure functions on the path from root to leaf | find the cut, split a turn, summarise with the earlier summary | repeated compactions, split turns, cuts at odd entries | every earlier message is summarised or kept; results stay with their calls |
| Agent session (`CA/core/agent-session.ts`) | retry counter and owner, overflow flag, pending bash messages, the last response, whether it listens | prompt, retry, automatic and manual compaction, steer, followUp, abort, bash results | calls of `prompt()` overlap; decisions are taken before an await and used after it | one run at a time; bash results saved once; results next to their calls; transcript and saved path agree; nothing queued is stranded |
| Agent harness (`A/harness/agent-harness.ts`, `A/harness/session`) | phase, three queues, deferred session writes, run promise, abort controller | prompt, steer, followUp, nextTurn, writes, compact, navigateTree, abort, waitForIdle | the phase is idle while listeners of `agent_end` still run; flushes await; hooks and listeners throw | handles name what is in progress; a deferred write is saved once, in order; the model sees what is saved; a queued message is in one place |
| Event stream (`AI/utils/event-stream.ts`) | queue, waiters, done flag, result promise | push, end, iterate, result | a producer and several readers | each event read once, in order; no reader asleep beside an event |
| Model responses (`AI/providers`, `A/proxy.ts`, `AI/stream.ts`) | the message under construction, blocks by index or id, the forwarding stream | load a provider, open, parse chunks, finish, fail, abort | one mutable object is shared by every event; first use goes through a second stream; answers are cut off | deltas end in their block; a success is whole; an abort is not a success; the reader is answered |
| Auth storage (`CA/core/auth-storage.ts`) | one JSON file of all instances, a lock that goes stale | load, set, remove, refresh a token under the lock | two locking schemes with two ideas of stale; kills; slow providers | no saved credential overwritten; no token exchanged twice |
| RPC mode and session replacement (`CA/modes/rpc/rpc-mode.ts`, `CA/core/agent-session-runtime.ts`, `CA/core/output-guard.ts`) | the session listened to, pending dialogs, queued output, shutdown flags | one handler per input line; replacement of the session; shutdown | handlers overlap; the session changes under them; the process exits with output queued | one answer per command, written before the exit; events of the runtime's session, once |
| RPC client (`CA/modes/rpc/rpc-client.ts`) | pending requests with timers, listeners, the process | start, send, waits, stop | a response after its timeout; exits and restarts | a request waits for the process it was sent to |
| Restartable runs (`forge/lib/run_state.py`), transcription skill | state file, append-only journal, lock, revisions, outputs | init, append, repair, transcribe, retry, refresh | a kill between any two writes; an input replaced; two invocations | what is marked complete is backed by files; nothing replaced is lost |
| Other providers, settings manager, other tools, extensions, interactive mode, TUI, package manager, resource loader, other Forge skills, scripts | section 7 | conversion, rendering, discovery, I/O | | |

How they interact. `AgentSession` (or `AgentHarness`) owns one agent loop and one
session. It calls `prompt`, `continue`, `steer`, `followUp` and `abort`, and
listens to the agent's events; on `message_end` its listener appends the message
to the session manager, so a file that cannot be written throws into the run.
After a run it looks at the last response and retries, compacts or continues.
Compaction reads the path of the session, asks the model for a summary, appends an
entry at the leaf and rebuilds the agent's transcript from the session. Tools run
inside the loop; `write` and `edit` go through the mutation queue, whose map is
shared by all agents of the process. The loop reads a response from an event
stream that a provider pushes into. The RPC mode starts a handler for every line,
and those for new sessions, switches, forks and clones replace the `AgentSession`
while the others use it.

## 2. Modules

| Module | Models | Extended or used by |
|---|---|---|
| `AgentLoop` | the agent and its loop | `AgentLoopProofs`, `MCAgentLoop` |
| `FileMutationQueue` | the queue with the bodies of write and edit | `SharedFilesProofs`, `MCFileMutationQueue` |
| `FileWrites` | what the two tools promise: one writer of a file at a time, whole edits, a part only where a write failed | INSTANCE in `FileMutationQueue`, which implements it |
| `Compaction` | pure operators on a path: cuts, spans, what the model is shown | `SessionManager`, `AgentSession` |
| `SessionManager` | the session, its file, navigation, forks, compactions | `SessionManagerProofs`, `MCSessionManager` |
| `AgentSession` | what happens around the runs | `AgentSessionProofs`, `MCAgentSession` |
| `AgentHarness` | the harness, its session tree and its runs | `AgentHarnessProofs`, `MCAgentHarness` |
| `EventStream` | one stream as a value, its operations as operators | `StreamReaders`, `ModelStream` |
| `StreamReaders` | a stream, its producer and any number of readers | `AgentLoopProofs` |
| `ModelStream` | one response from the service to its reader, over one or two streams | `ModelStreamProofs`, `MCModelStream` |
| `AuthStorage` | instances over one credential file | `SharedFilesProofs`, `MCAuthStorage` |
| `RpcMode` | the server, its runtime and its output | `RpcModeProofs`, `MCRpcMode` |
| `RpcClient` | the client and the life of the process | `RpcModeProofs` |
| `RunState` | journal, state file and lock of a run, as operators | `TranscriptionRun` |
| `TranscriptionRun` | transcribe, retry and refresh on one directory | `TranscriptionRunProofs`, `MCTranscriptionRun` |
| `MC...` | the instances TLC checks | |

A definition commented as a *mistaken variant* is in no specification. It is what a
plausible bug would make of the definition after it; put in that definition's place
it must break the property that `PROJECT.json` ("mutants") names, which is how we
know that the property can fail.

Common to all: a step ends where the code awaits something that takes time, and
whatever a caller, another handler or another process may do comes between two
steps. A `used` record counts how much of each bound a behaviour has spent.

### AgentLoop

`pc` is the await at which the run stands, `"idle"` when there is no `activeRun`.
Between two steps of the run any caller action may happen (`Steer`, `FollowUp`,
`ClearQueues`, `Abort`), and when idle `Prompt`, `ContinueQueued`,
`ContinueTranscript` and `DropFailed` (the session removes a failed response before
it tries again). The transcript (`messages`) is what the reducer of
`Agent.processEvents` builds; `context` is the array the loop passes to the model;
they are appended to by different code at different steps. `Awaited(p)` ends every
step that emits an event: the state has been reduced, the listeners are awaited,
and the run goes on at `p` or a listener throws. What throws leads to
`handleRunFailure` (`FailureMessage`, `FailureEnd`), which may itself throw, and to
`FinishRun`. Model calls that reject are `RunThrows`.

Tool calls of one response have a `status`: started, refused (`immediate`),
prepared, returned, ended. They run together, or one by one when the mode or one of
the tools asks for it. When a listener throws in the middle, `Promise.all` rejects at
once, and the calls still running become `orphans`: their later
`tool_execution_end` reaches whatever run is active by then, or none. Messages are
records of role and number; `via` says how a user message was sent.

### FileMutationQueue

A call takes a `ticket` in the chain of registrations; in its turn it reads its key
from the file system as it is then (`Resolve`) and joins the chain of the key
(`Enqueue`). `pred` is the promise it waits for, `tail` the map. The bodies are
`Read`, `Open`, `Write` and `Finish`; `Finish` from any point of the body is an error or
an abort. `writeFile` is two steps: it opens the file, which cuts it or creates it, and
then writes; a body that fails between them leaves `Part`, which stands for whatever is
there of the text. A file removed meanwhile is written without a name (`unlinked`).
`FileWrites` has the same two steps and says who may take them. Paths are canonical or go through a link (`Real`); `Remove` is a command or
another program that deletes a file. The text of a file is the sequence of the
changes in it, so a lost update is a change that is missing. The specification is
`QueueSpec`, so that its theorems and those of `AuthStorage` can stand in one module.

### Compaction and SessionManager

An entry has an id, a parent and a kind. A compaction carries `covers`, the messages
its summary was made from, directly or through earlier summaries. Three ghosts say what
the properties make exceptions for: `forgets`, that an earlier summary, or what it kept,
was passed on by no later one, and `moved`, that the leaf had left the entry the
compaction was prepared at (`prep.from`) when it was appended; the third is below. Token sizes and
`keepRecentTokens` are abstracted to the message at which the backward count reaches
the budget, which ranges over every message of the span, and none. Methods of the
session manager are synchronous, so each is one step; a compaction is two
(`PrepareCompaction`, `AppendCompaction`), with anything in between. `file` is a
sequence of lines; a write may fail at any line with nothing written, with part of
it, or with all of it but the newline; a line written after a torn one is glued to
it and both are lost on the next load. A crash is a failed write, or none, and
`Reopen`. `fork` and `clone` read the file again, so the fork of a session not yet
written is refused. Where the header was lost, that reading starts the file afresh and
then refuses the fork (`ForkOfUnreadable`), while the session that runs goes on
appending; the third ghost, `cleared`, is the entries it had in memory then, which
`LossBounded` does not count.

### AgentSession

Each call of `prompt()` has a place (`at`): asking the extensions, running, waiting
to retry, compacting before or after a run, about to continue, over. `handled` is the
response a call acts on, `plan` the compaction it has prepared, `retrier` the call
that owns the abort controller of the wait. The session refuses a second prompt only
while a run is active (then it queues it), so calls overlap at every other await.
`run` and `stage` are the agent's active run at the grain of responses and tool
results, with one call per response. `messages` is the agent's transcript, `saved`
the path of the session; messages emitted while a manual compaction has disconnected
the session are `missed`. Nothing refuses a `compact()` beside another: `manual` and
`manualPlan` place each call, and `controller` and `autoController` say whether the abort
controllers are set that all compactions by the user, and all automatic ones, share. The
first to end clears its controller, and the others fail where they read it; it also
connects the session again, whichever others go on. `crossed` records that a run was started beside another
call or compaction in progress: two properties make exceptions for it, because
there the code gives no order. Left out: custom and next-turn messages, the copy of
the queues for display, listeners that throw (AgentLoop's subject), prompts refused
for want of a model or a key.

### AgentHarness

`at` places each prompt. An append to the session is two steps: the parent is read,
the line written, then the entry joins and becomes the leaf (`io`). `op` is a
compaction or a move in the tree. `queue` holds the three queues, `held` what a call
has taken and not yet passed on, `todo` what it has still to emit, `pending` the
deferred writes. Ghosts: `deferred` (every write ever put off), `left` (writes a
failed prompt or an operation leaves pending), `gone` (messages the code drops on a
failure), `crossed` (something was let in beside something unfinished, which the
early idle phase makes possible).

### Streams and responses

`EventStream` is a value with `Push`, `End`, `Ask` and `Take`; a reader whose wait is
answered holds the answer until its microtask. `StreamReaders` runs it with any
number of readers. `ModelStream` is one response: the service (`sent`, `wire`, and in
`reason` why its answer ends, as it says itself), the provider that turns chunks into events, the forwarding stream of a first use, and
a reader that iterates (the loop) or only awaits the result (`complete()`). Deltas
are numbered, and the message is one shared object, as in the code. Telemetry, usage
and cost are left out. A provider that cannot be loaded gives an error event; called
directly it throws later ones.

### AuthStorage

A *job* is the synchronous file work of one instance (make the file, take the lock,
read, write), during which its event loop stands still; a *call* is a `getApiKey()`
that finds its token expired, waits for the lock and holds it while the provider is
asked. Steps of instances interleave. `late` records that a lock was taken for stale
while its holder lived, `emptied` that an empty file took the place of one; the
properties hold until then, and the findings in section 5 say when that happens. A
request that fails was refused, or carried out and its answer lost: nobody then knows the
new token, and the spent one is presented again (`Unanswered`). A write that fails is one
of these: before it empties the file a lost answer, after that a kill. A
file reached through a symbolic link is not modelled.

### RpcMode and RpcClient

A command is a slot of `job`; its kind stands for the commands handled alike. A
handler starts when its line is read, so they overlap; a *patient* client waits for
each answer, the other pipelines. A replacement has stages (asking, stopping,
creating, binding, rebinding). `shown` are the lines written to standard output,
`owed` the answers produced. "dropped" is a prompt that was answered with success
and then thrown away. Left out: the data in answers, fire-and-forget extension
messages, dialogs without a timeout, EPIPE, lines that are no JSON,
`importFromJsonl` and the `setup` and `withSession` callbacks. In `RpcClient` the
process is external: it answers what it has read in any order, and may exit any
time.

### RunState and TranscriptionRun

Only the version of the recording a file was made from matters. An invocation is the
sequence of its writes, and may be killed between any two, the journal's last line
being torn at will. An append to the journal is three steps, as in the code: the file
is read, replaced by what was read of it when its end is torn, and then the line goes
to the file that was opened, which another invocation may have replaced since; `lost`
counts the records that go this way. The recording is replaced only between invocations and only by
newer ones; it is converted before it is sent; the nine files derived from the
segments are one. The lock is by path, without reuse of process ids. `status`,
`doctor` and `export` are not modelled.

## 3. Runs

| Run | Instance | States | What it shows |
|---|---|---|---|
| `loop` | three families: 3 calls in a response; 2 turns with 3 messages; 2 throws | 864,047 | results in call order; calls answered; context is the transcript; messages delivered once, in order; runs end |
| `fmq` | two edits (one through a link), a write, a write of another file that is created and removed; each may fail at any step | 179,378 | one operation changes a file at a time; `FileWrites` is implemented |
| `session` | three families: trees with forks; turns compacted twice; a write that fails at any line | 446,951 | memory is a tree and equals the file; history is summarised or kept; results stay with calls; bounded loss |
| `session_clone` | 6 entries with labels | refuted | a clone has the same conversation |
| `agent` | five families: one prompt that fails in every way; a second prompt while the first waits to try again; two overlapping prompts with a tool, bash, abort and compaction; two with compactions; three compactions by the user at once | 145,535 | one run; the session listens again; bash results once; pairs; agreement of transcript and path; nothing stranded; everything settles |
| `harness` | any 4 acts, at most 2 prompts, one message of a queue at a time | 528,512 | handles, deferred writes, what the model sees, queued messages |
| `transcription` | 4 invocations one after another, 2 kills, 1 replaced recording; or 3 of which 2 at once | 1,126,890 | what is marked complete is backed; journal accounts for state; revisions intact |
| `auth` | 2 instances, 3 calls; in time, or late with the file missing at first | 801,705 | edits preserved, tokens refreshed once |
| `stream_readers` | 3 readers, 4 events | 31,672 | no reader is stalled |
| `stream` | first use, later use, proxy; 3 deltas in up to 3 blocks (2 of the proxy) | 597,359 | order, blocks, wholeness, aborts, settling |
| `rpc` | 3 commands pipelined or one by one, 2 with every way to stop | 339,563 | the runtime's session is followed; every command answered; answers written before the exit; aborts reported |
| `rpc_requests` | 3 requests, 2 processes | 324,474 | no request is forgotten, or rejected for the end of another process |

Why the bounds are enough. Three calls are the fewest with a first, a middle and a
last one to finish in any order; two turns let a leftover of one meet the other;
three messages give each queue a second element while one is in flight; two throws
cover a failure inside the handling of a failure and one in the run that orphans of
the first reach. On the mutation queue two operations contend and the third registers
while the first releases; the fourth is on another key. Six entries are the fewest for
two compactions with a message kept by the first and one after it; a failed write needs
three, a first flush and the entry after it. Two prompts are the
fewest that overlap, and more of them would repeat the same pairs: every hazard of the
session and of the harness that we met needs two. Four acts in the harness are two
prompts, something to defer or queue, and something to cross them. Three commands let
a replacement overlap a prompt and another replacement. Two instances with two calls in
one of them have every kind of contention for the credential lock. Families (the `MC`
modules) split the bound between the dimensions, so that each run ends in a few
minutes; the theorems have no bounds.

Bounds limit how often an environment acts (responses with calls, messages, throws,
writes, kills), never what a component does with it, so no liveness property is helped
or blocked by one. Deadlock is looked for in `loop`, `fmq` and `stream_readers`, whose
specifications have an explicit step for the finished state; the others may stop for
good when nobody calls any more.

Fairness. Callers, users, kills and failures are never fair. `AgentLoop`: weak
fairness of the loop and of each tool call, as promises of models, tools and listeners
settle and the event loop runs every ready continuation; a tool that hangs is outside
this assumption and would hang the run, as in the code. `FileMutationQueue`,
`AuthStorage`, `StreamReaders` and `TranscriptionRun`: weak fairness of the steps of
each operation, job, reader or invocation. `AgentSession` and `AgentHarness`: weak
fairness of the run, of each call and of the operation, with the condition that
enables the step written out (`Ready`, `ManualReady`, not over), as TLC computes
ENABLED of those actions too slowly; that the condition implies ENABLED for the
harness is part of its property `Settles`. `ModelStream`: the service ends, the
producer, the forwarder and the reader go on. `RpcMode`: handlers, writes and
disposal. `SessionManager` and `RpcClient` have none. Liveness is checked for
`RunEnds`, `Settles` of the agent session and of the responses, and
`EveryCommandAnswered`.

## 4. Theorems

All are proved for every value of the constants, from the assumptions on constants
named in the modules (each `...Assumption`, evaluated by TLC in the runs) and nothing
else; where they say so `SharedFilesProofs` adds `Stable`, a condition on constants, and
`TranscriptionRunProofs` adds `[]Beside`, which says who may be in progress together.
`StreamReaders` and `RpcClient` have their theorems in
the proof module of the component at the other end, which extends both. A property is seldom
inductive, so each proof strengthens it; the strengthenings were checked by TLC before
they were proved.

`AgentLoopProofs`
* `TypeCorrect`, with `Batch`: while calls run, `next` is one of them and `results` is
  behind it. Without `Batch` the type of the results is not inductive.
* `ResultsOrdered`: from `LastOfBatch`, the last message while a batch runs is its
  response or the result just emitted.
* `ContextExact`: from `Contexts`, the exact difference of the two copies at each await.
* `PendingExact`: from `Tasks`, no call is under way outside a batch and orphans belong to
  earlier turns, so that their late ends cannot touch the calls of the current one.
* `CallsAnswered`: from `Answered`, results up to the counter are in the transcript, and a
  batch that ends early has had its run aborted.
* `MessagesOrdered`, `MessagesDeliveredOnce`: from `Carried`, which places every message
  sent (`Known`, `Accounted`), keeps the numbers of what is delivered, in flight and queued
  of one way of sending increasing (`Order`), and says what each await may hold (`Ways`).
  That nothing is lost holds until a listener or a model call fails (`Undropped`).
* Of `StreamReaders`, which the loop reads a response from: `StreamTyped`,
  `NoReaderStalled`, `EventsReadInOrder`, `EventsGivenOnce`, for any number of readers and
  events. `StreamWaiting` says that a reader in the list of waiters waits and has nothing in
  its hand; `QueueHolds`, that the queue is the last events pushed; `Shared`, that each
  earlier one was given to exactly one reader. The queue and the list of waiters are never
  both nonempty.

`SharedFilesProofs`: what calls and instances do to files they share
* Of `FileMutationQueue`: `TypeCorrect`, `StartsInOrder`, `KeysExclude`, `MapExact`, from
  `IInv`. Tickets are distinct and increase along the chain (`Tickets`); the map's entry is the newest
  unfinished operation of its key (`Tails`); the predecessor of an operation is the newest
  one before it that was unfinished when it joined (`Preds`).
* Of `FileMutationQueue`: `FilesExclude`, `UpdatesSurvive`, `Implements`. Under `Stable`
  (every path is canonical, or the files are there throughout) the key names the file, exclusion per key is
  exclusion per file, an edit writes over what it read, and each step is a step of
  `FileWrites` or none. Without it this is false (section 5).
* Of `AuthStorage`: `TypesHold`, `LockExcludes`, `SavedStays`, `TokensExchangedOnce`, for
  any number of instances and calls, from `Holding` (who has the lock), `Waits`, `Keeping` (a holder's
  copy is the file's content) and `Counting` (second exchanges against kills and lost
  answers), until a lock
  is taken for stale or an empty file takes the place of one.

`ModelStreamProofs`
* `TypesHold`, `OrderHolds`, `BlocksHold`, `WholeHolds`, `AbortHolds`, for every answer, any
  number of deltas, blocks and chunks a read returns, and all three routes: from `IInv`,
  which follows the answer from the service to the reader.
* `EventsInOrder`: from `StreamsKept`. Each stream has one reader, whose hand comes before
  the queue (`Serves`), so that what is handed on over both streams is a concatenation that
  each step only brackets otherwise; nothing is accepted after the event that completes a
  response (`Final`).
* `BlocksExact`: from `Texts`, which says of the blocks and the wire together that every
  delta sent is in one of them, the wire after the blocks and in order, and from
  `NamesKept`: a call is named by a way it was named by before, in its block or in an
  earlier chunk still on the wire. Without the last disjunct the way a chunk is recognised
  is not inductive.
* `Whole`: while the provider reads, the events told so far tell the blocks, each opened
  before its deltas (`Tells`); for the proxy the server's lines do, read or not (`ToldBy`,
  of `pushed` followed by the wire), and the blocks are those of the lines read (`Opened`).
  When the response ends with `done` this becomes `WholeIn`, which the later steps keep.
  That the service called its answer complete comes from `Said`: a finish reason read, one
  on the wire, and a completing line of the proxy are what the service said.
* `AbortHonoured`: the steps that complete the stream after an abort are the failing ones.
* A read of several lines and the pushes of one step are recursive functions (`Made`,
  `PushAll`); that they exist, and what they leave of the invariant after each line, is
  proved by well-founded induction stated without operator parameters.

`AgentSessionProofs`
* `OneRunAtATime`: a run belongs to exactly the call that waits for it, however many calls
  of `prompt()` and `compact()` overlap, and a session that does not listen has a
  `compact()` in progress, from the types of what decides who runs (`IInv`).
* `TypesHold`, `BashResultsSavedOnce`, `QueueNeverStranded`, `CallsStayPaired` and
  `TranscriptAgrees` follow from `Inv`, whose parts are proved inductive one after another,
  each from those before it:
  * `Data`: ids are unique and given out, transcript and context have the same messages in
    the same order but for those `missed` (`Sound`), and every planned compaction cuts at a
    message of the path that is no tool result (`PlansFit`, `ManualFits`), so that
    `Context` finds the first kept entry again after whatever is saved meanwhile.
  * `Bashes` counts bash results saved and deferred; `Begins`: the transcript starts with no
    response, so a response taken off it leaves something to continue from; `Queued`: what
    is queued waits for a call in progress.
  * `Calls`: until runs cross, a run is alone, the call of a running tool is the last message
    (`CallLast`) and both sequences are paired; `Recovers`, `Whole`: the response a recovery
    takes off is the one it heard of last, so only failed ones are missing; `Ranges`: the rest
    of the types.
* The proof rests on lemmas about `Compaction`'s operators: what `Shown`, the recursive
  function that gathers a path's messages, contains and keeps in order and paired, that it
  distributes over concatenation, and that a cut of `Prepared` is a message. They are
  proved by well-founded induction without operator parameters (`Least`, `Below`).

`SessionManagerProofs`
* All follow from `IInv`, with any number of failed writes where not said otherwise.
  `Base`: ids increase, a parent is an earlier entry, and each line of the file is the
  header, junk or an entry of the memory (`Holds`).
* `TypesHold`, `TreeStaysIntact`, `FileStaysExact` (of sessions of which no write has
  failed): from `Closed` (parents and the leaf are entries) and `FileExact`.
* `LabelsStayExact`: the property is inductive beside `FileExact`, which says that an
  append has not thrown; the last label of an entry decides (`LabelledIs`).
* `LossesBounded`: from `Losses`. What the file lacks already and what the next write
  would still lose after a torn line (`Owed`: its own entry and the torn one) are together
  at most two for each failure; without `Owed` the bound is not inductive.
* `HistoryKept`: from `Histories`. An entry of a compaction covers every message of the path
  to what it keeps (`Accounts`), unless it forgets; so does the plan of one under way
  (`Planned`). It is preserved when entries are lost or copied because a path then only
  has fewer of the same entries (`PathShrinks`, `Within`).
* `ResultsStayPaired`: from `Paired`. On every path a result rests on an earlier call with
  settings and labels between, and a compaction has cut where only such entries come before
  a message that is no result (`Clean`); `PlanOpens` says so of the plan of one under way.
* `Path`, `Picked` and what is read back are recursive functions; that they exist, and
  what they return on a longer or shorter session, is proved by `Below` as above.

`AgentHarnessProofs`
* `HandlesHold`, `PhaseHolds`, `IdleLeavesNothingElse`: from `IInv` (who is let in, what the
  handles name, what is left pending) and `Appending` (who appends).
* `WritesKept`: every deferred write is saved once, in order, or still pending. `Moving` says
  what each step of a run holds in hand and that a run is alone unless crossed;
  `Numbering` bounds the numbers of the writes; `Keeping` is the property with the one write
  that a flush has appended and not yet shifted.
* `BranchShown`: the model is shown exactly the saved branch. `Trees` makes the session a
  tree, `Following` relates a turn's snapshot to the branch of the leaf at each step.
  `Branch` is a recursive function on entry numbers; the facts about it (it exists, it is
  unchanged by an entry that joins, it grows by one when the leaf moves to that entry) are
  proved by well-founded induction stated without operator parameters: the least number
  with the contrary (`Least`) cannot exist (`Below`).
* `QueuedMessagesKept`: each message ever queued is in one place. `Placed` counts places of
  every number (`OnePlace`), bounds what was given out, keeps lists free of repetition, and
  follows what a drain, a restore, an abort and a failure move (`Moved`, `DrainMoves`,
  `RestoreMoves`, `LostMoves`).

`RpcModeProofs`
* `TypesHold`, `CommandsAnsweredOnce`, `HostFollowed`: `Unanswered` (a handler that goes on
  has not answered) and `Hooking` (which session is heard at each stage of overlapping
  replacements).
* `AnswersDelivered`: `Delivery`, every answer owed is queued, being written or shown, and the
  exit waits for the queue.
* `AbortsReported`: `Runs`, `InTurn`, `Ended`, `Heard`, `Ordered`: a patient client has one
  command in progress, a run's end is queued before the answer of the abort that waited for
  it, and the queue is written in order.
* `NoRequestForgotten` of `RpcClient`, for any number of requests, waits and processes: from
  `ClientInv`. The current process, and the process of every request that waits, was started.
  So a process started later has no request yet, though `stop()` may have emptied the map of
  requests that still wait for an earlier one. `Owned` adds that the map holds requests to
  the current process only, so that the end of a process rejects none sent to another.

`TranscriptionRunProofs`
* `JournalKept`, for any number of invocations that overlap and are killed: from `Accounted`.
  As long as the journal can be read, its lines are the writes made except for those of an
  invocation that is between a write and its line (`Unrecorded`), those that a kill fell on,
  and those counted in `lost`: their invocation found the journal unreadable, or they went
  with a file that was replaced by what had been read of it before. What is read in order to
  replace the file is an account of an earlier moment (`Readings`); as `lost` grows by just
  what it lacks, the account still adds up. Without a kill nothing is torn, so nothing is
  replaced or lost. A line torn of its end is counted once.
* `CompletionKept`, `ResultKept`, `RevisionsKept`, for any number of invocations, kills and
  replaced recordings, of the behaviours of `[]Beside`: two invocations in progress together
  are both of `transcribe`. `retry` and `refresh` take no lock (section 5), and beside
  another invocation the code does not keep the three. `BesideKept` shows two families that
  meet it: one invocation after another (`Together = 1`), and `transcribe` alone, any number
  at once. They follow from `IInv`: what files, state and revisions have to do with each other
  whoever is at work (`Data`: `Inputs`, `Pending`, `Past`, `Done`), and what each invocation
  knows and has done at each of its writes (`Doing`: `Transcribing`, `Retrying`,
  `Refreshing`, `Opening`). `Data` alone must hold at each write, as a kill leaves nothing
  else. Beside another `transcribe` the snapshot one has read may be old, from before its lock
  too; what is left of it is that the item is there and of the state's input (`Remembered`),
  and that files bear out the state about to be written (`Drafted`), as a `transcribe`
  removes no file and makes each from one input. Neither mentions the lock: the three properties
  do not rest on it.

## 5. Findings

`session_clone` refutes, by what the code does, that a clone has the same
conversation (`docs/rpc.md:615`): the scan for the cut passes over entries that are no
messages, so the first kept entry may be a label; a clone drops labels, and never finds
it (`CA/core/session-manager.ts:1299`).

Other disagreements and oddities met while modelling. The models contain the behaviour,
and where a property would fail it makes a named exception (`crossed`, `late`,
`emptied`, `cleared`, `missed`, `gone`, `left`, `moved`, `forgets`, `CutShort`):

Loop and queue
* `A/agent.ts:228` says `agent_end` is the final event of a run; a listener that
  throws on it leads to a second one, after an error message. `waitForIdle()` resolves
  while tools of such a run still execute (`A/agent.ts:309`).
* The key of a file that does not exist yet is the path as given, links not followed
  (`file-mutation-queue.ts:22`): two paths to one new file do not exclude each other, and
  a file created or removed between two registrations changes the key of such a path. The
  runs and theorems are of paths for which this cannot happen.
* A write that fails halfway leaves part of the text (`edit.ts:347`, `write.ts:218`).

Session and compaction
* Of two `compact()` calls that overlap the first to end clears the abort controller of
  both and connects the session again: the other fails when it reads the controller, and
  meanwhile the session listens (`agent-session.ts:1783`, `:1732`). Two automatic
  compactions share theirs in the same way (`:2068`, `:2000`).
* When the turn kept by a compaction is split by the next one, the earlier summary is
  not passed on (`compaction.ts:794`, against `docs/compaction.md:43`).
* `CA/core/agent-session.ts:985` says the loop drains both queues before `agent_end`;
  after a response that failed or was aborted it polls neither.
* `navigateTree` does not look whether a compaction is under way; the compaction is then
  appended on another branch (against `docs/compaction.md:45`). What it keeps may then be
  missing there, or begin with a setting right before a tool result whose call is
  summarised: an answer, a setting, its result; back to the setting, a message, a
  compaction there that keeps the setting; back to the result while the model summarises
  (`agent-session.ts:1730`). The context then has the result without its call.
* `_appendEntry` moves the leaf before it writes; after a failed write and a restart the
  next entry's parent is not in the file (against `docs/session-format.md:297`).
* A first flush that fails leaves a file which the exclusive create refuses from then on.
  A header torn just before its newline is glued to the next line, and the next reading
  starts the file afresh: at a restart, or at a fork of the running session, which is
  refused while all that was said so far goes from the disk
  (`agent-session-runtime.ts:309`, `session-manager.ts:799`).
* After an overflow that shows as stop reason "length", `continue()` refuses and the
  prompt rejects (`agent-session.ts:2042`, against `docs/rpc.md:938`).
* A prompt accepted while another is before its run is dropped without a report
  (`agent-session.ts:1148`, against `docs/rpc.md:76`).
* With overlapping prompts a bash result can land between a call and its result
  (`agent-session.ts:2640`). A compaction by the user with a message queued continues in a
  run the session does not hear (`:1651`, `:1424`). Cancelling a retry with a follow-up
  queued asks again. With three prompts, an answer of another run may come between a
  failed response and the recovery that takes the last message off (`:1869`).

Harness
* `compact()` and `navigateTree()` become idle without a flush (`agent-harness.ts:760`,
  `:860`, against `docs/agent-harness.md:88`), and so does a prompt that fails before its
  run (`:638`).
* A prompt let in by a listener of `agent_end` (`:531`) shares run promise and controller
  with the run before it, and overlapping flushes may write one write twice and drop the
  next.
* `before_agent_start` that throws (`:570`) loses the messages of `nextTurn()`; `abort()`
  before the controller exists (`:584`) reaches nothing; un-awaited writes while idle race.

Responses
* The answer of the proxy may end without an end (`A/proxy.ts:215`): the reader waits for
  ever (exempted as `CutShort`). It goes on reading after "done" (`:219`) and may change
  the stop reason of a message already delivered.
* A provider already loaded throws where a first use gives an error event
  (`openai-completions.ts:460`, against `AI/types.ts:221`). A load that fails after an abort
  is an "error". `agentLoop()` never ends its stream when its run rejects; a reader that
  leaves does not cancel the producer.

Credentials
* A missing file is created outside the lock (`auth-storage.ts:71`). `lockSync` takes a
  lock for stale after 10 s that the refresh renews every 15 (`:84`, `:147`). A login or
  logout during a refresh of the same instance is lost (`:297`). After a lock timeout a
  later `set()` is silent until the next reload; a kill within `writeFileSync` empties the
  file; a compromised lock loses the new token; a linked file has two locks. A refresh whose
  answer comes late or cannot be read (`oauth/anthropic.ts:177`, `:370`) leaves the spent
  token in the file, and the next call presents it again.

RPC
* Overlapping replacements drop a session without `session_shutdown`
  (`agent-session-runtime.ts:242`); `session_start` is emitted twice
  (`rpc-mode.ts:437`); a shutdown asked for during a run is looked at with the next command
  only (`:748`); a second trigger of the shutdown exits without flushing; a failed
  `createRuntime` leaves the disposed session current; a prompt accepted on a session then
  disposed runs unsaved.
* The client skips a listener after each that removes itself (`rpc-client.ts:495`), hands
  stray responses to listeners (`:494`), ignores `success: false` of prompt, steer, followUp
  and abort, resolves `waitForIdle` at the first `agent_end` though a retry follows, drops
  pending requests when `stop()` gives up, and cannot answer dialogs.

Restartable runs
* An empty lock file is taken for stale (`run_state.py:209`, against
  `vault-schema-contract.md:296`); a directory whose run was killed before its state exists
  is refused for good (`transcription.py:575`, against `forge/RUN_STATE_CONTRACT.md:3`); a
  last line without its line end is glued to the next (`run_state.py:82`); interrupted items
  are retried without end (`:182`, against `:26` of the contract); a move whose destination
  exists is passed over unchecked (`transcription.py:861`, against `:43`).
* An error while the event of `item_completed` is appended marks the finished item failed; a
  second `transcribe` redoes a finished item from a snapshot taken before the lock; `refresh`
  and `retry` take no lock, and a planned refresh is carried out with its old target.
* A line that another invocation appends between the read of a torn journal and its
  replacement, or to the file that was replaced, is lost (`run_state.py:75-88`, `:153-157`);
  a replacement may also make a journal readable that another append had spoiled.

## 6. What is only model-checked

* Liveness (`RunEnds`, both `Settles`, `EveryCommandAnswered`): the prover
  does not treat fairness and ENABLED.

## 7. Not modelled, and why

* Settings manager: the same read, merge and write under a lock as auth storage.
* Other providers and the model registry: translation between wire formats and messages
  around the same frame; tables.
* Tools other than write and edit: process execution and text truncation; the loop's tool
  steps stand for all tools.
* Extensions: handlers of third parties. The models have hooks that take time and throw,
  not what they compute.
* Interactive mode and TUI: rendering, layout and keyboard decoding in one thread, which
  share state with the rest only through `AgentSession`.
* Package manager and resource loader: npm, git and directory scans, one command at a time.
* Other Forge skills: one-shot text processing around service calls; those that keep a run
  use the files of `RunState`.
* Scripts, installers and generated data.
