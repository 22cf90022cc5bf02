------------------------------ MODULE RpcMode ------------------------------
(***************************************************************************)
(* The coding agent run as a server (rpc-mode.ts) over the runtime that    *)
(* replaces its sessions (agent-session-runtime.ts) and the queued writes  *)
(* to standard output (output-guard.ts).  Every line of standard input     *)
(* starts a handler at once, so handlers overlap: a command sent while     *)
(* another is being handled meets whatever that one has done so far.       *)
(*                                                                         *)
(* A command is a slot of `job'; its kind stands for the commands that are *)
(* handled alike:                                                          *)
(*   "prompt"   prompt without a streamingBehavior                         *)
(*   "queue"    prompt with one                                            *)
(*   "ask"      a prompt that names an extension command, whose handler    *)
(*              opens a dialog (with a timeout)                            *)
(*   "abort"    abort                                                      *)
(*   "call"     a command that awaits one method of the session            *)
(*   "replace"  new_session, switch_session, fork and clone                *)
(***************************************************************************)
EXTENDS Integers, Sequences, FiniteSets

CONSTANTS
  Kinds,        \* the kinds of command the client sends
  MaxCommands   \* bound: commands sent

ASSUME KindsAssumption ==
  Kinds \subseteq {"prompt", "queue", "ask", "abort", "call", "replace"}
ASSUME MaxCommandsAssumption == MaxCommands \in Nat \ {0}

Jobs == 1..MaxCommands
Sessions == 1..(MaxCommands + 1)   \* a command creates at most one session

VARIABLES
  patient,    \* whether the client sends a command only when every earlier
              \* one has been answered
  job,        \* the commands and how far their handlers are
  host,       \* AgentSessionRuntime._session
  mode,       \* the variable `session' of runRpcMode
  life,       \* [Sessions -> {"unborn", "open", "disposed"}]
  shut,       \* how often session_shutdown was emitted to a session
  started,    \* how often session_start was emitted to a session
  listeners,  \* output listeners among a session's _eventListeners
  hooked,     \* the session `unsubscribe' takes the listener from (0: none)
  run,        \* the prompt whose run is the session's active one (0: none)
  queue,      \* lines handed to writeRawStdout and not yet written
  shown,      \* lines written
  answers,    \* how many responses a command was given
  quit,       \* how far shutdown() is
  wanted,     \* shutdownRequested
  stdin,      \* "open" or "ended"
  owed        \* the commands answered when the shutdown began

sessionVars == <<host, mode, life, shut, started, listeners, hooked, run>>
outputVars == <<queue, shown, answers>>
quitVars == <<quit, wanted, stdin, owed>>
vars == <<patient, job, sessionVars, outputVars, quitVars>>

NoJob == [kind |-> "none", at |-> "unsent", session |-> 1, run |-> 0]

Response(j) == [type |-> "response", job |-> j]
AgentEnd(j) == [type |-> "agent_end", job |-> j]
Dialog(j) == [type |-> "extension_ui_request", job |-> j]
Lines == [type : {"response", "agent_end", "extension_ui_request"}, job : Jobs]

PromptStages == {"input", "before", "running", "ending", "dropped", "dialog"}
ReplaceStages == {"asking", "stopping", "creating", "binding", "rebinding"}
Stages == PromptStages \cup ReplaceStages
            \cup {"unsent", "waiting", "calling", "checking", "done"}

TypeOK ==
  /\ patient \in BOOLEAN
  /\ job \in [Jobs -> [kind : Kinds \cup {"none"}, at : Stages,
                       session : Sessions, run : 0..MaxCommands]]
  /\ host \in Sessions /\ mode \in Sessions
  /\ life \in [Sessions -> {"unborn", "open", "disposed"}]
  /\ shut \in [Sessions -> Nat] /\ started \in [Sessions -> Nat]
  /\ listeners \in [Sessions -> Nat]
  /\ hooked \in Sessions \cup {0}
  /\ run \in [Sessions -> 0..MaxCommands]
  /\ queue \in Seq(Lines) /\ shown \subseteq Lines
  /\ answers \in [Jobs -> Nat]
  /\ quit \in {"no", "disposing", "terminating", "flushing", "exited", "killed"}
  /\ wanted \in BOOLEAN /\ stdin \in {"open", "ended"}
  /\ owed \subseteq Jobs

(* rebindSession() has bound and subscribed the first session. *)
Init ==
  /\ patient \in BOOLEAN
  /\ job = [j \in Jobs |-> NoJob]
  /\ host = 1 /\ mode = 1
  /\ life = [s \in Sessions |-> IF s = 1 THEN "open" ELSE "unborn"]
  /\ shut = [s \in Sessions |-> 0]
  /\ started = [s \in Sessions |-> IF s = 1 THEN 1 ELSE 0]
  /\ listeners = [s \in Sessions |-> IF s = 1 THEN 1 ELSE 0]
  /\ hooked = 1
  /\ run = [s \in Sessions |-> 0]
  /\ queue = <<>> /\ shown = {}
  /\ answers = [j \in Jobs |-> 0]
  /\ quit = "no" /\ wanted = FALSE /\ stdin = "open" /\ owed = {}

Up == quit \notin {"exited", "killed"}

-----------------------------------------------------------------------------
(* Output and shutdown                                                     *)

Output(line) == queue' = Append(queue, line)

Answer(j) ==
  /\ Output(Response(j))
  /\ answers' = [answers EXCEPT ![j] = @ + 1]
  /\ UNCHANGED shown

Silent == UNCHANGED outputVars

(* The listener that writes a session's events is taken off. *)
Unhooked(ls) ==
  IF hooked = 0 THEN ls ELSE [ls EXCEPT ![hooked] = IF @ = 0 THEN 0 ELSE @ - 1]

(* shutdown(): the first call starts to dispose of the runtime, which      *)
(* emits session_shutdown; a second one exits on the spot.                 *)
Shutdown(stage) ==
  IF quit = "no"
  THEN /\ quit' = stage
       /\ owed' = {j \in Jobs : answers[j] > 0}
       /\ shut' = [shut EXCEPT ![host] = @ + 1]
       /\ listeners' = Unhooked(listeners) /\ hooked' = 0
  ELSE /\ quit' = "killed"
       /\ UNCHANGED <<owed, shut, listeners, hooked>>

NoShutdown == UNCHANGED <<quit, owed, shut, listeners, hooked>>

(* checkShutdownRequested() *)
CheckShutdownRequested == IF wanted THEN Shutdown("disposing") ELSE NoShutdown

Goes(j, stage) == job' = [job EXCEPT ![j].at = stage]

(* A handler that returns a response writes it, waits until everything is  *)
(* written and looks whether a shutdown was asked for; one that threw does *)
(* not look.                                                               *)
Replies(j) == Answer(j) /\ Goes(j, "checking")
(* Mutant: the error of a handler is only logged. *)
FailsSilently(j) == Goes(j, "done") /\ Silent

Fails(j) == Answer(j) /\ Goes(j, "done")

-----------------------------------------------------------------------------
(* Commands arrive                                                         *)

StageOf(k) ==
  CASE k \in {"prompt", "queue"} -> "input"
    [] k = "ask" -> "dialog"
    [] k = "abort" -> "waiting"
    [] k = "call" -> "calling"
    [] k = "replace" -> "asking"

(* handleInputLine.  A prompt is not awaited: its handler returns no       *)
(* response and goes on to look for a shutdown request at once.            *)
Receive(j, k) ==
  /\ Up /\ quit # "flushing" /\ stdin = "open"
  /\ job[j].at = "unsent" /\ \A i \in 1..(j - 1) : job[i].at # "unsent"
  /\ patient => \A i \in 1..(j - 1) : answers[i] > 0
  /\ job' = [job EXCEPT ![j] = [kind |-> k, at |-> StageOf(k), session |-> mode,
                                run |-> IF k = "abort" THEN run[mode] ELSE 0]]
  /\ IF k = "ask" THEN Output(Dialog(j)) ELSE UNCHANGED queue
  /\ IF k \in {"prompt", "queue", "ask"} THEN CheckShutdownRequested ELSE NoShutdown
  /\ UNCHANGED <<host, mode, life, started, run, shown, answers, wanted, stdin>>

(* A command whose response is written and drained. *)
Drained(j) ==
  /\ Up /\ job[j].at = "checking" /\ queue = <<>>
  /\ Goes(j, "done")
  /\ CheckShutdownRequested
  /\ Silent
  /\ UNCHANGED <<host, mode, life, started, run, wanted, stdin>>

-----------------------------------------------------------------------------
(* Prompts                                                                 *)

(* prompt() once the input handlers have run: it is answered because they  *)
(* handled the text, because a run is active (it queues or is refused), or *)
(* because no model or key is there; or it goes on to before_agent_start.  *)
PromptChecked(j) ==
  /\ Up /\ job[j].at = "input"
  /\ \/ Answer(j) /\ Goes(j, "done")
     \/ /\ run[job[j].session] = 0
        /\ Goes(j, "before") /\ Silent
  /\ UNCHANGED <<sessionVars, quitVars>>

(* The second half of prompt(): preflightResult(true), then the run.       *)
(* agent.prompt() throws when a run is active; the response is out, so the *)
(* error is dropped.                                                       *)
Accepted(j) ==
  /\ Up /\ job[j].at = "before"
  /\ Answer(j)
  /\ IF run[job[j].session] = 0
     THEN /\ run' = [run EXCEPT ![job[j].session] = j]
          /\ Goes(j, "running")
     ELSE /\ Goes(j, "dropped")
          /\ UNCHANGED run
  /\ UNCHANGED <<host, mode, life, shut, started, listeners, hooked, quitVars>>

(* The run emits agent_end; a disposed session is no longer connected to   *)
(* its agent.                                                              *)
RunEnds(j) ==
  LET s == job[j].session IN
  /\ Up /\ job[j].at = "running"
  /\ Goes(j, "ending")
  /\ IF life[s] = "open" /\ listeners[s] > 0 THEN Output(AgentEnd(j)) ELSE UNCHANGED queue
  /\ UNCHANGED <<sessionVars, shown, answers, quitVars>>

(* The second listener holds the run until its events are written. *)
RunOver(j) ==
  /\ Up /\ job[j].at = "ending"
  /\ hooked = job[j].session => queue = <<>>
  /\ run' = [run EXCEPT ![job[j].session] = 0]
  /\ Goes(j, "done")
  /\ UNCHANGED <<host, mode, life, shut, started, listeners, hooked, outputVars, quitVars>>

(* createDialogPromise: the answer, the timeout or the signal settles the  *)
(* dialog, whichever is first; the extension command is over and prompt()  *)
(* reports success.                                                        *)
DialogSettled(j) ==
  /\ Up /\ job[j].at = "dialog"
  /\ Answer(j) /\ Goes(j, "done")
  /\ UNCHANGED <<sessionVars, quitVars>>

(* Mutant: abort is answered without waiting for the run. *)
AbortedAtOnce(j) ==
  /\ Up /\ job[j].at = "waiting"
  /\ Replies(j)
  /\ UNCHANGED <<sessionVars, quitVars>>

(* abort(): agent.waitForIdle() waits for the run that was active. *)
Aborted(j) ==
  /\ Up /\ job[j].at = "waiting"
  /\ job[j].run # 0 => run[job[j].session] # job[j].run
  /\ Replies(j)
  /\ UNCHANGED <<sessionVars, quitVars>>

Called(j) ==
  /\ Up /\ job[j].at = "calling"
  /\ Replies(j) \/ Fails(j)
  /\ UNCHANGED <<sessionVars, quitVars>>

-----------------------------------------------------------------------------
(* Session replacement                                                     *)

(* The session_before_switch handlers cancel it, the target is unusable,   *)
(* or teardownCurrent() emits session_shutdown to the current session.     *)
Asked(j) ==
  /\ Up /\ job[j].at = "asking"
  /\ \/ (Replies(j) \/ Fails(j)) /\ UNCHANGED shut
     \/ /\ Goes(j, "stopping") /\ Silent
        /\ shut' = [shut EXCEPT ![host] = @ + 1]
  /\ UNCHANGED <<host, mode, life, started, listeners, hooked, run, quitVars>>

(* teardownCurrent() goes on to dispose of what is then the session. *)
TornDown(j) ==
  /\ Up /\ job[j].at = "stopping"
  /\ life' = [life EXCEPT ![host] = "disposed"]
  /\ listeners' = [listeners EXCEPT ![host] = 0]
  /\ Goes(j, "creating") /\ Silent
  /\ UNCHANGED <<host, mode, shut, started, hooked, run, quitVars>>

(* rebindSession() up to its await, called when the runtime holds s. *)
Rebind(s) ==
  /\ mode' = s
  /\ started' = [started EXCEPT ![s] = @ + 1]

(* createRuntime() throws, or its session is applied and bound. *)
Created(j) ==
  /\ Up /\ job[j].at = "creating"
  /\ \/ /\ Fails(j) /\ UNCHANGED <<host, mode, life, started>>
     \/ \E s \in Sessions :
          /\ life[s] = "unborn" /\ \A t \in 1..(s - 1) : life[t] # "unborn"
          /\ life' = [life EXCEPT ![s] = "open"]
          /\ host' = s
          /\ Rebind(s)
          /\ Goes(j, "binding") /\ Silent
  /\ UNCHANGED <<shut, listeners, hooked, run, quitVars>>

(* Mutant: the listener of the bind before is kept. *)
ResubscribeAgain ==
  /\ listeners' = [listeners EXCEPT ![mode] = @ + 1]
  /\ hooked' = mode

(* rebindSession() after its await: the variable is read again. *)
Resubscribe ==
  /\ listeners' = [Unhooked(listeners) EXCEPT ![mode] = @ + 1]
  /\ hooked' = mode

(* The runtime's rebind is done; the command's handler rebinds once more. *)
Bound(j) ==
  /\ Up /\ job[j].at = "binding"
  /\ Resubscribe
  /\ Rebind(host)
  /\ Goes(j, "rebinding") /\ Silent
  /\ UNCHANGED <<host, life, shut, run, quitVars>>

Rebound(j) ==
  /\ Up /\ job[j].at = "rebinding"
  /\ Resubscribe
  /\ Replies(j)
  /\ UNCHANGED <<host, mode, life, shut, started, run, quitVars>>

-----------------------------------------------------------------------------
(* Standard output, and the end                                            *)

(* writeRawStdoutChunk: the tail of promises writes one line at a time. *)
Write ==
  /\ Up /\ queue # <<>>
  /\ shown' = shown \cup {Head(queue)}
  /\ queue' = Tail(queue)
  /\ UNCHANGED <<job, sessionVars, answers, quitVars>>

(* An extension whose code runs calls ctx.shutdown(). *)
RequestShutdown ==
  /\ Up /\ ~wanted
  /\ \E j \in Jobs : job[j].at \in {"input", "before", "running", "dialog", "asking",
                                    "stopping", "binding", "rebinding"}
  /\ wanted' = TRUE
  /\ UNCHANGED <<job, sessionVars, outputVars, quit, stdin, owed>>

StdinEnds ==
  /\ Up /\ quit # "flushing" /\ stdin = "open"
  /\ stdin' = "ended"
  /\ Shutdown("disposing")
  /\ Silent
  /\ UNCHANGED <<job, host, mode, life, started, run, wanted>>

(* SIGTERM (SIGHUP is the end of standard input with input still open);    *)
(* once shutdown() has taken the handler off, it kills.                    *)
Terminated ==
  /\ Up
  /\ Shutdown("terminating")
  /\ Silent
  /\ UNCHANGED <<job, host, mode, life, started, run, wanted, stdin>>

(* runtimeHost.dispose() is over: input is detached, and output is flushed *)
(* unless a signal asked for the exit.                                     *)
Disposed ==
  /\ quit \in {"disposing", "terminating"}
  /\ life' = [life EXCEPT ![host] = "disposed"]
  /\ listeners' = [listeners EXCEPT ![host] = 0]
  /\ quit' = IF quit = "terminating" THEN "killed" ELSE "flushing"
  /\ Silent
  /\ UNCHANGED <<job, host, mode, shut, started, hooked, run, wanted, stdin, owed>>

(* Mutant: the process exits without waiting for its output. *)
FlushedNot ==
  /\ quit = "flushing"
  /\ quit' = "exited"
  /\ UNCHANGED <<job, sessionVars, outputVars, wanted, stdin, owed>>

Flushed ==
  /\ quit = "flushing" /\ queue = <<>>
  /\ quit' = "exited"
  /\ UNCHANGED <<job, sessionVars, outputVars, wanted, stdin, owed>>

Handle(j) ==
  \/ Drained(j) \/ PromptChecked(j) \/ Accepted(j) \/ RunEnds(j) \/ RunOver(j)
  \/ DialogSettled(j) \/ Aborted(j) \/ Called(j)
  \/ Asked(j) \/ TornDown(j) \/ Created(j) \/ Bound(j) \/ Rebound(j)

Next ==
  /\ \/ \E j \in Jobs, k \in Kinds : Receive(j, k)
     \/ \E j \in Jobs : Handle(j)
     \/ Write \/ RequestShutdown \/ StdinEnds \/ Terminated \/ Disposed \/ Flushed
  /\ UNCHANGED patient

(* Handlers, runs and extensions come to an end, dialogs time out, the     *)
(* client reads what is written.                                           *)
Fairness ==
  /\ \A j \in Jobs : WF_vars(Handle(j) /\ UNCHANGED patient)
  /\ WF_vars(Write /\ UNCHANGED patient)
  /\ WF_vars(Disposed /\ UNCHANGED patient)
  /\ WF_vars(Flushed /\ UNCHANGED patient)

Spec == Init /\ [][Next]_vars /\ Fairness

-----------------------------------------------------------------------------
(* No command is answered twice, whatever fails after its response is out. *)
AnsweredOnce == \A j \in Jobs : answers[j] <= 1

(* Every command is answered unless the server is asked to stop. *)
EveryCommandAnswered ==
  \A j \in Jobs : job[j].at # "unsent" ~> answers[j] > 0 \/ quit # "no"

(* When no session is being replaced and the runtime's is usable (its      *)
(* replacement may have failed), it is the one commands go to and the only *)
(* one whose events are written, once each.                                *)
Replacing == \E j \in Jobs : job[j].at \in {"creating", "binding", "rebinding"}

FollowsHost ==
  ~Replacing /\ quit = "no" /\ life[host] = "open" =>
    /\ mode = host
    /\ \A s \in Sessions : listeners[s] = IF s = host THEN 1 ELSE 0

(* What was answered before an orderly shutdown began has been written     *)
(* when the process exits.                                                 *)
AnswersFlushed == quit = "exited" => \A j \in owed : Response(j) \in shown

(* A client that waits for its answers and has read the one to abort has   *)
(* read the end of the run it aborted.                                     *)
AbortReported ==
  patient =>
    \A j \in Jobs :
      Response(j) \in shown /\ job[j].run # 0 =>
        \/ AgentEnd(job[j].run) \in shown
        \/ life[job[j].session] = "disposed" \/ quit # "no"
=============================================================================
