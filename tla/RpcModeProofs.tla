--------------------------- MODULE RpcModeProofs ---------------------------
(***************************************************************************)
(* Proofs about the RPC mode, for any number of commands of any kinds and  *)
(* with every way to stop.                                                 *)
(*                                                                         *)
(* A command whose handler has not come to its answer has none             *)
(* (Unanswered), so none is answered twice.  The runtime's session is the  *)
(* one commands go to, only the session that `unsubscribe' stands for has  *)
(* a listener, and unless a session is being bound that is the runtime's   *)
(* (Hooking): commands and events follow the runtime.                      *)
(*                                                                         *)
(* A response is written or in the queue exactly if it was given           *)
(* (Delivery): an orderly exit has written what was answered before.       *)
(*                                                                         *)
(* A session's active run is a prompt of its own (Runs).  A client that    *)
(* waits has one unanswered command, so no run ends unheard while its      *)
(* session is open (InTurn, Ended); an abort that is answered has seen its *)
(* run end (Heard), and the queue keeps the order of the two (Ordered).    *)
(*                                                                         *)
(* The last section is about the client at the other end (RpcClient).      *)
(***************************************************************************)
EXTENDS RpcMode, RpcClient, TLAPS

Pre == {"unsent", "input", "before", "dialog", "waiting", "calling"} \cup ReplaceStages

Unanswered ==
  \A j \in Jobs : /\ job[j].at \in Pre => answers[j] = 0
                  /\ answers[j] <= 1

Binding == \E j \in Jobs : job[j].at \in {"binding", "rebinding"}

Hooking ==
  /\ mode = host
  /\ life[host] # "unborn"
  /\ hooked # 0 => life[hooked] # "unborn"
  /\ \A s \in Sessions : s # hooked => listeners[s] = 0
  /\ \A s \in Sessions : listeners[s] <= 1
  /\ quit = "no" =>
       \/ Binding
       \/ hooked = host /\ (life[host] = "open" => listeners[host] = 1)

IInv == TypeOK /\ Unanswered /\ Hooking

-----------------------------------------------------------------------------
(* What the helpers of the actions do.                                     *)

(* A stage moves one command. *)
LEMMA GoesMoves ==
  ASSUME TypeOK, NEW j \in Jobs, NEW stage \in Stages, Goes(j, stage)
  PROVE  /\ job' \in [Jobs -> [kind : Kinds \cup {"none"}, at : Stages,
                              session : Sessions, run : 0..MaxCommands]]
         /\ job'[j].at = stage
         /\ \A i \in Jobs : i # j => job'[i] = job[i]
<1>1. job' = [job EXCEPT ![j] = [job[j] EXCEPT !.at = stage]]
  BY DEF Goes, TypeOK
<1>2. [job[j] EXCEPT !.at = stage] \in [kind : Kinds \cup {"none"}, at : Stages,
                                        session : Sessions, run : 0..MaxCommands]
  BY DEF TypeOK
<1>3. [job[j] EXCEPT !.at = stage].at = stage
  BY DEF TypeOK
<1> QED
  BY <1>1, <1>2, <1>3 DEF TypeOK

(* A response is one more line and one more answer. *)
LEMMA AnswerCounts ==
  ASSUME TypeOK, NEW j \in Jobs, Answer(j)
  PROVE  /\ queue' \in Seq(Lines) /\ shown' \subseteq Lines
         /\ answers' \in [Jobs -> Nat]
         /\ answers'[j] = answers[j] + 1
         /\ \A i \in Jobs : i # j => answers'[i] = answers[i]
<1>1. Response(j) \in Lines
  BY DEF Response, Lines
<1>2. queue' \in Seq(Lines)
  BY <1>1 DEF Answer, Output, TypeOK
<1>3. answers' = [answers EXCEPT ![j] = answers[j] + 1] /\ shown' = shown
  BY DEF Answer
<1>4. answers \in [Jobs -> Nat] /\ shown \subseteq Lines
  BY DEF TypeOK
<1> QED
  BY <1>2, <1>3, <1>4

LEMMA SilentKeeps ==
  ASSUME TypeOK, Silent
  PROVE  queue' \in Seq(Lines) /\ shown' \subseteq Lines /\ answers' \in [Jobs -> Nat] /\ answers' = answers
BY DEF TypeOK, Silent, outputVars

(* Without its listener no session has one. *)
LEMMA UnhookedIsSilent ==
  ASSUME TypeOK, Hooking
  PROVE  /\ Unhooked(listeners) \in [Sessions -> Nat]
         /\ \A s \in Sessions : Unhooked(listeners)[s] = 0
<1>1. CASE hooked = 0
  <2>1. \A s \in Sessions : s # hooked
    BY <1>1 DEF Sessions
  <2> QED
    BY <1>1, <2>1 DEF Unhooked, TypeOK, Hooking
<1>2. CASE hooked # 0
  <2>1. hooked \in Sessions
    BY <1>2 DEF TypeOK
  <2>2. listeners[hooked] \in {0, 1}
    BY <2>1 DEF TypeOK, Hooking
  <2>3. Unhooked(listeners) = [listeners EXCEPT ![hooked] = 0]
    <3>1. Unhooked(listeners) =
            [listeners EXCEPT ![hooked] = IF listeners[hooked] = 0 THEN 0 ELSE listeners[hooked] - 1]
      BY <1>2 DEF Unhooked
    <3>2. (IF listeners[hooked] = 0 THEN 0 ELSE listeners[hooked] - 1) = 0
      BY <2>2
    <3> QED
      BY <3>1, <3>2
  <2> QED
    BY <2>1, <2>3 DEF TypeOK, Hooking
<1> QED
  BY <1>1, <1>2

(* A shutdown takes the listener off or ends the process. *)
LEMMA ShutdownHooks ==
  ASSUME TypeOK, Hooking, NEW stage \in {"disposing", "terminating"}, Shutdown(stage)
  PROVE  /\ quit' \in {"disposing", "terminating", "killed"}
         /\ owed' \subseteq Jobs
         /\ shut' \in [Sessions -> Nat] /\ listeners' \in [Sessions -> Nat]
         /\ hooked' \in Sessions \cup {0}
         /\ hooked' # 0 => life[hooked'] # "unborn"
         /\ \A s \in Sessions : s # hooked' => listeners'[s] = 0
         /\ \A s \in Sessions : listeners'[s] <= 1
<1>1. CASE quit = "no"
  <2>1. /\ quit' = stage /\ owed' = {j \in Jobs : answers[j] > 0}
        /\ shut' = [shut EXCEPT ![host] = @ + 1]
        /\ listeners' = Unhooked(listeners) /\ hooked' = 0
    BY <1>1 DEF Shutdown
  <2>2. shut \in [Sessions -> Nat] /\ host \in Sessions /\ shut' = [shut EXCEPT ![host] = @ + 1]
    BY <2>1 DEF TypeOK
  <2>3. shut' \in [Sessions -> Nat]
    BY ONLY <2>2
  <2> QED
    BY <2>1, <2>3, UnhookedIsSilent
<1>2. CASE quit # "no"
  <2>1. quit' = "killed" /\ UNCHANGED <<owed, shut, listeners, hooked>>
    BY <1>2 DEF Shutdown
  <2> QED
    BY <2>1 DEF TypeOK, Hooking
<1> QED
  BY <1>1, <1>2

(* A look for a shutdown request keeps what it leaves running. *)
LEMMA CheckHooks ==
  ASSUME TypeOK, Hooking, CheckShutdownRequested \/ NoShutdown
  PROVE  /\ quit' \in {"no", "disposing", "terminating", "flushing", "exited", "killed"}
         /\ quit' = "no" => UNCHANGED <<quit, listeners, hooked>>
         /\ owed' \subseteq Jobs
         /\ shut' \in [Sessions -> Nat] /\ listeners' \in [Sessions -> Nat]
         /\ hooked' \in Sessions \cup {0}
         /\ hooked' # 0 => life[hooked'] # "unborn"
         /\ \A s \in Sessions : s # hooked' => listeners'[s] = 0
         /\ \A s \in Sessions : listeners'[s] <= 1
<1>1. CASE Shutdown("disposing")
  BY <1>1, ShutdownHooks
<1>2. CASE NoShutdown
  BY <1>2 DEF NoShutdown, TypeOK, Hooking
<1> QED
  BY <1>1, <1>2 DEF CheckShutdownRequested

(* A new subscription is the only one. *)
LEMMA ResubscribeHooks ==
  ASSUME TypeOK, Hooking, Resubscribe
  PROVE  /\ listeners' \in [Sessions -> Nat] /\ hooked' = host
         /\ listeners'[host] = 1
         /\ \A s \in Sessions : s # host => listeners'[s] = 0
<1>1. mode = host /\ host \in Sessions
  BY DEF TypeOK, Hooking
<1>2. /\ Unhooked(listeners) \in [Sessions -> Nat]
      /\ \A s \in Sessions : Unhooked(listeners)[s] = 0
  BY UnhookedIsSilent
<1>3. listeners' = [Unhooked(listeners) EXCEPT ![host] = Unhooked(listeners)[host] + 1]
  BY <1>1 DEF Resubscribe
<1> QED
  BY <1>1, <1>2, <1>3 DEF Resubscribe

(* Only the steps of a rebinding command end a binding. *)
LEMMA BindingStays ==
  ASSUME TypeOK, NEW j \in Jobs, job[j].at \notin {"binding", "rebinding"}, Binding,
         \A i \in Jobs : i # j => job'[i] = job[i]
  PROVE  Binding'
BY DEF Binding

(* The part of Hooking that a step keeps when it touches no session. *)
LEMMA HookingStays ==
  ASSUME TypeOK, Hooking, NEW j \in Jobs, job[j].at \notin {"binding", "rebinding"},
         \A i \in Jobs : i # j => job'[i] = job[i],
         UNCHANGED <<host, mode, life, listeners, hooked, quit>>
  PROVE  Hooking'
<1>1. Binding => Binding'
  BY BindingStays
<1> QED
  BY <1>1 DEF Hooking

(* A command that is moved and, at most, answered for the first time. *)
LEMMA UnansweredStays ==
  ASSUME TypeOK, Unanswered, NEW j \in Jobs,
         \A i \in Jobs : i # j => job'[i] = job[i],
         \/ answers' = answers /\ (job'[j].at \in Pre => job[j].at \in Pre)
         \/ /\ job[j].at \in Pre /\ job'[j].at \notin Pre
            /\ answers' \in [Jobs -> Nat] /\ answers'[j] = answers[j] + 1
            /\ \A i \in Jobs : i # j => answers'[i] = answers[i]
  PROVE  Unanswered'
<1>1. answers \in [Jobs -> Nat]
  BY DEF TypeOK
<1> SUFFICES ASSUME NEW i \in Jobs
             PROVE  (job'[i].at \in Pre => answers'[i] = 0) /\ answers'[i] <= 1
  BY DEF Unanswered
<1>2. (job[i].at \in Pre => answers[i] = 0) /\ answers[i] <= 1 /\ (job[j].at \in Pre => answers[j] = 0)
  BY DEF Unanswered
<1>3. CASE i # j
  BY <1>2, <1>3
<1>4. CASE i = j
  BY <1>1, <1>2, <1>4
<1> QED
  BY <1>3, <1>4

-----------------------------------------------------------------------------
(* The steps of one command that touch no session.                         *)

(* What such a step leaves alone, and what is left to show of it. *)
LEMMA CommandStep ==
  ASSUME IInv, UNCHANGED patient, NEW j \in Jobs, NEW stage \in Stages, Goes(j, stage),
         job[j].at \notin {"binding", "rebinding"},
         \/ answers' = answers /\ (stage \in Pre => job[j].at \in Pre)
         \/ Answer(j) /\ job[j].at \in Pre /\ stage \notin Pre,
         queue' \in Seq(Lines), shown' \subseteq Lines,
         shut' \in [Sessions -> Nat], run' \in [Sessions -> 0..MaxCommands],
         UNCHANGED <<host, mode, life, started, listeners, hooked, quitVars>>
  PROVE  IInv'
<1>1. TypeOK /\ Unanswered /\ Hooking
  BY DEF IInv
<1>2. /\ job' \in [Jobs -> [kind : Kinds \cup {"none"}, at : Stages,
                            session : Sessions, run : 0..MaxCommands]]
      /\ job'[j].at = stage
      /\ \A i \in Jobs : i # j => job'[i] = job[i]
  BY <1>1, GoesMoves
<1>3. Answer(j) => /\ answers' \in [Jobs -> Nat] /\ answers'[j] = answers[j] + 1
                   /\ \A i \in Jobs : i # j => answers'[i] = answers[i]
  BY <1>1, AnswerCounts
<1>4. answers' \in [Jobs -> Nat]
  BY <1>1, <1>3 DEF TypeOK
<1>5. TypeOK'
  BY <1>1, <1>2, <1>4 DEF TypeOK, quitVars
<1>6. Unanswered'
  BY <1>1, <1>2, <1>3, UnansweredStays
<1>7. Hooking'
  <2>1. UNCHANGED <<host, mode, life, listeners, hooked, quit>>
    BY DEF quitVars
  <2> QED
    BY <1>1, <1>2, <2>1, HookingStays
<1> QED
  BY <1>5, <1>6, <1>7 DEF IInv

(* The same for a step that writes nothing, or only an answer. *)
LEMMA AnswerStep ==
  ASSUME IInv, UNCHANGED patient, NEW j \in Jobs, NEW stage \in Stages, Goes(j, stage),
         job[j].at \notin {"binding", "rebinding"},
         \/ Silent /\ (stage \in Pre => job[j].at \in Pre)
         \/ Answer(j) /\ job[j].at \in Pre /\ stage \notin Pre,
         shut' \in [Sessions -> Nat], run' \in [Sessions -> 0..MaxCommands],
         UNCHANGED <<host, mode, life, started, listeners, hooked, quitVars>>
  PROVE  IInv'
<1>1. TypeOK
  BY DEF IInv
<1>2. queue' \in Seq(Lines) /\ shown' \subseteq Lines
  BY <1>1, AnswerCounts, SilentKeeps
<1>3. Silent => answers' = answers
  BY DEF Silent, outputVars
<1> QED
  BY <1>2, <1>3, CommandStep

LEMMA PromptCheckedKeeps ==
  ASSUME IInv, UNCHANGED patient, NEW j \in Jobs, PromptChecked(j)
  PROVE  IInv'
<1>1. shut' \in [Sessions -> Nat] /\ run' \in [Sessions -> 0..MaxCommands]
  BY DEF PromptChecked, IInv, TypeOK, sessionVars
<1>2. job[j].at = "input" /\ UNCHANGED <<host, mode, life, started, listeners, hooked, quitVars>>
  BY DEF PromptChecked, sessionVars
<1>3. job[j].at \in Pre /\ job[j].at \notin {"binding", "rebinding"}
  BY <1>2 DEF Pre
<1>4. CASE Answer(j) /\ Goes(j, "done")
  BY <1>1, <1>2, <1>3, <1>4, AnswerStep DEF Pre, Stages, ReplaceStages
<1>5. CASE Goes(j, "before") /\ Silent
  BY <1>1, <1>2, <1>3, <1>5, AnswerStep DEF Stages, PromptStages
<1> QED
  BY <1>4, <1>5 DEF PromptChecked

LEMMA AcceptedKeeps ==
  ASSUME IInv, UNCHANGED patient, NEW j \in Jobs, Accepted(j)
  PROVE  IInv'
<1>1. /\ job[j].at = "before" /\ Answer(j)
      /\ UNCHANGED <<host, mode, life, shut, started, listeners, hooked, quitVars>>
  BY DEF Accepted
<1>2. job[j].at \in Pre /\ job[j].at \notin {"binding", "rebinding"}
  BY <1>1 DEF Pre
<1>3. shut' \in [Sessions -> Nat] /\ run \in [Sessions -> 0..MaxCommands]
  BY <1>1 DEF IInv, TypeOK
<1>4. CASE run' = [run EXCEPT ![job[j].session] = j] /\ Goes(j, "running")
  <2>0. j \in 0..MaxCommands
    BY MaxCommandsAssumption DEF Jobs
  <2>1. run' \in [Sessions -> 0..MaxCommands]
    BY <1>3, <1>4, <2>0
  <2> QED
    BY <1>1, <1>2, <1>3, <1>4, <2>1, AnswerStep DEF Pre, ReplaceStages, Stages, PromptStages
<1>5. CASE Goes(j, "dropped") /\ run' = run
  BY <1>1, <1>2, <1>3, <1>5, AnswerStep DEF Pre, ReplaceStages, Stages, PromptStages
<1> QED
  BY <1>4, <1>5 DEF Accepted

LEMMA RunEndsKeeps ==
  ASSUME IInv, UNCHANGED patient, NEW j \in Jobs, RunEnds(j)
  PROVE  IInv'
<1>1. /\ job[j].at = "running" /\ Goes(j, "ending")
      /\ UNCHANGED <<host, mode, life, shut, started, listeners, hooked, run, shown, answers, quitVars>>
      /\ queue' = Append(queue, AgentEnd(j)) \/ queue' = queue
  BY DEF RunEnds, sessionVars, Output
<1>2. TypeOK
  BY DEF IInv
<1>3. AgentEnd(j) \in Lines
  BY DEF AgentEnd, Lines
<1>4. queue' \in Seq(Lines)
  <2>1. queue \in Seq(Lines)
    BY <1>2 DEF TypeOK
  <2> QED
    BY <1>1, <1>3, <2>1
<1>5. shown' \subseteq Lines /\ shut' \in [Sessions -> Nat] /\ run' \in [Sessions -> 0..MaxCommands]
  BY <1>1, <1>2 DEF TypeOK
<1> QED
  BY <1>1, <1>4, <1>5, CommandStep DEF Pre, ReplaceStages, Stages, PromptStages

LEMMA RunOverKeeps ==
  ASSUME IInv, UNCHANGED patient, NEW j \in Jobs, RunOver(j)
  PROVE  IInv'
<1>1. /\ job[j].at = "ending" /\ Goes(j, "done")
      /\ run' = [run EXCEPT ![job[j].session] = 0]
      /\ Silent
      /\ UNCHANGED <<host, mode, life, shut, started, listeners, hooked, quitVars>>
  BY DEF RunOver, Silent
<1>2. run' \in [Sessions -> 0..MaxCommands] /\ shut' \in [Sessions -> Nat]
  <2>1. run \in [Sessions -> 0..MaxCommands] /\ shut' \in [Sessions -> Nat]
    BY <1>1 DEF IInv, TypeOK
  <2>2. 0 \in 0..MaxCommands
    BY MaxCommandsAssumption
  <2> QED
    BY <1>1, <2>1, <2>2
<1> QED
  BY <1>1, <1>2, AnswerStep DEF Pre, ReplaceStages, Stages

LEMMA DialogSettledKeeps ==
  ASSUME IInv, UNCHANGED patient, NEW j \in Jobs, DialogSettled(j)
  PROVE  IInv'
<1>1. /\ job[j].at = "dialog" /\ Answer(j) /\ Goes(j, "done")
      /\ UNCHANGED <<host, mode, life, shut, started, listeners, hooked, run, quitVars>>
  BY DEF DialogSettled, sessionVars
<1>2. run' \in [Sessions -> 0..MaxCommands] /\ shut' \in [Sessions -> Nat]
  BY <1>1 DEF IInv, TypeOK
<1> QED
  BY <1>1, <1>2, AnswerStep DEF Pre, ReplaceStages, Stages

LEMMA AbortedKeeps ==
  ASSUME IInv, UNCHANGED patient, NEW j \in Jobs, Aborted(j)
  PROVE  IInv'
<1>1. /\ job[j].at = "waiting" /\ Answer(j) /\ Goes(j, "checking")
      /\ UNCHANGED <<host, mode, life, shut, started, listeners, hooked, run, quitVars>>
  BY DEF Aborted, Replies, sessionVars
<1>2. run' \in [Sessions -> 0..MaxCommands] /\ shut' \in [Sessions -> Nat]
  BY <1>1 DEF IInv, TypeOK
<1> QED
  BY <1>1, <1>2, AnswerStep DEF Pre, ReplaceStages, Stages

LEMMA CalledKeeps ==
  ASSUME IInv, UNCHANGED patient, NEW j \in Jobs, Called(j)
  PROVE  IInv'
<1>1. /\ job[j].at = "calling" /\ Answer(j)
      /\ Goes(j, "checking") \/ Goes(j, "done")
      /\ UNCHANGED <<host, mode, life, shut, started, listeners, hooked, run, quitVars>>
  BY DEF Called, Replies, Fails, sessionVars
<1>2. run' \in [Sessions -> 0..MaxCommands] /\ shut' \in [Sessions -> Nat]
  BY <1>1 DEF IInv, TypeOK
<1> QED
  BY <1>1, <1>2, AnswerStep DEF Pre, ReplaceStages, Stages

LEMMA AskedKeeps ==
  ASSUME IInv, UNCHANGED patient, NEW j \in Jobs, Asked(j)
  PROVE  IInv'
<1>1. /\ job[j].at = "asking"
      /\ UNCHANGED <<host, mode, life, started, listeners, hooked, run, quitVars>>
  BY DEF Asked
<1>2. run' \in [Sessions -> 0..MaxCommands] /\ shut \in [Sessions -> Nat]
  BY <1>1 DEF IInv, TypeOK
<1>3. job[j].at \in Pre /\ job[j].at \notin {"binding", "rebinding"}
  BY <1>1 DEF Pre, ReplaceStages
<1>4. CASE Answer(j) /\ (Goes(j, "checking") \/ Goes(j, "done")) /\ shut' = shut
  BY <1>1, <1>2, <1>3, <1>4, AnswerStep DEF Pre, ReplaceStages, Stages
<1>5. CASE Goes(j, "stopping") /\ Silent /\ shut' = [shut EXCEPT ![host] = @ + 1]
  <2>1. host \in Sessions /\ shut' = [shut EXCEPT ![host] = shut[host] + 1]
    BY <1>5 DEF IInv, TypeOK
  <2>2. shut[host] + 1 \in Nat
    BY <1>2, <2>1
  <2>3. shut' \in [Sessions -> Nat]
    BY <1>2, <2>1, <2>2
  <2> QED
    BY <1>1, <1>2, <1>3, <1>5, <2>3, AnswerStep DEF Stages, ReplaceStages
<1> QED
  BY <1>4, <1>5 DEF Asked, Replies, Fails

-----------------------------------------------------------------------------
(* The steps that may start a shutdown.                                    *)

(* Whatever a shutdown does to the listeners keeps Hooking. *)
LEMMA HookingChecked ==
  ASSUME TypeOK, Hooking, UNCHANGED <<host, mode, life>>,
         hooked' # 0 => life[hooked'] # "unborn",
         \A s \in Sessions : s # hooked' => listeners'[s] = 0,
         \A s \in Sessions : listeners'[s] <= 1,
         quit' = "no" => UNCHANGED <<quit, listeners, hooked>> /\ (Binding => Binding')
  PROVE  Hooking'
BY DEF Hooking

LEMMA ReceiveKeeps ==
  ASSUME IInv, UNCHANGED patient, NEW j \in Jobs, NEW k \in Kinds, Receive(j, k)
  PROVE  IInv'
<1> DEFINE new == [kind |-> k, at |-> StageOf(k), session |-> mode,
                   run |-> IF k = "abort" THEN run[mode] ELSE 0]
<1>1. TypeOK /\ Unanswered /\ Hooking
  BY DEF IInv
<1>2. /\ job[j].at = "unsent" /\ job' = [job EXCEPT ![j] = new]
      /\ queue' = Append(queue, Dialog(j)) \/ queue' = queue
      /\ CheckShutdownRequested \/ NoShutdown
      /\ UNCHANGED <<host, mode, life, started, run, shown, answers, wanted, stdin>>
  BY DEF Receive, Output
<1>3. StageOf(k) \in Pre /\ StageOf(k) \in Stages /\ StageOf(k) \notin {"binding", "rebinding"}
  BY KindsAssumption DEF StageOf, Pre, Stages, PromptStages, ReplaceStages
<1>4. new \in [kind : Kinds \cup {"none"}, at : Stages, session : Sessions, run : 0..MaxCommands]
  <2>1. 0 \in 0..MaxCommands
    BY MaxCommandsAssumption
  <2>2. mode \in Sessions /\ run[mode] \in 0..MaxCommands
    BY <1>1 DEF TypeOK
  <2> QED
    BY <1>3, <2>1, <2>2
<1>5. /\ job' \in [Jobs -> [kind : Kinds \cup {"none"}, at : Stages,
                            session : Sessions, run : 0..MaxCommands]]
      /\ job'[j].at = StageOf(k)
      /\ \A i \in Jobs : i # j => job'[i] = job[i]
  BY <1>1, <1>2, <1>4 DEF TypeOK
<1>6. queue' \in Seq(Lines)
  <2>1. queue \in Seq(Lines) /\ Dialog(j) \in Lines
    BY <1>1 DEF TypeOK, Dialog, Lines
  <2> QED
    BY <1>2, <2>1
<1>7. /\ quit' \in {"no", "disposing", "terminating", "flushing", "exited", "killed"}
      /\ quit' = "no" => UNCHANGED <<quit, listeners, hooked>>
      /\ owed' \subseteq Jobs
      /\ shut' \in [Sessions -> Nat] /\ listeners' \in [Sessions -> Nat]
      /\ hooked' \in Sessions \cup {0}
      /\ hooked' # 0 => life[hooked'] # "unborn"
      /\ \A s \in Sessions : s # hooked' => listeners'[s] = 0
      /\ \A s \in Sessions : listeners'[s] <= 1
  BY <1>1, <1>2, CheckHooks
<1>8. TypeOK'
  BY <1>1, <1>2, <1>5, <1>6, <1>7 DEF TypeOK
<1>9. Unanswered'
  <2>1. job[j].at \in Pre /\ job'[j].at \in Pre
    BY <1>2, <1>3, <1>5 DEF Pre
  <2> QED
    BY <1>1, <1>2, <1>5, <2>1, UnansweredStays
<1>10. Hooking'
  <2>1. Binding => Binding'
    BY <1>1, <1>2, <1>5, BindingStays
  <2> QED
    BY <1>1, <1>2, <1>7, <2>1, HookingChecked
<1> QED
  BY <1>8, <1>9, <1>10 DEF IInv

LEMMA DrainedKeeps ==
  ASSUME IInv, UNCHANGED patient, NEW j \in Jobs, Drained(j)
  PROVE  IInv'
<1>1. TypeOK /\ Unanswered /\ Hooking
  BY DEF IInv
<1>2. /\ job[j].at = "checking" /\ Goes(j, "done") /\ Silent /\ CheckShutdownRequested
      /\ UNCHANGED <<host, mode, life, started, run, wanted, stdin>>
  BY DEF Drained
<1>3. /\ job' \in [Jobs -> [kind : Kinds \cup {"none"}, at : Stages,
                            session : Sessions, run : 0..MaxCommands]]
      /\ job'[j].at = "done"
      /\ \A i \in Jobs : i # j => job'[i] = job[i]
  BY <1>1, <1>2, GoesMoves DEF Stages
<1>4. queue' \in Seq(Lines) /\ shown' \subseteq Lines /\ answers' \in [Jobs -> Nat] /\ answers' = answers
  BY <1>1, <1>2, SilentKeeps
<1>5. /\ quit' \in {"no", "disposing", "terminating", "flushing", "exited", "killed"}
      /\ quit' = "no" => UNCHANGED <<quit, listeners, hooked>>
      /\ owed' \subseteq Jobs
      /\ shut' \in [Sessions -> Nat] /\ listeners' \in [Sessions -> Nat]
      /\ hooked' \in Sessions \cup {0}
      /\ hooked' # 0 => life[hooked'] # "unborn"
      /\ \A s \in Sessions : s # hooked' => listeners'[s] = 0
      /\ \A s \in Sessions : listeners'[s] <= 1
  BY <1>1, <1>2, CheckHooks
<1>6. TypeOK'
  BY <1>1, <1>2, <1>3, <1>4, <1>5 DEF TypeOK
<1>7. Unanswered'
  BY <1>1, <1>3, <1>4, UnansweredStays DEF Pre, ReplaceStages
<1>8. Hooking'
  <2>1. Binding => Binding'
    BY <1>1, <1>2, <1>3, BindingStays
  <2> QED
    BY <1>1, <1>2, <1>5, <2>1, HookingChecked
<1> QED
  BY <1>6, <1>7, <1>8 DEF IInv

(* The end of standard input, or a signal. *)
LEMMA StopKeeps ==
  ASSUME IInv, UNCHANGED patient, NEW stage \in {"disposing", "terminating"}, Shutdown(stage), Silent,
         UNCHANGED <<job, host, mode, life, started, run, wanted>>,
         stdin' \in {"open", "ended"}
  PROVE  IInv'
<1>1. TypeOK /\ Unanswered /\ Hooking
  BY DEF IInv
<1>2. queue' \in Seq(Lines) /\ shown' \subseteq Lines /\ answers' \in [Jobs -> Nat] /\ answers' = answers
  BY <1>1, SilentKeeps
<1>3. /\ quit' \in {"disposing", "terminating", "killed"}
      /\ owed' \subseteq Jobs
      /\ shut' \in [Sessions -> Nat] /\ listeners' \in [Sessions -> Nat]
      /\ hooked' \in Sessions \cup {0}
      /\ hooked' # 0 => life[hooked'] # "unborn"
      /\ \A s \in Sessions : s # hooked' => listeners'[s] = 0
      /\ \A s \in Sessions : listeners'[s] <= 1
  BY <1>1, ShutdownHooks
<1>4. TypeOK'
  BY <1>1, <1>2, <1>3 DEF TypeOK
<1>5. Unanswered'
  BY <1>1, <1>2 DEF Unanswered
<1>6. Hooking'
  BY <1>1, <1>3, HookingChecked
<1> QED
  BY <1>4, <1>5, <1>6 DEF IInv

-----------------------------------------------------------------------------
(* The steps of a replacement.                                             *)

LEMMA TornDownKeeps ==
  ASSUME IInv, UNCHANGED patient, NEW j \in Jobs, TornDown(j)
  PROVE  IInv'
<1>1. TypeOK /\ Unanswered /\ Hooking
  BY DEF IInv
<1>2. /\ job[j].at = "stopping" /\ Goes(j, "creating") /\ Silent
      /\ life' = [life EXCEPT ![host] = "disposed"]
      /\ listeners' = [listeners EXCEPT ![host] = 0]
      /\ UNCHANGED <<host, mode, shut, started, hooked, run, quitVars>>
  BY DEF TornDown
<1>3. /\ job' \in [Jobs -> [kind : Kinds \cup {"none"}, at : Stages,
                            session : Sessions, run : 0..MaxCommands]]
      /\ job'[j].at = "creating"
      /\ \A i \in Jobs : i # j => job'[i] = job[i]
  BY <1>1, <1>2, GoesMoves DEF Stages, ReplaceStages
<1>4. queue' \in Seq(Lines) /\ shown' \subseteq Lines /\ answers' \in [Jobs -> Nat] /\ answers' = answers
  BY <1>1, <1>2, SilentKeeps
<1>5. TypeOK'
  <2>1. life' \in [Sessions -> {"unborn", "open", "disposed"}] /\ listeners' \in [Sessions -> Nat]
    BY <1>1, <1>2 DEF TypeOK
  <2> QED
    BY <1>1, <1>2, <1>3, <1>4, <2>1 DEF TypeOK, quitVars
<1>6. Unanswered'
  BY <1>1, <1>2, <1>3, <1>4, UnansweredStays DEF Pre, ReplaceStages
<1>7. Hooking'
  <2>1. Binding => Binding'
    BY <1>1, <1>2, <1>3, BindingStays
  <2>2. host \in Sessions /\ life'[host] = "disposed"
    BY <1>1, <1>2 DEF TypeOK
  <2>3. \A s \in Sessions : life'[s] = life[s] \/ life'[s] = "disposed"
    BY <1>1, <1>2 DEF TypeOK
  <2>4. \A s \in Sessions : listeners'[s] = listeners[s] \/ listeners'[s] = 0
    BY <1>1, <1>2 DEF TypeOK
  <2>5. hooked # 0 => hooked \in Sessions
    BY <1>1 DEF TypeOK
  <2>6. UNCHANGED <<host, mode, hooked, quit>>
    BY <1>2 DEF quitVars
  <2> QED
    BY <1>1, <2>1, <2>2, <2>3, <2>4, <2>5, <2>6 DEF Hooking
<1> QED
  BY <1>5, <1>6, <1>7 DEF IInv

LEMMA CreatedKeeps ==
  ASSUME IInv, UNCHANGED patient, NEW j \in Jobs, Created(j)
  PROVE  IInv'
<1>1. TypeOK /\ Unanswered /\ Hooking
  BY DEF IInv
<1>2. job[j].at = "creating" /\ UNCHANGED <<shut, listeners, hooked, run, quitVars>>
  BY DEF Created
<1>3. CASE Answer(j) /\ Goes(j, "done") /\ UNCHANGED <<host, mode, life, started>>
  <2>1. shut' \in [Sessions -> Nat] /\ run' \in [Sessions -> 0..MaxCommands]
    BY <1>1, <1>2 DEF TypeOK
  <2> QED
    BY <1>2, <1>3, <2>1, AnswerStep DEF Pre, ReplaceStages, Stages
<1>4. CASE \E s \in Sessions :
             /\ life[s] = "unborn" /\ \A t \in 1..(s - 1) : life[t] # "unborn"
             /\ life' = [life EXCEPT ![s] = "open"]
             /\ host' = s
             /\ Rebind(s)
             /\ Goes(j, "binding") /\ Silent
  <2>1. PICK s \in Sessions :
             /\ life[s] = "unborn"
             /\ life' = [life EXCEPT ![s] = "open"]
             /\ host' = s
             /\ Rebind(s)
             /\ Goes(j, "binding") /\ Silent
    BY <1>4
  <2>2. /\ job' \in [Jobs -> [kind : Kinds \cup {"none"}, at : Stages,
                              session : Sessions, run : 0..MaxCommands]]
        /\ job'[j].at = "binding"
        /\ \A i \in Jobs : i # j => job'[i] = job[i]
    BY <1>1, <2>1, GoesMoves DEF Stages, ReplaceStages
  <2>3. queue' \in Seq(Lines) /\ shown' \subseteq Lines /\ answers' \in [Jobs -> Nat] /\ answers' = answers
    BY <1>1, <2>1, SilentKeeps
  <2>4. /\ mode' = s /\ started' = [started EXCEPT ![s] = started[s] + 1]
    BY <2>1 DEF Rebind
  <2>5. TypeOK'
    <3>1. life' \in [Sessions -> {"unborn", "open", "disposed"}]
      BY <1>1, <2>1 DEF TypeOK
    <3>0. started \in [Sessions -> Nat]
      BY <1>1 DEF TypeOK
    <3>2. started \in [Sessions -> Nat] /\ started[s] + 1 \in Nat
      BY <3>0
    <3>3. started' \in [Sessions -> Nat]
      BY <2>4, <3>2
    <3> QED
      BY <1>1, <1>2, <2>1, <2>2, <2>3, <2>4, <3>1, <3>3 DEF TypeOK, quitVars
  <2>6. Unanswered'
    BY <1>1, <1>2, <2>2, <2>3, UnansweredStays DEF Pre, ReplaceStages
  <2>7. Hooking'
    <3>1. Binding'
      BY <2>2 DEF Binding
    <3>2. \A t \in Sessions : life'[t] = life[t] \/ life'[t] = "open"
      BY <1>1, <2>1 DEF TypeOK
    <3>3. life'[s] = "open" /\ (hooked # 0 => hooked \in Sessions)
      BY <1>1, <2>1 DEF TypeOK
    <3> QED
      BY <1>1, <1>2, <2>1, <2>4, <3>1, <3>2, <3>3 DEF Hooking
  <2> QED
    BY <2>5, <2>6, <2>7 DEF IInv
<1> QED
  BY <1>3, <1>4 DEF Created, Fails

LEMMA BoundKeeps ==
  ASSUME IInv, UNCHANGED patient, NEW j \in Jobs, Bound(j)
  PROVE  IInv'
<1>1. TypeOK /\ Unanswered /\ Hooking
  BY DEF IInv
<1>2. /\ job[j].at = "binding" /\ Goes(j, "rebinding") /\ Silent
      /\ Resubscribe /\ Rebind(host)
      /\ UNCHANGED <<host, life, shut, run, quitVars>>
  BY DEF Bound
<1>3. /\ job' \in [Jobs -> [kind : Kinds \cup {"none"}, at : Stages,
                            session : Sessions, run : 0..MaxCommands]]
      /\ job'[j].at = "rebinding"
      /\ \A i \in Jobs : i # j => job'[i] = job[i]
  BY <1>1, <1>2, GoesMoves DEF Stages, ReplaceStages
<1>4. queue' \in Seq(Lines) /\ shown' \subseteq Lines /\ answers' \in [Jobs -> Nat] /\ answers' = answers
  BY <1>1, <1>2, SilentKeeps
<1>5. /\ listeners' \in [Sessions -> Nat] /\ hooked' = host
      /\ listeners'[host] = 1
      /\ \A s \in Sessions : s # host => listeners'[s] = 0
  BY <1>1, <1>2, ResubscribeHooks
<1>6. mode' = host /\ started' \in [Sessions -> Nat] /\ host \in Sessions
  <2>1. started \in [Sessions -> Nat] /\ host \in Sessions
    BY <1>1 DEF TypeOK
  <2>2. mode' = host /\ started' = [started EXCEPT ![host] = @ + 1]
    BY <1>2 DEF Rebind
  <2>3. QED
    BY <2>1, <2>2
<1>7. TypeOK'
  BY <1>1, <1>2, <1>3, <1>4, <1>5, <1>6 DEF TypeOK, quitVars
<1>8. Unanswered'
  BY <1>1, <1>2, <1>3, <1>4, UnansweredStays DEF Pre, ReplaceStages
<1>9. Hooking'
  BY <1>1, <1>2, <1>5, <1>6 DEF Hooking
<1> QED
  BY <1>7, <1>8, <1>9 DEF IInv

LEMMA ReboundKeeps ==
  ASSUME IInv, UNCHANGED patient, NEW j \in Jobs, Rebound(j)
  PROVE  IInv'
<1>1. TypeOK /\ Unanswered /\ Hooking
  BY DEF IInv
<1>2. /\ job[j].at = "rebinding" /\ Goes(j, "checking") /\ Answer(j)
      /\ Resubscribe
      /\ UNCHANGED <<host, mode, life, shut, started, run, quitVars>>
  BY DEF Rebound, Replies
<1>3. /\ job' \in [Jobs -> [kind : Kinds \cup {"none"}, at : Stages,
                            session : Sessions, run : 0..MaxCommands]]
      /\ job'[j].at = "checking"
      /\ \A i \in Jobs : i # j => job'[i] = job[i]
  BY <1>1, <1>2, GoesMoves DEF Stages
<1>4. /\ queue' \in Seq(Lines) /\ shown' \subseteq Lines
      /\ answers' \in [Jobs -> Nat]
      /\ answers'[j] = answers[j] + 1
      /\ \A i \in Jobs : i # j => answers'[i] = answers[i]
  BY <1>1, <1>2, AnswerCounts
<1>5. /\ listeners' \in [Sessions -> Nat] /\ hooked' = host
      /\ listeners'[host] = 1
      /\ \A s \in Sessions : s # host => listeners'[s] = 0
  BY <1>1, <1>2, ResubscribeHooks
<1>6. TypeOK'
  BY <1>1, <1>2, <1>3, <1>4, <1>5 DEF TypeOK, quitVars
<1>7. Unanswered'
  BY <1>1, <1>2, <1>3, <1>4, UnansweredStays DEF Pre, ReplaceStages
<1>8. Hooking'
  BY <1>1, <1>2, <1>5 DEF Hooking
<1> QED
  BY <1>6, <1>7, <1>8 DEF IInv

-----------------------------------------------------------------------------
(* The remaining steps.                                                    *)

LEMMA WriteKeeps == ASSUME IInv, UNCHANGED patient, Write PROVE IInv'
<1>1. TypeOK /\ Unanswered /\ Hooking
  BY DEF IInv
<1>2. /\ queue # <<>> /\ shown' = shown \cup {Head(queue)} /\ queue' = Tail(queue)
      /\ UNCHANGED <<job, host, mode, life, shut, started, listeners, hooked, run, answers,
                     quit, wanted, stdin, owed>>
  BY DEF Write, sessionVars, quitVars
<1>3. Head(queue) \in Lines /\ Tail(queue) \in Seq(Lines)
  <2>1. queue \in Seq(Lines)
    BY <1>1 DEF TypeOK
  <2> QED
    BY <1>2, <2>1
<1>4. TypeOK'
  BY <1>1, <1>2, <1>3 DEF TypeOK
<1> QED
  BY <1>1, <1>2, <1>4 DEF IInv, Unanswered, Hooking, Binding

LEMMA DisposedKeeps == ASSUME IInv, UNCHANGED patient, Disposed PROVE IInv'
<1>1. TypeOK /\ Unanswered /\ Hooking
  BY DEF IInv
<1>2. /\ life' = [life EXCEPT ![host] = "disposed"]
      /\ listeners' = [listeners EXCEPT ![host] = 0]
      /\ quit' \in {"killed", "flushing"} /\ Silent
      /\ UNCHANGED <<job, host, mode, shut, started, hooked, run, wanted, stdin, owed>>
  BY DEF Disposed
<1>3. queue' \in Seq(Lines) /\ shown' \subseteq Lines /\ answers' \in [Jobs -> Nat] /\ answers' = answers
  BY <1>1, <1>2, SilentKeeps
<1>4. TypeOK'
  <2>1. life' \in [Sessions -> {"unborn", "open", "disposed"}] /\ listeners' \in [Sessions -> Nat]
    BY <1>1, <1>2 DEF TypeOK
  <2> QED
    BY <1>1, <1>2, <1>3, <2>1 DEF TypeOK
<1>5. Unanswered'
  BY <1>1, <1>2, <1>3 DEF Unanswered
<1>6. Hooking'
  <2>1. host \in Sessions /\ life'[host] = "disposed"
    BY <1>1, <1>2 DEF TypeOK
  <2>2. \A s \in Sessions : life'[s] = life[s] \/ life'[s] = "disposed"
    BY <1>1, <1>2 DEF TypeOK
  <2>3. \A s \in Sessions : listeners'[s] = listeners[s] \/ listeners'[s] = 0
    BY <1>1, <1>2 DEF TypeOK
  <2>4. hooked # 0 => hooked \in Sessions
    BY <1>1 DEF TypeOK
  <2> QED
    BY <1>1, <1>2, <2>1, <2>2, <2>3, <2>4 DEF Hooking
<1> QED
  BY <1>4, <1>5, <1>6 DEF IInv

LEMMA RequestKeeps ==
  ASSUME IInv, UNCHANGED patient, RequestShutdown
  PROVE  IInv'
<1>1. TypeOK /\ Unanswered /\ Hooking
  BY DEF IInv
<1>2. /\ wanted' = TRUE
      /\ UNCHANGED <<job, host, mode, life, shut, started, listeners, hooked, run,
                     queue, shown, answers, quit, stdin, owed>>
  BY DEF RequestShutdown, sessionVars, outputVars
<1>3. TypeOK'
  BY <1>1, <1>2 DEF TypeOK
<1> QED
  BY <1>1, <1>2, <1>3 DEF IInv, Unanswered, Hooking, Binding

LEMMA FlushedKeeps == ASSUME IInv, UNCHANGED patient, Flushed PROVE IInv'
<1>1. TypeOK /\ Unanswered /\ Hooking
  BY DEF IInv
<1>2. /\ quit' = "exited"
      /\ UNCHANGED <<job, host, mode, life, shut, started, listeners, hooked, run,
                     queue, shown, answers, wanted, stdin, owed>>
  BY DEF Flushed, sessionVars, outputVars
<1>3. TypeOK'
  BY <1>1, <1>2 DEF TypeOK
<1> QED
  BY <1>1, <1>2, <1>3 DEF IInv, Unanswered, Hooking

-----------------------------------------------------------------------------
LEMMA InitHolds == Init => IInv
<1> SUFFICES ASSUME Init PROVE IInv
  OBVIOUS
<1>1. 1 \in Sessions /\ 0 \in 0..MaxCommands
  BY MaxCommandsAssumption DEF Sessions
<1>2. NoJob \in [kind : Kinds \cup {"none"}, at : Stages, session : Sessions, run : 0..MaxCommands]
  BY <1>1 DEF NoJob, Stages
<1>3. TypeOK
  <2>1. job \in [Jobs -> [kind : Kinds \cup {"none"}, at : Stages,
                         session : Sessions, run : 0..MaxCommands]]
    BY <1>2 DEF Init
  <2>2. /\ life \in [Sessions -> {"unborn", "open", "disposed"}]
        /\ shut \in [Sessions -> Nat] /\ started \in [Sessions -> Nat]
        /\ listeners \in [Sessions -> Nat] /\ run \in [Sessions -> 0..MaxCommands]
    BY <1>1 DEF Init
  <2>3. queue \in Seq(Lines) /\ shown \subseteq Lines /\ answers \in [Jobs -> Nat]
    BY DEF Init
  <2> QED
    BY <1>1, <2>1, <2>2, <2>3 DEF Init, TypeOK
<1>4. Unanswered
  BY DEF Init, Unanswered
<1>5. Hooking
  BY <1>1 DEF Init, Hooking
<1> QED
  BY <1>3, <1>4, <1>5 DEF IInv

LEMMA NextHolds == IInv /\ [Next]_vars => IInv'
<1> SUFFICES ASSUME IInv, [Next]_vars PROVE IInv'
  OBVIOUS
<1> UNCHANGED patient
  BY DEF Next, vars
<1>1. CASE UNCHANGED vars
  BY <1>1 DEF vars, sessionVars, outputVars, quitVars, IInv, TypeOK, Unanswered, Hooking, Binding
<1>2. CASE \E j \in Jobs, k \in Kinds : Receive(j, k)
  BY <1>2, ReceiveKeeps
<1>3. CASE \E j \in Jobs : Handle(j)
  BY <1>3, DrainedKeeps, PromptCheckedKeeps, AcceptedKeeps, RunEndsKeeps, RunOverKeeps,
     DialogSettledKeeps, AbortedKeeps, CalledKeeps, AskedKeeps, TornDownKeeps, CreatedKeeps,
     BoundKeeps, ReboundKeeps DEF Handle
<1>4. CASE Write
  BY <1>4, WriteKeeps
<1>5. CASE RequestShutdown
  BY <1>5, RequestKeeps
<1>6. CASE StdinEnds
  BY <1>6, StopKeeps DEF StdinEnds
<1>7. CASE Terminated
  <2>1. stdin' \in {"open", "ended"}
    BY <1>7 DEF Terminated, IInv, TypeOK
  <2> QED
    BY <1>7, <2>1, StopKeeps DEF Terminated
<1>8. CASE Disposed
  BY <1>8, DisposedKeeps
<1>9. CASE Flushed
  BY <1>9, FlushedKeeps
<1> QED
  BY <1>1, <1>2, <1>3, <1>4, <1>5, <1>6, <1>7, <1>8, <1>9 DEF Next

LEMMA Invariance == Spec => []IInv
BY InitHolds, NextHolds, PTL DEF Spec

(* The state of the server is well formed: above all, a session a command  *)
(* was sent to, or that is heard, exists.                                  *)
THEOREM TypesHold == Spec => []TypeOK
<1>1. IInv => TypeOK
  BY DEF IInv
<1> QED
  BY Invariance, <1>1, PTL

(* No command is given two responses, however its handler, its run and a   *)
(* shutdown interleave.                                                    *)
THEOREM CommandsAnsweredOnce == Spec => []AnsweredOnce
<1>1. IInv => AnsweredOnce
  BY DEF IInv, Unanswered, AnsweredOnce
<1> QED
  BY Invariance, <1>1, PTL

(* Overlapping replacements leave commands and events at the session the   *)
(* runtime holds, heard once.                                              *)
THEOREM HostFollowed == Spec => []FollowsHost
<1>1. IInv => FollowsHost
  BY DEF IInv, Hooking, FollowsHost, Replacing, Binding
<1> QED
  BY Invariance, <1>1, PTL
-----------------------------------------------------------------------------
(* What a step does to the output, to the commands, to the runs and to the *)
(* sessions, whichever step it is.                                         *)

Written(line) == line \in shown \/ \E p \in DOMAIN queue : queue[p] = line

LEMMA OutputSteps ==
  ASSUME [Next]_vars
  PROVE  \/ \E j \in Jobs : Answer(j)
         \/ Silent
         \/ \E j \in Jobs : \E line \in {AgentEnd(j), Dialog(j)} :
              queue' = Append(queue, line) /\ UNCHANGED <<shown, answers>>
         \/ /\ queue # <<>> /\ shown' = shown \cup {Head(queue)} /\ queue' = Tail(queue)
            /\ UNCHANGED answers
<1>1. CASE UNCHANGED vars
  BY <1>1 DEF vars, Silent
<1>2. ASSUME NEW j \in Jobs, NEW k \in Kinds, Receive(j, k)
      PROVE  \/ Silent
             \/ queue' = Append(queue, Dialog(j)) /\ UNCHANGED <<shown, answers>>
  BY <1>2 DEF Receive, Output, Silent, outputVars
<1>3. ASSUME NEW j \in Jobs, Handle(j)
      PROVE  \/ Answer(j) \/ Silent
             \/ queue' = Append(queue, AgentEnd(j)) /\ UNCHANGED <<shown, answers>>
  <2>1. CASE RunEnds(j)
    BY <2>1 DEF RunEnds, Output, Silent, outputVars
  <2>2. CASE RunOver(j)
    BY <2>2 DEF RunOver, Silent
  <2> QED
    BY <1>3, <2>1, <2>2 DEF Handle, Drained, PromptChecked, Accepted, DialogSettled, Aborted,
       Called, Asked, TornDown, Created, Bound, Rebound, Replies, Fails
<1>4. CASE Write
  BY <1>4 DEF Write
<1>5. CASE RequestShutdown \/ StdinEnds \/ Terminated \/ Disposed \/ Flushed
  BY <1>5 DEF RequestShutdown, StdinEnds, Terminated, Disposed, Flushed, Silent, outputVars
<1> QED
  BY <1>1, <1>2, <1>3, <1>4, <1>5 DEF Next

(* A line that is written, or is about to be, stays so. *)
LEMMA WrittenStays ==
  ASSUME TypeOK, [Next]_vars, NEW line, Written(line)
  PROVE  Written(line)'
<1>1. queue \in Seq(Lines)
  BY DEF TypeOK
<1>2. ASSUME NEW new, queue' = Append(queue, new), shown' = shown
      PROVE  Written(line)'
  BY <1>1, <1>2 DEF Written
<1>3. CASE queue # <<>> /\ shown' = shown \cup {Head(queue)} /\ queue' = Tail(queue)
  <2>1. CASE line \in shown
    BY <1>3, <2>1 DEF Written
  <2>2. ASSUME NEW p \in DOMAIN queue, queue[p] = line
        PROVE  Written(line)'
    <3>1. CASE p = 1
      BY <1>1, <1>3, <2>2, <3>1 DEF Written
    <3>2. CASE p # 1
      <4>1. p - 1 \in DOMAIN queue' /\ queue'[p - 1] = line
        BY <1>1, <1>3, <2>2, <3>2
      <4> QED
        BY <4>1 DEF Written
    <3> QED
      BY <3>1, <3>2
  <2> QED
    BY <2>1, <2>2 DEF Written
<1>4. CASE Silent
  BY <1>4 DEF Silent, outputVars, Written
<1> QED
  BY <1>2, <1>3, <1>4, OutputSteps DEF Answer, Output

(* A response appears only when it is given. *)
LEMMA ResponseAppears ==
  ASSUME TypeOK, [Next]_vars, NEW j \in Jobs, Written(Response(j))'
  PROVE  Written(Response(j)) \/ Answer(j)
<1>1. queue \in Seq(Lines)
  BY DEF TypeOK
<1>2. ASSUME NEW new, queue' = Append(queue, new), shown' = shown
      PROVE  Written(Response(j)) \/ new = Response(j)
  BY <1>1, <1>2 DEF Written
<1>3. CASE queue # <<>> /\ shown' = shown \cup {Head(queue)} /\ queue' = Tail(queue)
  BY <1>1, <1>3 DEF Written
<1>4. CASE Silent
  BY <1>4 DEF Silent, outputVars, Written
<1>5. ASSUME NEW i \in Jobs, Answer(i)
      PROVE  Written(Response(j)) \/ Answer(j)
  BY <1>2, <1>5 DEF Answer, Output, Response
<1>6. ASSUME NEW i \in Jobs, NEW line \in {AgentEnd(i), Dialog(i)},
             queue' = Append(queue, line), UNCHANGED <<shown, answers>>
      PROVE  Written(Response(j))
  BY <1>2, <1>6 DEF Response, AgentEnd, Dialog
<1> QED
  BY <1>3, <1>4, <1>5, <1>6, OutputSteps

(* The commands whose answers a shutdown owes are fixed when it begins, and *)
(* the process exits by itself only when its output is written.             *)
LEMMA OwedSteps ==
  ASSUME [Next]_vars
  PROVE  /\ owed' = owed \/ owed' = {j \in Jobs : answers[j] > 0}
         /\ quit' = "exited" =>
              UNCHANGED <<owed, shown, queue>> /\ (quit = "exited" \/ queue = <<>>)
         /\ quit' = "no" => quit = "no"
<1>1. CASE UNCHANGED vars
  BY <1>1 DEF vars, outputVars, quitVars
<1>2. ASSUME CheckShutdownRequested \/ NoShutdown \/ Shutdown("disposing") \/ Shutdown("terminating")
      PROVE  /\ owed' = owed \/ owed' = {j \in Jobs : answers[j] > 0}
             /\ quit' = "exited" => quit = "exited"
             /\ quit' = "no" => quit = "no"
  BY <1>2 DEF CheckShutdownRequested, NoShutdown, Shutdown
<1>3. ASSUME NEW j \in Jobs, NEW k \in Kinds, Receive(j, k)
      PROVE  (CheckShutdownRequested \/ NoShutdown) /\ quit # "exited"
  BY <1>3 DEF Receive, Up
<1>4. ASSUME NEW j \in Jobs, Drained(j)
      PROVE  CheckShutdownRequested /\ quit # "exited"
  BY <1>4 DEF Drained, Up
<1>5. ASSUME NEW j \in Jobs, Handle(j), ~Drained(j)
      PROVE  UNCHANGED <<quit, owed>> /\ quit # "exited"
  BY <1>5 DEF Handle, PromptChecked, Accepted, RunEnds, RunOver, DialogSettled, Aborted,
     Called, Asked, TornDown, Created, Bound, Rebound, quitVars, Up
<1>6. CASE Write \/ RequestShutdown
  BY <1>6 DEF Write, RequestShutdown, quitVars, Up
<1>7. CASE StdinEnds \/ Terminated
  <2>1. quit # "exited" /\ (Shutdown("disposing") \/ Shutdown("terminating"))
    BY <1>7 DEF StdinEnds, Terminated, Up
  <2> QED
    BY <1>2, <2>1
<1>8. CASE Disposed \/ Flushed
  BY <1>8 DEF Disposed, Flushed, outputVars
<1> QED
  BY <1>1, <1>2, <1>3, <1>4, <1>5, <1>6, <1>7, <1>8 DEF Next, outputVars

-----------------------------------------------------------------------------
(* A response is written, or in the queue, exactly if the command has been *)
(* answered, and what a shutdown owes has been answered (Delivery).        *)

Delivery ==
  /\ \A j \in Jobs : answers[j] > 0 <=> Written(Response(j))
  /\ \A j \in owed : answers[j] > 0

LEMMA DeliveryInit == Init => Delivery
BY DEF Init, Delivery, Written

(* Answers are only ever added. *)
LEMMA AnswersGrow ==
  ASSUME TypeOK, [Next]_vars, NEW j \in Jobs
  PROVE  /\ answers[j] \in Nat /\ answers'[j] \in Nat /\ answers'[j] >= answers[j]
         /\ Answer(j) => answers'[j] > 0
         /\ answers'[j] = answers[j] \/ Answer(j)
<1>1. answers \in [Jobs -> Nat]
  BY DEF TypeOK
<1>2. ASSUME NEW i \in Jobs, Answer(i)
      PROVE  answers' \in [Jobs -> Nat] /\ answers'[i] = answers[i] + 1
             /\ (i # j => answers'[j] = answers[j])
  BY <1>2, AnswerCounts
<1>3. (\E i \in Jobs : Answer(i)) \/ answers' = answers
  BY OutputSteps DEF Silent, outputVars
<1> QED
  BY <1>1, <1>2, <1>3

LEMMA DeliveryStep ==
  ASSUME IInv, IInv', [Next]_vars, Delivery
  PROVE  Delivery'
<1>1. TypeOK
  BY DEF IInv
<1>2. ASSUME NEW j \in Jobs
      PROVE  (answers[j] > 0 <=> Written(Response(j)))'
  <2>1. CASE Answer(j)
    <3>1. Written(Response(j))'
      <4>1. queue \in Seq(Lines)
        BY <1>1 DEF TypeOK
      <4>2. queue' = Append(queue, Response(j))
        BY <2>1 DEF Answer, Output
      <4>3. Len(queue) + 1 \in DOMAIN queue' /\ queue'[Len(queue) + 1] = Response(j)
        BY <4>1, <4>2
      <4> QED
        BY <4>3 DEF Written
    <3> QED
      BY <1>1, <2>1, <3>1, AnswersGrow DEF Response
  <2>2. CASE ~Answer(j)
    <3>1. answers'[j] = answers[j]
      BY <1>1, <2>2, AnswersGrow
    <3>2. Written(Response(j))' <=> Written(Response(j))
      BY <1>1, <2>2, WrittenStays, ResponseAppears DEF Response
    <3> QED
      BY <3>1, <3>2 DEF Delivery, Response
  <2> QED
    BY <2>1, <2>2
<1>3. ASSUME NEW j \in owed' PROVE answers'[j] > 0
  <2>1. j \in Jobs /\ answers[j] > 0
    BY <1>1, <1>3, OwedSteps DEF Delivery, TypeOK
  <2> QED
    BY <1>1, <2>1, AnswersGrow
<1> QED
  BY <1>2, <1>3 DEF Delivery

(* Every answer given before an orderly shutdown began is written when the *)
(* process exits, however many lines wait and whoever answers meanwhile.   *)
THEOREM AnswersDelivered == Spec => []AnswersFlushed
<1>1. Init => IInv /\ Delivery /\ AnswersFlushed
  BY InitHolds, DeliveryInit DEF Init, AnswersFlushed
<1>2. ASSUME IInv, IInv', [Next]_vars, Delivery, AnswersFlushed
      PROVE  AnswersFlushed'
  <2> SUFFICES ASSUME quit' = "exited", NEW j \in owed'
               PROVE  Response(j) \in shown'
    BY DEF AnswersFlushed, Response
  <2>1. UNCHANGED <<owed, shown, queue>> /\ (quit = "exited" \/ queue = <<>>)
    BY <1>2, OwedSteps
  <2>2. CASE quit = "exited"
    BY <1>2, <2>1, <2>2 DEF AnswersFlushed
  <2>3. CASE queue = <<>>
    <3>1. j \in Jobs /\ answers[j] > 0
      BY <1>2, <2>1 DEF Delivery, IInv, TypeOK
    <3>2. DOMAIN queue = {}
      BY <2>3
    <3> QED
      BY <1>2, <2>1, <3>1, <3>2 DEF Delivery, Written
  <2> QED
    BY <2>1, <2>2, <2>3
<1> QED
  BY <1>1, <1>2, NextHolds, DeliveryStep, PTL DEF Spec

-----------------------------------------------------------------------------
(* How commands and runs move.                                             *)

Receives(j) == \E k \in Kinds : Receive(j, k)

(* One stage of a handler, and the only actions at the stages that matter. *)
LEMMA HandleMoves ==
  ASSUME TypeOK, NEW j \in Jobs, Handle(j)
  PROVE  \E stage \in Stages \ {"unsent", "waiting"} :
           /\ Goes(j, stage)
           /\ job[j].at # "unsent"
           /\ stage = "running" => Accepted(j)
           /\ stage = "ending" => RunEnds(j)
           /\ stage = "creating" => TornDown(j)
           /\ stage = "binding" => Created(j)
           /\ stage = "rebinding" => Bound(j)
           /\ job[j].at = "running" => RunEnds(j) /\ stage = "ending"
           /\ job[j].at = "ending" => RunOver(j)
           /\ job[j].at = "waiting" => Aborted(j) /\ stage = "checking"
<1>1. CASE Drained(j)
  BY <1>1 DEF Drained, Stages
<1>2. CASE PromptChecked(j)
  BY <1>2 DEF PromptChecked, Stages, PromptStages
<1>3. CASE Accepted(j)
  BY <1>3 DEF Accepted, Stages, PromptStages
<1>4. CASE RunEnds(j)
  BY <1>4 DEF RunEnds, Stages, PromptStages
<1>5. CASE RunOver(j)
  BY <1>5 DEF RunOver, Stages
<1>6. CASE DialogSettled(j)
  BY <1>6 DEF DialogSettled, Stages
<1>7. CASE Aborted(j)
  BY <1>7 DEF Aborted, Replies, Stages
<1>8. CASE Called(j)
  BY <1>8 DEF Called, Replies, Fails, Stages
<1>9. CASE Asked(j)
  BY <1>9 DEF Asked, Replies, Fails, Stages, ReplaceStages
<1>10. CASE TornDown(j)
  BY <1>10 DEF TornDown, Stages, ReplaceStages
<1>11. CASE Created(j)
  BY <1>11 DEF Created, Fails, Stages, ReplaceStages
<1>12. CASE Bound(j)
  BY <1>12 DEF Bound, Stages, ReplaceStages
<1>13. CASE Rebound(j)
  BY <1>13 DEF Rebound, Replies, Stages
<1> QED
  BY <1>1, <1>2, <1>3, <1>4, <1>5, <1>6, <1>7, <1>8, <1>9, <1>10, <1>11, <1>12, <1>13 DEF Handle

(* The commands: at most one moves, and by an action of its own. *)
LEMMA JobSteps ==
  ASSUME TypeOK, [Next]_vars
  PROVE  \/ job' = job
         \/ \E j \in Jobs : (Receives(j) \/ Handle(j)) /\ \A i \in Jobs : i # j => job'[i] = job[i]
<1>1. CASE UNCHANGED vars
  BY <1>1 DEF vars
<1>2. ASSUME NEW j \in Jobs, Receives(j)
      PROVE  \A i \in Jobs : i # j => job'[i] = job[i]
  BY <1>2 DEF Receives, Receive, TypeOK
<1>3. ASSUME NEW j \in Jobs, Handle(j)
      PROVE  \A i \in Jobs : i # j => job'[i] = job[i]
  BY <1>3, HandleMoves, GoesMoves
<1>4. CASE Write \/ RequestShutdown \/ StdinEnds \/ Terminated \/ Disposed \/ Flushed
  BY <1>4 DEF Write, RequestShutdown, StdinEnds, Terminated, Disposed, Flushed
<1> QED
  BY <1>1, <1>2, <1>3, <1>4 DEF Next, Receives

(* A command that was sent keeps what it is. *)
LEMMA JobKeeps ==
  ASSUME TypeOK, [Next]_vars, NEW j \in Jobs, job[j].at # "unsent"
  PROVE  /\ job'[j].kind = job[j].kind /\ job'[j].session = job[j].session
         /\ job'[j].run = job[j].run /\ job'[j].at # "unsent"
<1>1. CASE job'[j] = job[j]
  BY <1>1
<1>2. CASE Handle(j)
  <2>1. PICK stage \in Stages \ {"unsent", "waiting"} : Goes(j, stage)
    BY <1>2, HandleMoves
  <2>2. job' = [job EXCEPT ![j] = [job[j] EXCEPT !.at = stage]]
    BY <2>1 DEF Goes, TypeOK
  <2>3. job'[j] = [job[j] EXCEPT !.at = stage]
    BY <2>2 DEF TypeOK
  <2>4. job[j] \in [kind : Kinds \cup {"none"}, at : Stages,
                    session : Sessions, run : 0..MaxCommands]
    BY DEF TypeOK
  <2> QED
    BY <2>3, <2>4
<1>3. ~Receives(j)
  BY DEF Receives, Receive
<1> QED
  BY <1>1, <1>2, <1>3, JobSteps

(* What a command that arrives is. *)
LEMMA Arrives ==
  ASSUME TypeOK, NEW j \in Jobs, Receives(j)
  PROVE  /\ job[j].at = "unsent"
         /\ job'[j].session = mode
         /\ job'[j].at \in {"input", "dialog", "waiting", "calling", "asking"}
         /\ job'[j].run \in {0, run[mode]}
         /\ job'[j].run # 0 => job'[j].kind = "abort"
         /\ job'[j].kind = "abort" => job'[j].at = "waiting"
         /\ patient => \A i \in 1..(j - 1) : answers[i] > 0
         /\ UNCHANGED <<answers, run, life, host>>
<1>1. PICK k \in Kinds : Receive(j, k)
  BY DEF Receives
<1>2. job' = [job EXCEPT ![j] = [kind |-> k, at |-> StageOf(k), session |-> mode,
                                 run |-> IF k = "abort" THEN run[mode] ELSE 0]]
  BY <1>1 DEF Receive
<1>3. job'[j] = [kind |-> k, at |-> StageOf(k), session |-> mode,
                 run |-> IF k = "abort" THEN run[mode] ELSE 0]
  BY <1>2 DEF TypeOK
<1>4. StageOf(k) \in {"input", "dialog", "waiting", "calling", "asking"}
      /\ (k = "abort" => StageOf(k) = "waiting")
  BY KindsAssumption DEF StageOf
<1> QED
  BY <1>1, <1>3, <1>4 DEF Receive

(* The runs: accepted prompts begin and end them. *)
LEMMA RunSteps ==
  ASSUME [Next]_vars
  PROVE  run' = run \/ \E j \in Jobs : Accepted(j) \/ RunOver(j)
<1>1. CASE UNCHANGED vars
  BY <1>1 DEF vars, sessionVars
<1>2. ASSUME NEW j \in Jobs, Handle(j), ~Accepted(j), ~RunOver(j)
      PROVE  run' = run
  BY <1>2 DEF Handle, Drained, PromptChecked, RunEnds, DialogSettled, Aborted, Called, Asked,
     TornDown, Created, Bound, Rebound, sessionVars
<1>3. ASSUME NEW j \in Jobs, NEW k \in Kinds, Receive(j, k)
      PROVE  run' = run
  BY <1>3 DEF Receive
<1>4. CASE Write \/ RequestShutdown \/ StdinEnds \/ Terminated \/ Disposed \/ Flushed
  BY <1>4 DEF Write, RequestShutdown, StdinEnds, Terminated, Disposed, Flushed, sessionVars
<1> QED
  BY <1>1, <1>2, <1>3, <1>4 DEF Next

(* The sessions: a replacement disposes of the runtime's and creates one. *)
LEMMA SessionSteps ==
  ASSUME TypeOK, [Next]_vars
  PROVE  \/ UNCHANGED <<life, host>>
         \/ life' = [life EXCEPT ![host] = "disposed"] /\ host' = host
         \/ \E j \in Jobs, s \in Sessions :
              /\ Created(j) /\ job[j].at = "creating" /\ job'[j].at = "binding"
              /\ life[s] = "unborn" /\ life' = [life EXCEPT ![s] = "open"] /\ host' = s
<1>1. CASE UNCHANGED vars
  BY <1>1 DEF vars, sessionVars
<1>2. ASSUME NEW j \in Jobs, Handle(j), ~TornDown(j), ~Created(j)
      PROVE  UNCHANGED <<life, host>>
  BY <1>2 DEF Handle, Drained, PromptChecked, Accepted, RunEnds, RunOver, DialogSettled, Aborted,
     Called, Asked, Bound, Rebound, sessionVars
<1>3. ASSUME NEW j \in Jobs, TornDown(j)
      PROVE  life' = [life EXCEPT ![host] = "disposed"] /\ host' = host
  BY <1>3 DEF TornDown
<1>4. ASSUME NEW j \in Jobs, Created(j), ~UNCHANGED <<life, host>>
      PROVE  \E s \in Sessions :
               /\ job[j].at = "creating" /\ job'[j].at = "binding"
               /\ life[s] = "unborn" /\ life' = [life EXCEPT ![s] = "open"] /\ host' = s
  <2>1. PICK s \in Sessions : /\ life[s] = "unborn" /\ life' = [life EXCEPT ![s] = "open"]
                              /\ host' = s /\ Goes(j, "binding")
    BY <1>4 DEF Created
  <2>2. job'[j].at = "binding"
    BY <2>1, GoesMoves DEF Stages, ReplaceStages
  <2> QED
    BY <1>4, <2>1, <2>2 DEF Created
<1>5. ASSUME NEW j \in Jobs, NEW k \in Kinds, Receive(j, k)
      PROVE  UNCHANGED <<life, host>>
  BY <1>5 DEF Receive
<1>6. CASE Write \/ RequestShutdown \/ StdinEnds \/ Terminated \/ Disposed \/ Flushed
  BY <1>6 DEF Write, RequestShutdown, StdinEnds, Terminated, Disposed, Flushed, sessionVars
<1> QED
  BY <1>1, <1>2, <1>3, <1>4, <1>5, <1>6 DEF Next

(* A session that was created, or was disposed of, stays so. *)
LEMMA LifeGoesOn ==
  ASSUME TypeOK, [Next]_vars, NEW s \in Sessions
  PROVE  /\ life[s] # "unborn" => life'[s] # "unborn"
         /\ life[s] = "disposed" => life'[s] = "disposed"
BY SessionSteps DEF TypeOK

-----------------------------------------------------------------------------
(* A session's active run is a prompt of its own that runs or ends (Runs). *)

Active == {"running", "ending"}

RunOfOwn ==
  /\ \A j \in Jobs : job[j].at \in Active <=> run[job[j].session] = j
  /\ \A s \in Sessions : run[s] # 0 => job[run[s]].session = s

Born ==
  /\ \A s \in Sessions : life[s] = "unborn" => run[s] = 0
  /\ \A j \in Jobs : job[j].at # "unsent" => life[job[j].session] # "unborn"
  /\ \A j \in Jobs : job[j].run # 0 => job[job[j].run].at # "unsent"

Runs == RunOfOwn /\ Born

LEMMA RunsInit == Init => Runs
<1> SUFFICES ASSUME Init PROVE Runs
  OBVIOUS
<1>1. \A j \in Jobs : j # 0
  BY MaxCommandsAssumption DEF Jobs
<1>2. /\ \A j \in Jobs : job[j] = NoJob
      /\ \A s \in Sessions : run[s] = 0
  BY DEF Init
<1>3. NoJob.session \in Sessions /\ NoJob.at = "unsent" /\ NoJob.run = 0
  BY MaxCommandsAssumption DEF NoJob, Sessions
<1> QED
  BY <1>1, <1>2, <1>3 DEF Runs, RunOfOwn, Born, Active

(* What an accepted prompt and the end of a run do to both. *)
LEMMA AcceptedRuns ==
  ASSUME TypeOK, NEW j \in Jobs, Accepted(j)
  PROVE  /\ job[j].at = "before"
         /\ \A i \in Jobs : i # j => job'[i] = job[i]
         /\ job'[j].session = job[j].session
         /\ \/ /\ run[job[j].session] = 0 /\ run' = [run EXCEPT ![job[j].session] = j]
               /\ job'[j].at = "running"
            \/ run' = run /\ job'[j].at = "dropped"
<1>1. /\ job[j].at = "before"
      /\ \/ /\ run[job[j].session] = 0 /\ run' = [run EXCEPT ![job[j].session] = j]
            /\ Goes(j, "running")
         \/ run' = run /\ Goes(j, "dropped")
  BY DEF Accepted
<1>2. job[j] \in [kind : Kinds \cup {"none"}, at : Stages,
                  session : Sessions, run : 0..MaxCommands]
  BY DEF TypeOK
<1>3. \E stage \in {"running", "dropped"} : job' = [job EXCEPT ![j] = [job[j] EXCEPT !.at = stage]]
  BY <1>1 DEF Goes, TypeOK
<1>4. job'[j].session = job[j].session
  BY <1>2, <1>3 DEF TypeOK
<1>5. {"running", "dropped"} \subseteq Stages
  BY DEF Stages, PromptStages
<1> QED
  BY <1>1, <1>4, <1>5, GoesMoves

LEMMA RunOverRuns ==
  ASSUME TypeOK, NEW j \in Jobs, RunOver(j)
  PROVE  /\ job[j].at = "ending" /\ job'[j].at = "done"
         /\ \A i \in Jobs : i # j => job'[i] = job[i]
         /\ job'[j].session = job[j].session
         /\ run' = [run EXCEPT ![job[j].session] = 0]
<1>1. job[j].at = "ending" /\ Goes(j, "done") /\ run' = [run EXCEPT ![job[j].session] = 0]
  BY DEF RunOver
<1>2. job[j] \in [kind : Kinds \cup {"none"}, at : Stages,
                  session : Sessions, run : 0..MaxCommands]
  BY DEF TypeOK
<1>3. job' = [job EXCEPT ![j] = [job[j] EXCEPT !.at = "done"]]
  BY <1>1 DEF Goes, TypeOK
<1>4. job'[j].session = job[j].session
  BY <1>2, <1>3 DEF TypeOK
<1> QED
  BY <1>1, <1>4, GoesMoves DEF Stages

LEMMA RunOfOwnStep ==
  ASSUME IInv, IInv', [Next]_vars, RunOfOwn
  PROVE  RunOfOwn'
<1>0. /\ TypeOK /\ TypeOK' /\ 0 \notin Jobs
      /\ run \in [Sessions -> 0..MaxCommands] /\ \A j \in Jobs : job[j].session \in Sessions
      /\ \A j \in Jobs : job'[j].session \in Sessions
      /\ 0..MaxCommands = {0} \cup Jobs /\ mode \in Sessions
  <2>1. 0..MaxCommands = {0} \cup Jobs /\ 0 \notin Jobs
    BY MaxCommandsAssumption DEF Jobs
  <2>2. TypeOK /\ TypeOK'
    BY DEF IInv
  <2> QED
    BY <2>1, <2>2 DEF TypeOK
<1>1. ASSUME NEW j \in Jobs, Accepted(j), run' # run
      PROVE  RunOfOwn'
  <2>1. /\ job[j].at = "before" /\ job'[j].at = "running"
        /\ \A i \in Jobs : i # j => job'[i] = job[i]
        /\ job'[j].session = job[j].session
        /\ run[job[j].session] = 0 /\ run' = [run EXCEPT ![job[j].session] = j]
    BY <1>0, <1>1, AcceptedRuns
  <2>2. \A s \in Sessions : s # job[j].session => run'[s] = run[s]
    BY <1>0, <2>1
  <2>3. run'[job[j].session] = j
    BY <1>0, <2>1
  <2>4. ASSUME NEW i \in Jobs
        PROVE  job'[i].at \in Active <=> run'[job'[i].session] = i
    BY <1>0, <2>1, <2>2, <2>3 DEF RunOfOwn, Active
  <2>5. ASSUME NEW s \in Sessions, run'[s] # 0
        PROVE  job'[run'[s]].session = s
    <3>1. CASE s = job[j].session
      BY <2>1, <2>3, <3>1
    <3>2. CASE s # job[j].session
      <4>1. run'[s] = run[s] /\ job[run[s]].session = s /\ run[s] \in Jobs
        BY <1>0, <2>2, <2>5, <3>2 DEF RunOfOwn
      <4> QED
        BY <2>1, <3>2, <4>1
    <3> QED
      BY <3>1, <3>2
  <2> QED
    BY <2>4, <2>5 DEF RunOfOwn, Active
<1>2. ASSUME NEW j \in Jobs, RunOver(j)
      PROVE  RunOfOwn'
  <2>1. /\ job[j].at = "ending" /\ job'[j].at = "done"
        /\ \A i \in Jobs : i # j => job'[i] = job[i]
        /\ job'[j].session = job[j].session
        /\ run' = [run EXCEPT ![job[j].session] = 0]
    BY <1>0, <1>2, RunOverRuns
  <2>2. \A s \in Sessions : s # job[j].session => run'[s] = run[s]
    BY <1>0, <2>1
  <2>3. run'[job[j].session] = 0 /\ run[job[j].session] = j
    BY <1>0, <2>1 DEF RunOfOwn, Active
  <2>4. ASSUME NEW i \in Jobs
        PROVE  job'[i].at \in Active <=> run'[job'[i].session] = i
    BY <1>0, <2>1, <2>2, <2>3 DEF RunOfOwn, Active
  <2>5. ASSUME NEW s \in Sessions, run'[s] # 0
        PROVE  job'[run'[s]].session = s
    <3>1. s # job[j].session
      BY <2>3, <2>5
    <3>2. run'[s] = run[s] /\ job[run[s]].session = s /\ run[s] \in Jobs
      BY <1>0, <2>2, <2>5, <3>1 DEF RunOfOwn
    <3> QED
      BY <2>1, <3>1, <3>2
  <2> QED
    BY <2>4, <2>5 DEF RunOfOwn, Active
<1>3. CASE run' = run
  <2>1. ASSUME NEW i \in Jobs, Receives(i)
        PROVE  /\ job'[i].at \in Active <=> run'[job'[i].session] = i
               /\ job[i].at \notin Active
    <3>1. job[i].at = "unsent" /\ job'[i].session = mode /\ job'[i].at \notin Active
      BY <1>0, <2>1, Arrives DEF Active
    <3>2. run[mode] # i
      <4> SUFFICES ASSUME run[mode] = i PROVE FALSE
        OBVIOUS
      <4>1. job[i].session = mode
        BY <1>0 DEF RunOfOwn
      <4>2. job[i].at \in Active
        BY <4>1 DEF RunOfOwn
      <4> QED
        BY <3>1, <4>2 DEF Active
    <3> QED
      BY <1>3, <3>1, <3>2 DEF Active
  <2>2. ASSUME NEW i \in Jobs, Handle(i)
        PROVE  /\ job'[i].at \in Active <=> job[i].at \in Active
               /\ job'[i].session = job[i].session
    <3>1. PICK stage \in Stages \ {"unsent", "waiting"} :
             /\ Goes(i, stage) /\ job[i].at # "unsent"
             /\ stage = "running" => Accepted(i)
             /\ stage = "ending" => RunEnds(i)
             /\ job[i].at = "running" => RunEnds(i) /\ stage = "ending"
             /\ job[i].at = "ending" => RunOver(i)
      BY <1>0, <2>2, HandleMoves
    <3>2. job'[i].at = stage
      BY <1>0, <3>1, GoesMoves
    <3>3. job[i].at # "ending"
      <4> SUFFICES ASSUME RunOver(i) PROVE FALSE
        BY <3>1
      <4>1. run' = [run EXCEPT ![job[i].session] = 0] /\ job[i].at = "ending"
        BY <1>0, RunOverRuns
      <4>2. run[job[i].session] = i
        BY <4>1 DEF RunOfOwn, Active
      <4> QED
        BY <1>0, <1>3, <4>1, <4>2
    <3>4. stage # "running"
      <4> SUFFICES ASSUME Accepted(i), job'[i].at = "running" PROVE FALSE
        BY <3>1, <3>2
      <4>1. run[job[i].session] = 0 /\ run' = [run EXCEPT ![job[i].session] = i]
        BY <1>0, AcceptedRuns
      <4> QED
        BY <1>0, <1>3, <4>1
    <3>5. RunEnds(i) => job[i].at = "running"
      BY DEF RunEnds
    <3> QED
      BY <1>0, <3>1, <3>2, <3>3, <3>4, <3>5, JobKeeps DEF Active
  <2>3. ASSUME NEW i \in Jobs
        PROVE  job'[i].at \in Active <=> run'[job'[i].session] = i
    <3>1. CASE job'[i] = job[i]
      BY <1>3, <3>1 DEF RunOfOwn
    <3>2. CASE Handle(i)
      BY <1>3, <2>2, <3>2 DEF RunOfOwn
    <3> QED
      BY <1>0, <2>1, <3>1, <3>2, JobSteps
  <2>4. ASSUME NEW s \in Sessions, run'[s] # 0
        PROVE  job'[run'[s]].session = s
    <3>1. run[s] \in Jobs /\ job[run[s]].session = s
      BY <1>0, <1>3, <2>4 DEF RunOfOwn
    <3>2. job[run[s]].at \in Active
      BY <3>1 DEF RunOfOwn
    <3>3. job[run[s]].at # "unsent"
      BY <3>2 DEF Active
    <3> QED
      BY <1>0, <1>3, <3>1, <3>3, JobKeeps
  <2> QED
    BY <2>3, <2>4 DEF RunOfOwn, Active
<1> QED
  BY <1>1, <1>2, <1>3, RunSteps

LEMMA BornStep ==
  ASSUME IInv, IInv', [Next]_vars, Runs
  PROVE  Born'
<1>0. TypeOK /\ TypeOK' /\ mode = host /\ life[host] # "unborn"
  BY DEF IInv, Hooking
<1>1. ASSUME NEW s \in Sessions, life'[s] = "unborn"
      PROVE  run'[s] = 0
  <2>1. life[s] = "unborn" /\ run[s] = 0
    BY <1>0, <1>1, LifeGoesOn DEF Runs, Born
  <2>2. ASSUME NEW j \in Jobs, Accepted(j)
        PROVE  run'[s] = run[s]
    <3>1. job[j].at = "before" /\ (run' = [run EXCEPT ![job[j].session] = j] \/ run' = run)
      BY <1>0, <2>2, AcceptedRuns
    <3>2. job[j].session # s
      BY <2>1, <3>1 DEF Runs, Born
    <3> QED
      BY <1>0, <3>1, <3>2 DEF TypeOK
  <2>3. ASSUME NEW j \in Jobs, RunOver(j)
        PROVE  run'[s] = 0
    BY <1>0, <2>1, <2>3, RunOverRuns DEF TypeOK
  <2> QED
    BY <2>1, <2>2, <2>3, RunSteps
<1>2. ASSUME NEW j \in Jobs, job'[j].at # "unsent"
      PROVE  life'[job'[j].session] # "unborn"
  <2>1. CASE job[j].at # "unsent"
    BY <1>0, <2>1, JobKeeps, LifeGoesOn DEF Runs, Born, TypeOK
  <2>2. CASE Receives(j)
    BY <1>0, <2>2, Arrives, LifeGoesOn DEF TypeOK
  <2>3. Handle(j) => job[j].at # "unsent"
    BY <1>0, HandleMoves
  <2> QED
    BY <1>0, <1>2, <2>1, <2>2, <2>3, JobSteps
<1>3. ASSUME NEW j \in Jobs, job'[j].run # 0
      PROVE  job'[job'[j].run].at # "unsent"
  <2>1. job'[j].run \in Jobs
    <3>1. 0..MaxCommands = {0} \cup Jobs
      BY MaxCommandsAssumption DEF Jobs
    <3> QED
      BY <1>0, <1>3, <3>1 DEF TypeOK
  <2>2. job[job'[j].run].at # "unsent"
    <3>1. CASE Receives(j)
      <4>1. job'[j].run = run[mode] /\ job[run[mode]].session = mode
        BY <1>0, <1>3, <3>1, Arrives DEF Runs, RunOfOwn, TypeOK
      <4>2. job[run[mode]].at \in Active
        BY <2>1, <4>1 DEF Runs, RunOfOwn
      <4> QED
        BY <4>1, <4>2 DEF Active
    <3>2. CASE job'[j] = job[j]
      BY <1>3, <3>2 DEF Runs, Born
    <3>3. CASE Handle(j)
      BY <1>0, <1>3, <3>3, HandleMoves, JobKeeps DEF Runs, Born
    <3> QED
      BY <1>0, <3>1, <3>2, <3>3, JobSteps
  <2> QED
    BY <1>0, <2>1, <2>2, JobKeeps
<1> QED
  BY <1>1, <1>2, <1>3 DEF Born

LEMMA RunsStep ==
  ASSUME IInv, IInv', [Next]_vars, Runs
  PROVE  Runs'
BY RunOfOwnStep, BornStep DEF Runs

-----------------------------------------------------------------------------
(* With a client that waits, one command at most is unanswered; no session *)
(* but the runtime's is open, and none runs while it is bound (InTurn).    *)

InTurn ==
  /\ \A j \in Jobs : job[j].at # "unsent" => \A i \in 1..(j - 1) : answers[i] > 0
  /\ quit = "no" => \A s \in Sessions : life[s] = "open" => s = host
  /\ \A j \in Jobs : job[j].at = "creating" => life[host] # "open"
  /\ \A j \in Jobs : job[j].at \in {"binding", "rebinding"} => run[host] = 0

LEMMA InTurnInit == Init => InTurn
<1> SUFFICES ASSUME Init PROVE InTurn
  OBVIOUS
<1>1. \A j \in Jobs : job[j].at = "unsent"
  BY DEF Init, NoJob
<1>2. \A s \in Sessions : life[s] = "open" => s = host
  BY DEF Init
<1> QED
  BY <1>1, <1>2 DEF InTurn

LEMMA OneUnanswered ==
  ASSUME IInv, InTurn, NEW i \in Jobs, NEW j \in Jobs,
         job[i].at \in Pre \ {"unsent"}, job[j].at \in Pre \ {"unsent"}
  PROVE  i = j
<1>1. i \in Nat /\ j \in Nat /\ i >= 1 /\ j >= 1
  BY MaxCommandsAssumption DEF Jobs
<1>2. answers[i] = 0 /\ answers[j] = 0
  BY DEF IInv, Unanswered
<1>3. ~(i < j)
  <2> SUFFICES ASSUME i < j PROVE FALSE
    OBVIOUS
  <2>1. i \in 1..(j - 1)
    BY <1>1
  <2> QED
    BY <1>2, <2>1 DEF InTurn
<1>4. ~(j < i)
  <2> SUFFICES ASSUME j < i PROVE FALSE
    OBVIOUS
  <2>1. j \in 1..(i - 1)
    BY <1>1
  <2> QED
    BY <1>2, <2>1 DEF InTurn
<1> QED
  BY <1>1, <1>3, <1>4

LEMMA InTurnStep ==
  ASSUME IInv, IInv', [Next]_vars, patient, Runs, InTurn
  PROVE  InTurn'
<1>0. /\ TypeOK /\ TypeOK' /\ host \in Sessions /\ life[host] # "unborn"
      /\ {"creating", "binding", "rebinding"} \subseteq Pre \ {"unsent"}
      /\ \A j \in Jobs : \A i \in 1..(j - 1) : i \in Jobs
  <2>1. \A j \in Jobs : \A i \in 1..(j - 1) : i \in Jobs
    BY MaxCommandsAssumption DEF Jobs
  <2> QED
    BY <2>1 DEF IInv, TypeOK, Hooking, Pre, ReplaceStages
<1>1. ASSUME NEW j \in Jobs, job'[j].at # "unsent", NEW i \in 1..(j - 1)
      PROVE  answers'[i] > 0
  <2>1. answers[i] > 0
    <3>1. CASE job[j].at # "unsent"
      BY <3>1 DEF InTurn
    <3>2. CASE Receives(j)
      BY <1>0, <3>2, Arrives
    <3>3. Handle(j) => job[j].at # "unsent"
      BY <1>0, HandleMoves
    <3> QED
      BY <1>0, <1>1, <3>1, <3>2, <3>3, JobSteps
  <2> QED
    BY <1>0, <2>1, AnswersGrow
<1>2. ASSUME quit' = "no", NEW s \in Sessions, life'[s] = "open"
      PROVE  s = host'
  <2>1. \A t \in Sessions : life[t] = "open" => t = host
    BY <1>2, OwedSteps DEF InTurn
  <2>2. ASSUME NEW j \in Jobs, NEW t \in Sessions, job[j].at = "creating",
               life' = [life EXCEPT ![t] = "open"], host' = t
        PROVE  s = host'
    BY <1>0, <1>2, <2>1, <2>2 DEF InTurn, TypeOK
  <2> QED
    BY <1>0, <1>2, <2>1, <2>2, SessionSteps DEF TypeOK
<1>3. ASSUME NEW j \in Jobs, job'[j].at = "creating"
      PROVE  life'[host'] # "open"
  <2>1. CASE job'[j] = job[j]
    <3>1. job[j].at = "creating" /\ life[host] # "open"
      BY <1>3, <2>1 DEF InTurn
    <3>2. ASSUME NEW i \in Jobs, job[i].at = "creating", job'[i].at = "binding"
          PROVE  FALSE
      <4>1. i = j
        BY <1>0, <3>1, <3>2, OneUnanswered
      <4> QED
        BY <1>3, <3>2, <4>1
    <3> QED
      BY <1>0, <3>1, <3>2, SessionSteps DEF TypeOK
  <2>2. CASE Receives(j)
    BY <1>0, <1>3, <2>2, Arrives
  <2>3. CASE Handle(j)
    <3>1. TornDown(j)
      BY <1>0, <1>3, <2>3, HandleMoves, GoesMoves
    <3>2. life' = [life EXCEPT ![host] = "disposed"] /\ host' = host
      BY <3>1 DEF TornDown
    <3> QED
      BY <1>0, <3>2 DEF TypeOK
  <2> QED
    BY <1>0, <2>1, <2>2, <2>3, JobSteps
<1>4. ASSUME NEW j \in Jobs, job'[j].at \in {"binding", "rebinding"}
      PROVE  run'[host'] = 0
  <2>1. CASE job[j].at \in {"binding", "rebinding"}
    <3>1. run[host] = 0
      BY <2>1 DEF InTurn
    <3>2. host' = host
      <4>1. ASSUME NEW i \in Jobs, job[i].at = "creating" PROVE FALSE
        BY <1>0, <2>1, <4>1, OneUnanswered
      <4> QED
        BY <1>0, <4>1, SessionSteps
    <3>3. ASSUME NEW i \in Jobs, Accepted(i) PROVE FALSE
      <4>1. job[i].at = "before" /\ "before" \in Pre \ {"unsent"}
        BY <3>3 DEF Accepted, Pre
      <4>2. i = j
        BY <1>0, <2>1, <4>1, OneUnanswered
      <4> QED
        BY <2>1, <4>1, <4>2
    <3>4. ASSUME NEW i \in Jobs, RunOver(i) PROVE run'[host] = 0
      BY <1>0, <3>1, <3>4, RunOverRuns DEF TypeOK
    <3> QED
      BY <3>1, <3>2, <3>3, <3>4, RunSteps
  <2>2. CASE Receives(j)
    BY <1>0, <1>4, <2>2, Arrives
  <2>3. CASE Handle(j) /\ job[j].at \notin {"binding", "rebinding"}
    <3>1. Created(j) \/ Bound(j)
      BY <1>0, <1>4, <2>3, HandleMoves, GoesMoves
    <3>2. Bound(j) => job[j].at = "binding"
      BY DEF Bound
    <3>3. Created(j) /\ Goes(j, "binding")
      <4>1. Created(j) => Goes(j, "done") \/ Goes(j, "binding")
        BY DEF Created, Fails
      <4>2. ~Goes(j, "done")
        BY <1>0, <1>4, GoesMoves DEF Stages
      <4> QED
        BY <2>3, <3>1, <3>2, <4>1, <4>2
    <3>4. PICK s \in Sessions : life[s] = "unborn" /\ host' = s
      <4>1. ~Goes(j, "done")
        BY <1>0, <1>4, GoesMoves DEF Stages
      <4> QED
        BY <3>3, <4>1 DEF Created, Fails
    <3>5. run[s] = 0 /\ run' = run
      BY <3>3, <3>4 DEF Created, Runs, Born
    <3> QED
      BY <3>4, <3>5
  <2> QED
    BY <1>0, <1>4, <2>1, <2>2, <2>3, JobSteps
<1> QED
  BY <1>1, <1>2, <1>3, <1>4 DEF InTurn

-----------------------------------------------------------------------------
(* The end of a run that abort waits for is written before the answer to   *)
(* it, unless the session is disposed of or the server is stopping.        *)

Spared(j) == life[job[j].session] = "disposed" \/ quit # "no"
Told(j) == Written(AgentEnd(j)) \/ Spared(j)

Ended == \A j \in Jobs : job[j].at = "ending" => Told(j)

Heard ==
  \A j, r \in Jobs : job[j].run = r =>
    /\ job[r].session = job[j].session
    /\ \/ job[r].at = "running" /\ job[j].at = "waiting"
       \/ Told(r)

Ordered ==
  \A j \in Jobs : \A p \in DOMAIN queue :
    queue[p] = Response(j) /\ job[j].run # 0 =>
      \/ AgentEnd(job[j].run) \in shown
      \/ \E q \in 1..(p - 1) : queue[q] = AgentEnd(job[j].run)
      \/ Spared(j)

Patience == patient => InTurn /\ Ended /\ Heard /\ Ordered /\ AbortReported

LEMMA PatienceInit == Init => Patience
<1> SUFFICES ASSUME Init PROVE Patience
  OBVIOUS
<1>1. \A j \in Jobs : job[j].at = "unsent" /\ job[j].run = 0
  BY DEF Init, NoJob
<1>2. DOMAIN queue = {} /\ 0 \notin Jobs
  BY MaxCommandsAssumption DEF Init, Jobs
<1> QED
  BY <1>1, <1>2, InTurnInit DEF Patience, Ended, Heard, Ordered, AbortReported

LEMMA SparedStays ==
  ASSUME TypeOK, [Next]_vars, NEW j \in Jobs, job[j].at # "unsent", Spared(j)
  PROVE  Spared(j)'
<1>1. job'[j].session = job[j].session /\ job[j].session \in Sessions
  BY JobKeeps DEF TypeOK
<1> QED
  BY <1>1, LifeGoesOn, OwedSteps DEF Spared

LEMMA ToldStays ==
  ASSUME TypeOK, [Next]_vars, NEW j \in Jobs, job[j].at # "unsent", Told(j)
  PROVE  Told(j)'
BY SparedStays, WrittenStays DEF Told, AgentEnd

(* The end of a run is reported. *)
LEMMA EndTold ==
  ASSUME IInv, Runs, InTurn, [Next]_vars, NEW j \in Jobs, RunEnds(j)
  PROVE  Told(j)'
<1>0. TypeOK /\ Hooking /\ job[j].at = "running" /\ job[j].session \in Sessions
  BY DEF IInv, TypeOK, RunEnds
<1>1. CASE Spared(j)
  BY <1>0, <1>1, ToldStays DEF Told
<1>2. CASE ~Spared(j)
  <2>1. quit = "no" /\ life[job[j].session] = "open"
    BY <1>0, <1>2 DEF Spared, Runs, Born, TypeOK
  <2>2. job[j].session = host
    BY <1>0, <2>1 DEF InTurn
  <2>3. run[host] = j /\ j # 0
    BY <1>0, <2>2, MaxCommandsAssumption DEF Runs, RunOfOwn, Active, Jobs
  <2>4. ~Binding
    BY <2>3 DEF InTurn, Binding
  <2>5. listeners[host] = 1
    BY <1>0, <2>1, <2>2, <2>4 DEF Hooking
  <2>6. queue' = Append(queue, AgentEnd(j)) /\ queue \in Seq(Lines)
    BY <1>0, <2>1, <2>2, <2>5 DEF RunEnds, Output, TypeOK
  <2>7. Len(queue) + 1 \in DOMAIN queue' /\ queue'[Len(queue) + 1] = AgentEnd(j)
    BY <2>6
  <2> QED
    BY <2>7 DEF Told, Written, AgentEnd
<1> QED
  BY <1>1, <1>2

LEMMA EndedStep ==
  ASSUME IInv, IInv', [Next]_vars, Runs, InTurn, Ended
  PROVE  Ended'
<1>0. TypeOK
  BY DEF IInv
<1> SUFFICES ASSUME NEW j \in Jobs, job'[j].at = "ending"
             PROVE  Told(j)'
  BY DEF Ended, Told, Spared
<1>1. CASE job'[j] = job[j]
  BY <1>0, <1>1, ToldStays DEF Ended
<1>2. CASE Receives(j)
  BY <1>0, <1>2, Arrives
<1>3. CASE Handle(j)
  <2>1. RunEnds(j)
    BY <1>0, <1>3, HandleMoves, GoesMoves
  <2> QED
    BY <2>1, EndTold
<1> QED
  BY <1>0, <1>1, <1>2, <1>3, JobSteps

LEMMA HeardStep ==
  ASSUME IInv, IInv', [Next]_vars, Runs, InTurn, Ended, Heard
  PROVE  Heard'
<1>0. TypeOK /\ TypeOK' /\ mode = host /\ host \in Sessions
  BY DEF IInv, Hooking, TypeOK
<1> SUFFICES ASSUME NEW j \in Jobs, NEW r \in Jobs, job'[j].run = r
             PROVE  /\ job'[r].session = job'[j].session
                    /\ \/ job'[r].at = "running" /\ job'[j].at = "waiting"
                       \/ Told(r)'
  BY DEF Heard, Told, Spared, Written, AgentEnd
<1>1. r # 0
  BY MaxCommandsAssumption DEF Jobs
(* what was so before the step, of the command as it is after it *)
<1>2. /\ job[r].session = job'[j].session
      /\ job[r].at # "unsent"
      /\ \/ job[r].at = "running" /\ (job[j].at = "waiting" \/ job'[j].at = "waiting")
         \/ Told(r)
  <2>1. CASE Receives(j)
    <3>1. run[mode] = r /\ job'[j].session = mode /\ job'[j].at = "waiting"
      BY <1>0, <1>1, <2>1, Arrives
    <3>2. job[r].session = mode /\ job[r].at \in Active
      BY <1>0, <1>1, <3>1 DEF Runs, RunOfOwn, Jobs
    <3> QED
      BY <1>1, <3>1, <3>2 DEF Active, Ended
  <2>2. CASE job[j].at # "unsent"
    BY <1>0, <1>1, <2>2, JobKeeps DEF Heard, Runs, Born
  <2>3. CASE job'[j] = job[j]
    BY <1>0, <1>1, <2>3 DEF Heard, Runs, Born
  <2>4. Handle(j) => job[j].at # "unsent"
    BY <1>0, HandleMoves
  <2> QED
    BY <1>0, <2>1, <2>2, <2>3, <2>4, JobSteps
<1>3. job'[r].session = job[r].session /\ job'[r].at # "unsent"
  BY <1>0, <1>1, <1>2, JobKeeps
<1>4. CASE Told(r)
  BY <1>0, <1>1, <1>2, <1>3, <1>4, ToldStays
<1>5. CASE job[r].at = "running"
  <2>1. CASE RunEnds(r)
    BY <1>1, <1>2, <1>3, <2>1, EndTold
  <2>2. CASE ~RunEnds(r)
    <3>1. job'[r].at = "running"
      <4>1. ~Receives(r) /\ ~Handle(r)
        BY <1>0, <1>1, <1>5, <2>2, HandleMoves, Arrives
      <4> QED
        BY <1>0, <1>1, <1>5, <4>1, JobSteps
    <3>2. CASE job'[j].at = "waiting"
      BY <1>2, <1>3, <3>1, <3>2
    <3>3. CASE job[j].at = "waiting" /\ job'[j].at # "waiting"
      <4>1. Aborted(j)
        BY <1>0, <3>3, HandleMoves, Arrives, JobSteps
      <4>2. job[j].run = r /\ job[j].session = job'[j].session
        BY <1>0, <3>3, JobKeeps
      <4>3. run[job[j].session] # r
        BY <1>1, <4>1, <4>2 DEF Aborted, Jobs
      <4>4. run[job[r].session] = r
        BY <1>1, <1>5 DEF Runs, RunOfOwn, Active
      <4>5. FALSE
        BY <1>2, <4>2, <4>3, <4>4
      <4> QED
        BY <4>5
    <3>4. CASE Told(r)
      BY <1>4, <3>4
    <3> QED
      BY <1>2, <3>2, <3>3, <3>4
  <2> QED
    BY <2>1, <2>2
<1> QED
  BY <1>2, <1>4, <1>5

LEMMA OrderedStep ==
  ASSUME IInv, IInv', [Next]_vars, Delivery, Delivery', Heard', Ordered
  PROVE  Ordered'
<1>0. TypeOK /\ TypeOK' /\ queue \in Seq(Lines) /\ queue' \in Seq(Lines)
  BY DEF IInv, TypeOK
<1> SUFFICES ASSUME NEW j \in Jobs, NEW p \in DOMAIN queue', queue'[p] = Response(j), job'[j].run # 0
             PROVE  \/ AgentEnd(job'[j].run) \in shown'
                    \/ \E q \in 1..(p - 1) : queue'[q] = AgentEnd(job'[j].run)
                    \/ Spared(j)'
  BY DEF Ordered, Spared, AgentEnd, Response
<1>1. ASSUME NEW o \in DOMAIN queue, queue[o] = Response(j)
      PROVE  /\ job[j].at # "unsent" /\ job'[j].run = job[j].run
             /\ \/ AgentEnd(job[j].run) \in shown
                \/ \E q \in 1..(o - 1) : queue[q] = AgentEnd(job[j].run)
                \/ Spared(j)'
  <2>1. answers[j] > 0
    BY <1>1 DEF Delivery, Written
  <2>2. job[j].at \notin Pre
    BY <2>1 DEF IInv, Unanswered
  <2>3. job[j].at # "unsent"
    BY <2>2 DEF Pre
  <2> QED
    BY <1>0, <1>1, <2>3, JobKeeps, SparedStays DEF Ordered
<1>2. CASE Silent
  BY <1>1, <1>2 DEF Silent, outputVars
<1>3. ASSUME NEW line, queue' = Append(queue, line), shown' = shown, p \in DOMAIN queue
      PROVE  \/ AgentEnd(job'[j].run) \in shown'
             \/ \E q \in 1..(p - 1) : queue'[q] = AgentEnd(job'[j].run)
             \/ Spared(j)'
  <2>1. queue[p] = Response(j) /\ \A q \in 1..(p - 1) : queue'[q] = queue[q]
    BY <1>0, <1>3
  <2> QED
    BY <1>1, <1>3, <2>1
<1>4. ASSUME NEW line, queue' = Append(queue, line), shown' = shown, p \notin DOMAIN queue
      PROVE  \/ AgentEnd(job'[j].run) \in shown'
             \/ \E q \in 1..(p - 1) : queue'[q] = AgentEnd(job'[j].run)
             \/ Spared(j)'
  <2>1. p = Len(queue) + 1 /\ DOMAIN queue' = 1..p
    BY <1>0, <1>4
  <2>2. job'[j].at # "waiting"
    <3>1. answers'[j] > 0
      BY DEF Delivery, Written
    <3>2. job'[j].at \notin Pre
      BY <3>1 DEF IInv, Unanswered
    <3> QED
      BY <3>2 DEF Pre
  <2>3. PICK r \in Jobs : r = job'[j].run
    <3>1. 0..MaxCommands = {0} \cup Jobs
      BY MaxCommandsAssumption DEF Jobs
    <3> QED
      BY <1>0, <3>1 DEF TypeOK
  <2>4. Told(r)' /\ job'[r].session = job'[j].session
    BY <2>2, <2>3 DEF Heard, Told, Spared, Written, AgentEnd
  <2>5. queue'[p] # AgentEnd(r)
    BY DEF Response, AgentEnd
  <2>6. AgentEnd(r) \in shown' \/ (\E q \in 1..(p - 1) : queue'[q] = AgentEnd(r)) \/ Spared(r)'
    BY <1>0, <2>1, <2>4, <2>5 DEF Told, Written, AgentEnd
  <2> QED
    BY <2>3, <2>4, <2>6 DEF Spared
<1>5. CASE queue # <<>> /\ shown' = shown \cup {Head(queue)} /\ queue' = Tail(queue)
  <2>1. p + 1 \in DOMAIN queue /\ queue[p + 1] = Response(j)
    BY <1>0, <1>5
  <2>2. ASSUME NEW q \in 1..p, queue[q] = AgentEnd(job[j].run)
        PROVE  \/ AgentEnd(job'[j].run) \in shown'
               \/ \E o \in 1..(p - 1) : queue'[o] = AgentEnd(job'[j].run)
    <3>1. CASE q = 1
      BY <1>0, <1>1, <1>5, <2>1, <2>2, <3>1
    <3>2. CASE q # 1
      <4>1. q - 1 \in 1..(p - 1) /\ queue'[q - 1] = queue[q]
        BY <1>0, <1>5, <2>1, <2>2, <3>2
      <4> QED
        BY <1>1, <2>1, <2>2, <4>1
    <3> QED
      BY <3>1, <3>2
  <2>3. (p + 1) - 1 = p
    BY <1>0
  <2> QED
    BY <1>1, <1>5, <2>1, <2>2, <2>3
<1> QED
  BY <1>2, <1>3, <1>4, <1>5, OutputSteps DEF Answer, Output

LEMMA AbortReportedStep ==
  ASSUME IInv, [Next]_vars, Delivery, Ordered, patient, AbortReported
  PROVE  AbortReported'
<1>0. TypeOK /\ queue \in Seq(Lines)
  BY DEF IInv, TypeOK
<1> SUFFICES ASSUME NEW j \in Jobs, Response(j) \in shown', job'[j].run # 0
             PROVE  AgentEnd(job'[j].run) \in shown' \/ Spared(j)'
  BY DEF AbortReported, Spared, Response, AgentEnd
<1>1. shown \subseteq shown'
  BY OutputSteps DEF Silent, outputVars, Answer
<1>2. ASSUME Written(Response(j))
      PROVE  job[j].at # "unsent" /\ job'[j].run = job[j].run
  <2>1. answers[j] > 0
    BY <1>2 DEF Delivery
  <2>2. job[j].at \notin Pre
    BY <2>1 DEF IInv, Unanswered
  <2> QED
    BY <1>0, <2>2, JobKeeps DEF Pre
<1>3. CASE Response(j) \in shown
  <2>1. job[j].at # "unsent" /\ job'[j].run = job[j].run
    BY <1>2, <1>3 DEF Written
  <2>2. AgentEnd(job[j].run) \in shown \/ Spared(j)
    BY <1>3, <2>1 DEF AbortReported, Spared
  <2> QED
    BY <1>0, <1>1, <2>1, <2>2, SparedStays
<1>4. CASE Response(j) \notin shown
  <2>1. queue # <<>> /\ Head(queue) = Response(j)
    BY <1>4, OutputSteps DEF Silent, outputVars, Answer
  <2>2. 1 \in DOMAIN queue /\ queue[1] = Response(j)
    BY <1>0, <2>1
  <2>3. job[j].at # "unsent" /\ job'[j].run = job[j].run
    BY <1>2, <2>2 DEF Written
  <2>4. AgentEnd(job[j].run) \in shown \/ Spared(j)
    BY <2>2, <2>3 DEF Ordered
  <2> QED
    BY <1>0, <1>1, <2>3, <2>4, SparedStays
<1> QED
  BY <1>3, <1>4

(* A client that waits for its answers has read the end of the run it      *)
(* aborted when it reads the answer to the abort.                          *)
THEOREM AbortsReported == Spec => []AbortReported
<1>1. Init => IInv /\ Delivery /\ Runs /\ Patience
  BY InitHolds, DeliveryInit, RunsInit, PatienceInit
<1>2. ASSUME IInv, IInv', [Next]_vars, Delivery, Delivery', Runs, Patience
      PROVE  Patience'
  <2>1. patient' = patient
    BY <1>2 DEF Next, vars
  <2> QED
    BY <1>2, <2>1, InTurnStep, EndedStep, HeardStep, OrderedStep, AbortReportedStep DEF Patience
<1>3. Patience => AbortReported
  BY DEF Patience, AbortReported
<1> QED
  BY <1>1, <1>2, <1>3, NextHolds, DeliveryStep, RunsStep, PTL DEF Spec

-----------------------------------------------------------------------------
(* The other end, the client (RpcClient), for any number of requests,      *)
(* waits, processes and events.  A request that waits was sent to a        *)
(* process that was spawned, and the current process was: neither stopping *)
(* nor a process spawned later, which no request was sent to yet, leaves   *)
(* one that is forgotten.                                                  *)

ClientTypes ==
  /\ process \in Procs \cup {0}
  /\ request \in [Requests -> [state : {"unsent", "pending", "answered", "refused",
                                        "exited", "timed out"},
                               proc : Procs \cup {0}]]
  /\ pending \subseteq Requests
  /\ fate \in [Procs -> {"unborn", "alive", "gone", "seen"}]

Spawned(p) == p # 0 /\ fate[p] # "unborn"

(* A request to the current process that waits is found. *)
Found ==
  \A r \in Requests :
    request[r].state = "pending" /\ request[r].proc = process
      => r \in pending /\ process # exitError

(* What is in the map was sent to the current process, and what is         *)
(* rejected to one seen to have ended.                                     *)
Owned ==
  /\ \A r \in pending : request[r].state = "pending" /\ request[r].proc = process
  /\ \A r \in Requests : request[r].state = "exited"
       => request[r].proc \in Procs /\ fate[request[r].proc] = "seen"

ClientInv ==
  /\ ClientTypes
  /\ process # 0 => Spawned(process)
  /\ \A r \in Requests : request[r].state = "pending" => Spawned(request[r].proc)
  /\ Found

(* The steps that spawn, stop or see the end of a process keep it. *)
LEMMA ClientProcessSteps ==
  ASSUME ClientInv,
         \/ Start \/ Stop \/ StopTimesOut
         \/ \E p \in Procs : ExitSeen(p) \/ Exits(p)
  PROVE  ClientInv'
<1> USE BoundsAssumption DEF ClientInv, ClientTypes, Spawned, Found,
            Procs, Requests
<1>1. CASE Start
  <2> PICK p \in Procs :
        /\ fate[p] = "unborn" /\ process' = p
        /\ fate' = [fate EXCEPT ![p] = "alive"]
    BY <1>1 DEF Start
  <2> exitError' = 0 /\ UNCHANGED <<pending, request>>
    BY <1>1 DEF Start
  <2> QED
    OBVIOUS
<1>2. CASE Stop
  BY <1>2 DEF Stop, procVars
<1>3. CASE StopTimesOut
  <2> /\ process' = 0 /\ pending' = {} /\ UNCHANGED request
      /\ fate' = [fate EXCEPT ![process] = IF @ = "alive" THEN "gone" ELSE @]
    BY <1>3 DEF StopTimesOut, Stopped
  <2> QED
    OBVIOUS
<1>4. ASSUME NEW p \in Procs, ExitSeen(p)
      PROVE  ClientInv'
  <2>0. fate[p] = "gone" /\ fate' = [fate EXCEPT ![p] = "seen"]
    BY <1>4 DEF ExitSeen
  <2>2. /\ fate' \in [Procs -> {"unborn", "alive", "gone", "seen"}]
        /\ \A q \in Procs : fate[q] # "unborn" => fate'[q] # "unborn"
        /\ \A r \in Requests : request[r].proc \in Procs \cup {0}
    BY <2>0
  <2>1. CASE process = p
    <3>1. /\ request' = Rejected /\ pending' = {}
          /\ process' \in {process, 0}
      BY <1>4, <2>1 DEF ExitSeen, Stopped
    <3>2. \A r \in Requests : /\ request'[r].proc = request[r].proc
                              /\ request'[r].state = "pending" =>
                                   request[r].state = "pending" /\ r \notin pending
      BY <3>1 DEF Rejected
    <3>3. request' \in [Requests -> [state : {"unsent", "pending", "answered", "refused",
                                                     "exited", "timed out"},
                                            proc : Procs \cup {0}]]
      BY <3>1 DEF Rejected
    <3>4. \A r \in Requests : request'[r].state # "pending" \/ request'[r].proc # process
      <4> SUFFICES ASSUME NEW r \in Requests, request'[r].state = "pending",
                          request'[r].proc = process
                   PROVE  FALSE
        OBVIOUS
      <4>1. request[r].state = "pending" /\ request[r].proc = process /\ r \notin pending
        BY <3>2
      <4> QED
        BY <4>1 DEF Found
    <3>5. ClientTypes'
      BY <2>0, <3>1, <3>3
    <3>6. process' # 0 => Spawned(process)'
      BY <2>0, <2>1, <3>1
    <3>7. \A r \in Requests :
            request'[r].state = "pending" => Spawned(request[r].proc)'
      <4> SUFFICES ASSUME NEW r \in Requests, request'[r].state = "pending"
                   PROVE  Spawned(request[r].proc)'
        OBVIOUS
      <4>1. Spawned(request[r].proc) /\ request'[r].proc = request[r].proc
        BY <3>2
      <4>2. fate'[request[r].proc] # "unborn"
        BY <2>2, <4>1
      <4> QED
        BY <4>1, <4>2
    <3>8. Found'
      BY <2>1, <3>1, <3>2, <3>4, <3>7
    <3> QED
      BY <3>2, <3>5, <3>6, <3>7, <3>8
  <2>3. CASE process # p
    <3>1. UNCHANGED <<process, exitError, request, pending>>
      BY <1>4, <2>3 DEF ExitSeen
    <3> QED
      BY <2>0, <2>2, <3>1
  <2> QED
    BY <2>1, <2>3
<1>5. ASSUME NEW p \in Procs, Exits(p)
      PROVE  ClientInv'
  BY <1>5 DEF Exits, clientVars
<1> QED
  BY <1>1, <1>2, <1>3, <1>4, <1>5

(* The steps of a request keep it. *)
LEMMA ClientRequestSteps ==
  ASSUME ClientInv, NEW r \in Requests,
         Send(r) \/ RequestTimesOut(r) \/ Answers(r)
  PROVE  ClientInv'
<1> USE BoundsAssumption DEF ClientInv, ClientTypes, Spawned, Found,
            Procs, Requests
<1>1. CASE Send(r)
  <2>0. UNCHANGED <<process, exitError, fate>>
    BY <1>1 DEF Send
  <2>1. CASE process = 0 \/ exitError # 0
    <3>1. /\ pending' = pending
          /\ request' = [request EXCEPT ![r].state = "refused"]
      BY <1>1, <2>1 DEF Send, Settle
    <3> QED
      BY <2>0, <3>1
  <2>2. CASE ~(process = 0 \/ exitError # 0)
    <3>1. /\ pending' = pending \cup {r}
          /\ request' = [request EXCEPT ![r] = [@ EXCEPT !.state = "pending", !.proc = process]]
      BY <1>1, <2>2 DEF Send
    <3>2. process \in Procs /\ Spawned(process) /\ process # exitError
      BY <2>2
    <3>3. /\ request'[r] = [state |-> "pending", proc |-> process]
          /\ \A q \in Requests \ {r} : request'[q] = request[q]
      BY <3>1
    <3>4. request' \in [Requests -> [state : {"unsent", "pending", "answered", "refused",
                                                     "exited", "timed out"},
                                            proc : Procs \cup {0}]]
      BY <3>1, <3>2
    <3>5. ClientTypes'
      BY <2>0, <3>1, <3>4
    <3>6. \A q \in Requests :
            request'[q].state = "pending" => Spawned(request[q].proc)'
      <4>1. ASSUME NEW q \in Requests, request'[q].state = "pending"
            PROVE  request'[q].proc # 0 /\ fate[request'[q].proc] # "unborn"
        <5>1. CASE q = r
          <6>1. request'[q].proc = process
            BY ONLY <3>3, <5>1
          <6> QED
            BY ONLY <3>2, <6>1 DEF Spawned
        <5>2. CASE q # r
          <6>1. request'[q] = request[q]
            BY <3>3, <5>2
          <6> QED
            BY <4>1, <6>1
        <5> QED
          BY <5>1, <5>2
      <4> QED
        BY <2>0, <4>1
    <3>7. Found'
      BY <2>0, <3>1, <3>2, <3>3
    <3> QED
      BY <2>0, <3>2, <3>5, <3>6, <3>7
  <2> QED
    BY <2>1, <2>2
<1>2. CASE RequestTimesOut(r)
  BY <1>2 DEF RequestTimesOut, Settle, procVars
<1>3. CASE Answers(r)
  BY <1>3 DEF Answers, clientVars
<1> QED
  BY <1>1, <1>2, <1>3

(* So do the lines it reads and the waits. *)
LEMMA ClientLineSteps ==
  ASSUME ClientInv,
         \/ HandleLine \/ Ends
         \/ \E w \in Waiters : Wait(w) \/ WaitTimesOut(w)
         \/ UNCHANGED allVars
  PROVE  ClientInv'
<1> USE BoundsAssumption DEF ClientInv, ClientTypes, Spawned, Found,
            Procs, Requests
<1>1. CASE HandleLine
  <2>0. UNCHANGED <<process, exitError, fate>>
    BY <1>1 DEF HandleLine
  <2>1. CASE UNCHANGED <<pending, request>>
    BY <2>0, <2>1
  <2>2. CASE ~ UNCHANGED <<pending, request>>
    <3> DEFINE r == Head(pipe).id
    <3>1. /\ r \in pending /\ pending' = pending \ {r}
          /\ request' = [request EXCEPT ![r].state = "answered"]
      BY <1>1, <2>2 DEF HandleLine, HandleEnd, HandleResponse, Settle
    <3> HIDE DEF r
    <3> QED
      BY <2>0, <3>1
  <2> QED
    BY <2>1, <2>2
<1>2. CASE Ends
  BY <1>2 DEF Ends, clientVars
<1>3. ASSUME NEW w \in Waiters, Wait(w) \/ WaitTimesOut(w)
      PROVE  ClientInv'
  BY <1>3 DEF Wait, WaitTimesOut, procVars
<1>4. CASE UNCHANGED allVars
  BY <1>4 DEF allVars, clientVars, procVars
<1> QED
  BY <1>1, <1>2, <1>3, <1>4

(* The map is emptied when the client gives a process up, so that the end  *)
(* of a process rejects its own requests only.                             *)
LEMMA ClientOwns ==
  ASSUME ClientInv, Owned, [ClientNext]_allVars
  PROVE  Owned'
<1> USE BoundsAssumption DEF ClientInv, ClientTypes, Spawned, Owned, Procs, Requests
<1>1. CASE Start
  <2> PICK p \in Procs : fate[p] = "unborn" /\ process' = p /\ fate' = [fate EXCEPT ![p] = "alive"]
    BY <1>1 DEF Start
  <2>1. process = 0 /\ UNCHANGED <<pending, request>>
    BY <1>1 DEF Start
  <2>2. pending = {}
    BY <2>1
  <2>3. \A q \in Procs : fate[q] = "seen" => fate'[q] = "seen"
    OBVIOUS
  <2> QED
    BY <2>1, <2>2, <2>3
<1>2. CASE Stop
  BY <1>2 DEF Stop, procVars
<1>3. CASE StopTimesOut
  <2>1. /\ pending' = {} /\ UNCHANGED request
        /\ fate' = [fate EXCEPT ![process] = IF @ = "alive" THEN "gone" ELSE @]
    BY <1>3 DEF StopTimesOut, Stopped
  <2>2. \A q \in Procs : fate[q] = "seen" => fate'[q] = "seen"
    BY <2>1
  <2> QED
    BY <2>1, <2>2
<1>4. ASSUME NEW p \in Procs, ExitSeen(p)
      PROVE  Owned'
  <2>0. fate'[p] = "seen" /\ \A q \in Procs : fate[q] = "seen" => fate'[q] = "seen"
    BY <1>4 DEF ExitSeen
  <2>1. CASE process = p
    <3>1. request' = Rejected /\ pending' = {}
      BY <1>4, <2>1 DEF ExitSeen
    <3>2. \A r \in Requests :
            /\ r \in pending => request'[r].proc = p
            /\ r \notin pending => request'[r] = request[r]
      BY <2>1, <3>1 DEF Rejected
    <3> QED
      BY <2>0, <3>1, <3>2
  <2>2. CASE process # p
    <3>1. UNCHANGED <<process, request, pending>>
      BY <1>4, <2>2 DEF ExitSeen
    <3> QED
      BY <2>0, <3>1
  <2> QED
    BY <2>1, <2>2
<1>5. ASSUME NEW p \in Procs, Exits(p)
      PROVE  Owned'
  <2>1. fate[p] = "alive" /\ fate' = [fate EXCEPT ![p] = "gone"] /\ UNCHANGED <<process, pending, request>>
    BY <1>5 DEF Exits, clientVars
  <2>2. \A q \in Procs : fate[q] = "seen" => fate'[q] = "seen"
    BY <2>1
  <2> QED
    BY <2>1, <2>2
<1>6. ASSUME NEW r \in Requests, Send(r)
      PROVE  Owned'
  <2>1. UNCHANGED <<process, fate>> /\ request[r].state = "unsent"
    BY <1>6 DEF Send
  <2>2. r \notin pending
    BY <2>1
  <2>3. CASE process = 0 \/ exitError # 0
    <3>1. pending' = pending /\ request' = [request EXCEPT ![r].state = "refused"]
      BY <1>6, <2>3 DEF Send, Settle
    <3>2. request'[r].state = "refused" /\ \A q \in Requests \ {r} : request'[q] = request[q]
      BY <3>1
    <3> QED
      BY <2>1, <2>2, <3>1, <3>2
  <2>4. CASE ~(process = 0 \/ exitError # 0)
    <3>1. /\ pending' = pending \cup {r}
          /\ request' = [request EXCEPT ![r] = [@ EXCEPT !.state = "pending", !.proc = process]]
      BY <1>6, <2>4 DEF Send
    <3>2. request \in [Requests -> [state : {"unsent", "pending", "answered", "refused",
                                             "exited", "timed out"},
                                    proc : Procs \cup {0}]]
      OBVIOUS
    <3>3. /\ request'[r] = [state |-> "pending", proc |-> process]
          /\ \A q \in Requests \ {r} : request'[q] = request[q]
      BY ONLY <3>1, <3>2, <1>6
    <3>4. request'[r].state = "pending" /\ request'[r].proc = process
      BY ONLY <3>3
    <3> QED
      BY <2>1, <2>2, <3>1, <3>3, <3>4
  <2> QED
    BY <2>3, <2>4
<1>7. ASSUME NEW r \in Requests, pending' = pending \ {r}, NEW s \in {"answered", "timed out"},
             request' = [request EXCEPT ![r].state = s], UNCHANGED <<process, fate>>
      PROVE  Owned'
  <2>1. /\ request'[r].state = s /\ request'[r].proc = request[r].proc
        /\ \A q \in Requests \ {r} : request'[q] = request[q]
    BY <1>7
  <2> QED
    BY <1>7, <2>1
<1>8. ASSUME NEW r \in Requests, RequestTimesOut(r)
      PROVE  Owned'
  BY <1>7, <1>8 DEF RequestTimesOut, Settle, procVars
<1>9. CASE HandleLine
  <2>1. UNCHANGED <<process, fate>>
    BY <1>9 DEF HandleLine
  <2>2. CASE UNCHANGED <<pending, request>>
    BY <2>1, <2>2
  <2>3. CASE ~ UNCHANGED <<pending, request>>
    <3> DEFINE r == Head(pipe).id
    <3>1. /\ r \in pending /\ pending' = pending \ {r}
          /\ request' = [request EXCEPT ![r].state = "answered"]
      BY <1>9, <2>3 DEF HandleLine, HandleEnd, HandleResponse, Settle
    <3> HIDE DEF r
    <3> QED
      BY <1>7, <2>1, <3>1
  <2> QED
    BY <2>2, <2>3
<1>10. CASE Ends \/ \E r \in Requests : Answers(r)
  BY <1>10 DEF Ends, Answers, clientVars
<1>11. ASSUME NEW w \in Waiters, Wait(w) \/ WaitTimesOut(w)
       PROVE  Owned'
  BY <1>11 DEF Wait, WaitTimesOut, procVars
<1>12. CASE UNCHANGED allVars
  BY <1>12 DEF allVars, clientVars, procVars
<1> QED
  BY <1>1, <1>2, <1>3, <1>4, <1>5, <1>6, <1>8, <1>9, <1>10, <1>11, <1>12 DEF ClientNext

(* send(), handleLine() and the exit of the process: a request to the      *)
(* current process that waits is in pendingRequests, where its response    *)
(* and the exit find it, none waits for a process seen to have ended, and  *)
(* none is rejected for the end of another.                                *)
THEOREM NoRequestForgotten == ClientSpec => []NoneForgotten
<1>1. ClientInit => ClientInv /\ Owned
  BY BoundsAssumption DEF ClientInit, ClientInv, ClientTypes, Spawned, Found, Owned,
                          Procs, Requests
<1>2. ASSUME ClientInv, [ClientNext]_allVars
      PROVE  ClientInv'
  BY <1>2, ClientProcessSteps, ClientRequestSteps, ClientLineSteps DEF ClientNext
<1>3. ClientInv /\ Owned => NoneForgotten
  BY DEF ClientInv, Found, Owned, NoneForgotten
<1>4. ClientInv /\ Owned /\ [ClientNext]_allVars => Owned'
  BY ClientOwns
<1> QED
  BY <1>1, <1>2, <1>3, <1>4, PTL DEF ClientSpec

=============================================================================
