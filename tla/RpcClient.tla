----------------------------- MODULE RpcClient -----------------------------
(***************************************************************************)
(* The client of the RPC mode (rpc-client.ts): it spawns the agent, sends  *)
(* commands with an id each, matches the lines it reads with the requests  *)
(* that wait, hands everything else to its event listeners, and ends every *)
(* wait by a timer at the latest.  The process is external: it answers the *)
(* commands it has read in any order, each once (RpcMode, AnsweredOnce),   *)
(* emits agent_end, and may exit at any time.  No name is one of RpcMode,  *)
(* so that a module can extend both ends.                                  *)
(***************************************************************************)
EXTENDS Integers, Sequences, SequencesExt

CONSTANTS
  MaxRequests,  \* bound: calls of send()
  MaxWaiters,   \* bound: calls of waitForIdle() or collectEvents()
  MaxStarts,    \* bound: processes spawned
  MaxEnds       \* bound: agent_end events of one process

ASSUME BoundsAssumption ==
  /\ MaxRequests \in Nat \ {0} /\ MaxWaiters \in Nat
  /\ MaxStarts \in Nat \ {0} /\ MaxEnds \in Nat

Requests == 1..MaxRequests
Waiters == 1..MaxWaiters
Procs == 1..MaxStarts

VARIABLES
  process,    \* the process spawned last, 0 when stopped
  exitError,  \* the process whose end was seen, 0 for none
  stopping,   \* stop() waits for the exit
  reading,    \* the process whose output is read, 0 when detached
  pending,    \* the keys of pendingRequests
  request,    \* the promise of each request, and the process it was sent to
  eventListeners, \* the waits that are subscribed
  waiter,     \* the promise of each wait
  fate,       \* of each process: "unborn", "alive", "gone", or "seen" once
              \* its exit event has fired
  inbox,      \* external: commands the current process has not answered
  pipe,       \* lines the current process has written
  ends        \* external: agent_end events the current process has emitted

clientVars == <<process, exitError, stopping, reading, pending, request, eventListeners, waiter>>
procVars == <<fate, inbox, pipe, ends>>
allVars == <<clientVars, procVars>>

EndLine == [type |-> "agent_end", id |-> 0]
AnswerLine(r) == [type |-> "response", id |-> r]
ClientLines == {EndLine} \cup {AnswerLine(r) : r \in Requests}

ClientTypeOK ==
  /\ process \in Procs \cup {0} /\ exitError \in Procs \cup {0}
  /\ reading \in {0, process} /\ stopping \in BOOLEAN
  /\ pending \subseteq Requests
  /\ request \in [Requests -> [state : {"unsent", "pending", "answered", "refused",
                                        "exited", "timed out"},
                               proc : Procs \cup {0}]]
  /\ eventListeners \in Seq(Waiters)
  /\ waiter \in [Waiters -> {"none", "waiting", "resolved", "timed out"}]
  /\ fate \in [Procs -> {"unborn", "alive", "gone", "seen"}]
  /\ inbox \subseteq Requests /\ pipe \in Seq(ClientLines) /\ ends \in 0..MaxEnds

ClientInit ==
  /\ process = 0 /\ exitError = 0 /\ stopping = FALSE /\ reading = 0
  /\ pending = {} /\ eventListeners = <<>>
  /\ request = [r \in Requests |-> [state |-> "unsent", proc |-> 0]]
  /\ waiter = [w \in Waiters |-> "none"]
  /\ fate = [p \in Procs |-> "unborn"] /\ inbox = {} /\ pipe = <<>> /\ ends = 0

-----------------------------------------------------------------------------
(* Start and stop                                                          *)

Start ==
  /\ process = 0
  /\ \E p \in Procs :
       /\ fate[p] = "unborn" /\ \A q \in 1..(p - 1) : fate[q] # "unborn"
       /\ process' = p /\ reading' = p
       /\ fate' = [fate EXCEPT ![p] = "alive"]
  /\ exitError' = 0
  /\ inbox' = {} /\ pipe' = <<>> /\ ends' = 0
  /\ UNCHANGED <<stopping, pending, request, eventListeners, waiter>>

(* stop() up to its await.  One call at a time. *)
Stop ==
  /\ process # 0 /\ ~stopping
  /\ stopping' = TRUE /\ reading' = 0
  /\ UNCHANGED <<process, exitError, pending, request, eventListeners, waiter, procVars>>

(* stop() after its await *)
Stopped ==
  /\ stopping' = FALSE /\ process' = 0

(* The process has not gone within a second. *)
StopTimesOut ==
  /\ stopping
  /\ Stopped /\ pending' = {}
  /\ fate' = [fate EXCEPT ![process] = IF @ = "alive" THEN "gone" ELSE @]
  /\ UNCHANGED <<exitError, reading, request, eventListeners, waiter, inbox, pipe, ends>>

(* rejectPendingRequests(error) *)
Rejected ==
  [r \in Requests |-> IF r \in pending
                      THEN [request[r] EXCEPT !.state = "exited"]
                      ELSE request[r]]

(* Mutant: a process that is no longer the client's is not ignored. *)
ExitSeenLate(p) ==
  /\ fate[p] = "gone"
  /\ fate' = [fate EXCEPT ![p] = "seen"]
  /\ exitError' = p
  /\ request' = Rejected /\ pending' = {}
  /\ IF stopping THEN Stopped ELSE UNCHANGED <<process, stopping>>
  /\ UNCHANGED <<reading, eventListeners, waiter, inbox, pipe, ends>>

(* The exit of p is seen: its exit or error event, or an error of its      *)
(* standard input.  A process that is no longer the client's is ignored.   *)
ExitSeen(p) ==
  /\ fate[p] = "gone"
  /\ fate' = [fate EXCEPT ![p] = "seen"]
  /\ IF process = p
     THEN /\ exitError' = p
          /\ request' = Rejected /\ pending' = {}
          /\ IF stopping THEN Stopped ELSE UNCHANGED <<process, stopping>>
     ELSE UNCHANGED <<process, stopping, exitError, request, pending>>
  /\ UNCHANGED <<reading, eventListeners, waiter, inbox, pipe, ends>>

-----------------------------------------------------------------------------
(* Requests                                                                *)

Settle(r, state) == request' = [request EXCEPT ![r].state = state]

Send(r) ==
  /\ request[r].state = "unsent" /\ \A q \in 1..(r - 1) : request[q].state # "unsent"
  /\ IF process = 0 \/ exitError # 0
     THEN /\ Settle(r, "refused")
          /\ UNCHANGED <<pending, inbox>>
     ELSE /\ request' = [request EXCEPT ![r] = [@ EXCEPT !.state = "pending", !.proc = process]]
          /\ pending' = pending \cup {r}
          /\ inbox' = IF fate[process] = "alive" THEN inbox \cup {r} ELSE inbox
  /\ UNCHANGED <<process, exitError, stopping, reading, eventListeners, waiter,
                 fate, pipe, ends>>

(* The timer of a request: set with it, cleared when it is settled. *)
RequestTimesOut(r) ==
  /\ request[r].state = "pending"
  /\ pending' = pending \ {r}
  /\ Settle(r, "timed out")
  /\ UNCHANGED <<process, exitError, stopping, reading, eventListeners, waiter, procVars>>

-----------------------------------------------------------------------------
(* Events                                                                  *)

(* waitForIdle(), collectEvents() *)
Wait(w) ==
  /\ waiter[w] = "none" /\ \A v \in 1..(w - 1) : waiter[v] # "none"
  /\ waiter' = [waiter EXCEPT ![w] = "waiting"]
  /\ eventListeners' = Append(eventListeners, w)
  /\ UNCHANGED <<process, exitError, stopping, reading, pending, request, procVars>>

WaitTimesOut(w) ==
  /\ waiter[w] = "waiting"
  /\ waiter' = [waiter EXCEPT ![w] = "timed out"]
  /\ eventListeners' = SelectSeq(eventListeners, LAMBDA v : v # w)
  /\ UNCHANGED <<process, exitError, stopping, reading, pending, request, procVars>>

(* The loop over eventListeners on agent_end: each listener it reaches     *)
(* takes itself out of the list, and the loop goes on by position.         *)
Loop(ls) ==
  FoldLeft(LAMBDA s, l : IF s.at > Len(s.left) THEN s
                         ELSE [at |-> s.at + 1, left |-> RemoveAt(s.left, s.at),
                               heard |-> s.heard \cup {s.left[s.at]}],
           [at |-> 1, left |-> ls, heard |-> {}], ls)

(* handleLine *)
HandleResponse(r) ==
  /\ IF r \in pending
     THEN /\ pending' = pending \ {r}
          /\ Settle(r, "answered")
     ELSE UNCHANGED <<pending, request>>
  /\ UNCHANGED <<eventListeners, waiter>>

HandleEnd ==
  /\ eventListeners' = Loop(eventListeners).left
  /\ waiter' = [w \in Waiters |->
       IF w \in Loop(eventListeners).heard THEN "resolved" ELSE waiter[w]]
  /\ UNCHANGED <<pending, request>>

HandleLine ==
  /\ reading # 0 /\ pipe # <<>>
  /\ pipe' = Tail(pipe)
  /\ IF Head(pipe) = EndLine THEN HandleEnd ELSE HandleResponse(Head(pipe).id)
  /\ UNCHANGED <<process, exitError, stopping, reading, fate, inbox, ends>>

-----------------------------------------------------------------------------
(* The process                                                             *)

Answers(r) ==
  /\ process # 0 /\ fate[process] = "alive" /\ r \in inbox
  /\ inbox' = inbox \ {r}
  /\ pipe' = Append(pipe, AnswerLine(r))
  /\ UNCHANGED <<clientVars, fate, ends>>

Ends ==
  /\ process # 0 /\ fate[process] = "alive" /\ ends < MaxEnds
  /\ ends' = ends + 1
  /\ pipe' = Append(pipe, EndLine)
  /\ UNCHANGED <<clientVars, fate, inbox>>

Exits(p) ==
  /\ fate[p] = "alive"
  /\ fate' = [fate EXCEPT ![p] = "gone"]
  /\ UNCHANGED <<clientVars, inbox, pipe, ends>>

ClientNext ==
  \/ Start \/ Stop \/ StopTimesOut \/ HandleLine \/ Ends
  \/ \E p \in Procs : ExitSeen(p) \/ Exits(p)
  \/ \E r \in Requests : Send(r) \/ RequestTimesOut(r) \/ Answers(r)
  \/ \E w \in Waiters : Wait(w) \/ WaitTimesOut(w)

ClientSpec == ClientInit /\ [][ClientNext]_allVars

-----------------------------------------------------------------------------
(* A request to the current process that waits is found by its response,   *)
(* and goes on waiting only until the end of the process is seen.  It is   *)
(* rejected for the end of the process it was sent to, and of no other     *)
(* that was given up by stop() and goes late (rpc-client.ts:104-123).      *)
NoneForgotten ==
  \A r \in Requests :
    /\ request[r].state = "pending" /\ request[r].proc = process
         => r \in pending /\ process # exitError
    /\ request[r].state = "exited" => fate[request[r].proc] = "seen"
=============================================================================
