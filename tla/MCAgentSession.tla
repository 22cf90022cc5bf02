-------------------------- MODULE MCAgentSession --------------------------
(***************************************************************************)
(* The instance of AgentSession that TLC checks: the behaviours of five    *)
(* families.  In "retries" responses fail in every way and there is one    *)
(* call of prompt(); in "waits" a second is made while the first waits to  *)
(* try again.  In the others no response fails.  In "beside" two calls     *)
(* overlap with a tool call, a bash result, an abort and a compaction by   *)
(* the user; in "compactions" with two of those and responses that fill    *)
(* the window.  In "overlap" three compactions by the user overlap beside  *)
(* one prompt.                                                             *)
(***************************************************************************)
EXTENDS AgentSession

CONSTANTS p1, p2
VARIABLE family

Never(stop) == \A i \in DOMAIN messages' :
                 IsResponse(messages'[i]) => messages'[i].stop # stop
Made == Cardinality({c \in Compacts : manual'[c] # "new"})
Beside == used'.call + used'.bash + used'.abort

Within ==
  CASE family = "retries" -> at'[p2] = "new" /\ Beside = 0 /\ Made + used'.steer <= 1
    [] family = "waits" ->
         Never("full") /\ Never("overflow") /\ Beside + used'.steer <= 2 /\ Made = 0
    [] family = "beside" -> failures' = 0 /\ used'.steer = 0 /\ Never("full") /\ Made <= 1
    [] family = "compactions" -> failures' = 0 /\ used'.steer = 0 /\ Beside + Made <= 2
    [] family = "overlap" ->
         failures' = 0 /\ used'.steer = 0 /\ Beside <= 1 /\ at'[p2] = "new"

MCInit == Init /\ family \in {"retries", "waits", "beside", "compactions", "overlap"}
MCNext == Next /\ Within /\ UNCHANGED family
MCSpec == MCInit /\ [][MCNext]_<<vars, family>> /\ Fairness
==============================================================================
