---------------------------- MODULE MCAgentLoop ----------------------------
(***************************************************************************)
(* The instance of AgentLoop that TLC checks: the behaviours of three      *)
(* families.  In "tools" the first response has up to three calls; in      *)
(* "messages" and "failures" there are two turns of one call each, and     *)
(* more messages, or more listeners and model calls that throw.            *)
(***************************************************************************)
EXTENDS AgentLoop

VARIABLE family

\* a response with calls, or one that is taken off to be asked for again
OneMoreTurn == \/ turn' > turn /\ pc # "failing" /\ called' > 0
               \/ Len(messages') < Len(messages)

Within ==
  CASE family = "tools" -> sent' <= 2 /\ faults' <= 1 /\ (OneMoreTurn => turn = 0)
    [] family = "messages" -> called' <= 1 /\ faults' <= 1
    [] family = "failures" -> called' <= 1 /\ sent' <= 2

MCInit == Init /\ family \in {"tools", "messages", "failures"}
MCNext == Next /\ Within /\ UNCHANGED family
MCSpec == MCInit /\ [][MCNext]_<<vars, family>> /\ Fairness
==============================================================================
