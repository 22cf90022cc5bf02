----------------------------- MODULE MCRpcMode -----------------------------
(***************************************************************************)
(* The instance of RpcMode that TLC checks: the behaviours of three        *)
(* families.  In "pipelined" and "patient" three commands are sent and     *)
(* nobody asks for the end; in "shutdown" two are, and an extension,       *)
(* standard input or a signal may end the server at any point.             *)
(***************************************************************************)
EXTENDS RpcMode

VARIABLE family

Sent(kinds, n) ==
  \A j \in Jobs : job'[j].at # "unsent" => job'[j].kind \in kinds /\ j <= n
StaysUp == ~wanted' /\ quit' = "no"

Within ==
  CASE family = "pipelined" -> Sent({"prompt", "queue", "call", "replace"}, 3) /\ StaysUp
    [] family = "patient" -> Sent({"prompt", "ask", "abort", "replace"}, 3) /\ StaysUp
    [] family = "shutdown" -> Sent(Kinds \ {"queue"}, 2)

MCInit ==
  /\ Init
  /\ family \in {"pipelined", "patient", "shutdown"}
  /\ patient = (family = "patient")
MCNext == Next /\ Within /\ UNCHANGED family
MCSpec == MCInit /\ [][MCNext]_<<vars, family>> /\ Fairness
=============================================================================
