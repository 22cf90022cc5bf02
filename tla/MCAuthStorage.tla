---------------------------- MODULE MCAuthStorage ----------------------------
(***************************************************************************)
(* The instance of AuthStorage that TLC checks: two instances, and the     *)
(* behaviours of two families.  In "timely" the file is there, three calls *)
(* find the token expired, and providers answer before a lock is taken for *)
(* stale; in "late" they may not, and the file may be missing.             *)
(***************************************************************************)
EXTENDS AuthStorage, TLC

CONSTANTS i1, i2, c1, c2, c3
VARIABLE family

Both == {i1, i2}
AllCalls == {c1, c2, c3}
Owners == (c1 :> i1) @@ (c2 :> i1) @@ (c3 :> i2)

MCInit ==
  /\ Init
  /\ family \in {"timely", "late"}
  /\ family = "timely" => file = First
Events == used'.set + used'.expiry + used'.failure + used'.lost + used'.crash
InFamily ==
  CASE family = "timely" -> ~late' /\ Events <= 3
    [] family = "late" -> call'[c2] = NoCall /\ Events <= 2
MCNext == Next /\ InFamily /\ UNCHANGED family
MCSpec == MCInit /\ [][MCNext]_<<vars, family>> /\ Fairness
==============================================================================
