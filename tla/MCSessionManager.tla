-------------------------- MODULE MCSessionManager --------------------------
(***************************************************************************)
(* The instance of SessionManager that TLC checks: the behaviours of three *)
(* families.  In "tree" four entries meet forks, moves of the leaf and     *)
(* branch summaries; in "turns" six entries of turns with tools are        *)
(* compacted, twice; in "failures" a write fails on the way to the file,   *)
(* among four entries, or three where one is a label.                      *)
(***************************************************************************)
EXTENDS SessionManager

VARIABLE family

HasKinds(kinds) == \A i \in DOMAIN entries' : entries'[i].kind \in kinds \union {"compaction"}

\* These end a compaction under way, and give what they give without it.
StartsAnew == ~prep.on /\ (Reopen \/ NewSession)
Forked == ~prep.on /\ Fork

InTree ==
  /\ faults' = 0
  /\ \/ AppendKind \/ AppendLabel \/ Navigate \/ NavigateWithSummary
     \/ PrepareCompaction \/ AppendCompaction \/ AbandonCompaction
     \/ StartsAnew \/ Forked
  /\ created' <= 4
  /\ HasKinds(Kinds \ {"toolResult"})

InTurns ==
  /\ faults' = 0
  /\ \/ AppendKind \/ PrepareCompaction \/ AppendCompaction \/ AbandonCompaction
     \/ StartsAnew
     \/ ~prep.on /\ Navigate
  /\ HasKinds({"user", "assistant", "toolResult"})

InFailures ==
  /\ \/ AppendKind \/ AppendLabel \/ Navigate
     \/ PrepareCompaction \/ AppendCompaction
     \/ StartsAnew \/ Forked \/ ForkOfUnreadable
  /\ created' <= IF HasKinds({"user", "assistant"}) THEN 4 ELSE 3
  /\ HasKinds({"user", "assistant", "label"})

MCInit == Init /\ family \in {"tree", "turns", "failures"}
MCNext ==
  /\ \/ family = "tree" /\ InTree
     \/ family = "turns" /\ InTurns
     \/ family = "failures" /\ InFailures
  /\ UNCHANGED family
MCSpec == MCInit /\ [][MCNext]_<<vars, family>>
=============================================================================
