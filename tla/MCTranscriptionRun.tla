------------------------- MODULE MCTranscriptionRun -------------------------
(***************************************************************************)
(* The instance of TranscriptionRun that TLC checks: the behaviours of two *)
(* families.  In "restarts" invocations of every command follow each       *)
(* other, killed or not, and the recording is replaced; in "beside" two    *)
(* invocations of transcribe at a time meet over one directory, and the    *)
(* service fails for good or not at all.                                   *)
(***************************************************************************)
EXTENDS TranscriptionRun

CONSTANTS p1, p2
VARIABLE family

Within ==
  CASE family = "restarts" -> At(p2, "off")'
    [] family = "beside" ->
         /\ used'.run <= 3 /\ used'.crash <= 1 /\ used'.edit = 0
         /\ \A p \in Active' : proc'[p].cmd = "transcribe" /\ ~proc'[p].transient

MCInit == Init /\ family \in {"restarts", "beside"}
MCNext == Next /\ Within /\ UNCHANGED family
MCSpec == MCInit /\ [][MCNext]_<<vars, family>> /\ Fairness
=============================================================================
