--------------------------- MODULE MCModelStream ---------------------------
(***************************************************************************)
(* The instance of ModelStream that TLC checks, with bounds for each way a *)
(* response takes: on first use of a provider two deltas and both readers, *)
(* then three deltas of text and two tool calls that interleave, and over  *)
(* the proxy up to two lines at a time.                                    *)
(***************************************************************************)
EXTENDS ModelStream

CONSTANTS c1, c2

Within ==
  CASE route = "lazy" -> Len(sent') <= 2 /\ Len(wire') <= 1 /\ Range(sent') \subseteq {"text", c1}
    [] route = "direct" -> mode = "loop" /\ Len(wire') <= 1 /\ "thinking" \notin Range(sent')
    [] route = "proxy" -> mode = "loop" /\ Len(sent') <= 2

MCNext == Next /\ Within
MCSpec == Init /\ [][MCNext]_vars /\ Fairness
=============================================================================
