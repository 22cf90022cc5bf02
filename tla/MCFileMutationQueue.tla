------------------------ MODULE MCFileMutationQueue ------------------------
(***************************************************************************)
(* Instances of FileMutationQueue for TLC: two edits and a write of the    *)
(* file "a" and one write of another file "b"; "link" is a path to "a"     *)
(* through a symbolic link.                                                *)
(***************************************************************************)
EXTENDS FileMutationQueue, TLC

CONSTANTS e1, e2, w1, w2

AllOps == {e1, e2, w1, w2}
TwoEdits == {e1, e2}
AllPaths == {"a", "link", "b"}
Canonical == [p \in AllPaths |-> IF p = "link" THEN "a" ELSE p]

\* One edit reaches the file through the link.
Aliased == (e1 :> "a") @@ (e2 :> "link") @@ (w1 :> "a") @@ (w2 :> "b")

OnlyA == {"a"}
OnlyB == {"b"}
==============================================================================
