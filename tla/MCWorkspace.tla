----------------------------- MODULE MCWorkspace -----------------------------
(***************************************************************************)
(* Workspace on small instances: one archive that does not change once the *)
(* backend has named it, or archives that change under a running restore.  *)
(***************************************************************************)
EXTENDS Workspace, TLC

\* The backend waits for an archive, then names it, or says there is none.
SettledMoves == {<<"pending", w>> : w \in Keys \cup {"clean"}}

\* It may also name another archive later.
ChangingMoves == SettledMoves \cup (Keys \X Keys)

\* Archives are told apart by identity only.
Symmetry == Permutations(Keys)
=============================================================================
