------------------------------ MODULE MCContent ------------------------------
(***************************************************************************)
(* Content on a small instance: a model, the same model in another version *)
(* with a workspace file beside it, and a repository that the archive of   *)
(* the workspace also holds.                                               *)
(***************************************************************************)
EXTENDS Content, TLC

CONSTANTS f, m, r, v1, v2

PlanOrder == <<f, m, r>>
AllSpecs == {(m :> v1), (f :> v1) @@ (m :> v2), (r :> v1)}
RepoOnly == {(r :> v1)}
=============================================================================
