----------------------------- MODULE MCDownload -----------------------------
(* A source that holds two versions of one length, a shorter and an empty one. *)
EXTENDS Download, TLC

CONSTANTS a, b, short, empty

\* Four blocks and one over make uneven parts of a file; the short one is not split.
Sizes == (a :> 5) @@ (b :> 5) @@ (short :> 2) @@ (empty :> 0)

\* A file with no demands, one of a known size, a model with a sum
SomeTasks == { [size |-> 0, sum |-> NoSum, model |-> FALSE],
               [size |-> 5, sum |-> NoSum, model |-> FALSE],
               [size |-> 0, sum |-> a, model |-> TRUE] }
=============================================================================
