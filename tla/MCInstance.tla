----------------------------- MODULE MCInstance -----------------------------
(* Two containers with a disk, one of them behind a tunnel, and nothing at all. *)
EXTENDS Instance

CONSTANTS h1, h2

SomeWishes == { [cont |-> h1, disk |-> TRUE, tunnel |-> TRUE, del |-> FALSE],
                [cont |-> h2, disk |-> TRUE, tunnel |-> FALSE, del |-> FALSE],
                [cont |-> None, disk |-> FALSE, tunnel |-> FALSE, del |-> FALSE] }
=============================================================================
