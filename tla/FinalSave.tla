------------------------------ MODULE FinalSave ------------------------------
(***************************************************************************)
(* What the end of an instance promises about its workspace, whatever      *)
(* crashes, retries and goroutines it takes: work goes on and copies are   *)
(* taken until the final archive is there; that archive is the work, which *)
(* no longer changes; and the save has at most one outcome, which is only  *)
(* "saved" when the archive is there.                                      *)
(***************************************************************************)
CONSTANTS Snaps, NoSnap

VARIABLES work, stored, kept, verdict

fsvars == <<work, stored, kept, verdict>>

Init == work \in Snaps /\ stored = NoSnap /\ kept = NoSnap /\ verdict = "nil"

\* Restores and users change the workspace.
Work == stored = NoSnap /\ work' \in Snaps /\ UNCHANGED <<stored, kept, verdict>>

\* A copy of the workspace is taken while it is in use.
Checkpoint ==
  /\ stored = NoSnap /\ verdict = "nil"
  /\ kept' \in Snaps /\ UNCHANGED <<work, stored, verdict>>

\* The final archive is there; it may be sent again.
Store == verdict = "nil" /\ stored' = work /\ UNCHANGED <<work, kept, verdict>>

Conclude ==
  /\ verdict = "nil"
  /\ verdict' \in {"saved", "save_skipped", "save_failed"}
  /\ verdict' = "saved" => stored = work
  /\ UNCHANGED <<work, stored, kept>>

Next == Work \/ Checkpoint \/ Store \/ Conclude

Spec == Init /\ [][Next]_fsvars
=============================================================================
