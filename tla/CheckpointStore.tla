--------------------------- MODULE CheckpointStore ---------------------------
(***************************************************************************)
(* What one session's checkpoint file promises its user.                   *)
(*                                                                         *)
(* file is the checkpoint a reader opening checkpoint.json now would get;  *)
(* survivors is every checkpoint a power loss may leave in its place.  A   *)
(* save that returns nil leaves its own checkpoint as the only survivor; a *)
(* save that fails either changed nothing or renamed the new file in place *)
(* without making the rename durable.                                      *)
(***************************************************************************)

CONSTANT Checkpoint

VARIABLES file, survivors

vars == <<file, survivors>>

Outcome == {"saved", "unchanged", "unsynced"}

TypeOK == file \in Checkpoint /\ survivors \subseteq Checkpoint

Init == /\ file \in Checkpoint
        /\ survivors = {file}

Save(cp, outcome) ==
    \/ /\ outcome = "saved"
       /\ file' = cp /\ survivors' = {cp}
    \/ /\ outcome = "unsynced"
       /\ file' = cp /\ survivors' = survivors \cup {cp}
    \/ /\ outcome = "unchanged"
       /\ UNCHANGED vars

PowerLoss == \E cp \in survivors : file' = cp /\ survivors' = {cp}

\* file' names the checkpoint that was saved, so that the step can be checked
\* without enumerating Checkpoint.
Next == \/ /\ file' \in Checkpoint
           /\ \E outcome \in Outcome : Save(file', outcome)
        \/ PowerLoss

Spec == Init /\ [][Next]_vars

=============================================================================
