----------------------------- MODULE MCHarness -----------------------------
(***************************************************************************)
(* ParityRuns for TLC, one scene at a time: two comparisons of an area with *)
(* a case that needs the machine; and a comparison that decides the gate    *)
(* beside a capture, with cases that are pending or of another platform.    *)
(* A scene says which runs are started, and with which cases.               *)
(***************************************************************************)
EXTENDS ParityRuns, TLC

CONSTANTS
    r1, r2, r3,         \* runs
    p1, p2, e1, u1      \* cases

VARIABLE scene

allVars == <<scene, vars>>

Modes == (r1 :> "compare") @@ (r2 :> "compare") @@ (r3 :> "capture")

\* The two runs of one kind are interchangeable.
Interchangeable == Permutations({r1, r2})

\* A run is refused, or it has these cases and scopes.
Starts(r, selections, scopes) ==
    run[r].selected # {} => run[r].selected \in selections /\ run[r].scope \in scopes

Idle(r) == run[r].pc = "idle"

Within ==
    \/ scene = "machine" /\ Idle(r3) /\ \A r \in {r1, r2} : Starts(r, {{e1}, {p1, e1}}, {"area"})
    \/ scene = "gate" /\ Idle(r3) /\ \E r \in {r1, r2} : Idle(r)
    \/ scene = "capture" /\ (\E r \in {r1, r2} : Idle(r)) /\ \A r \in {r1, r2} : Starts(r, {{p1}}, {"area"})

SceneInit == Init /\ scene \in {"machine", "gate", "capture"}

\* Nothing stops before the runs have ended and their candidates with them: every
\* other state without a step is a deadlock.
Quiet ==
    /\ alive = {} /\ \A r \in Runs : run[r].pc \in {"idle", "ended"}
    /\ UNCHANGED allVars

SceneNext == (UNCHANGED scene /\ Next /\ Within') \/ Quiet

SceneSpec == SceneInit /\ [][SceneNext]_allVars

=============================================================================
