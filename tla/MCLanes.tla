------------------------------ MODULE MCLanes ------------------------------
(***************************************************************************)
(* What is published by a rename, for TLC, one scene at a time: the         *)
(* checkpoint of a session, in the variables of SessionStore; and Lanes     *)
(* with a lane, one made from it and one made from that, with two jobs and  *)
(* runs over the budget, and with damaged files.                            *)
(***************************************************************************)
EXTENDS SessionStore, Lanes, TLC

CONSTANTS a, b, l1, l2, l3, m1, m2, j1, j2, r1, r2, n1, n2, o1, o2

VARIABLE scene

allVars == <<scene, vars, laneVars>>

\* The two observers differ in what they make of one run.
Normalizations(runs) ==
    [o \in {o1, o2} |-> [r \in runs \cup {Prefix} |-> IF o = o2 /\ r = r2 THEN n2 ELSE n1]]
MCNormal == Normalizations({r1, r2})

\* The scenes are Lanes with fewer lanes, jobs and runs than the constants say.
Chain == INSTANCE Lanes WITH
    Lanes <- {l1, l2, l3}, Jobs <- {j1}, Raws <- {r2}, OverBudget <- {},
    Normal <- Normalizations({r2}), MaxEdits <- 1, MaxDamage <- 0

Race == INSTANCE Lanes WITH
    Lanes <- {m1, m2}, MaxEdits <- 0, MaxDamage <- 0

Harmed == INSTANCE Lanes WITH
    Lanes <- {m1, m2}, Jobs <- {j1}, Raws <- {r2}, OverBudget <- {},
    Normal <- Normalizations({r2}), MaxEdits <- 1, MaxDamage <- 1

ASSUME Chain!LanesAssumption /\ Race!LanesAssumption /\ Harmed!LanesAssumption

Interchangeable == Permutations({a, b}) \cup Permutations({l1, l2, l3}) \cup Permutations({m1, m2})

\* A machine without the suite.
NoLanes ==
    /\ observer = o1 /\ declared = [c \in Cases |-> "absent"] /\ capture = [c \in Cases |-> None]
    /\ lane = <<>> /\ job = <<>> /\ truth = <<>> /\ origin = <<>> /\ edits = 0 /\ damage = 0

SceneInit ==
    /\ Init
    /\ \/ scene = "session" /\ NoLanes
       \/ scene = "chain" /\ Chain!LanesInit
       \/ scene = "race" /\ Race!LanesInit
       \/ scene = "damaged" /\ Harmed!LanesInit

SessionStep == scene = "session" /\ Next /\ UNCHANGED <<scene, laneVars>>
ChainStep == scene = "chain" /\ Chain!LanesNext /\ UNCHANGED <<scene, vars>>
RaceStep == scene = "race" /\ Race!LanesNext /\ UNCHANGED <<scene, vars>>
DamagedStep == scene = "damaged" /\ Harmed!LanesNext /\ UNCHANGED <<scene, vars>>

SceneNext == SessionStep \/ ChainStep \/ RaceStep \/ DamagedStep

SceneSpec == SceneInit /\ [][SceneNext]_allVars

=============================================================================
