------------------------------ MODULE MCRunLoop ------------------------------
(***************************************************************************)
(* RunLoop for TLC, one scene at a time: a run of a write and a command in  *)
(* a process that crashes; inputs that wait for compactions; summaries made *)
(* inside a run; and a disk that works again after a checkpoint has failed. *)
(* The first scene has the module's own variables, the others share a copy. *)
(***************************************************************************)
EXTENDS RunLoop, TLC

CONSTANTS w, x, m

VARIABLES scene, file2, survivors2, pc2, s2, run2, batch2, failed2, inputs2, crashes2, started2

second == <<file2, survivors2, pc2, s2, run2, batch2, failed2, inputs2, crashes2, started2>>
allVars == <<scene, vars, second>>

\* A file write and a command; in the last scene the command's place is taken
\* by calls that name no tool.
ToolKinds == [c \in CallId |-> IF c = w THEN "write" ELSE "exec"]

CompactRuns == INSTANCE RunLoop WITH
    file <- file2, survivors <- survivors2, pc <- pc2, s <- s2, run <- run2, batch <- batch2,
    failed <- failed2, inputs <- inputs2, crashes <- crashes2, started <- started2,
    CallId <- {w}, Kind <- (w :> "write"), MaxSteps <- 0, MaxToolCalls <- 0, InRunCompact <- FALSE,
    DiskRecovers <- FALSE, MaxBatch <- 1, MaxInputs <- 3, MaxCrashes <- 2

SummaryRuns == INSTANCE RunLoop WITH
    file <- file2, survivors <- survivors2, pc <- pc2, s <- s2, run <- run2, batch <- batch2,
    failed <- failed2, inputs <- inputs2, crashes <- crashes2, started <- started2,
    CallId <- {w, x}, Kind <- (w :> "write" @@ x :> "exec"), MaxSteps <- 6, MaxToolCalls <- 0,
    InRunCompact <- TRUE, DiskRecovers <- FALSE, MaxBatch <- 1, MaxInputs <- 2, MaxCrashes <- 1

DiskRuns == INSTANCE RunLoop WITH
    file <- file2, survivors <- survivors2, pc <- pc2, s <- s2, run <- run2, batch <- batch2,
    failed <- failed2, inputs <- inputs2, crashes <- crashes2, started <- started2,
    CallId <- {w, x, m}, Kind <- (w :> "write" @@ x :> "missing" @@ m :> "missing"), MaxSteps <- 2,
    MaxToolCalls <- 2, InRunCompact <- FALSE, DiskRecovers <- TRUE, MaxBatch <- 2, MaxInputs <- 2,
    MaxCrashes <- 1

ASSUME
    CompactRuns!ParameterAssumption /\ SummaryRuns!ParameterAssumption /\ DiskRuns!ParameterAssumption

NoSecond ==
    /\ file2 = 0 /\ survivors2 = 0 /\ pc2 = 0 /\ s2 = 0 /\ run2 = 0 /\ batch2 = 0 /\ failed2 = 0
    /\ inputs2 = 0 /\ crashes2 = 0 /\ started2 = 0

SceneInit ==
    /\ Init
    /\ \/ scene = "run" /\ NoSecond
       \/ scene = "compaction" /\ CompactRuns!Init
       \/ scene = "summaries" /\ SummaryRuns!Init
       \/ scene = "disk" /\ DiskRuns!Init

RunStep == scene = "run" /\ Next /\ UNCHANGED <<scene, second>>
CompactionStep == scene = "compaction" /\ CompactRuns!Next /\ UNCHANGED <<scene, vars>>
SummariesStep == scene = "summaries" /\ SummaryRuns!Next /\ UNCHANGED <<scene, vars>>
DiskStep == scene = "disk" /\ DiskRuns!Next /\ UNCHANGED <<scene, vars>>

SceneNext == RunStep \/ CompactionStep \/ SummariesStep \/ DiskStep

SceneSpec == SceneInit /\ [][SceneNext]_allVars

-----------------------------------------------------------------------------
(* Properties, beside those of RunLoop for the first scene.                *)

\* An input waits for its compaction and is submitted once; summaries count
\* against the budgets and leave no call open; and a disk that works again has
\* forgotten no execution.
VariantsHold ==
    /\ scene = "compaction" => CompactRuns!AtMostOnce /\ CompactRuns!SubmittedOnce
    /\ scene = "summaries" => SummaryRuns!TypeOK /\ SummaryRuns!WithinBudget /\ SummaryRuns!RequestsSettled
    /\ scene = "disk" => DiskRuns!ExecutionsRemembered /\ DiskRuns!Barrier /\ DiskRuns!NoFalseDenial
                                      /\ DiskRuns!WithinBudget

\* The documents' claim for a disk that works again: the checkpoint it leaves
\* is one that can be resumed.
DiskLeavesCheckpoint == scene = "disk" => DiskRuns!CheckpointLoads
=============================================================================
