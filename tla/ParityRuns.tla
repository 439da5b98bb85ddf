----------------------------- MODULE ParityRuns -----------------------------
(***************************************************************************)
(* The parity runs of one machine: parity/run.py (_main, schedule_cases,   *)
(* run_case, execute_case) with the locks of parity/capture_lock.py.  Each *)
(* run executes its cases in a pool of worker processes, first those that  *)
(* share the machine and then, one by one, those that need it alone; the   *)
(* workers of all runs meet at one workload lock.  What a case itself does *)
(* is in CaseProcesses, what it is compared with in ReferenceCache.        *)
(***************************************************************************)
EXTENDS Naturals, FiniteSets

CONSTANTS
    Runs,
    Mode,         \* per run: "compare", "probe" or "capture"
    Cases,
    Exclusive,    \* cases that need the machine alone
    Pending,      \* cases that wait for something undone
    Unavailable,  \* cases of other platforms
    Jobs,         \* workers in the parallel phase
    Scopes,       \* bound: scopes that runs are started with
    MaxDeaths     \* bound: workers that die

ASSUME ParityRunsAssumption ==
    /\ Mode \in [Runs -> {"compare", "probe", "capture"}]
    /\ IsFiniteSet(Cases) /\ Exclusive \cup Pending \cup Unavailable \subseteq Cases
    /\ Scopes \subseteq {"full", "area", "selection"}
    /\ Jobs \in Nat \ {0} /\ MaxDeaths \in Nat

VARIABLES
    run,     \* [pc, exclusive, selected, scope, exit, gate]: exclusive is the phase,
             \* scope is "selection" for single cases and without the slow ones
    job,     \* per run and case
    result,  \* per run and case: the status of the case
    faults,  \* history: what went wrong with a case
    alive,   \* run and case pairs with candidate processes
    deaths

vars == <<run, job, result, faults, alive, deaths>>

Waiting == {"none", "queued", "sharing", "shared", "promoting"}
Executing == {"running", "closing"}
Over == {"done", "raised", "lost"}

Phase(r) == {c \in run[r].selected : (c \in Exclusive) = run[r].exclusive}
Busy(r) == {c \in Cases : job[r][c] \notin {"none", "queued"} \cup Over}
Executes(r, c) == job[r][c] \in Executing

(* The workload lock: who holds it, and how.                               *)
HoldsShared == {x \in Runs \X Cases :
                   job[x[1]][x[2]] = "shared" \/ (x[2] \notin Exclusive /\ Executes(x[1], x[2]))}
HoldsExclusive == {x \in Runs \X Exclusive : Executes(x[1], x[2])}

SetJob(r, c, st) == job' = [job EXCEPT ![r][c] = st]
Goto(r, pc) == run' = [run EXCEPT ![r].pc = pc]

-----------------------------------------------------------------------------
(* The run: main, _main and schedule_cases.                                *)

Active(r) == run[r].pc \notin {"idle", "ended"}

(* Captures exclude everything, comparisons each other's captures: the run *)
(* that is refused ends at once.                                           *)
MayRun(r) == \A q \in Runs \ {r} : Active(q) => Mode[r] # "capture" /\ Mode[q] # "capture"

(* select_cases: everything, an area or a list of cases; never nothing.    *)
Start(r, selected, scope) ==
    /\ run[r].pc = "idle" /\ selected # {}
    /\ Mode[r] = "capture" => selected = Cases /\ scope = "full"
    /\ scope = "full" => selected = Cases
    /\ run' = [run EXCEPT ![r] = IF MayRun(r)
                                 THEN [@ EXCEPT !.pc = "submitting", !.selected = selected, !.scope = scope]
                                 ELSE [@ EXCEPT !.pc = "ended", !.exit = 2]]
    /\ UNCHANGED <<job, result, faults, alive, deaths>>

Submit(r, c) ==
    /\ run[r].pc = "submitting" /\ c \in Phase(r) /\ job[r][c] = "none"
    /\ SetJob(r, c, "queued")
    /\ UNCHANGED <<run, result, faults, alive, deaths>>

Submitted(r) ==
    /\ run[r].pc = "submitting" /\ \A c \in Phase(r) : job[r][c] # "none"
    /\ Goto(r, "collecting")
    /\ UNCHANGED <<job, result, faults, alive, deaths>>

(* A future that raised: worker_failure for candidates; captures give up,  *)
(* after the pool is joined.                                               *)
Collected(r) ==
    [result EXCEPT ![r] = [c \in Cases |-> IF job[r][c] \in {"raised", "lost"} THEN "failed" ELSE result[r][c]]]

Joined(r) == \A c \in Phase(r) : job[r][c] \in Over

GivesUp(r) == Mode[r] = "capture" /\ \E c \in Phase(r) : job[r][c] \in {"raised", "lost"}

Collect(r) ==
    /\ run[r].pc = "collecting" /\ Joined(r)
    /\ result' = Collected(r)
    /\ run' = [run EXCEPT ![r] = IF GivesUp(r) THEN [@ EXCEPT !.pc = "ended", !.exit = 2]
                                 ELSE IF run[r].exclusive THEN [@ EXCEPT !.pc = "reporting"]
                                 ELSE [@ EXCEPT !.pc = "submitting", !.exclusive = TRUE]]
    /\ UNCHANGED <<job, faults, alive, deaths>>

(* accepted_outcomes, over what _main made of the statuses.                *)
Accepted(r) ==
    \A c \in run[r].selected : result[r][c] = IF c \in Pending THEN "pending" ELSE "passed"

(* gate_success also wants a comparison, and more than single cases.       *)
Gate(r) ==
    /\ Mode[r] = "compare" /\ run[r].scope # "selection"
    /\ run[r].selected \ Pending # {}
    /\ Accepted(r)

Report(r) ==
    /\ run[r].pc = "reporting"
    /\ run' = [run EXCEPT ![r].pc = "ended", ![r].gate = Gate(r), ![r].exit = IF Accepted(r) THEN 0 ELSE 1]
    /\ UNCHANGED <<job, result, faults, alive, deaths>>

-----------------------------------------------------------------------------
(* A worker: execute_case, run_case.                                       *)

Take(r, c) ==
    /\ job[r][c] = "queued" /\ Cardinality(Busy(r)) < (IF run[r].exclusive THEN 1 ELSE Jobs)
    /\ SetJob(r, c, "sharing")
    /\ UNCHANGED <<run, result, faults, alive, deaths>>

(* CaseWorkload.__enter__.                                                 *)
Share(r, c) ==
    /\ job[r][c] = "sharing" /\ HoldsExclusive \subseteq {<<r, c>>}
    /\ SetJob(r, c, "shared")
    /\ UNCHANGED <<run, result, faults, alive, deaths>>

Skip(r, c) ==
    /\ job[r][c] = "shared" /\ c \in Pending \cup Unavailable
    /\ SetJob(r, c, "done")
    /\ result' = [result EXCEPT ![r][c] = IF c \in Pending THEN "pending" ELSE "unavailable"]
    /\ UNCHANGED <<run, faults, alive, deaths>>

(* require_exclusive gives up the shared lock before it asks for the other.*)
Begin(r, c) ==
    /\ job[r][c] = "shared" /\ c \notin Pending \cup Unavailable
    /\ SetJob(r, c, IF c \in Exclusive THEN "promoting" ELSE "running")
    /\ alive' = IF c \in Exclusive THEN alive ELSE alive \cup {<<r, c>>}
    /\ UNCHANGED <<run, result, faults, deaths>>

\* faulty: waits for other exclusive cases only
PromoteShared(r, c) ==
    /\ job[r][c] = "promoting" /\ HoldsExclusive \subseteq {<<r, c>>}
    /\ SetJob(r, c, "running")
    /\ alive' = alive \cup {<<r, c>>}
    /\ UNCHANGED <<run, result, faults, deaths>>
Promote(r, c) ==
    /\ job[r][c] = "promoting"
    /\ HoldsExclusive \cup HoldsShared \subseteq {<<r, c>>}
    /\ SetJob(r, c, "running")
    /\ alive' = alive \cup {<<r, c>>}
    /\ UNCHANGED <<run, result, faults, deaths>>

(* case.run and the provider's assert_complete.                            *)
RunCase(r, c) ==
    /\ job[r][c] = "running"
    /\ SetJob(r, c, "closing")
    /\ \E f \in {{}, {"assertion"}} : faults' = [faults EXCEPT ![r][c] = f]
    /\ UNCHANGED <<run, result, alive, deaths>>

(* Context.close: when the provider does not close, the guard is not asked *)
(* to clean up, and close is not called twice.  Then the lock is released. *)
Closed(r, c, f, status) ==
    /\ SetJob(r, c, "closed")
    /\ faults' = [faults EXCEPT ![r][c] = f]
    /\ result' = [result EXCEPT ![r][c] = status]
    /\ \/ alive' = alive \ {<<r, c>>}
       \/ "provider" \in f /\ UNCHANGED alive

Close(r, c) ==
    /\ job[r][c] = "closing"
    /\ \E more \in {{}, {"leak"}, {"provider"}} :
         LET f == faults[r][c] \cup more
         IN Closed(r, c, f, IF f = {} THEN "passed" ELSE "failed")
    /\ UNCHANGED <<run, deaths>>

(* A probe is over; otherwise a case that passed is compared with its      *)
(* golden, or, in a capture, frozen, which may raise.                      *)
Finish(r, c) ==
    /\ job[r][c] = "closed"
    /\ \/ /\ Mode[r] = "probe" \/ result[r][c] = "failed"
          /\ SetJob(r, c, "done") /\ UNCHANGED <<result, faults>>
       \/ /\ Mode[r] # "probe" /\ result[r][c] = "passed"
          /\ \/ SetJob(r, c, "done") /\ UNCHANGED <<result, faults>>
             \/ /\ faults' = [faults EXCEPT ![r][c] = @ \cup {"differs"}]
                /\ IF Mode[r] = "capture"
                   THEN SetJob(r, c, "raised") /\ UNCHANGED result
                   ELSE SetJob(r, c, "done") /\ result' = [result EXCEPT ![r][c] = "failed"]
    /\ UNCHANGED <<run, alive, deaths>>

(* A worker dies: the pool breaks, its other workers are terminated, and   *)
(* the futures of the phase that are not done raise.  Nobody closes their  *)
(* cases.  If submit finds the pool broken, the run fails without report.  *)
WorkerDies(r, c) ==
    /\ c \in Busy(r) /\ deaths < MaxDeaths
    /\ job' = [job EXCEPT ![r] = [d \in Cases |->
                  IF d \in Phase(r) /\ job[r][d] \notin Over THEN "lost" ELSE job[r][d]]]
    /\ faults' = [faults EXCEPT ![r] = [d \in Cases |->
                  IF d \in Phase(r) /\ job[r][d] \notin Over THEN faults[r][d] \cup {"died"} ELSE faults[r][d]]]
    /\ deaths' = deaths + 1
    /\ run' = IF \E d \in Phase(r) : job[r][d] = "none"
              THEN [run EXCEPT ![r].pc = "ended", ![r].exit = 1]
              ELSE run
    /\ UNCHANGED <<result, alive>>

(* Candidates that nobody waits for end by themselves.                     *)
OrphanEnds(r, c) ==
    /\ <<r, c>> \in alive /\ ~Executes(r, c)
    /\ alive' = alive \ {<<r, c>>}
    /\ UNCHANGED <<run, job, result, faults, deaths>>

-----------------------------------------------------------------------------
Init ==
    /\ run = [r \in Runs |-> [pc |-> "idle", exclusive |-> FALSE, selected |-> {}, scope |-> "full", exit |-> 3, gate |-> FALSE]]
    /\ job = [r \in Runs |-> [c \in Cases |-> "none"]]
    /\ result = [r \in Runs |-> [c \in Cases |-> "none"]]
    /\ faults = [r \in Runs |-> [c \in Cases |-> {}]]
    /\ alive = {} /\ deaths = 0

RunSteps(r) == (\E c \in Cases : Submit(r, c)) \/ Submitted(r) \/ Collect(r) \/ Report(r)

WorkerSteps(r, c) ==
    \/ Take(r, c) \/ Share(r, c) \/ Skip(r, c) \/ Begin(r, c) \/ Promote(r, c)
    \/ RunCase(r, c) \/ Close(r, c) \/ Finish(r, c)

Next ==
    \/ \E r \in Runs : RunSteps(r) \/ (\E selected \in SUBSET Cases, scope \in Scopes : Start(r, selected, scope))
    \/ \E r \in Runs, c \in Cases : WorkerSteps(r, c) \/ WorkerDies(r, c) \/ OrphanEnds(r, c)

Spec == Init /\ [][Next]_vars

-----------------------------------------------------------------------------
Statuses == {"none", "passed", "failed", "pending", "unavailable"}

TypeOK ==
    /\ run \in [Runs -> [pc : {"idle", "submitting", "collecting", "reporting", "ended"}, exclusive : BOOLEAN,
                         selected : SUBSET Cases, scope : {"full", "area", "selection"}, exit : 0 .. 3, gate : BOOLEAN]]
    /\ job \in [Runs -> [Cases -> Waiting \cup Executing \cup {"closed"} \cup Over]]
    /\ result \in [Runs -> [Cases -> Statuses]]
    /\ faults \in [Runs -> [Cases -> SUBSET {"assertion", "leak", "provider", "differs", "died"}]]
    /\ alive \subseteq Runs \X Cases /\ deaths \in 0 .. MaxDeaths

(* While a case has the machine alone no worker of any run executes        *)
(* another, whichever promotes first and whoever dies.                     *)
ExclusiveAlone ==
    \A r \in Runs, c \in Exclusive : Executes(r, c) =>
        \A q \in Runs, d \in Cases : Executes(q, d) => <<r, c>> = <<q, d>>

(* A run ends with success only if each of its cases did everything it had *)
(* to without fault: nothing is lost between a worker that fails or dies   *)
(* and the exit status.                                                    *)
ZeroMeansPassed ==
    \A r \in Runs : run[r].exit = 0 =>
        \A c \in run[r].selected \ Pending : job[r][c] = "done" /\ faults[r][c] = {} /\ c \notin Unavailable

(* The gate is open only if all cases of its scope were also compared.     *)
GateMeansCompared ==
    \A r \in Runs : run[r].gate =>
        run[r].exit = 0 /\ Mode[r] = "compare" /\ \A c \in run[r].selected \ Pending : job[r][c] = "done" /\ faults[r][c] = {}

(* A case that needs the machine runs alone, and success or an open gate   *)
(* means that each case did what it had to.                                *)
SuccessIsEarned == TypeOK /\ ExclusiveAlone /\ ZeroMeansPassed /\ GateMeansCompared

=============================================================================
