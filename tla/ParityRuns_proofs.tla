-------------------------- MODULE ParityRuns_proofs --------------------------
(***************************************************************************)
(* Proofs about ParityRuns for any number of runs, cases, workers and       *)
(* deaths: exclusive cases are alone, and success is earned.                *)
(***************************************************************************)
EXTENDS ParityRuns, TLAPS

(***************************************************************************)
(* The invariant.                                                          *)
(***************************************************************************)
\* The workload lock: one exclusive holder, or several that share.
Alone ==
    \A r, q \in Runs, c, d \in Cases :
        /\ c \in Exclusive /\ Executes(r, c)
        /\ Executes(q, d) \/ job[q][d] = "shared"
        => r = q /\ c = d

\* Where one case of a run may be, with which status, in which phase.
CaseOK(r, c) ==
    /\ job[r][c] # "none" =>
         c \in run[r].selected /\ run[r].pc # "idle" /\ (c \in Exclusive => run[r].exclusive)
    /\ job[r][c] \in {"promoting"} \cup Executing => c \notin Pending \cup Unavailable
    /\ result[r][c] = "passed" =>
         /\ c \notin Pending \cup Unavailable
         /\ job[r][c] \in {"closed"} \cup Over
         /\ job[r][c] \in {"closed", "done"} => faults[r][c] = {}
    /\ run[r].exclusive /\ run[r].pc # "ended" /\ c \in run[r].selected /\ c \notin Exclusive
         => job[r][c] \in Over
    /\ (run[r].pc = "reporting" \/ run[r].exit = 0) /\ c \in run[r].selected =>
         job[r][c] \in Over /\ (result[r][c] = "passed" => job[r][c] = "done")

\* What the exit status and the gate of a run say.
RunOK(r) ==
    /\ run[r].pc = "idle" => ~run[r].exclusive /\ run[r].exit = 3
    /\ run[r].pc = "reporting" => run[r].exclusive
    /\ run[r].exit = 0 => run[r].pc = "ended" /\ Accepted(r)
    /\ run[r].gate => run[r].exit = 0 /\ Mode[r] = "compare"

RunInv ==
    /\ TypeOK
    /\ Alone
    /\ \A r \in Runs : RunOK(r) /\ \A c \in Cases : CaseOK(r, c)

(***************************************************************************)
(* Steps of a worker.                                                      *)
(***************************************************************************)
\* A step that concerns one case.
Concerns(r, c) ==
    /\ run' = run
    /\ \A q \in Runs, d \in Cases : <<q, d>> # <<r, c>> =>
          job'[q][d] = job[q][d] /\ result'[q][d] = result[q][d] /\ faults'[q][d] = faults[q][d]

LEMMA CaseStep ==
    ASSUME RunInv, NEW r \in Runs, NEW c \in Cases, Concerns(r, c),
           job[r][c] \notin Over, CaseOK(r, c)', result'[r][c] = result[r][c] \/ job[r][c] # "none"
    PROVE  \A q \in Runs : RunOK(q)' /\ \A d \in Cases : CaseOK(q, d)'
  <1>1. ASSUME NEW q \in Runs, NEW d \in Cases
        PROVE  CaseOK(q, d)'
    <2>1. CASE <<q, d>> = <<r, c>>
      BY <2>1
    <2>2. CASE <<q, d>> # <<r, c>>
      <3>1. /\ run' = run /\ job'[q][d] = job[q][d] /\ result'[q][d] = result[q][d]
            /\ faults'[q][d] = faults[q][d]
        BY <2>2 DEF Concerns
      <3> QED
        BY <3>1 DEF RunInv, CaseOK
    <2> QED
      BY <2>1, <2>2
  <1>2. ASSUME NEW q \in Runs
        PROVE  RunOK(q)'
    <2>1. RunOK(q) /\ run' = run
      BY DEF RunInv, Concerns
    <2>2. run[q].exit = 0 => Accepted(q)'
      <3> SUFFICES ASSUME run[q].exit = 0, NEW d \in run[q].selected
                   PROVE  result'[q][d] = result[q][d]
        BY <2>1 DEF RunOK, Accepted
      <3>1. d \in Cases
        BY DEF RunInv, TypeOK
      <3>2. job[q][d] \in Over
        BY <3>1 DEF RunInv, CaseOK
      <3>3. <<q, d>> # <<r, c>>
        BY <3>2
      <3> QED
        BY <3>1, <3>3 DEF Concerns
    <2> QED
      BY <2>1, <2>2 DEF RunOK
  <1> QED
    BY <1>1, <1>2

\* The lock when nobody takes it.
LEMMA NoneTakes ==
    ASSUME Alone,
           \A q \in Runs, d \in Cases :
              /\ Executes(q, d)' =>
                   Executes(q, d) \/ (d \notin Exclusive /\ job[q][d] = "shared")
              /\ job'[q][d] = "shared" => job[q][d] = "shared"
    PROVE  Alone'
  <1> SUFFICES ASSUME NEW r \in Runs, NEW q \in Runs, NEW c \in Cases, NEW d \in Cases,
                      c \in Exclusive, Executes(r, c)',
                      Executes(q, d)' \/ job'[q][d] = "shared"
               PROVE  r = q /\ c = d
    BY DEF Alone
  <1>1. Executes(r, c)
    OBVIOUS
  <1>2. Executes(q, d) \/ job[q][d] = "shared"
    OBVIOUS
  <1> QED
    BY <1>1, <1>2 DEF Alone

LEMMA SubmitKeeps ==
    ASSUME RunInv, NEW r \in Runs, NEW c \in Cases, Submit(r, c)
    PROVE  RunInv'
  <1>1. /\ run[r].pc = "submitting" /\ c \in Phase(r) /\ job[r][c] = "none"
        /\ job' = [job EXCEPT ![r][c] = "queued"]
        /\ UNCHANGED <<run, result, faults, alive, deaths>>
    BY DEF Submit, SetJob
  <1>2. TypeOK'
    BY <1>1 DEF RunInv, TypeOK, Waiting
  <1>3. job'[r][c] = "queued" /\ Concerns(r, c)
    BY <1>1 DEF RunInv, TypeOK, Concerns
  <1>4. CaseOK(r, c)'
    BY <1>1, <1>3 DEF RunInv, CaseOK, RunOK, Phase, Executing, Over
  <1>5. Alone'
    BY <1>1, <1>3, NoneTakes DEF RunInv, Concerns, Executes, Executing
  <1> QED
    BY <1>1, <1>2, <1>3, <1>4, <1>5, CaseStep DEF RunInv, Over

LEMMA TakeKeeps ==
    ASSUME RunInv, NEW r \in Runs, NEW c \in Cases, Take(r, c)
    PROVE  RunInv'
  <1>1. /\ job[r][c] = "queued" /\ job' = [job EXCEPT ![r][c] = "sharing"]
        /\ UNCHANGED <<run, result, faults, alive, deaths>>
    BY DEF Take, SetJob
  <1>2. TypeOK'
    BY <1>1 DEF RunInv, TypeOK, Waiting
  <1>3. job'[r][c] = "sharing" /\ Concerns(r, c)
    BY <1>1 DEF RunInv, TypeOK, Concerns
  <1>4. CaseOK(r, c)'
    BY <1>1, <1>3 DEF RunInv, CaseOK, Executing, Over
  <1>5. Alone'
    BY <1>1, <1>3, NoneTakes DEF RunInv, Concerns, Executes, Executing
  <1> QED
    BY <1>1, <1>2, <1>3, <1>4, <1>5, CaseStep DEF RunInv, Over

LEMMA ShareKeeps ==
    ASSUME RunInv, NEW r \in Runs, NEW c \in Cases, Share(r, c)
    PROVE  RunInv'
  <1>1. /\ job[r][c] = "sharing" /\ HoldsExclusive \subseteq {<<r, c>>}
        /\ job' = [job EXCEPT ![r][c] = "shared"]
        /\ UNCHANGED <<run, result, faults, alive, deaths>>
    BY DEF Share, SetJob
  <1>2. TypeOK'
    BY <1>1 DEF RunInv, TypeOK, Waiting
  <1>3. job'[r][c] = "shared" /\ Concerns(r, c)
    BY <1>1 DEF RunInv, TypeOK, Concerns
  <1>4. CaseOK(r, c)'
    BY <1>1, <1>3 DEF RunInv, CaseOK, Executing, Over
  <1>5. Alone'
    <2> SUFFICES ASSUME NEW p \in Runs, NEW q \in Runs, NEW b \in Cases, NEW d \in Cases,
                        b \in Exclusive, Executes(p, b)'
                 PROVE  FALSE
      BY DEF Alone
    <2>1. <<p, b>> # <<r, c>>
      BY <1>3 DEF Executes, Executing
    <2>2. Executes(p, b)
      BY <1>3, <2>1 DEF Executes, Concerns
    <2>3. <<p, b>> \in HoldsExclusive
      BY <2>2 DEF HoldsExclusive
    <2> QED
      BY <1>1, <2>1, <2>3
  <1> QED
    BY <1>1, <1>2, <1>3, <1>4, <1>5, CaseStep DEF RunInv, Over

LEMMA SkipKeeps ==
    ASSUME RunInv, NEW r \in Runs, NEW c \in Cases, Skip(r, c)
    PROVE  RunInv'
  <1>1. /\ job[r][c] = "shared" /\ job' = [job EXCEPT ![r][c] = "done"]
        /\ result' = [result EXCEPT ![r][c] = IF c \in Pending THEN "pending" ELSE "unavailable"]
        /\ UNCHANGED <<run, faults, alive, deaths>>
    BY DEF Skip, SetJob
  <1>2. TypeOK'
    BY <1>1 DEF RunInv, TypeOK, Statuses, Over
  <1>3. job'[r][c] = "done" /\ result'[r][c] # "passed" /\ Concerns(r, c)
    BY <1>1 DEF RunInv, TypeOK, Concerns
  <1>4. CaseOK(r, c)'
    BY <1>1, <1>3 DEF RunInv, CaseOK, Executing, Over
  <1>5. Alone'
    BY <1>1, <1>3, NoneTakes DEF RunInv, Concerns, Executes, Executing
  <1> QED
    BY <1>1, <1>2, <1>3, <1>4, <1>5, CaseStep DEF RunInv, Over

LEMMA BeginKeeps ==
    ASSUME RunInv, NEW r \in Runs, NEW c \in Cases, Begin(r, c)
    PROVE  RunInv'
  <1>1. /\ job[r][c] = "shared" /\ c \notin Pending \cup Unavailable
        /\ job' = [job EXCEPT ![r][c] = IF c \in Exclusive THEN "promoting" ELSE "running"]
        /\ alive' \in {alive, alive \cup {<<r, c>>}}
        /\ UNCHANGED <<run, result, faults, deaths>>
    BY DEF Begin, SetJob
  <1>2. TypeOK'
    BY <1>1 DEF RunInv, TypeOK, Waiting, Executing
  <1>3. /\ job'[r][c] = IF c \in Exclusive THEN "promoting" ELSE "running"
        /\ Concerns(r, c)
    BY <1>1 DEF RunInv, TypeOK, Concerns
  <1>4. CaseOK(r, c)'
    BY <1>1, <1>3 DEF RunInv, CaseOK, Executing, Over
  <1>5. Alone'
    BY <1>1, <1>3, NoneTakes DEF RunInv, Concerns, Executes, Executing
  <1> QED
    BY <1>1, <1>2, <1>3, <1>4, <1>5, CaseStep DEF RunInv, Over

LEMMA PromoteKeeps ==
    ASSUME RunInv, NEW r \in Runs, NEW c \in Cases, Promote(r, c)
    PROVE  RunInv'
  <1>1. /\ job[r][c] = "promoting" /\ HoldsExclusive \cup HoldsShared \subseteq {<<r, c>>}
        /\ job' = [job EXCEPT ![r][c] = "running"] /\ alive' = alive \cup {<<r, c>>}
        /\ UNCHANGED <<run, result, faults, deaths>>
    BY DEF Promote, SetJob
  <1>2. TypeOK'
    BY <1>1 DEF RunInv, TypeOK, Waiting, Executing
  <1>3. job'[r][c] = "running" /\ Concerns(r, c)
    BY <1>1 DEF RunInv, TypeOK, Concerns
  <1>4. CaseOK(r, c)'
    BY <1>1, <1>3 DEF RunInv, CaseOK, Executing, Over
  <1>5. Alone'
    <2>1. ASSUME NEW q \in Runs, NEW d \in Cases, Executes(q, d)' \/ job'[q][d] = "shared"
          PROVE  q = r /\ d = c
      <3> SUFFICES ASSUME <<q, d>> # <<r, c>> PROVE FALSE
        OBVIOUS
      <3>1. Executes(q, d) \/ job[q][d] = "shared"
        BY <1>3, <2>1 DEF Executes, Concerns
      <3>2. <<q, d>> \in HoldsExclusive \cup HoldsShared
        BY <3>1 DEF HoldsExclusive, HoldsShared
      <3> QED
        BY <1>1, <3>2
    <2> QED
      BY <2>1 DEF Alone
  <1> QED
    BY <1>1, <1>2, <1>3, <1>4, <1>5, CaseStep DEF RunInv, Over

LEMMA RunCaseKeeps ==
    ASSUME RunInv, NEW r \in Runs, NEW c \in Cases, RunCase(r, c)
    PROVE  RunInv'
  <1>1. PICK f \in {{}, {"assertion"}} :
          /\ job[r][c] = "running" /\ job' = [job EXCEPT ![r][c] = "closing"]
          /\ faults' = [faults EXCEPT ![r][c] = f]
          /\ UNCHANGED <<run, result, alive, deaths>>
    BY DEF RunCase, SetJob
  <1>2. TypeOK'
    BY <1>1 DEF RunInv, TypeOK, Executing
  <1>3. job'[r][c] = "closing" /\ Concerns(r, c)
    BY <1>1 DEF RunInv, TypeOK, Concerns
  <1>4. CaseOK(r, c)'
    BY <1>1, <1>3 DEF RunInv, CaseOK, Executing, Over
  <1>5. Alone'
    BY <1>1, <1>3, NoneTakes DEF RunInv, Concerns, Executes, Executing
  <1> QED
    BY <1>1, <1>2, <1>3, <1>4, <1>5, CaseStep DEF RunInv, Over

LEMMA CloseKeeps ==
    ASSUME RunInv, NEW r \in Runs, NEW c \in Cases, Close(r, c)
    PROVE  RunInv'
  <1>1. PICK more \in {{}, {"leak"}, {"provider"}} :
          /\ job[r][c] = "closing" /\ job' = [job EXCEPT ![r][c] = "closed"]
          /\ faults' = [faults EXCEPT ![r][c] = faults[r][c] \cup more]
          /\ result' = [result EXCEPT ![r][c] =
                          IF faults[r][c] \cup more = {} THEN "passed" ELSE "failed"]
          /\ alive' \in {alive, alive \ {<<r, c>>}}
          /\ UNCHANGED <<run, deaths>>
    BY DEF Close, Closed, SetJob
  <1>2. TypeOK'
    BY <1>1 DEF RunInv, TypeOK, Statuses
  <1>3. /\ job'[r][c] = "closed" /\ Concerns(r, c)
        /\ result'[r][c] = "passed" => faults'[r][c] = {}
    BY <1>1 DEF RunInv, TypeOK, Concerns
  <1>4. CaseOK(r, c)'
    BY <1>1, <1>3 DEF RunInv, CaseOK, Executing, Over
  <1>5. Alone'
    BY <1>1, <1>3, NoneTakes DEF RunInv, Concerns, Executes, Executing
  <1> QED
    BY <1>1, <1>2, <1>3, <1>4, <1>5, CaseStep DEF RunInv, Over

LEMMA FinishKeeps ==
    ASSUME RunInv, NEW r \in Runs, NEW c \in Cases, Finish(r, c)
    PROVE  RunInv'
  <1>1. PICK st \in {"done", "raised"}, status \in Statuses, f \in {faults[r][c], faults[r][c] \cup {"differs"}} :
          /\ job[r][c] = "closed" /\ job' = [job EXCEPT ![r][c] = st]
          /\ faults' = [faults EXCEPT ![r][c] = f]
          /\ result' = [result EXCEPT ![r][c] = status]
          /\ status = "passed" => result[r][c] = "passed" /\ (st = "done" => f = faults[r][c])
          /\ UNCHANGED <<run, alive, deaths>>
    <2>1. /\ result = [result EXCEPT ![r][c] = result[r][c]]
          /\ faults = [faults EXCEPT ![r][c] = faults[r][c]]
          /\ result[r][c] \in Statuses /\ "failed" \in Statuses
      BY DEF RunInv, TypeOK, Statuses
    <2>2. CASE /\ Mode[r] = "probe" \/ result[r][c] = "failed"
               /\ SetJob(r, c, "done") /\ UNCHANGED <<result, faults>>
      BY <2>1, <2>2 DEF Finish, SetJob
    <2>3. CASE result[r][c] = "passed" /\ SetJob(r, c, "done") /\ UNCHANGED <<result, faults>>
      BY <2>1, <2>3 DEF Finish, SetJob
    <2>4. CASE /\ result[r][c] = "passed" /\ faults' = [faults EXCEPT ![r][c] = @ \cup {"differs"}]
               /\ SetJob(r, c, "raised") /\ UNCHANGED result
      BY <2>1, <2>4 DEF Finish, SetJob
    <2>5. CASE /\ result[r][c] = "passed" /\ faults' = [faults EXCEPT ![r][c] = @ \cup {"differs"}]
               /\ SetJob(r, c, "done") /\ result' = [result EXCEPT ![r][c] = "failed"]
      BY <2>1, <2>5 DEF Finish, SetJob
    <2> QED
      BY <2>2, <2>3, <2>4, <2>5 DEF Finish
  <1>2. TypeOK'
    BY <1>1 DEF RunInv, TypeOK, Over
  <1>3. /\ job'[r][c] = st /\ result'[r][c] = status /\ faults'[r][c] = f
        /\ Concerns(r, c)
    BY <1>1 DEF RunInv, TypeOK, Concerns
  <1>4. CaseOK(r, c)'
    BY <1>1, <1>3 DEF RunInv, CaseOK, Executing, Over
  <1>5. Alone'
    BY <1>1, <1>3, NoneTakes DEF RunInv, Concerns, Executes, Executing
  <1> QED
    BY <1>1, <1>2, <1>3, <1>4, <1>5, CaseStep DEF RunInv, Over

(***************************************************************************)
(* Steps of a run.                                                         *)
(***************************************************************************)
RunState == [pc : {"idle", "submitting", "collecting", "reporting", "ended"}, exclusive : BOOLEAN,
             selected : SUBSET Cases, scope : {"full", "area", "selection"}, exit : 0 .. 3, gate : BOOLEAN]

LEMMA RunStates ==
    ASSUME RunInv
    PROVE  run \in [Runs -> RunState]
  BY DEF RunInv, TypeOK, RunState

\* One run takes the record v.
LEMMA OneRun ==
    ASSUME RunInv, NEW r \in Runs, NEW v \in RunState, run' = [run EXCEPT ![r] = v],
           job' \in [Runs -> [Cases -> Waiting \cup Executing \cup {"closed"} \cup Over]],
           result' \in [Runs -> [Cases -> Statuses]],
           faults' \in [Runs -> [Cases -> SUBSET {"assertion", "leak", "provider", "differs", "died"}]],
           alive' = alive, deaths' \in 0 .. MaxDeaths
    PROVE  TypeOK' /\ run'[r] = v /\ \A q \in Runs \ {r} : run'[q] = run[q]
  <1>1. run' \in [Runs -> RunState]
    BY RunStates
  <1>2. run'[r] = v /\ \A q \in Runs \ {r} : run'[q] = run[q]
    BY RunStates
  <1>3. alive' \subseteq Runs \X Cases
    BY DEF RunInv, TypeOK
  <1> QED
    BY <1>1, <1>2, <1>3 DEF TypeOK, RunState

\* A step that concerns one run, and neither the others nor what they execute.
RunStep(r) ==
    \A q \in Runs \ {r} :
        run'[q] = run[q] /\ job'[q] = job[q] /\ result'[q] = result[q] /\ faults'[q] = faults[q]

LEMMA OtherRuns ==
    ASSUME RunInv, NEW r \in Runs, RunStep(r), NEW q \in Runs \ {r}
    PROVE  RunOK(q)' /\ \A d \in Cases : CaseOK(q, d)'
  <1>1. run'[q] = run[q] /\ job'[q] = job[q] /\ result'[q] = result[q] /\ faults'[q] = faults[q]
    BY DEF RunStep
  <1>2. RunOK(q)'
    BY <1>1 DEF RunInv, RunOK, Accepted
  <1>3. ASSUME NEW d \in Cases
        PROVE  CaseOK(q, d)'
    BY <1>1 DEF RunInv, CaseOK
  <1> QED
    BY <1>2, <1>3

LEMMA StartKeeps ==
    ASSUME RunInv, NEW r \in Runs, NEW selected \in SUBSET Cases, NEW scope \in Scopes,
           Start(r, selected, scope)
    PROVE  RunInv'
  <1>0. PICK u \in RunState : u = run[r]
    BY RunStates
  <1>1. /\ u.pc = "idle"
        /\ \/ run' = [run EXCEPT ![r] = [u EXCEPT !.pc = "submitting", !.selected = selected, !.scope = scope]]
           \/ run' = [run EXCEPT ![r] = [u EXCEPT !.pc = "ended", !.exit = 2]]
        /\ UNCHANGED <<job, result, faults, alive, deaths>>
    BY <1>0, RunStates DEF Start
  <1>2. scope \in {"full", "area", "selection"}
    BY ParityRunsAssumption DEF ParityRunsAssumption
  <1>3. PICK v \in RunState :
          /\ run' = [run EXCEPT ![r] = v]
          /\ v.exclusive = u.exclusive /\ v.gate = u.gate
          /\ \/ (v.pc = "submitting" /\ v.exit = u.exit)
             \/ (v.pc = "ended" /\ v.exit = 2)
    <2>1. CASE run' = [run EXCEPT ![r] = [u EXCEPT !.pc = "submitting", !.selected = selected, !.scope = scope]]
      <3>1. PICK v : v = [u EXCEPT !.pc = "submitting", !.selected = selected, !.scope = scope]
        OBVIOUS
      <3>2. /\ v \in RunState /\ v.pc = "submitting"
            /\ v.exclusive = u.exclusive /\ v.exit = u.exit /\ v.gate = u.gate
        BY <1>2, <3>1 DEF RunState
      <3>3. run' = [run EXCEPT ![r] = v]
        BY <2>1, <3>1
      <3> QED
        BY <3>2, <3>3
    <2>2. CASE run' = [run EXCEPT ![r] = [u EXCEPT !.pc = "ended", !.exit = 2]]
      <3>0. PICK e \in 0 .. 3 : e = 2
        OBVIOUS
      <3>1. PICK v : v = [u EXCEPT !.pc = "ended", !.exit = e]
        OBVIOUS
      <3>2. /\ v \in RunState /\ v.pc = "ended" /\ v.exit = 2
            /\ v.exclusive = u.exclusive /\ v.gate = u.gate
        BY <3>0, <3>1 DEF RunState
      <3>3. run' = [run EXCEPT ![r] = v]
        BY <2>2, <3>0, <3>1
      <3> QED
        BY <3>2, <3>3
    <2> QED
      BY <1>1, <2>1, <2>2
  <1>4. TypeOK' /\ run'[r] = v /\ RunStep(r)
    BY <1>1, <1>3, OneRun DEF RunInv, TypeOK, RunStep
  <1>5. run[r].pc = "idle"
    BY <1>0, <1>1
  <1>6. /\ run'[r].exclusive = run[r].exclusive /\ run'[r].gate = run[r].gate
        /\ \/ run'[r].pc = "submitting" /\ run'[r].exit = run[r].exit
           \/ run'[r].pc = "ended" /\ run'[r].exit = 2
    BY <1>0, <1>3, <1>4
  <1>7. RunOK(r)'
    BY <1>5, <1>6 DEF RunInv, RunOK
  <1>8. ASSUME NEW c \in Cases
        PROVE  CaseOK(r, c)'
    <2>1. job'[r][c] = "none" /\ result'[r][c] # "passed"
      BY <1>1, <1>5 DEF RunInv, CaseOK, Over
    <2>2. ~run'[r].exclusive /\ run'[r].exit # 0
      BY <1>5, <1>6 DEF RunInv, RunOK
    <2> QED
      BY <1>6, <2>1, <2>2 DEF CaseOK, Executing
  <1>9. Alone'
    BY <1>1 DEF RunInv, Alone, Executes
  <1> QED
    BY <1>4, <1>7, <1>8, <1>9, OtherRuns DEF RunInv

LEMMA SubmittedKeeps ==
    ASSUME RunInv, NEW r \in Runs, Submitted(r)
    PROVE  RunInv'
  <1>1. /\ run[r].pc = "submitting" /\ run' = [run EXCEPT ![r].pc = "collecting"]
        /\ UNCHANGED <<job, result, faults, alive, deaths>>
    BY DEF Submitted, Goto
  <1>2. PICK u \in RunState : u = run[r]
    BY RunStates
  <1>3. PICK v \in RunState :
          /\ run' = [run EXCEPT ![r] = v] /\ v.pc = "collecting" /\ v.selected = u.selected
          /\ v.exclusive = u.exclusive /\ v.exit = u.exit /\ v.gate = u.gate
    <2>1. PICK v : v = [u EXCEPT !.pc = "collecting"]
      OBVIOUS
    <2>2. /\ v \in RunState /\ v.pc = "collecting" /\ v.selected = u.selected
          /\ v.exclusive = u.exclusive /\ v.exit = u.exit /\ v.gate = u.gate
      BY <2>1 DEF RunState
    <2>3. run' = [run EXCEPT ![r] = v]
      BY <1>1, <1>2, <2>1, RunStates
    <2> QED
      BY <2>2, <2>3
  <1>4. TypeOK' /\ run'[r] = v /\ RunStep(r)
    BY <1>1, <1>3, OneRun DEF RunInv, TypeOK, RunStep
  <1>5. /\ run'[r].exclusive = run[r].exclusive /\ run'[r].gate = run[r].gate
        /\ run'[r].pc = "collecting" /\ run'[r].exit = run[r].exit
        /\ run'[r].selected = run[r].selected
    BY <1>2, <1>3, <1>4
  <1>6. run[r].exit # 0
    BY <1>1 DEF RunInv, RunOK
  <1>7. RunOK(r)'
    BY <1>1, <1>5, <1>6 DEF RunInv, RunOK
  <1>8. ASSUME NEW c \in Cases
        PROVE  CaseOK(r, c)'
    BY <1>1, <1>5, <1>6 DEF RunInv, CaseOK
  <1>9. Alone'
    BY <1>1 DEF RunInv, Alone, Executes
  <1> QED
    BY <1>4, <1>7, <1>8, <1>9, OtherRuns DEF RunInv

LEMMA CollectKeeps ==
    ASSUME RunInv, NEW r \in Runs, Collect(r)
    PROVE  RunInv'
  <1>1. /\ run[r].pc = "collecting" /\ Joined(r) /\ result' = Collected(r)
        /\ run' = [run EXCEPT ![r] = IF GivesUp(r) THEN [@ EXCEPT !.pc = "ended", !.exit = 2]
                                     ELSE IF run[r].exclusive THEN [@ EXCEPT !.pc = "reporting"]
                                     ELSE [@ EXCEPT !.pc = "submitting", !.exclusive = TRUE]]
        /\ UNCHANGED <<job, faults, alive, deaths>>
    BY DEF Collect
  <1>3. result' = [result EXCEPT ![r] = [c \in Cases |->
                     IF job[r][c] \in {"raised", "lost"} THEN "failed" ELSE result[r][c]]]
    BY <1>1 DEF Collected
  <1>2. PICK u \in RunState : u = run[r]
    BY RunStates
  <1>4. PICK v \in RunState :
          /\ run' = [run EXCEPT ![r] = v] /\ v.selected = u.selected /\ v.gate = u.gate
          /\ \/ (v.pc = "ended" /\ v.exit = 2 /\ v.exclusive = u.exclusive)
             \/ (v.pc = "reporting" /\ u.exclusive /\ v.exclusive = u.exclusive /\ v.exit = u.exit)
             \/ (v.pc = "submitting" /\ ~u.exclusive /\ v.exclusive = TRUE /\ v.exit = u.exit)
    <2>1. CASE GivesUp(r)
      <3>0. PICK e \in 0 .. 3 : e = 2
        OBVIOUS
      <3>1. PICK v : v = [u EXCEPT !.pc = "ended", !.exit = e]
        OBVIOUS
      <3>2. v \in RunState /\ v.selected = u.selected /\ v.gate = u.gate /\ v.pc = "ended" /\ v.exit = 2 /\ v.exclusive = u.exclusive
        BY <3>0, <3>1 DEF RunState
      <3>3. run' = [run EXCEPT ![r] = v]
        BY <1>1, <1>2, <2>1, RunStates, <3>0, <3>1
      <3> QED
        BY <3>2, <3>3
    <2>2. CASE ~GivesUp(r) /\ run[r].exclusive
      <3>1. PICK v : v = [u EXCEPT !.pc = "reporting"]
        OBVIOUS
      <3>2. v \in RunState /\ v.selected = u.selected /\ v.gate = u.gate /\ v.pc = "reporting" /\ v.exit = u.exit /\ v.exclusive = u.exclusive
        BY <3>1 DEF RunState
      <3>3. run' = [run EXCEPT ![r] = v]
        BY <1>1, <1>2, <2>2, RunStates, <3>1
      <3> QED
        BY <1>2, <2>2, <3>2, <3>3
    <2>3. CASE ~GivesUp(r) /\ ~run[r].exclusive
      <3>1. PICK v : v = [u EXCEPT !.pc = "submitting", !.exclusive = TRUE]
        OBVIOUS
      <3>2. v \in RunState /\ v.selected = u.selected /\ v.gate = u.gate /\ v.pc = "submitting" /\ v.exit = u.exit /\ v.exclusive = TRUE
        BY <3>1 DEF RunState
      <3>3. run' = [run EXCEPT ![r] = v]
        BY <1>1, <1>2, <2>3, RunStates, <3>1
      <3> QED
        BY <1>2, <2>3, <3>2, <3>3
    <2> QED
      BY <2>1, <2>2, <2>3
  <1>5. TypeOK' /\ run'[r] = v /\ RunStep(r)
    <2>1. result' \in [Runs -> [Cases -> Statuses]] /\ \A q \in Runs \ {r} : result'[q] = result[q]
      BY <1>3 DEF RunInv, TypeOK, Statuses
    <2>2. /\ job' \in [Runs -> [Cases -> Waiting \cup Executing \cup {"closed"} \cup Over]]
          /\ faults' \in [Runs -> [Cases -> SUBSET {"assertion", "leak", "provider", "differs", "died"}]]
          /\ alive' = alive /\ deaths' \in 0 .. MaxDeaths /\ job' = job /\ faults' = faults
      BY <1>1 DEF RunInv, TypeOK
    <2>3. TypeOK' /\ run'[r] = v /\ \A q \in Runs \ {r} : run'[q] = run[q]
      BY <1>4, <2>1, <2>2, OneRun
    <2>4. RunStep(r)
      BY <2>1, <2>2, <2>3 DEF RunStep
    <2> QED
      BY <2>3, <2>4
  <1>6. /\ run'[r].selected = run[r].selected /\ run'[r].gate = run[r].gate
        /\ \/ run'[r].pc = "ended" /\ run'[r].exit = 2 /\ run'[r].exclusive = run[r].exclusive
           \/ /\ run'[r].pc = "reporting" /\ run[r].exclusive
              /\ run'[r].exclusive = run[r].exclusive /\ run'[r].exit = run[r].exit
           \/ /\ run'[r].pc = "submitting" /\ ~run[r].exclusive
              /\ run'[r].exclusive = TRUE /\ run'[r].exit = run[r].exit
    BY <1>2, <1>4, <1>5
  <1>7. run[r].exit # 0 /\ run'[r].exit # 0 /\ ~run'[r].gate
    BY <1>1, <1>6 DEF RunInv, RunOK
  <1>8. RunOK(r)'
    BY <1>6, <1>7 DEF RunOK
  <1>9. ASSUME NEW c \in Cases
        PROVE  CaseOK(r, c)'
    <2>1. job'[r][c] = job[r][c] /\ faults'[r][c] = faults[r][c]
      BY <1>1
    <2>2. result'[r][c] = IF job[r][c] \in {"raised", "lost"} THEN "failed" ELSE result[r][c]
      BY <1>3 DEF RunInv, TypeOK
    <2>3. c \in run[r].selected /\ (c \in Exclusive <=> run[r].exclusive) => job[r][c] \in Over
      BY <1>1 DEF Joined, Phase, RunInv, TypeOK
    <2>4. job'[r][c] # "none" => c \in run'[r].selected /\ run'[r].pc # "idle"
                                 /\ (c \in Exclusive => run'[r].exclusive)
      BY <1>6, <2>1 DEF RunInv, CaseOK
    <2>5. /\ job'[r][c] \in {"promoting"} \cup Executing => c \notin Pending \cup Unavailable
          /\ result'[r][c] = "passed" =>
                /\ c \notin Pending \cup Unavailable /\ job'[r][c] \in {"closed"} \cup Over
                /\ job'[r][c] \in {"closed", "done"} => faults'[r][c] = {}
      BY <2>1, <2>2 DEF RunInv, CaseOK
    <2>6. run'[r].exclusive /\ run'[r].pc # "ended" /\ c \in run'[r].selected /\ c \notin Exclusive
            => job'[r][c] \in Over
      BY <1>1, <1>6, <2>1, <2>3 DEF RunInv, CaseOK
    <2>7. (run'[r].pc = "reporting" \/ run'[r].exit = 0) /\ c \in run'[r].selected =>
            job'[r][c] \in Over /\ (result'[r][c] = "passed" => job'[r][c] = "done")
      <3> SUFFICES ASSUME run'[r].pc = "reporting", c \in run[r].selected
                   PROVE  job[r][c] \in Over /\ (result'[r][c] = "passed" => job[r][c] = "done")
        BY <1>6, <1>7, <2>1
      <3>1. run[r].exclusive
        BY <1>6
      <3>2. job[r][c] \in Over
        BY <1>1, <2>3, <3>1 DEF RunInv, CaseOK
      <3> QED
        BY <2>2, <3>2 DEF Over
    <2> QED
      BY <2>4, <2>5, <2>6, <2>7 DEF CaseOK
  <1>10. Alone'
    BY <1>1 DEF RunInv, Alone, Executes
  <1> QED
    BY <1>5, <1>8, <1>9, <1>10, OtherRuns DEF RunInv

LEMMA ReportKeeps ==
    ASSUME RunInv, NEW r \in Runs, Report(r)
    PROVE  RunInv'
  <1>1. PICK e \in 0 .. 1, g \in BOOLEAN :
          /\ run[r].pc = "reporting"
          /\ run' = [run EXCEPT ![r].pc = "ended", ![r].gate = g, ![r].exit = e]
          /\ (e = 0 <=> Accepted(r)) /\ (g <=> Gate(r))
          /\ UNCHANGED <<job, result, faults, alive, deaths>>
    <2>1. Gate(r) \in BOOLEAN /\ (IF Accepted(r) THEN 0 ELSE 1) \in 0 .. 1
      BY DEF Gate
    <2>2. (IF Accepted(r) THEN 0 ELSE 1) = 0 <=> Accepted(r)
      OBVIOUS
    <2> QED
      BY <2>1, <2>2 DEF Report
  <1>2. PICK u \in RunState : u = run[r]
    BY RunStates
  <1>3. PICK v \in RunState :
          /\ run' = [run EXCEPT ![r] = v] /\ v.pc = "ended" /\ v.selected = u.selected
          /\ v.exclusive = u.exclusive /\ v.exit = e /\ v.gate = g
    <2>1. PICK v : v = [u EXCEPT !.pc = "ended", !.gate = g, !.exit = e]
      OBVIOUS
    <2>2. e \in 0 .. 3
      OBVIOUS
    <2>3. /\ v \in RunState /\ v.pc = "ended" /\ v.selected = u.selected
          /\ v.exclusive = u.exclusive /\ v.exit = e /\ v.gate = g
      BY <2>1, <2>2 DEF RunState
    <2>4. run' = [run EXCEPT ![r] = v]
      BY <1>1, <1>2, <2>1, RunStates
    <2> QED
      BY <2>3, <2>4
  <1>4. TypeOK' /\ run'[r] = v /\ RunStep(r)
    BY ZenonT(30), <1>1, <1>3, OneRun DEF RunInv, TypeOK, RunStep
  <1>5. /\ run'[r].exclusive = run[r].exclusive /\ run'[r].gate = g
        /\ run'[r].pc = "ended" /\ run'[r].exit = e
        /\ run'[r].selected = run[r].selected
    BY <1>2, <1>3, <1>4
  <1>6. RunOK(r)'
    BY <1>1, <1>5 DEF RunOK, Accepted, Gate
  <1>7. ASSUME NEW c \in Cases
        PROVE  CaseOK(r, c)'
    BY <1>1, <1>5 DEF RunInv, CaseOK
  <1>8. Alone'
    BY <1>1 DEF RunInv, Alone, Executes
  <1> QED
    BY <1>4, <1>6, <1>7, <1>8, OtherRuns DEF RunInv

LEMMA DiesKeeps ==
    ASSUME RunInv, NEW r \in Runs, NEW c \in Cases, WorkerDies(r, c)
    PROVE  RunInv'
  <1>1. /\ c \in Busy(r)
        /\ job' = [job EXCEPT ![r] = [d \in Cases |->
                      IF d \in Phase(r) /\ job[r][d] \notin Over THEN "lost" ELSE job[r][d]]]
        /\ faults' = [faults EXCEPT ![r] = [d \in Cases |->
                      IF d \in Phase(r) /\ job[r][d] \notin Over THEN faults[r][d] \cup {"died"} ELSE faults[r][d]]]
        /\ deaths' = deaths + 1 /\ deaths < MaxDeaths
        /\ run' \in {run, [run EXCEPT ![r].pc = "ended", ![r].exit = 1]}
        /\ UNCHANGED <<result, alive>>
    BY DEF WorkerDies
  <1>2. job[r][c] \notin {"none", "queued"} \cup Over
    BY <1>1 DEF Busy
  <1>3. c \in run[r].selected /\ run[r].pc # "idle"
    BY <1>2 DEF RunInv, CaseOK
  <1>4. run[r].exit # 0 /\ run[r].pc # "reporting" /\ ~run[r].gate
    BY <1>2, <1>3 DEF RunInv, CaseOK, RunOK
  <1>5. PICK u \in RunState : u = run[r]
    BY RunStates
  <1>6. PICK v \in RunState :
          /\ run' = [run EXCEPT ![r] = v] /\ v.selected = u.selected
          /\ v.exclusive = u.exclusive /\ v.gate = u.gate
          /\ \/ (v.pc = u.pc /\ v.exit = u.exit)
             \/ (v.pc = "ended" /\ v.exit = 1)
    <2>1. CASE run' = run
      <3>1. run' = [run EXCEPT ![r] = u]
        BY <1>5, <2>1, RunStates
      <3> QED
        BY <3>1
    <2>2. CASE run' = [run EXCEPT ![r].pc = "ended", ![r].exit = 1]
      <3>0. PICK e \in 0 .. 3 : e = 1
        OBVIOUS
      <3>1. PICK v : v = [u EXCEPT !.pc = "ended", !.exit = e]
        OBVIOUS
      <3>2. v \in RunState /\ v.selected = u.selected /\ v.gate = u.gate /\ v.pc = "ended" /\ v.exit = 1 /\ v.exclusive = u.exclusive
        BY <3>0, <3>1 DEF RunState
      <3>3. run' = [run EXCEPT ![r] = v]
        BY <1>5, <2>2, RunStates, <3>0, <3>1
      <3> QED
        BY <3>2, <3>3
    <2> QED
      BY <1>1, <2>1, <2>2
  <1>7. TypeOK' /\ run'[r] = v /\ RunStep(r)
    <2>1. /\ job' \in [Runs -> [Cases -> Waiting \cup Executing \cup {"closed"} \cup Over]]
          /\ \A q \in Runs \ {r} : job'[q] = job[q]
      BY <1>1 DEF RunInv, TypeOK, Over
    <2>2. /\ faults' \in [Runs -> [Cases -> SUBSET {"assertion", "leak", "provider", "differs", "died"}]]
          /\ \A q \in Runs \ {r} : faults'[q] = faults[q]
      BY <1>1 DEF RunInv, TypeOK
    <2>3. deaths' \in 0 .. MaxDeaths
      BY <1>1, ParityRunsAssumption DEF RunInv, TypeOK, ParityRunsAssumption
    <2> QED
      BY <1>1, <1>6, <2>1, <2>2, <2>3, OneRun DEF RunInv, TypeOK, RunStep
  <1>8. /\ run'[r].exclusive = run[r].exclusive /\ run'[r].gate = run[r].gate
        /\ run'[r].selected = run[r].selected
        /\ \/ run'[r].pc = run[r].pc /\ run'[r].exit = run[r].exit
           \/ run'[r].pc = "ended" /\ run'[r].exit = 1
    BY <1>5, <1>6, <1>7
  <1>9. RunOK(r)'
    BY <1>3, <1>4, <1>8 DEF RunInv, RunOK
  <1>10. ASSUME NEW d \in Cases
         PROVE  \/ job'[r][d] = job[r][d] /\ faults'[r][d] = faults[r][d]
                \/ job'[r][d] = "lost" /\ d \in Phase(r)
    BY <1>1 DEF RunInv, TypeOK
  <1>11. ASSUME NEW d \in Cases
         PROVE  CaseOK(r, d)'
    <2>1. run'[r].exit # 0 /\ run'[r].pc # "reporting" /\ run'[r].pc # "idle" /\ result' = result
      BY <1>1, <1>3, <1>4, <1>8
    <2>2. CASE job'[r][d] = job[r][d] /\ faults'[r][d] = faults[r][d]
      BY <1>8, <2>1, <2>2 DEF RunInv, CaseOK
    <2>3. CASE job'[r][d] = "lost" /\ d \in Phase(r)
      <3>1. d \in run[r].selected /\ (d \in Exclusive => run[r].exclusive)
        BY <2>3 DEF Phase
      <3>2. result[r][d] = "passed" => d \notin Pending \cup Unavailable
        BY DEF RunInv, CaseOK
      <3> QED
        BY <1>8, <2>1, <2>3, <3>1, <3>2 DEF CaseOK, Over, Executing
    <2> QED
      BY <1>10, <2>2, <2>3
  <1>12. Alone'
    <2>1. ASSUME NEW q \in Runs, NEW d \in Cases
          PROVE  job'[q][d] = job[q][d] \/ job'[q][d] = "lost"
      BY <1>7, <1>10 DEF RunStep
    <2> QED
      BY <2>1, NoneTakes DEF RunInv, Executes, Executing
  <1> QED
    BY <1>7, <1>9, <1>11, <1>12, OtherRuns DEF RunInv

LEMMA OrphanKeeps ==
    ASSUME RunInv, alive' \subseteq alive, UNCHANGED <<run, job, result, faults, deaths>>
    PROVE  RunInv'
  <1>1. TypeOK' /\ Alone'
    BY DEF RunInv, TypeOK, Alone, Executes
  <1>2. ASSUME NEW r \in Runs
        PROVE  RunOK(r)' /\ \A c \in Cases : CaseOK(r, c)'
    BY DEF RunInv, RunOK, Accepted, CaseOK
  <1> QED
    BY <1>1, <1>2 DEF RunInv

LEMMA InitKeeps ==
    ASSUME Init
    PROVE  RunInv
  <1>1. TypeOK
    BY ParityRunsAssumption DEF Init, TypeOK, ParityRunsAssumption, Waiting, Statuses
  <1>2. Alone
    BY DEF Init, Alone, Executes, Executing
  <1>3. ASSUME NEW r \in Runs
        PROVE  RunOK(r)
    BY DEF Init, RunOK
  <1>4. ASSUME NEW r \in Runs, NEW c \in Cases
        PROVE  CaseOK(r, c)
    BY DEF Init, CaseOK, Executing, Over
  <1> QED
    BY <1>1, <1>2, <1>3, <1>4 DEF RunInv

LEMMA NextKeeps ==
    ASSUME RunInv, [Next]_vars
    PROVE  RunInv'
  <1>1. ASSUME NEW r \in Runs, RunSteps(r)
        PROVE  RunInv'
    BY <1>1, SubmitKeeps, SubmittedKeeps, CollectKeeps, ReportKeeps DEF RunSteps
  <1>2. ASSUME NEW r \in Runs, NEW selected \in SUBSET Cases, NEW scope \in Scopes,
               Start(r, selected, scope)
        PROVE  RunInv'
    BY <1>2, StartKeeps
  <1>3. ASSUME NEW r \in Runs, NEW c \in Cases, WorkerSteps(r, c)
        PROVE  RunInv'
    BY <1>3, TakeKeeps, ShareKeeps, SkipKeeps, BeginKeeps, PromoteKeeps, RunCaseKeeps, CloseKeeps,
       FinishKeeps DEF WorkerSteps
  <1>4. ASSUME NEW r \in Runs, NEW c \in Cases, WorkerDies(r, c)
        PROVE  RunInv'
    BY <1>4, DiesKeeps
  <1>5. ASSUME NEW r \in Runs, NEW c \in Cases, OrphanEnds(r, c)
        PROVE  RunInv'
    BY <1>5, OrphanKeeps DEF OrphanEnds
  <1>6. CASE UNCHANGED vars
    BY <1>6, OrphanKeeps DEF vars
  <1> QED
    BY <1>1, <1>2, <1>3, <1>4, <1>5, <1>6 DEF Next

(***************************************************************************)
(* Any number of runs of the suite, on one machine, with any workers dying *)
(* at any step: exclusive cases are alone, an exit status of zero and an   *)
(* open gate stand on cases that were all executed and compared without a  *)
(* fault (schedule_cases, execute_case, accepted_outcomes, gate_success).  *)
(***************************************************************************)
THEOREM SuccessIsAlwaysEarned == Spec => []SuccessIsEarned
  <1>1. RunInv => ExclusiveAlone
    <2> SUFFICES ASSUME RunInv, NEW r \in Runs, NEW c \in Exclusive, Executes(r, c),
                        NEW q \in Runs, NEW d \in Cases, Executes(q, d)
                 PROVE  <<r, c>> = <<q, d>>
      BY DEF ExclusiveAlone
    <2>1. c \in Cases
      BY ParityRunsAssumption
    <2> QED
      BY <2>1 DEF RunInv, Alone
  <1>2. RunInv => ZeroMeansPassed
    <2> SUFFICES ASSUME RunInv, NEW r \in Runs, run[r].exit = 0, NEW c \in run[r].selected \ Pending
                 PROVE  job[r][c] = "done" /\ faults[r][c] = {} /\ c \notin Unavailable
      BY DEF ZeroMeansPassed
    <2>1. c \in Cases
      BY DEF RunInv, TypeOK
    <2>2. result[r][c] = "passed"
      BY DEF RunInv, RunOK, Accepted
    <2>3. CaseOK(r, c)
      BY <2>1 DEF RunInv
    <2> QED
      BY <2>2, <2>3 DEF CaseOK
  <1>3. RunInv => GateMeansCompared
    <2> SUFFICES ASSUME RunInv, NEW r \in Runs, run[r].gate
                 PROVE  /\ run[r].exit = 0 /\ Mode[r] = "compare"
                        /\ \A c \in run[r].selected \ Pending : job[r][c] = "done" /\ faults[r][c] = {}
      BY DEF GateMeansCompared
    <2>1. run[r].exit = 0 /\ Mode[r] = "compare"
      BY DEF RunInv, RunOK
    <2> QED
      BY <1>2, <2>1 DEF ZeroMeansPassed
  <1>4. RunInv => SuccessIsEarned
    BY <1>1, <1>2, <1>3 DEF RunInv, SuccessIsEarned
  <1> QED
    BY InitKeeps, NextKeeps, <1>4, PTL DEF Spec

===============================================================================
