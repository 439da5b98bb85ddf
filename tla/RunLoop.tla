------------------------------- MODULE RunLoop -------------------------------
(***************************************************************************)
(* One chat session of re:agent: the prompt loop (chat.go), the run that   *)
(* executes a submission (loop.go), compaction (session.go,                *)
(* run_compact.go), the checkpoints all of them write, and what a crash, a *)
(* power loss and --resume make of the session.                            *)
(*                                                                         *)
(* A step runs from one checkpoint, or one external action, to the next:   *)
(* the process is one goroutine here, and what interleaves with it is the  *)
(* user's Ctrl-C, the model, the tools, the disk and the end of the        *)
(* process.                                                                *)
(***************************************************************************)
EXTENDS SessionHistory

CONSTANTS
    Kind,           \* the kind of tool each call names
    MaxSteps,       \* --max-steps, 0 for no budget
    MaxToolCalls,   \* --max-tool-calls, 0 for no budget
    InRunCompact,   \* --in-run-compact
    DiskRecovers,   \* a checkpoint may succeed after an earlier one failed
    MaxBatch,       \* bound: calls in one model response
    MaxInputs,      \* bound: inputs of the user in the session
    MaxCrashes      \* bound: ends of the process the user did not ask for

ASSUME ParameterAssumption ==
    /\ Kind \in [CallId -> {"read", "write", "exec", "workspace", "missing"}]
    /\ MaxSteps \in Nat /\ MaxToolCalls \in Nat
    /\ InRunCompact \in BOOLEAN /\ DiskRecovers \in BOOLEAN
    /\ MaxBatch \in Nat /\ MaxInputs \in Nat /\ MaxCrashes \in Nat

VARIABLES
    file, survivors,    \* the checkpoint file: see CheckpointStore
    pc,                 \* where the process is, "down" when there is none
    s,                  \* the session in memory
    run,                \* the run in memory
    batch,              \* the accepted calls the dispatcher has not settled
    failed,             \* a checkpoint failed in this process
    inputs,             \* inputs the user has given, the last one current
    crashes,
    started             \* history variable: executions of each call

store == <<file, survivors>>
ghosts == <<inputs, crashes, started>>
vars == <<store, pc, s, run, batch, failed, ghosts>>

Store == INSTANCE CheckpointStore

RunPcs == {"loop", "ready", "summarize", "summarizing", "model", "dispatch",
           "tool", "deny"}
Pcs == RunPcs \cup {"down", "prompt", "start", "append", "compact", "compacting",
                    "withdraw", "finish", "save", "stopping"}

NewRun == [steps |-> 0, calls |-> 0, status |-> "", resumable |-> FALSE,
           cancelled |-> FALSE, shortenings |-> 0, failures |-> 0,
           compactOff |-> FALSE, retryAfter |-> 0]

RunState == [steps : Nat, calls : Nat, status : RunStatus \cup {""},
             resumable : BOOLEAN, cancelled : BOOLEAN, shortenings : 0..2,
             failures : Nat, compactOff : BOOLEAN, retryAfter : Nat]

TypeOK ==
    /\ Store!TypeOK
    /\ pc \in Pcs
    /\ s \in Checkpoint
    /\ run \in RunState
    /\ batch \in Seq(CallId)
    /\ failed \in BOOLEAN
    /\ inputs \in Nat /\ crashes \in Nat
    /\ started \in [CallId -> Nat]

(***************************************************************************)
(* Session.checkpoint: the whole session is saved, and the phase it        *)
(* remembers moves only when the save succeeds.  When the disk does not    *)
(* recover, a save after a failed one changes nothing.                     *)
(***************************************************************************)
\* save returns nil: every step of it succeeded, the last directory sync too.
SucceededIfRenamed(outcome) == outcome # "unchanged"
Succeeded(outcome) == outcome = "saved"

SaveAs(session, phase, inFlight, outcome) ==
    /\ failed /\ ~DiskRecovers => outcome = "unchanged"
    /\ Store!Save(At(session, phase, inFlight), outcome)
    /\ s' = IF Succeeded(outcome) THEN At(session, phase, inFlight) ELSE session
    /\ failed' = (failed \/ ~Succeeded(outcome))

\* saveCheckpoint: local changes are saved under the phase of the last save.
SaveAgain(session, outcome) ==
    SaveAs(session, session.phase, session.inFlight, outcome)

\* recordResult: the result joins the transcript; once a checkpoint of the run
\* has failed it is no longer saved.
Record(c, code, outcome) ==
    LET recorded == [s EXCEPT !.history = Append(@, ToolEntry(c, code))]
    IN  IF failed
        THEN outcome = "unchanged" /\ s' = recorded /\ UNCHANGED <<store, failed>>
        ELSE SaveAs(recorded, "accepted", NoCall, outcome)

End(status, resumable) ==
    [run EXCEPT !.status = status, !.resumable = resumable]

(***************************************************************************)
(* The prompt.                                                             *)
(***************************************************************************)
Init ==
    /\ file = EmptySession /\ survivors = {EmptySession}
    /\ pc = "prompt" /\ s = EmptySession /\ run = NewRun /\ batch = <<>>
    /\ failed = FALSE
    /\ inputs = 0 /\ crashes = 0 /\ started = [c \in CallId |-> 0]

TogglePlan ==
    /\ pc = "prompt" /\ inputs < MaxInputs
    /\ inputs' = inputs + 1
    /\ s' = [s EXCEPT !.plan = ~@]
    /\ pc' = "save"
    /\ UNCHANGED <<store, run, batch, failed, crashes, started>>

\* !COMMAND joins the transcript without a turn.
Shell ==
    /\ pc = "prompt" /\ inputs < MaxInputs
    /\ inputs' = inputs + 1
    /\ s' = [s EXCEPT !.history = Append(@, ShellEntry(inputs'))]
    /\ pc' = "save"
    /\ UNCHANGED <<store, run, batch, failed, crashes, started>>

Submit ==
    /\ pc = "prompt" /\ inputs < MaxInputs
    /\ inputs' = inputs + 1
    /\ pc' = "start"
    /\ UNCHANGED <<store, s, run, batch, failed, crashes, started>>

\* The window is nearly full: the submission is saved, then the history is
\* compacted before the turn.  How full it is is not modelled.
SubmitAfterCompaction ==
    /\ pc = "prompt" /\ inputs < MaxInputs
    /\ s.blocked = "" /\ s.history # <<>>
    /\ inputs' = inputs + 1
    /\ \E outcome \in Store!Outcome :
          /\ SaveAgain([s EXCEPT !.pending = inputs'], outcome)
          /\ pc' = IF Succeeded(outcome) THEN "compact" ELSE "save"
    /\ UNCHANGED <<run, batch, crashes, started>>

\* /compact, also on a blocked session.
CompactCommand ==
    /\ pc = "prompt" /\ inputs < MaxInputs /\ s.history # <<>>
    /\ inputs' = inputs + 1
    /\ pc' = "compact"
    /\ UNCHANGED <<store, s, run, batch, failed, crashes, started>>

\* The save at the end of every command; a process that could not save stops.
SaveAtPrompt ==
    /\ pc = "save"
    /\ \E outcome \in Store!Outcome :
          /\ SaveAgain(s, outcome)
          /\ pc' = IF failed' THEN "stopping" ELSE "prompt"
    /\ UNCHANGED <<run, batch, ghosts>>

(***************************************************************************)
(* Session.Compact: one model request replaces the history by a summary.   *)
(* A submission is pending exactly when the compaction precedes a turn.    *)
(***************************************************************************)
RequestCompaction ==
    /\ pc = "compact"
    /\ \E outcome \in Store!Outcome :
          /\ SaveAs(s, "model", NoCall, outcome)
          /\ pc' = IF Succeeded(outcome) THEN "compacting" ELSE "save"
    /\ UNCHANGED <<run, batch, ghosts>>

CompactedForgetting(session) ==
    [session EXCEPT !.history = <<SummaryEntry(InputsIn(@))>>, !.blocked = "", !.seen = {}]
Compacted(session) ==
    [session EXCEPT !.history = <<SummaryEntry(InputsIn(@))>>, !.blocked = ""]

CompactionSucceeds ==
    /\ pc = "compacting"
    /\ \E outcome \in Store!Outcome :
          /\ SaveAs(Compacted(s), "terminal", NoCall, outcome)
          /\ pc' = IF Succeeded(outcome) /\ s.pending # 0 THEN "start" ELSE "save"
    /\ UNCHANGED <<run, batch, ghosts>>

\* The conversation and its block are left as they were; a turn waiting for
\* the compaction goes on unless the user cancelled.
CompactionFails ==
    /\ pc = "compacting"
    /\ \E outcome \in Store!Outcome, cancelled \in BOOLEAN :
          /\ SaveAs(s, "terminal", NoCall, outcome)
          /\ pc' = IF ~Succeeded(outcome) \/ s.pending = 0 THEN "save"
                   ELSE IF cancelled THEN "withdraw" ELSE "start"
    /\ UNCHANGED <<run, batch, ghosts>>

\* "compaction cancelled; message not sent".
Withdraw ==
    /\ pc = "withdraw"
    /\ \E outcome \in Store!Outcome : SaveAgain([s EXCEPT !.pending = 0], outcome)
    /\ pc' = "save"
    /\ UNCHANGED <<run, batch, ghosts>>

(***************************************************************************)
(* Starting a turn.                                                        *)
(***************************************************************************)
BeginTurn ==
    /\ pc = "start"
    /\ \E outcome \in Store!Outcome :
          /\ SaveAgain(s, outcome)
          /\ pc' = IF Succeeded(outcome) /\ s.blocked = "" THEN "append" ELSE "save"
    /\ UNCHANGED <<run, batch, ghosts>>

SubmittedKeepingPending(session) ==
    [session EXCEPT !.history = Append(@, UserEntry(inputs))]
Submitted(session) ==
    [session EXCEPT !.history = Append(@, UserEntry(inputs)), !.pending = 0]

AppendUser ==
    /\ pc = "append"
    /\ \E outcome \in Store!Outcome :
          /\ SaveAs(Submitted(s), "model", NoCall, outcome)
          /\ pc' = IF Succeeded(outcome) THEN "loop" ELSE "finish"
    /\ UNCHANGED <<run, batch, ghosts>>

\* Ctrl-C while a run is going on.
Interrupt ==
    /\ pc \in RunPcs /\ ~run.cancelled
    /\ run' = [run EXCEPT !.cancelled = TRUE]
    /\ UNCHANGED <<store, pc, s, batch, failed, ghosts>>

CancelledBetweenRequests ==
    /\ pc = "loop" /\ run.cancelled
    /\ run' = End("cancelled", TRUE)
    /\ pc' = "finish"
    /\ UNCHANGED <<store, s, batch, failed, ghosts>>

(***************************************************************************)
(* compactWithinRun: between the settled batch and the next request, the   *)
(* history may be summarized at the price of steps of the run.  Whether it *)
(* is large enough, and whether the summary fits, is not modelled.         *)
(***************************************************************************)
SummaryWanted ==
    /\ pc = "loop" /\ ~run.cancelled
    /\ InRunCompact /\ run.steps # 0
    /\ ~run.compactOff /\ run.steps >= run.retryAfter

SpareStepsForSummary == MaxSteps = 0 \/ run.steps + 1 <= MaxSteps
SpareSteps == MaxSteps = 0 \/ run.steps + 2 <= MaxSteps

\* No room for the summary and a step after it: not tried again in this run.
SummarySkipped ==
    /\ SummaryWanted
    /\ run' = [run EXCEPT !.compactOff = TRUE, !.retryAfter = 0]
    /\ pc' = "ready"
    /\ UNCHANGED <<store, s, batch, failed, ghosts>>

SummaryStarts ==
    /\ SummaryWanted /\ SpareSteps
    /\ run' = [run EXCEPT !.shortenings = 0]
    /\ pc' = "summarize"
    /\ UNCHANGED <<store, s, batch, failed, ghosts>>

RequestSummary ==
    /\ pc = "summarize"
    /\ run' = [run EXCEPT !.steps = @ + 1]
    /\ \E outcome \in Store!Outcome :
          /\ SaveAs(s, "model", NoCall, outcome)
          /\ pc' = IF Succeeded(outcome) THEN "summarizing" ELSE "finish"
    /\ UNCHANGED <<batch, ghosts>>

\* The request failed in a way the next turn can go on from.
SummaryFails ==
    /\ pc = "summarizing"
    /\ \E status \in {"provider_error", "cancelled"} : run' = End(status, TRUE)
    /\ pc' = "finish"
    /\ UNCHANGED <<store, s, batch, failed, ghosts>>

\* It failed otherwise, or the summary is of no use: the run goes on with the
\* history it has, and tries again after two steps, three times at most.
SummaryUseless ==
    /\ pc = "summarizing"
    /\ LET failures == run.failures + 1
           off == failures >= 3
       IN  run' = [run EXCEPT !.failures = failures, !.compactOff = off,
                              !.retryAfter = IF off THEN 0 ELSE run.steps + 2]
    /\ pc' = "ready"
    /\ UNCHANGED <<store, s, batch, failed, ghosts>>

SummaryTooLong ==
    /\ pc = "summarizing" /\ run.shortenings < 2 /\ SpareSteps
    /\ run' = [run EXCEPT !.shortenings = @ + 1]
    /\ pc' = "summarize"
    /\ UNCHANGED <<store, s, batch, failed, ghosts>>

\* The task of the run stays in words, before the summary.
Summarized(session) ==
    [session EXCEPT !.history = <<UserEntry(inputs), SummaryEntry(InputsIn(@))>>]

SummaryAccepted ==
    /\ pc = "summarizing"
    /\ run' = [run EXCEPT !.failures = 0, !.retryAfter = 0]
    /\ \E outcome \in Store!Outcome :
          /\ SaveAs(Summarized(s), "accepted", NoCall, outcome)
          /\ pc' = IF Succeeded(outcome) THEN "ready" ELSE "finish"
    /\ UNCHANGED <<batch, ghosts>>

(***************************************************************************)
(* A model request and its response.                                       *)
(***************************************************************************)
Request ==
    /\ pc = "ready" \/ (pc = "loop" /\ ~run.cancelled)
    /\ \E outcome \in Store!Outcome :
          /\ SaveAs(s, "model", NoCall, outcome)
          /\ IF Succeeded(outcome)
             THEN pc' = "model" /\ run' = [run EXCEPT !.steps = @ + 1]
             ELSE pc' = "finish" /\ run' = run
    /\ UNCHANGED <<batch, ghosts>>

\* Nothing was appended, so the next turn may go on after a provider error or
\* a cancellation, but not after a request that is too large.
ModelFails ==
    /\ pc = "model"
    /\ \E status \in {"provider_error", "limit_exceeded", "incomplete_response"} :
          run' = IF run.cancelled THEN End("cancelled", TRUE)
                 ELSE End(status, status = "provider_error")
    /\ pc' = "finish"
    /\ UNCHANGED <<store, s, batch, failed, ghosts>>

\* validateResponse refuses the whole response.
ModelRejected ==
    /\ pc = "model"
    /\ run' = End("protocol_error", FALSE)
    /\ pc' = "finish"
    /\ UNCHANGED <<store, s, batch, failed, ghosts>>

ModelReplies ==
    /\ pc = "model"
    /\ \E outcome \in Store!Outcome :
          SaveAs([s EXCEPT !.history = Append(@, AssistantEntry(<<>>))],
                 "accepted", NoCall, outcome)
    /\ run' = End("completed", FALSE)
    /\ pc' = "finish"
    /\ UNCHANGED <<batch, ghosts>>

\* validateResponse: an id is new to the response and to the session.
ValidInResponse(calls) == NoRepeats(calls)
Valid(calls) ==
    NoRepeats(calls) /\ ToSet(calls) \cap s.seen = {}

Accepted(session, calls) ==
    [session EXCEPT !.history = Append(@, AssistantEntry(calls)),
                    !.seen = @ \cup ToSet(calls)]

\* reserve: a whole batch or none of it, and no effect on the last step.
ReservedOnLastStep(n) ==
    /\ MaxToolCalls = 0 \/ n <= MaxToolCalls - run.calls
    /\ MaxSteps = 0 \/ run.steps <= MaxSteps
Reserved(n) ==
    /\ MaxToolCalls = 0 \/ n <= MaxToolCalls - run.calls
    /\ MaxSteps = 0 \/ run.steps < MaxSteps

\* A workspace operation must be the only call of its response.
SharesWorkspace(calls) ==
    Len(calls) > 1 /\ \E i \in DOMAIN calls : Kind[calls[i]] = "workspace"

AcceptCalls(calls, outcome) ==
    /\ SaveAs(Accepted(s, calls), "accepted", NoCall, outcome)
    /\ \/ ~Succeeded(outcome) /\ pc' = "finish" /\ UNCHANGED <<run, batch>>
       \/ /\ Succeeded(outcome) /\ batch' = calls
          /\ IF Reserved(Len(calls))
             THEN /\ pc' = IF SharesWorkspace(calls) THEN "deny" ELSE "dispatch"
                  /\ run' = [run EXCEPT !.calls = @ + Len(calls)]
             ELSE pc' = "deny" /\ run' = End("limit_exceeded", FALSE)

ModelCalls ==
    /\ pc = "model"
    /\ \E n \in 1..MaxBatch : \E calls \in [1..n -> CallId], outcome \in Store!Outcome :
          Valid(calls) /\ AcceptCalls(calls, outcome)
    /\ UNCHANGED ghosts

(***************************************************************************)
(* dispatch: one call at a time, in output order.                          *)
(***************************************************************************)
Refused(c) == Kind[c] = "missing" \/ (s.plan /\ Kind[c] # "read")

CallDroppedOnCancel ==
    /\ pc = "dispatch" /\ batch # <<>> /\ run.cancelled
    /\ run' = End("cancelled", FALSE)
    /\ batch' = <<>>
    /\ pc' = "finish"
    /\ UNCHANGED <<store, s, failed, ghosts>>

CallDenied ==
    /\ pc = "dispatch" /\ batch # <<>> /\ run.cancelled
    /\ run' = End("cancelled", FALSE)
    /\ pc' = "deny"
    /\ UNCHANGED <<store, s, batch, failed, ghosts>>

CallRefused ==
    /\ pc = "dispatch" /\ batch # <<>> /\ ~run.cancelled /\ Refused(Head(batch))
    /\ \E outcome \in Store!Outcome : Record(Head(batch), "refused", outcome)
    /\ batch' = Tail(batch)
    /\ UNCHANGED <<pc, run, ghosts>>

\* The intent is saved before the tool runs.
StartTool ==
    /\ pc = "dispatch" /\ batch # <<>> /\ ~run.cancelled /\ ~Refused(Head(batch))
    /\ \E outcome \in Store!Outcome :
          /\ SaveAs(s, "tool", Head(batch), outcome)
          /\ IF Succeeded(outcome)
             THEN /\ pc' = "tool" /\ batch' = batch
                  /\ started' = [started EXCEPT ![Head(batch)] = @ + 1]
             ELSE pc' = "finish" /\ batch' = <<>> /\ started' = started
    /\ UNCHANGED <<run, inputs, crashes>>

\* What a tool of each kind may report.
ToolCodes(kind) ==
    {"done", "internal_error"}
        \cup (IF kind = "read" THEN {} ELSE {"unknown"})
        \cup (IF kind = "exec" THEN {"timeout"} ELSE {})

\* An exec that timed out ends its batch, any other uncertain effect the run.
EndsBatchOnly(code) == code = "timeout"

\* What dispatch does after an executed call, and the status of the run if it
\* ends there.
AfterTool(code) ==
    \/ /\ code = "internal_error"
       /\ pc' = "deny" /\ run' = End("tool_internal_error", FALSE)
    \/ /\ code # "internal_error" /\ failed'
       /\ pc' = "finish" /\ run' = run
    \/ /\ code = "done" /\ ~failed'
       /\ pc' = "dispatch" /\ run' = run
    \/ /\ code \in {"unknown", "timeout"} /\ ~failed'
       /\ pc' = "deny"
       /\ run' = IF run.cancelled THEN End("cancelled", FALSE)
                 ELSE IF EndsBatchOnly(code) THEN run
                 ELSE End("effect_unknown", FALSE)

ToolReturns ==
    /\ pc = "tool"
    /\ \E code \in ToolCodes(Kind[Head(batch)]), outcome \in Store!Outcome :
          /\ Record(Head(batch), code, outcome)
          /\ AfterTool(code)
    /\ batch' = IF pc' = "finish" THEN <<>> ELSE Tail(batch)
    /\ UNCHANGED ghosts

BatchDone ==
    /\ pc = "dispatch" /\ batch = <<>>
    /\ pc' = "loop"
    /\ UNCHANGED <<store, s, run, batch, failed, ghosts>>

\* recordNotExecuted: each remaining call, while checkpoints succeed.
NotExecuted ==
    /\ pc = "deny" /\ batch # <<>> /\ ~failed
    /\ \E outcome \in Store!Outcome : Record(Head(batch), "not_executed", outcome)
    /\ batch' = Tail(batch)
    /\ UNCHANGED <<pc, run, ghosts>>

Denied ==
    /\ pc = "deny" /\ (batch = <<>> \/ failed)
    /\ batch' = <<>>
    /\ pc' = IF run.status = "" THEN "loop" ELSE "finish"
    /\ UNCHANGED <<store, s, run, failed, ghosts>>

\* finish: a run that cannot be continued from blocks the session; after a
\* failed checkpoint there is no terminal one.
Blocks(status, resumable) == status # "completed" /\ ~resumable

Finished(session) ==
    IF Blocks(run.status, run.resumable)
    THEN [session EXCEPT !.blocked = run.status] ELSE session

PersistenceError(session) == [session EXCEPT !.blocked = "persistence_error"]

Finish ==
    /\ pc = "finish"
    /\ IF failed
       THEN s' = PersistenceError(s) /\ UNCHANGED <<store, failed>>
       ELSE \E outcome \in Store!Outcome :
               /\ Store!Save(At(Finished(s), "terminal", NoCall), outcome)
               /\ s' = IF Succeeded(outcome) THEN At(Finished(s), "terminal", NoCall)
                       ELSE PersistenceError(s)
               /\ failed' = (~Succeeded(outcome))
    /\ run' = NewRun
    /\ pc' = "save"
    /\ UNCHANGED <<batch, ghosts>>

(***************************************************************************)
(* The end of the process, and --resume.                                   *)
(***************************************************************************)
ProcessGone ==
    /\ pc' = "down" /\ s' = EmptySession /\ run' = NewRun
    /\ batch' = <<>> /\ failed' = FALSE

\* /exit, Ctrl-D, and for this session /reset and a fresh /model as well: its
\* checkpoint stays as it is and its lock is released.
Leave ==
    /\ pc = "prompt"
    /\ ProcessGone
    /\ UNCHANGED <<store, ghosts>>

\* "session checkpoint failed; stop using this chat".
StopAfterFailure ==
    /\ pc = "stopping"
    /\ ProcessGone
    /\ UNCHANGED <<store, ghosts>>

Crash ==
    /\ pc # "down" /\ crashes < MaxCrashes
    /\ crashes' = crashes + 1
    /\ ProcessGone
    /\ UNCHANGED <<store, inputs, started>>

PowerLoss ==
    /\ crashes < MaxCrashes
    /\ crashes' = crashes + 1
    /\ Store!PowerLoss
    /\ ProcessGone
    /\ UNCHANGED <<inputs, started>>

\* A settled checkpoint is taken as it is.
ResumeSettled ==
    /\ pc = "down" /\ Loads(file) /\ ~Interrupted(file)
    /\ s' = file /\ pc' = "prompt"
    /\ UNCHANGED <<store, run, batch, failed, ghosts>>

\* An interrupted one is recovered and saved before the first prompt; if the
\* save fails the process ends.
ResumeInterrupted ==
    /\ pc = "down" /\ Loads(file) /\ Interrupted(file)
    /\ \E recovered \in Recoveries(file), outcome \in Store!Outcome :
          /\ Store!Save(recovered, outcome)
          /\ IF Succeeded(outcome) THEN s' = recovered /\ pc' = "prompt"
                                  ELSE UNCHANGED <<s, pc>>
    /\ UNCHANGED <<run, batch, failed, ghosts>>

(***************************************************************************)
(* The specification.                                                      *)
(***************************************************************************)
Compaction == RequestCompaction \/ CompactionSucceeds \/ CompactionFails \/ Withdraw

Summary == \/ SummarySkipped \/ SummaryStarts \/ RequestSummary \/ SummaryFails
           \/ SummaryUseless \/ SummaryTooLong \/ SummaryAccepted

Response == ModelFails \/ ModelRejected \/ ModelReplies \/ ModelCalls

Dispatch == \/ CallDenied \/ CallRefused \/ StartTool \/ ToolReturns \/ BatchDone
            \/ NotExecuted \/ Denied

\* What the process, the model and the tools do once the user gave an input.
Progress == \/ SaveAtPrompt \/ Compaction \/ BeginTurn \/ AppendUser
            \/ CancelledBetweenRequests \/ Summary \/ Request \/ Response
            \/ Dispatch \/ Finish \/ StopAfterFailure

User == \/ TogglePlan \/ Shell \/ Submit \/ SubmitAfterCompaction
        \/ CompactCommand \/ Interrupt \/ Leave

Restart == Crash \/ PowerLoss \/ ResumeSettled \/ ResumeInterrupted

Next == Progress \/ User \/ Restart

Spec == Init /\ [][Next]_vars

\* The goroutine runs, requests time out and tools return: every step of the
\* process is taken sooner or later.
FairSpec == Spec /\ WF_vars(Progress)

(***************************************************************************)
(* Properties.                                                             *)
(***************************************************************************)

\* A call is executed at most once in the life of its session, across runs,
\* compactions, crashes, power losses and resumptions: an id that was accepted
\* before is refused by validateResponse, also when its record has left the
\* transcript, and recovery restarts nothing (I05, I16).
AtMostOnce == \A c \in CallId : started[c] <= 1

\* Checkpoints are execution barriers.  While a tool runs, every checkpoint a
\* crash or a power loss may leave names its call as in flight; while a request
\* is at the model, every one holds the transcript the request was built from.
Barrier ==
    /\ pc = "tool" => \A cp \in survivors :
          cp.phase = "tool" /\ cp.inFlight = Head(batch) /\ cp.history = s.history
    /\ pc \in {"model", "summarizing", "compacting"} => \A cp \in survivors :
          cp.phase = "model" /\ cp.history = s.history

\* No transcript, in memory or after a recovery from what a crash may leave,
\* tells the model that a call was not executed when its execution had begun.
NotDenied(h) ==
    \A i \in Positions(h, "tool") :
       h[i].code \in {"not_executed", "refused"} => started[h[i].call] = 0

NoFalseDenial ==
    /\ NotDenied(s.history)
    /\ \A cp \in survivors : Loads(cp) =>
          \A recovered \in Recoveries(cp) : NotDenied(recovered.history)

\* Every checkpoint a crash or a power loss may leave is one that --resume
\* accepts.
CheckpointLoads == \A cp \in survivors : Loads(cp)

\* Recovery settles: there is one way to recover each survivor, and what comes
\* out loads, has every call answered and needs no recovery.
RecoverySettles ==
    \A cp \in survivors : Loads(cp) =>
       /\ Cardinality(Recoveries(cp)) = 1
       /\ \A recovered \in Recoveries(cp) :
             /\ Loads(recovered) /\ Unanswered(recovered.history) = {}
             /\ ~Interrupted(recovered)

\* No model request while an accepted call is without its result (I09), and
\* the transcript sent is one whose results match their calls (I05, I08).
RequestsSettled ==
    pc \in {"model", "summarizing", "compacting"} =>
       Loads(At(s, "model", NoCall))

\* An uncertain effect, other than an exec that timed out, stops the run: the
\* model is not asked again before the user has said something (I18).
UncertainStops ==
    pc = "model" =>
       \A i \in Positions(s.history, "tool") :
          s.history[i].code \in {"unknown", "recovery_effect_unknown"} =>
             \E j \in Positions(s.history, "user") : j > i

\* What a crash may leave loads and settles in one way, and neither it nor the
\* transcript denies an execution, leaves a call open or goes on after an
\* uncertain effect.
RecoveryHolds ==
    NoFalseDenial /\ CheckpointLoads /\ RecoverySettles /\ RequestsSettled /\ UncertainStops

\* The budgets of a run hold, in-run summaries included, and no tool runs on a
\* step that no later step could report.
WithinBudget ==
    /\ MaxSteps # 0 => run.steps <= MaxSteps
    /\ MaxSteps # 0 /\ pc = "tool" => run.steps < MaxSteps
    /\ MaxToolCalls # 0 => run.calls <= MaxToolCalls

\* A message of the user is in a transcript once, also when it waited for a
\* compaction that a crash interrupted.
Occurrences(cp, n) ==
    Cardinality({i \in Positions(cp.history, "user") : cp.history[i].input = n})
        + (IF cp.pending = n THEN 1 ELSE 0)

SubmittedOnce ==
    \A cp \in survivors \cup {s} : \A n \in 1..MaxInputs : Occurrences(cp, n) <= 1

\* What the session has promised to keep, it keeps: an input that no crash
\* could lose is not lost later, unless the user cancels the compaction that
\* was to precede it.
Kept(n) ==
    \A cp \in survivors : n \in InputsIn(cp.history) \cup {cp.pending}

KeepsInputs == \A n \in 1..MaxInputs : Kept(n) => Kept(n)' \/ (pc = "withdraw" /\ n = inputs)

InputsKept == [][KeepsInputs]_vars

\* The ids a crash cannot make the session forget only grow: nothing that was
\* accepted can be accepted again after a restart (I04).
Remembered == {c \in CallId : \A cp \in survivors : c \in cp.seen}

LedgerGrows == [][Remembered \subseteq Remembered']_vars

\* Why a call is executed once: an execution is remembered before it begins,
\* what is remembered is known to the process that validates the responses,
\* and of the calls accepted and not yet settled only the one whose tool runs
\* has begun.
Ledger ==
    /\ file \in survivors
    /\ \A c \in CallId : started[c] # 0 => c \in Remembered
    /\ pc # "down" => Remembered \subseteq s.seen

BatchFresh ==
    /\ pc \notin {"dispatch", "tool", "deny"} => batch = <<>>
    /\ pc = "tool" => batch # <<>>
    /\ NoRepeats(batch)
    /\ \A i \in DOMAIN batch :
          batch[i] \in s.seen /\ (started[batch[i]] = 0 \/ (pc = "tool" /\ i = 1))

ExecutionsRemembered == Ledger /\ BatchFresh /\ AtMostOnce

\* Every accepted call gets its result if the process lives.
Answered(c) == c \notin Unanswered(s.history)

=============================================================================
