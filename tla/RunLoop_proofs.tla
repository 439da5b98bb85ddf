---------------------------- MODULE RunLoop_proofs ----------------------------
(***************************************************************************)
(* Proofs about RunLoop for every value of its constants: type correctness,*)
(* the safety of the call ledger, what recovery makes of a session, and    *)
(* what becomes of the user's messages.                                    *)
(***************************************************************************)
EXTENDS RunLoop, FiniteSetTheorems, SequenceTheorems, TLAPS

(***************************************************************************)
(* Types of the operators the steps are built from.                        *)
(***************************************************************************)

\* Every entry the program appends is a transcript entry.
LEMMA InputEntryType ==
    ASSUME NEW n \in Nat
    PROVE  UserEntry(n) \in Entry /\ ShellEntry(n) \in Entry
  BY DEF UserEntry, ShellEntry, Entry

LEMMA AssistantEntryType ==
    ASSUME NEW calls \in Seq(CallId)
    PROVE  AssistantEntry(calls) \in Entry
  BY DEF AssistantEntry, Entry

LEMMA ToolEntryType ==
    ASSUME NEW c \in CallId, NEW code \in Code
    PROVE  ToolEntry(c, code) \in Entry
  BY DEF ToolEntry, Entry

LEMMA SummaryEntryType ==
    ASSUME NEW covered \in SUBSET Nat
    PROVE  SummaryEntry(covered) \in Entry
  BY DEF SummaryEntry, Entry

\* The fields of an entry are those of its kind.
LEMMA EntryFields ==
    ASSUME NEW e \in Entry
    PROVE  /\ e.kind \in {"user", "shell"} => e.input \in Nat
           /\ e.kind = "assistant" => e.calls \in Seq(CallId)
           /\ e.kind = "tool" => e.call \in CallId
           /\ e.kind = "summary" => e.covers \in SUBSET Nat
  BY DEF Entry

LEMMA InputsAreNumbers ==
    ASSUME NEW h \in Seq(Entry)
    PROVE  InputsIn(h) \in SUBSET Nat
  <1>1. \A i \in DOMAIN h : h[i] \in Entry
    OBVIOUS
  <1> QED
    BY <1>1, EntryFields DEF InputsIn, CoveredBy, Positions

LEMMA UnansweredAreCalls ==
    ASSUME NEW h \in Seq(Entry)
    PROVE  Unanswered(h) \in SUBSET CallId
  <1>1. \A i \in DOMAIN h : h[i] \in Entry
    OBVIOUS
  <1>2. \A i \in Positions(h, "assistant") : h[i].calls \in Seq(CallId)
    BY <1>1, EntryFields DEF Positions
  <1>3. \A i \in Positions(h, "assistant") : ToSet(h[i].calls) \subseteq CallId
    BY <1>2 DEF ToSet
  <1> QED
    BY <1>3 DEF Unanswered, CallsIn

\* A checkpoint taken of a session is a checkpoint.
LEMMA AtType ==
    ASSUME NEW session \in Checkpoint, NEW phase \in Phase,
           NEW inFlight \in CallId \cup {NoCall}
    PROVE  /\ At(session, phase, inFlight) \in Checkpoint
           /\ At(session, phase, inFlight).seen = session.seen
  BY DEF At, Checkpoint

LEMMA AppendType ==
    ASSUME NEW session \in Checkpoint, NEW e \in Entry
    PROVE  /\ [session EXCEPT !.history = Append(@, e)] \in Checkpoint
           /\ [session EXCEPT !.history = Append(@, e)].seen = session.seen
  <1>1. session.history \in Seq(Entry)
    BY DEF Checkpoint
  <1>2. Append(session.history, e) \in Seq(Entry)
    BY <1>1, AppendProperties
  <1> QED
    BY <1>2 DEF Checkpoint

LEMMA RecoveredType ==
    ASSUME NEW cp \in Checkpoint, NEW recovered \in Recoveries(cp)
    PROVE  recovered \in Checkpoint /\ recovered.seen = cp.seen
  <1> DEFINE h == cp.history
             n == Cardinality(Unanswered(h))
  <1>1. h \in Seq(Entry) /\ cp.pending \in Nat
    BY DEF Checkpoint
  <1>2. Unanswered(h) \in SUBSET CallId /\ n \in Nat
    BY <1>1, UnansweredAreCalls, CallIdAssumption, FS_Subset, FS_CardinalityType
  <1>3. PICK order \in RecoveryOrders(h) : recovered = Recovered(cp, order)
    BY DEF Recoveries
  <1>4. order \in [1..n -> CallId]
    BY <1>2, <1>3 DEF RecoveryOrders
  <1>5. \A i \in 1..n : ToolEntry(order[i], RecoveryCode(cp, order[i])) \in Entry
    BY <1>4, ToolEntryType DEF RecoveryCode, Code
  <1>6. RecoveryResults(cp, order) \in [1..n -> Entry]
    BY <1>4, <1>5 DEF RecoveryResults
  <1>7. RecoveryResults(cp, order) \in Seq(Entry)
    BY <1>2, <1>6, SeqDef
  <1>8. RecoveredSubmission(cp) \in Seq(Entry)
    BY <1>1, InputEntryType DEF RecoveredSubmission
  <1>9. h \o RecoveryResults(cp, order) \o RecoveredSubmission(cp) \in Seq(Entry)
    BY <1>1, <1>7, <1>8, ConcatProperties
  <1> QED
    BY ZenonT(30), <1>3, <1>9, AtType DEF Recovered, Checkpoint, Phase, At

(***************************************************************************)
(* What a step of a living process does to the store and the session: the  *)
(* types stay, the session forgets no id, and every checkpoint it adds to  *)
(* the survivors knows what the session knows.                             *)
(***************************************************************************)
Grows ==
    /\ s.seen \subseteq s'.seen
    /\ \A cp \in survivors' : cp \in survivors \/ cp.seen = s'.seen
    /\ survivors \subseteq survivors' \/ \E cp \in survivors' : cp.seen = s'.seen
    /\ file \in survivors => file' \in survivors'

Continues == Store!TypeOK' /\ s' \in Checkpoint /\ failed' \in BOOLEAN /\ Grows

LEMMA SaveContinues ==
    ASSUME TypeOK, NEW session \in Checkpoint, NEW phase \in Phase,
           NEW inFlight \in CallId \cup {NoCall}, NEW outcome \in Store!Outcome,
           s.seen \subseteq session.seen,
           SaveAs(session, phase, inFlight, outcome)
    PROVE  /\ Continues /\ s'.seen = session.seen
           /\ Succeeded(outcome) =>
                 survivors' = {At(session, phase, inFlight)} /\ s' = At(session, phase, inFlight)
  <1> DEFINE cp == At(session, phase, inFlight)
  <1>1. cp \in Checkpoint /\ cp.seen = session.seen
    BY AtType
  <1>2. Store!Save(cp, outcome) /\ s' = IF Succeeded(outcome) THEN cp ELSE session
    BY DEF SaveAs
  <1>3. failed' \in BOOLEAN
    BY DEF SaveAs, Succeeded
  <1>4. Store!TypeOK'
    BY <1>1, <1>2 DEF TypeOK, Store!TypeOK, Store!Save, Store!vars
  <1>5. s' \in Checkpoint /\ s'.seen = session.seen
    BY <1>1, <1>2
  <1>6. Grows
    BY <1>1, <1>2, <1>5 DEF Grows, Store!Save, Store!vars
  <1> QED
    BY <1>2, <1>3, <1>4, <1>5, <1>6 DEF Continues, Store!Save, Succeeded

LEMMA SaveAgainContinues ==
    ASSUME TypeOK, NEW session \in Checkpoint, NEW outcome \in Store!Outcome,
           s.seen \subseteq session.seen, SaveAgain(session, outcome)
    PROVE  Continues
  <1>1. session.phase \in Phase /\ session.inFlight \in CallId \cup {NoCall}
    BY DEF Checkpoint
  <1> QED
    BY <1>1, SaveContinues DEF SaveAgain

\* A step that saves nothing.
LEMMA UnsavedContinues ==
    ASSUME TypeOK, s' \in Checkpoint, s'.seen = s.seen, UNCHANGED <<store, failed>>
    PROVE  Continues
  <1>1. file' = file /\ survivors' = survivors /\ failed' = failed
    BY DEF store
  <1>2. Store!TypeOK'
    BY <1>1 DEF TypeOK, Store!TypeOK
  <1> QED
    BY <1>1, <1>2 DEF Continues, Grows, TypeOK

LEMMA RecordContinues ==
    ASSUME TypeOK, NEW c \in CallId, NEW code \in Code, NEW outcome \in Store!Outcome,
           Record(c, code, outcome)
    PROVE  Continues
  <1> DEFINE recorded == [s EXCEPT !.history = Append(@, ToolEntry(c, code))]
  <1>1. recorded \in Checkpoint /\ recorded.seen = s.seen
    BY ToolEntryType, AppendType DEF TypeOK
  <1>2. CASE failed
    <2>1. s' = recorded /\ UNCHANGED <<store, failed>>
      BY <1>2 DEF Record
    <2> QED
      BY <1>1, <2>1, UnsavedContinues
  <1>3. CASE ~failed
    <2>1. SaveAs(recorded, "accepted", NoCall, outcome)
      BY <1>3 DEF Record
    <2> QED
      BY <1>1, <2>1, SaveContinues DEF Phase
  <1> QED
    BY <1>2, <1>3

LEMMA EmptySessionType == EmptySession \in Checkpoint
  BY DEF EmptySession, Checkpoint, Phase

LEMMA NewRunType == NewRun \in RunState
  BY DEF NewRun, RunState

LEMMA EndType ==
    ASSUME run \in RunState, NEW status \in RunStatus, NEW resumable \in BOOLEAN
    PROVE  End(status, resumable) \in RunState
  BY DEF End, RunState

\* Counters stay numbers.
LEMMA Counters ==
    /\ \A n \in Nat : n + 1 \in Nat /\ n + 2 \in Nat
    /\ \A n \in 0..2 : n < 2 => n + 1 \in 0..2
    /\ \A n, k \in Nat : n + k \in Nat
    /\ 0 \in Nat /\ 0 \in 0..2
  OBVIOUS

\* The counters of a run are numbers.
LEMMA RunFields ==
    ASSUME run \in RunState
    PROVE  /\ run.steps \in Nat /\ run.calls \in Nat /\ run.failures \in Nat
           /\ run.shortenings \in 0..2
           /\ \A n \in Nat : /\ [run EXCEPT !.steps = n] \in RunState
                            /\ [run EXCEPT !.calls = n] \in RunState
           /\ \A n \in 0..2 : [run EXCEPT !.shortenings = n] \in RunState
           /\ \A n, k \in Nat, off \in BOOLEAN :
                 /\ [run EXCEPT !.failures = n, !.compactOff = off, !.retryAfter = k] \in RunState
                 /\ [run EXCEPT !.compactOff = off, !.retryAfter = k] \in RunState
           /\ [run EXCEPT !.cancelled = TRUE] \in RunState
  BY DEF RunState

LEMMA CompactedType ==
    ASSUME NEW session \in Checkpoint
    PROVE  /\ Compacted(session) \in Checkpoint
           /\ Compacted(session).seen = session.seen
  <1>1. session.history \in Seq(Entry)
    BY DEF Checkpoint
  <1>2. SummaryEntry(InputsIn(session.history)) \in Entry
    BY <1>1, InputsAreNumbers, SummaryEntryType
  <1>3. <<SummaryEntry(InputsIn(session.history))>> \in Seq(Entry)
    BY <1>2
  <1> QED
    BY <1>3 DEF Compacted, Checkpoint

LEMMA SummarizedType ==
    ASSUME inputs \in Nat, NEW session \in Checkpoint
    PROVE  /\ Summarized(session) \in Checkpoint
           /\ Summarized(session).seen = session.seen
  <1>1. session.history \in Seq(Entry)
    BY DEF Checkpoint
  <1>2. SummaryEntry(InputsIn(session.history)) \in Entry /\ UserEntry(inputs) \in Entry
    BY <1>1, InputsAreNumbers, SummaryEntryType, InputEntryType
  <1>3. <<UserEntry(inputs), SummaryEntry(InputsIn(session.history))>> \in Seq(Entry)
    BY <1>2
  <1> QED
    BY <1>3 DEF Summarized, Checkpoint

LEMMA SubmittedType ==
    ASSUME inputs \in Nat, NEW session \in Checkpoint
    PROVE  /\ Submitted(session) \in Checkpoint
           /\ Submitted(session).seen = session.seen
  <1>1. Append(session.history, UserEntry(inputs)) \in Seq(Entry)
    BY InputEntryType, AppendProperties DEF Checkpoint
  <1> QED
    BY <1>1 DEF Submitted, Checkpoint

LEMMA AcceptedType ==
    ASSUME NEW session \in Checkpoint, NEW calls \in Seq(CallId)
    PROVE  /\ Accepted(session, calls) \in Checkpoint
           /\ Accepted(session, calls).seen = session.seen \cup ToSet(calls)
  <1>1. Append(session.history, AssistantEntry(calls)) \in Seq(Entry)
    BY AssistantEntryType, AppendProperties DEF Checkpoint
  <1>2. ToSet(calls) \subseteq CallId
    BY DEF ToSet
  <1> QED
    BY <1>1, <1>2 DEF Accepted, Checkpoint

LEMMA FinishedType ==
    ASSUME TypeOK
    PROVE  /\ Finished(s) \in Checkpoint /\ Finished(s).seen = s.seen
           /\ PersistenceError(s) \in Checkpoint /\ PersistenceError(s).seen = s.seen
  BY DEF TypeOK, Finished, PersistenceError, Checkpoint, RunState, RunStatus
(***************************************************************************)
(* Every step of a living process, one action at a time.                   *)
(***************************************************************************)
Controls ==
    /\ pc' \in Pcs /\ run' \in RunState /\ batch' \in Seq(CallId)
    /\ inputs' \in Nat /\ crashes' \in Nat /\ started' \in [CallId -> Nat]

WellTyped == Continues /\ Controls

LEMMA WellTypedSuffices == WellTyped => TypeOK' /\ Grows
  BY DEF WellTyped, Continues, Controls, TypeOK

LEMMA PromptSteps ==
    ASSUME TypeOK, TogglePlan \/ Shell \/ Submit \/ SubmitAfterCompaction
                      \/ CompactCommand \/ SaveAtPrompt
    PROVE  WellTyped
  <1> USE DEF WellTyped, Controls
  <1>1. CASE TogglePlan
    <2>1. s' \in Checkpoint /\ s'.seen = s.seen
      BY <1>1 DEF TogglePlan, TypeOK, Checkpoint
    <2>2. Continues
      BY <1>1, <2>1, UnsavedContinues DEF TogglePlan
    <2> QED
      BY <1>1, <2>2 DEF TogglePlan, TypeOK, Pcs
  <1>2. CASE Shell
    <2>1. inputs' \in Nat
      BY <1>2 DEF Shell, TypeOK
    <2>2. s' \in Checkpoint /\ s'.seen = s.seen
      BY <1>2, <2>1, InputEntryType, AppendType DEF Shell, TypeOK
    <2>3. Continues
      BY <1>2, <2>2, UnsavedContinues DEF Shell
    <2> QED
      BY <1>2, <2>1, <2>3 DEF Shell, TypeOK, Pcs
  <1>3. CASE Submit
    <2>1. Continues
      BY <1>3, UnsavedContinues DEF Submit, TypeOK
    <2> QED
      BY <1>3, <2>1 DEF Submit, TypeOK, Pcs
  <1>4. CASE SubmitAfterCompaction
    <2>1. inputs' \in Nat
      BY <1>4, Counters DEF SubmitAfterCompaction, TypeOK
    <2> DEFINE session == [s EXCEPT !.pending = inputs']
    <2>2. session \in Checkpoint /\ session.seen = s.seen
      BY <2>1 DEF TypeOK, Checkpoint
    <2>3. Continues
      BY <1>4, <2>2, SaveAgainContinues DEF SubmitAfterCompaction
    <2> QED
      BY <1>4, <2>1, <2>3 DEF SubmitAfterCompaction, TypeOK, Pcs
  <1>5. CASE CompactCommand
    <2>1. Continues
      BY <1>5, UnsavedContinues DEF CompactCommand, TypeOK
    <2> QED
      BY <1>5, <2>1 DEF CompactCommand, TypeOK, Pcs
  <1>6. CASE SaveAtPrompt
    <2>1. Continues
      BY <1>6, SaveAgainContinues DEF SaveAtPrompt, TypeOK
    <2> QED
      BY <1>6, <2>1 DEF SaveAtPrompt, TypeOK, Pcs, ghosts
  <1> QED
    BY <1>1, <1>2, <1>3, <1>4, <1>5, <1>6

LEMMA CompactionSteps ==
    ASSUME TypeOK, Compaction \/ BeginTurn \/ AppendUser
    PROVE  WellTyped
  <1> USE DEF WellTyped, Controls
  <1>1. CASE RequestCompaction
    <2>1. Continues
      BY <1>1, SaveContinues DEF RequestCompaction, TypeOK, Phase
    <2> QED
      BY <1>1, <2>1 DEF RequestCompaction, TypeOK, Pcs, ghosts
  <1>2. CASE CompactionSucceeds
    <2>1. Compacted(s) \in Checkpoint /\ Compacted(s).seen = s.seen
      BY CompactedType DEF TypeOK
    <2>2. Continues
      BY <1>2, <2>1, SaveContinues DEF CompactionSucceeds, Phase
    <2> QED
      BY <1>2, <2>2 DEF CompactionSucceeds, TypeOK, Pcs, ghosts
  <1>3. CASE CompactionFails
    <2>1. Continues
      BY <1>3, SaveContinues DEF CompactionFails, TypeOK, Phase
    <2> QED
      BY <1>3, <2>1 DEF CompactionFails, TypeOK, Pcs, ghosts
  <1>4. CASE Withdraw
    <2> DEFINE session == [s EXCEPT !.pending = 0]
    <2>1. session \in Checkpoint /\ session.seen = s.seen
      BY DEF TypeOK, Checkpoint
    <2>2. Continues
      BY <1>4, <2>1, SaveAgainContinues DEF Withdraw
    <2> QED
      BY <1>4, <2>2 DEF Withdraw, TypeOK, Pcs, ghosts
  <1>5. CASE BeginTurn
    <2>1. Continues
      BY <1>5, SaveAgainContinues DEF BeginTurn, TypeOK
    <2> QED
      BY <1>5, <2>1 DEF BeginTurn, TypeOK, Pcs, ghosts
  <1>6. CASE AppendUser
    <2>1. Submitted(s) \in Checkpoint /\ Submitted(s).seen = s.seen
      BY SubmittedType DEF TypeOK
    <2>2. Continues
      BY <1>6, <2>1, SaveContinues DEF AppendUser, Phase
    <2> QED
      BY <1>6, <2>2 DEF AppendUser, TypeOK, Pcs, RunPcs, ghosts
  <1> QED
    BY <1>1, <1>2, <1>3, <1>4, <1>5, <1>6 DEF Compaction

LEMMA RunSteps ==
    ASSUME TypeOK, \/ Interrupt \/ CancelledBetweenRequests
                   \/ SummarySkipped \/ SummaryStarts \/ SummaryFails
                   \/ SummaryUseless \/ SummaryTooLong
                   \/ ModelFails \/ ModelRejected \/ CallDenied
    PROVE  WellTyped
  <1> USE DEF WellTyped, Controls
  <1>1. UNCHANGED <<store, s, batch, failed, ghosts>>
    BY DEF Interrupt, CancelledBetweenRequests, SummarySkipped, SummaryStarts,
           SummaryFails, SummaryUseless, SummaryTooLong, ModelFails,
           ModelRejected, CallDenied
  <1>2. Continues
    BY <1>1, UnsavedContinues DEF TypeOK
  <1>3. pc' \in Pcs
    BY DEF Interrupt, CancelledBetweenRequests, SummarySkipped, SummaryStarts,
           SummaryFails, SummaryUseless, SummaryTooLong, ModelFails,
           ModelRejected, CallDenied, TypeOK, Pcs, RunPcs
  <1>4. run \in RunState
    BY DEF TypeOK
  <1>5. ASSUME CancelledBetweenRequests \/ SummaryFails \/ ModelFails \/ ModelRejected \/ CallDenied
        PROVE  run' \in RunState
    BY <1>4, <1>5, EndType DEF CancelledBetweenRequests, SummaryFails,
           ModelFails, ModelRejected, CallDenied, RunStatus
  <1>6. ASSUME Interrupt \/ SummarySkipped \/ SummaryStarts
        PROVE  run' \in RunState
    BY <1>4, <1>6, RunFields, Counters DEF Interrupt, SummarySkipped, SummaryStarts
  <1>7. ASSUME SummaryUseless
        PROVE  run' \in RunState
    <2> DEFINE off == run.failures + 1 >= 3
    <2>1. run.failures + 1 \in Nat /\ (IF off THEN 0 ELSE run.steps + 2) \in Nat
      BY <1>4, RunFields, Counters
    <2>2. off \in BOOLEAN
      OBVIOUS
    <2> QED
      BY <1>4, <1>7, <2>1, <2>2, RunFields DEF SummaryUseless
  <1>8. ASSUME SummaryTooLong
        PROVE  run' \in RunState
    <2>1. run.shortenings + 1 \in 0..2
      BY <1>4, <1>8, RunFields, Counters DEF SummaryTooLong
    <2> QED
      BY <1>4, <1>8, <2>1, RunFields DEF SummaryTooLong
  <1> QED
    BY <1>1, <1>2, <1>3, <1>5, <1>6, <1>7, <1>8 DEF TypeOK, ghosts

LEMMA RequestSteps ==
    ASSUME TypeOK, RequestSummary \/ SummaryAccepted \/ Request \/ ModelReplies
    PROVE  WellTyped
  <1> USE DEF WellTyped, Controls
  <1>0. run \in RunState /\ s \in Checkpoint
    BY DEF TypeOK
  <1>1. CASE RequestSummary
    <2>1. Continues
      BY <1>1, SaveContinues DEF RequestSummary, TypeOK, Phase
    <2>2. run' \in RunState
      BY <1>0, <1>1, RunFields, Counters DEF RequestSummary
    <2> QED
      BY <1>1, <2>1, <2>2 DEF RequestSummary, TypeOK, Pcs, RunPcs, ghosts
  <1>2. CASE SummaryAccepted
    <2>1. Summarized(s) \in Checkpoint /\ Summarized(s).seen = s.seen
      BY SummarizedType DEF TypeOK
    <2>2. Continues
      BY <1>2, <2>1, SaveContinues DEF SummaryAccepted, Phase
    <2>3. run' \in RunState
      BY <1>0, <1>2 DEF SummaryAccepted, RunState
    <2> QED
      BY <1>2, <2>2, <2>3 DEF SummaryAccepted, TypeOK, Pcs, RunPcs, ghosts
  <1>3. CASE Request
    <2>1. Continues
      BY <1>3, SaveContinues DEF Request, TypeOK, Phase
    <2>2. run' \in RunState
      BY <1>0, <1>3, RunFields, Counters DEF Request
    <2> QED
      BY <1>3, <2>1, <2>2 DEF Request, TypeOK, Pcs, RunPcs, ghosts
  <1>4. CASE ModelReplies
    <2> DEFINE session == [s EXCEPT !.history = Append(@, AssistantEntry(<<>>))]
    <2>0. <<>> \in Seq(CallId)
      OBVIOUS
    <2>1. AssistantEntry(<<>>) \in Entry
      BY <2>0, AssistantEntryType
    <2>2. session \in Checkpoint /\ session.seen = s.seen
      BY <1>0, <2>1, AppendType
    <2>3. Continues
      BY <1>4, <2>2, SaveContinues DEF ModelReplies, Phase
    <2>4. run' \in RunState
      BY <1>0, <1>4, EndType DEF ModelReplies, RunStatus
    <2> QED
      BY <1>4, <2>3, <2>4 DEF ModelReplies, TypeOK, Pcs, ghosts
  <1> QED
    BY <1>1, <1>2, <1>3, <1>4

\* A response with calls, accepted only if none of its ids is known.
LEMMA CallsStep ==
    ASSUME TypeOK, ModelCalls
    PROVE  /\ WellTyped
           /\ \/ pc' = "finish" /\ batch' = batch
              \/ /\ pc' \in {"deny", "dispatch"}
                 /\ NoRepeats(batch') /\ ToSet(batch') \cap s.seen = {}
                 /\ ToSet(batch') \subseteq s'.seen
  <1>0. run \in RunState /\ s \in Checkpoint
    BY DEF TypeOK
  <1>1. PICK n \in 1..MaxBatch :
           \E calls \in [1..n -> CallId], outcome \in Store!Outcome :
              Valid(calls) /\ AcceptCalls(calls, outcome)
    BY DEF ModelCalls
  <1>2. PICK calls \in [1..n -> CallId], outcome \in Store!Outcome :
           Valid(calls) /\ AcceptCalls(calls, outcome)
    BY <1>1
  <1>3. n \in Nat
    BY ParameterAssumption
  <1>4. calls \in Seq(CallId)
    BY <1>2, <1>3, SeqDef
  <1>5. Len(calls) \in Nat
    BY <1>4, LenProperties
  <1>6. Accepted(s, calls) \in Checkpoint
        /\ Accepted(s, calls).seen = s.seen \cup ToSet(calls)
    BY <1>0, <1>4, AcceptedType
  <1>7. Continues /\ s'.seen = s.seen \cup ToSet(calls)
    BY <1>2, <1>6, SaveContinues DEF AcceptCalls, Phase
  <1>8. run.calls + Len(calls) \in Nat
    BY <1>0, <1>5, RunFields, Counters
  <1>9. run' \in RunState
    BY <1>0, <1>2, <1>8, RunFields, EndType DEF AcceptCalls, RunStatus
  <1>10. pc' \in {"finish", "deny", "dispatch"} /\ UNCHANGED ghosts
    BY <1>2 DEF AcceptCalls, ModelCalls
  <1>11. Controls
    BY <1>2, <1>4, <1>9, <1>10 DEF Controls, TypeOK, Pcs, RunPcs, ghosts, AcceptCalls
  <1>12. \/ pc' = "finish" /\ batch' = batch
         \/ pc' \in {"deny", "dispatch"} /\ batch' = calls
    BY <1>2 DEF AcceptCalls
  <1> QED
    BY <1>2, <1>7, <1>11, <1>12 DEF WellTyped, Valid

LEMMA DispatchSteps ==
    ASSUME TypeOK, pc = "tool" => batch # <<>>,
           \/ CallRefused \/ StartTool \/ ToolReturns
           \/ BatchDone \/ NotExecuted \/ Denied
    PROVE  WellTyped
  <1> USE DEF WellTyped, Controls
  <1>0. run \in RunState /\ s \in Checkpoint /\ batch \in Seq(CallId)
    BY DEF TypeOK
  <1>1. ASSUME batch # <<>>
        PROVE  Head(batch) \in CallId /\ Tail(batch) \in Seq(CallId)
    BY <1>0, <1>1, HeadTailProperties
  <1>2. <<>> \in Seq(CallId)
    OBVIOUS
  <1>3. CASE CallRefused
    <2>1. Head(batch) \in CallId /\ Tail(batch) \in Seq(CallId)
      BY <1>1, <1>3 DEF CallRefused
    <2>2. Continues
      BY <1>3, <2>1, RecordContinues DEF CallRefused, Code
    <2> QED
      BY <1>3, <2>1, <2>2 DEF CallRefused, TypeOK, ghosts
  <1>4. CASE StartTool
    <2>1. Head(batch) \in CallId
      BY <1>1, <1>4 DEF StartTool
    <2>2. Continues
      BY <1>0, <1>4, <2>1, SaveContinues DEF StartTool, Phase
    <2>3. started' \in [CallId -> Nat]
      BY <1>4, <2>1, Counters DEF StartTool, TypeOK
    <2> QED
      BY <1>2, <1>4, <2>2, <2>3 DEF StartTool, TypeOK, Pcs, RunPcs
  <1>5. CASE ToolReturns
    <2>1. Head(batch) \in CallId /\ Tail(batch) \in Seq(CallId)
      BY <1>1, <1>5 DEF ToolReturns
    <2>2. PICK code \in ToolCodes(Kind[Head(batch)]), outcome \in Store!Outcome :
             Record(Head(batch), code, outcome) /\ AfterTool(code)
      BY <1>5 DEF ToolReturns
    <2>3. Continues
      BY <2>1, <2>2, RecordContinues DEF ToolCodes, Code
    <2>4. pc' \in Pcs /\ run' \in RunState
      BY <1>0, <2>2, EndType DEF AfterTool, RunStatus, Pcs, RunPcs
    <2>5. batch' \in Seq(CallId)
      BY <1>2, <1>5, <2>1 DEF ToolReturns
    <2> QED
      BY <1>5, <2>3, <2>4, <2>5 DEF ToolReturns, TypeOK, ghosts
  <1>6. CASE BatchDone
    <2>1. Continues
      BY <1>0, <1>6, UnsavedContinues DEF BatchDone
    <2> QED
      BY <1>6, <2>1 DEF BatchDone, TypeOK, Pcs, RunPcs, ghosts
  <1>7. CASE NotExecuted
    <2>1. Head(batch) \in CallId /\ Tail(batch) \in Seq(CallId)
      BY <1>1, <1>7 DEF NotExecuted
    <2>2. Continues
      BY <1>7, <2>1, RecordContinues DEF NotExecuted, Code
    <2> QED
      BY <1>7, <2>1, <2>2 DEF NotExecuted, TypeOK, ghosts
  <1>8. CASE Denied
    <2>1. Continues
      BY <1>0, <1>8, UnsavedContinues DEF Denied
    <2> QED
      BY <1>2, <1>8, <2>1 DEF Denied, TypeOK, Pcs, RunPcs, ghosts
  <1> QED
    BY <1>3, <1>4, <1>5, <1>6, <1>7, <1>8

LEMMA FinishStep ==
    ASSUME TypeOK, Finish
    PROVE  WellTyped
  <1>1. Finished(s) \in Checkpoint /\ Finished(s).seen = s.seen
    BY FinishedType
  <1>2. PersistenceError(s) \in Checkpoint /\ PersistenceError(s).seen = s.seen
    BY FinishedType
  <1>3. Continues
    <2>1. CASE failed
      BY <1>2, <2>1, UnsavedContinues DEF Finish
    <2>2. CASE ~failed
      <3> DEFINE cp == At(Finished(s), "terminal", NoCall)
      <3>1. cp \in Checkpoint /\ cp.seen = s.seen
        BY <1>1, AtType DEF Phase
      <3>2. PICK outcome \in Store!Outcome :
               /\ Store!Save(cp, outcome)
               /\ s' = IF Succeeded(outcome) THEN cp ELSE PersistenceError(s)
               /\ failed' = (~Succeeded(outcome))
        BY <2>2 DEF Finish
      <3>3. s' \in Checkpoint /\ s'.seen = s.seen
        BY <1>2, <3>1, <3>2
      <3>4. Store!TypeOK'
        BY <3>1, <3>2 DEF TypeOK, Store!TypeOK, Store!Save, Store!vars
      <3>5. Grows
        BY <3>1, <3>2, <3>3 DEF Grows, Store!Save, Store!vars
      <3> QED
        BY <3>2, <3>3, <3>4, <3>5 DEF Continues, Succeeded
    <2> QED
      BY <2>1, <2>2
  <1>4. run' \in RunState
    BY NewRunType DEF Finish
  <1> QED
    BY <1>3, <1>4 DEF WellTyped, Controls, Finish, TypeOK, Pcs, ghosts

(***************************************************************************)
(* The end of a process and its resumption.                                *)
(***************************************************************************)
Gone == Leave \/ StopAfterFailure \/ Crash \/ PowerLoss

LEMMA GoneSteps ==
    ASSUME TypeOK, file \in survivors, Gone
    PROVE  /\ TypeOK' /\ pc' = "down" /\ batch' = <<>> /\ started' = started
           /\ survivors' \subseteq survivors /\ file' \in survivors'
  <1>1. ProcessGone /\ started' = started
    BY DEF Gone, Leave, StopAfterFailure, Crash, PowerLoss, ghosts
  <1>2. /\ survivors' \subseteq survivors /\ file' \in survivors'
        /\ Store!TypeOK'
    <2>1. CASE PowerLoss
      <3>1. PICK cp \in survivors : file' = cp /\ survivors' = {cp}
        BY <2>1 DEF PowerLoss, Store!PowerLoss
      <3> QED
        BY <3>1 DEF TypeOK, Store!TypeOK
    <2>2. CASE UNCHANGED store
      BY <2>2 DEF store, TypeOK, Store!TypeOK
    <2> QED
      BY <2>1, <2>2 DEF Gone, Leave, StopAfterFailure, Crash
  <1>3. inputs' \in Nat /\ crashes' \in Nat
    BY Counters DEF Gone, Leave, StopAfterFailure, Crash, PowerLoss, ghosts, TypeOK
  <1>4. <<>> \in Seq(CallId)
    OBVIOUS
  <1>5. s' \in Checkpoint /\ run' \in RunState
    BY <1>1, EmptySessionType, NewRunType DEF ProcessGone
  <1> QED
    BY <1>1, <1>2, <1>3, <1>4, <1>5 DEF ProcessGone, TypeOK, Pcs

Resume == ResumeSettled \/ ResumeInterrupted

LEMMA ResumeSteps ==
    ASSUME TypeOK, file \in survivors, Resume
    PROVE  /\ TypeOK' /\ pc' \in {"down", "prompt"} /\ UNCHANGED <<batch, started>>
           /\ \A cp \in survivors' : cp \in survivors \/ cp.seen = file.seen
           /\ file' \in survivors'
           /\ pc' # "down" => s'.seen = file.seen /\ \E cp \in survivors' : cp.seen = file.seen
  <1>1. CASE ResumeSettled
    <2>1. s' \in Checkpoint /\ file' = file /\ survivors' = survivors
      BY <1>1 DEF ResumeSettled, TypeOK, Store!TypeOK, store
    <2> QED
      BY <1>1, <2>1 DEF ResumeSettled, TypeOK, Store!TypeOK, Pcs, ghosts
  <1>2. CASE ResumeInterrupted
    <2>1. PICK recovered \in Recoveries(file), outcome \in Store!Outcome :
             /\ Store!Save(recovered, outcome)
             /\ IF Succeeded(outcome) THEN s' = recovered /\ pc' = "prompt"
                                      ELSE UNCHANGED <<s, pc>>
      BY <1>2 DEF ResumeInterrupted
    <2>2. recovered \in Checkpoint /\ recovered.seen = file.seen
      BY RecoveredType DEF TypeOK, Store!TypeOK
    <2>3. pc = "down"
      BY <1>2 DEF ResumeInterrupted
    <2>4. /\ Store!TypeOK' /\ file' \in survivors'
          /\ \A cp \in survivors' : cp \in survivors \/ cp.seen = file.seen
      BY <2>1, <2>2 DEF TypeOK, Store!TypeOK, Store!Save, Store!vars
    <2>5. pc' # "down" => s'.seen = file.seen /\ \E cp \in survivors' : cp.seen = file.seen
      BY <2>1, <2>2, <2>3 DEF Store!Save, Succeeded
    <2>6. TypeOK' /\ pc' \in {"down", "prompt"} /\ UNCHANGED <<batch, started>>
      BY <1>2, <2>1, <2>2, <2>3, <2>4 DEF ResumeInterrupted, TypeOK, Pcs, ghosts
    <2> QED
      BY <2>4, <2>5, <2>6
  <1> QED
    BY <1>1, <1>2 DEF Resume

(***************************************************************************)
(* The call ledger.                                                        *)
(***************************************************************************)

\* What a step of a living process leaves of the ledger, when it starts no
\* tool.
LEMMA LedgerKept ==
    ASSUME TypeOK, Ledger, pc # "down", Grows, started' = started
    PROVE  Ledger' /\ Remembered \subseteq Remembered'
  <1>1. Remembered \subseteq Remembered'
    BY DEF Ledger, Grows, Remembered
  <1>2. Remembered' \subseteq s'.seen
    BY DEF Ledger, Grows, Remembered
  <1> QED
    BY <1>1, <1>2 DEF Ledger, Grows

LEMMA EmptyBatchFresh ==
    ASSUME batch' = <<>>, pc' # "tool"
    PROVE  BatchFresh'
  BY DEF BatchFresh, NoRepeats

\* A settled call leaves the batch; the others have not begun.
LEMMA TailFresh ==
    ASSUME TypeOK, BatchFresh, batch # <<>>, batch' = Tail(batch),
           started' = started, s.seen \subseteq s'.seen,
           pc' \in {"dispatch", "deny"}
    PROVE  BatchFresh'
  <1>1. batch \in Seq(CallId)
    BY DEF TypeOK
  <1>2. \A i \in DOMAIN batch' : i + 1 \in DOMAIN batch /\ batch'[i] = batch[i + 1] /\ i + 1 # 1
    BY <1>1, HeadTailProperties
  <1>3. NoRepeats(batch')
    <2> SUFFICES ASSUME NEW i \in DOMAIN batch', NEW j \in DOMAIN batch', batch'[i] = batch'[j]
                 PROVE  i = j
      BY DEF NoRepeats
    <2>1. batch[i + 1] = batch[j + 1] /\ i + 1 \in DOMAIN batch /\ j + 1 \in DOMAIN batch
      BY <1>2
    <2>2. i + 1 = j + 1
      BY <2>1 DEF BatchFresh, NoRepeats
    <2>3. i \in Int /\ j \in Int
      BY <1>1, HeadTailProperties, LenProperties
    <2> QED
      BY <2>2, <2>3
  <1>4. \A i \in DOMAIN batch' : batch'[i] \in s'.seen /\ started'[batch'[i]] = 0
    BY <1>2 DEF BatchFresh
  <1> QED
    BY <1>3, <1>4 DEF BatchFresh

\* The batch does not change, and the process stays in or out of the
\* dispatcher.
LEMMA SameBatchFresh ==
    ASSUME BatchFresh, batch' = batch, started' = started, s.seen \subseteq s'.seen,
           \/ pc' = pc
           \/ pc' # "tool" /\ batch = <<>>
           \/ pc' = "deny" /\ pc # "tool"
    PROVE  BatchFresh'
  BY DEF BatchFresh

\* The call at the head begins: it is the only one that has.
LEMMA StartFresh ==
    ASSUME TypeOK, BatchFresh, AtMostOnce, Ledger, StartTool
    PROVE  Ledger' /\ BatchFresh' /\ AtMostOnce' /\ Remembered \subseteq Remembered'
  <1> DEFINE c == Head(batch)
  <1>1. batch \in Seq(CallId) /\ batch # <<>> /\ pc = "dispatch" /\ s \in Checkpoint
    BY DEF TypeOK, StartTool
  <1>2. c = batch[1] /\ c \in CallId /\ 1 \in DOMAIN batch
    BY <1>1, HeadTailProperties, EmptySeq
  <1>3. c \in s.seen /\ started[c] = 0
    BY <1>1, <1>2 DEF BatchFresh
  <1>4. PICK outcome \in Store!Outcome :
           /\ SaveAs(s, "tool", c, outcome)
           /\ IF Succeeded(outcome)
              THEN /\ pc' = "tool" /\ batch' = batch
                   /\ started' = [started EXCEPT ![c] = @ + 1]
              ELSE pc' = "finish" /\ batch' = <<>> /\ started' = started
    BY DEF StartTool
  <1>5. Grows /\ s'.seen = s.seen
    BY <1>1, <1>2, <1>4, SaveContinues DEF Continues, Phase
  <1>6. Remembered \subseteq Remembered' /\ Remembered' \subseteq s'.seen /\ file' \in survivors'
    BY <1>1, <1>5 DEF Ledger, Grows, Remembered
  <1>7. CASE Succeeded(outcome)
    <2>1. survivors' = {At(s, "tool", c)} /\ At(s, "tool", c).seen = s.seen
      BY <1>1, <1>2, <1>4, <1>7, SaveContinues, AtType DEF Phase
    <2>2. c \in Remembered'
      BY <1>2, <1>3, <2>1 DEF Remembered
    <2>3. started' = [started EXCEPT ![c] = 1]
      BY <1>3, <1>4, <1>7
    <2>4. started \in [CallId -> Nat]
      BY DEF TypeOK
    <2>5. /\ started'[c] = 1
          /\ \A d \in CallId \ {c} : started'[d] = started[d]
      BY <1>2, <2>3, <2>4
    <2>6. Ledger'
      BY <1>6, <2>2, <2>5 DEF Ledger
    <2>7. AtMostOnce'
      BY <2>5 DEF AtMostOnce
    <2>8. \A i \in DOMAIN batch : batch[i] \in CallId
      BY <1>1
    <2>9. \A i \in DOMAIN batch : i # 1 => batch[i] # c
      BY <1>2 DEF BatchFresh, NoRepeats
    <2>10. \A i \in DOMAIN batch : batch[i] \in s'.seen /\ (started'[batch[i]] = 0 \/ i = 1)
      BY <1>1, <1>5, <2>5, <2>8, <2>9 DEF BatchFresh
    <2>11. BatchFresh'
      BY <1>1, <1>4, <1>7, <2>10 DEF BatchFresh
    <2> QED
      BY <1>6, <2>6, <2>7, <2>11
  <1>8. CASE ~Succeeded(outcome)
    <2>1. pc' = "finish" /\ batch' = <<>> /\ started' = started
      BY <1>4, <1>8
    <2>2. Ledger'
      BY <1>6, <2>1 DEF Ledger
    <2>3. AtMostOnce'
      BY <2>1 DEF AtMostOnce
    <2>4. BatchFresh'
      BY <2>1, EmptyBatchFresh
    <2> QED
      BY <1>6, <2>2, <2>3, <2>4
  <1> QED
    BY <1>7, <1>8

\* Ids that a response may use have never been executed.
LEMMA AcceptedFresh ==
    ASSUME TypeOK, BatchFresh, Ledger, ModelCalls
    PROVE  BatchFresh'
  <1>1. pc = "model" /\ batch = <<>> /\ started' = started
    BY DEF ModelCalls, BatchFresh, ghosts
  <1>2. WellTyped
    BY CallsStep
  <1>3. CASE pc' = "finish" /\ batch' = batch
    BY <1>1, <1>3, EmptyBatchFresh
  <1>4. CASE /\ pc' \in {"deny", "dispatch"}
             /\ NoRepeats(batch') /\ ToSet(batch') \cap s.seen = {}
             /\ ToSet(batch') \subseteq s'.seen
    <2>1. \A i \in DOMAIN batch' : batch'[i] \in ToSet(batch')
      BY DEF ToSet
    <2>2. \A i \in DOMAIN batch' : batch'[i] \in CallId
      BY <1>2 DEF WellTyped, Controls
    <2>3. Remembered \subseteq s.seen
      BY <1>1 DEF Ledger
    <2>4. \A i \in DOMAIN batch' : batch'[i] \in s'.seen /\ started'[batch'[i]] = 0
      BY <1>1, <1>4, <2>1, <2>2, <2>3 DEF Ledger
    <2> QED
      BY <1>4, <2>4 DEF BatchFresh
  <1> QED
    BY <1>3, <1>4, CallsStep

(***************************************************************************)
(* The inductive invariant.                                                *)
(***************************************************************************)
IInv == TypeOK /\ ExecutionsRemembered

\* A step that leaves the executions alone.
LEMMA QuietStep ==
    ASSUME IInv, WellTyped, pc # "down", started' = started, BatchFresh'
    PROVE  IInv' /\ Remembered \subseteq Remembered'
  <1>1. TypeOK' /\ Grows
    BY WellTypedSuffices
  <1>2. Ledger' /\ Remembered \subseteq Remembered'
    BY <1>1, LedgerKept DEF IInv, ExecutionsRemembered
  <1>3. AtMostOnce'
    BY DEF IInv, ExecutionsRemembered, AtMostOnce
  <1> QED
    BY <1>1, <1>2, <1>3 DEF IInv, ExecutionsRemembered

LEMMA InitHolds == Init => IInv
  <1> SUFFICES ASSUME Init PROVE IInv
    OBVIOUS
  <1>1. TypeOK
    <2>1. <<>> \in Seq(CallId)
      OBVIOUS
    <2> QED
      BY <2>1, EmptySessionType, NewRunType DEF Init, TypeOK, Store!TypeOK, Pcs
  <1>2. \A c \in CallId : started[c] = 0
    BY DEF Init
  <1>3. AtMostOnce
    BY <1>2 DEF AtMostOnce
  <1>4. Ledger
    BY <1>2 DEF Init, Ledger, Remembered, EmptySession
  <1>5. BatchFresh
    BY DEF Init, BatchFresh, NoRepeats
  <1> QED
    BY <1>1, <1>3, <1>4, <1>5 DEF IInv, ExecutionsRemembered

LEMMA ProgressPreserves ==
    ASSUME IInv, Progress \/ (User /\ ~Leave)
    PROVE  \/ IInv' /\ Remembered \subseteq Remembered'
           \/ StopAfterFailure
  <1>0. TypeOK /\ Ledger /\ BatchFresh /\ AtMostOnce
    BY DEF IInv, ExecutionsRemembered
  <1>1. CASE TogglePlan \/ Shell \/ Submit \/ SubmitAfterCompaction
                \/ CompactCommand \/ SaveAtPrompt
    <2>1. WellTyped
      BY <1>0, <1>1, PromptSteps
    <2>2. /\ pc \in {"prompt", "save"} /\ pc' # "tool"
          /\ batch' = batch /\ started' = started
      BY <1>1 DEF TogglePlan, Shell, Submit, SubmitAfterCompaction,
                  CompactCommand, SaveAtPrompt, ghosts
    <2>3. BatchFresh'
      BY <1>0, <2>2, EmptyBatchFresh DEF BatchFresh
    <2> QED
      BY <2>1, <2>2, <2>3, QuietStep
  <1>2. CASE Compaction \/ BeginTurn \/ AppendUser
    <2>1. WellTyped
      BY <1>0, <1>2, CompactionSteps
    <2>2. /\ pc \in {"compact", "compacting", "withdraw", "start", "append"}
          /\ pc' # "tool" /\ batch' = batch /\ started' = started
      BY <1>2 DEF Compaction, RequestCompaction, CompactionSucceeds,
                  CompactionFails, Withdraw, BeginTurn, AppendUser, ghosts
    <2>3. BatchFresh'
      BY <1>0, <2>2, EmptyBatchFresh DEF BatchFresh
    <2> QED
      BY <2>1, <2>2, <2>3, QuietStep
  <1>3. CASE \/ CancelledBetweenRequests \/ SummarySkipped \/ SummaryStarts
             \/ SummaryFails \/ SummaryUseless \/ SummaryTooLong
             \/ ModelFails \/ ModelRejected
    <2>1. WellTyped
      BY <1>0, <1>3, RunSteps
    <2>2. /\ pc \in {"loop", "summarizing", "model"}
          /\ pc' # "tool" /\ batch' = batch /\ started' = started
      BY <1>3 DEF CancelledBetweenRequests, SummarySkipped, SummaryStarts,
                  SummaryFails, SummaryUseless, SummaryTooLong, ModelFails,
                  ModelRejected, SummaryWanted, ghosts
    <2>3. BatchFresh'
      BY <1>0, <2>2, EmptyBatchFresh DEF BatchFresh
    <2> QED
      BY <2>1, <2>2, <2>3, QuietStep
  <1>4. CASE RequestSummary \/ SummaryAccepted \/ Request \/ ModelReplies
    <2>1. WellTyped
      BY <1>0, <1>4, RequestSteps
    <2>2. /\ pc \in {"summarize", "summarizing", "ready", "loop", "model"}
          /\ pc' # "tool" /\ batch' = batch /\ started' = started
      BY <1>4 DEF RequestSummary, SummaryAccepted, Request, ModelReplies, ghosts
    <2>3. BatchFresh'
      BY <1>0, <2>2, EmptyBatchFresh DEF BatchFresh
    <2> QED
      BY <2>1, <2>2, <2>3, QuietStep
  <1>5. CASE Interrupt \/ CallDenied
    <2>1. WellTyped
      BY <1>0, <1>5, RunSteps
    <2>2. /\ pc # "down" /\ batch' = batch /\ started' = started
          /\ pc' = pc \/ (pc' = "deny" /\ pc # "tool")
      BY <1>5 DEF Interrupt, CallDenied, RunPcs, ghosts
    <2>3. s.seen \subseteq s'.seen
      BY <2>1 DEF WellTyped, Continues, Grows
    <2>4. BatchFresh'
      BY <1>0, <2>2, <2>3, SameBatchFresh
    <2> QED
      BY <2>1, <2>2, <2>4, QuietStep
  <1>6. CASE ModelCalls
    <2>1. WellTyped
      BY <1>0, <1>6, CallsStep
    <2>2. pc # "down" /\ started' = started
      BY <1>6 DEF ModelCalls, ghosts
    <2>3. BatchFresh'
      BY <1>0, <1>6, AcceptedFresh
    <2> QED
      BY <2>1, <2>2, <2>3, QuietStep
  <1>7. CASE CallRefused \/ ToolReturns \/ BatchDone \/ NotExecuted \/ Denied
    <2>1. WellTyped
      BY <1>0, <1>7, DispatchSteps DEF BatchFresh
    <2>2. pc \in {"dispatch", "tool", "deny"} /\ started' = started
      BY <1>7 DEF CallRefused, ToolReturns, BatchDone, NotExecuted, Denied, ghosts
    <2>3. s.seen \subseteq s'.seen
      BY <2>1 DEF WellTyped, Continues, Grows
    <2>4. \/ batch' = <<>> /\ pc' # "tool"
          \/ batch # <<>> /\ batch' = Tail(batch) /\ pc' \in {"dispatch", "deny"}
      BY <1>0, <1>7 DEF CallRefused, ToolReturns, AfterTool, BatchDone, NotExecuted,
                        Denied, BatchFresh
    <2>5. BatchFresh'
      BY <1>0, <2>2, <2>3, <2>4, EmptyBatchFresh, TailFresh
    <2> QED
      BY <2>1, <2>2, <2>5, QuietStep
  <1>8. CASE StartTool
    <2>1. TypeOK'
      BY <1>0, <1>8, DispatchSteps, WellTypedSuffices DEF BatchFresh
    <2> QED
      BY <1>0, <1>8, <2>1, StartFresh DEF IInv, ExecutionsRemembered
  <1>9. CASE Finish
    <2>1. WellTyped
      BY <1>0, <1>9, FinishStep
    <2>2. pc = "finish" /\ pc' # "tool" /\ batch' = batch /\ started' = started
      BY <1>9 DEF Finish, ghosts
    <2>3. BatchFresh'
      BY <1>0, <2>2, EmptyBatchFresh DEF BatchFresh
    <2> QED
      BY <2>1, <2>2, <2>3, QuietStep
  <1> QED
    BY <1>1, <1>2, <1>3, <1>4, <1>5, <1>6, <1>7, <1>8, <1>9
    DEF Progress, User, Summary, Response, Dispatch

LEMMA GonePreserves ==
    ASSUME IInv, Gone
    PROVE  IInv' /\ Remembered \subseteq Remembered'
  <1>0. TypeOK /\ Ledger /\ BatchFresh /\ AtMostOnce
    BY DEF IInv, ExecutionsRemembered
  <1>1. /\ TypeOK' /\ pc' = "down" /\ batch' = <<>> /\ started' = started
        /\ survivors' \subseteq survivors /\ file' \in survivors'
    BY <1>0, GoneSteps DEF Ledger
  <1>2. Remembered \subseteq Remembered'
    BY <1>1 DEF Remembered
  <1>3. Ledger' /\ AtMostOnce'
    BY <1>0, <1>1, <1>2 DEF Ledger, AtMostOnce
  <1>4. BatchFresh'
    BY <1>1, EmptyBatchFresh
  <1> QED
    BY <1>1, <1>2, <1>3, <1>4 DEF IInv, ExecutionsRemembered

LEMMA ResumePreserves ==
    ASSUME IInv, Resume
    PROVE  IInv' /\ Remembered \subseteq Remembered'
  <1>0. TypeOK /\ Ledger /\ BatchFresh /\ AtMostOnce
    BY DEF IInv, ExecutionsRemembered
  <1>1. /\ TypeOK' /\ pc' \in {"down", "prompt"} /\ UNCHANGED <<batch, started>>
        /\ \A cp \in survivors' : cp \in survivors \/ cp.seen = file.seen
        /\ file' \in survivors'
        /\ pc' # "down" => s'.seen = file.seen /\ \E cp \in survivors' : cp.seen = file.seen
    BY <1>0, ResumeSteps DEF Ledger
  <1>2. Remembered \subseteq Remembered'
    BY <1>0, <1>1 DEF Remembered, Ledger
  <1>3. pc' # "down" => Remembered' \subseteq s'.seen
    BY <1>1 DEF Remembered
  <1>4. Ledger' /\ AtMostOnce'
    BY <1>0, <1>1, <1>2, <1>3 DEF Ledger, AtMostOnce
  <1>5. batch = <<>>
    BY <1>0 DEF BatchFresh, Resume, ResumeSettled, ResumeInterrupted
  <1>6. BatchFresh'
    BY <1>1, <1>5, EmptyBatchFresh
  <1> QED
    BY <1>1, <1>2, <1>4, <1>6 DEF IInv, ExecutionsRemembered

LEMMA NextPreserves == IInv /\ [Next]_vars => IInv' /\ Remembered \subseteq Remembered'
  <1> SUFFICES ASSUME IInv, [Next]_vars
               PROVE  IInv' /\ Remembered \subseteq Remembered'
    OBVIOUS
  <1>1. CASE Gone
    BY <1>1, GonePreserves
  <1>2. CASE Resume
    BY <1>2, ResumePreserves
  <1>3. CASE (Progress \/ User) /\ ~Gone
    BY <1>3, ProgressPreserves DEF Gone
  <1>4. CASE UNCHANGED vars
    BY <1>4 DEF vars, store, ghosts, IInv, TypeOK, Store!TypeOK, ExecutionsRemembered,
                Ledger, BatchFresh, AtMostOnce, Remembered
  <1> QED
    BY <1>1, <1>2, <1>3, <1>4 DEF Next, Restart, Gone, Resume

(***************************************************************************)
(* Checkpoints as barriers.                                                *)
(***************************************************************************)

AtBarrier == {"tool", "model", "summarizing", "compacting"}

LEMMA BarrierPreserved ==
    ASSUME IInv, Barrier, [Next]_vars
    PROVE  Barrier'
  <1>0. /\ TypeOK /\ s \in Checkpoint /\ batch \in Seq(CallId)
        /\ pc = "tool" => batch # <<>>
    BY DEF IInv, TypeOK, ExecutionsRemembered, BatchFresh
  <1>1. CASE pc' \notin AtBarrier
    BY <1>1 DEF Barrier, AtBarrier
  <1>2. CASE RequestCompaction \/ RequestSummary \/ Request
    <2>1. PICK outcome \in Store!Outcome :
             /\ SaveAs(s, "model", NoCall, outcome)
             /\ Succeeded(outcome) \/ pc' \notin AtBarrier
      BY <1>2 DEF RequestCompaction, RequestSummary, Request, AtBarrier
    <2>2. CASE ~Succeeded(outcome)
      BY <1>1, <2>1, <2>2
    <2>3. CASE Succeeded(outcome)
      <3>1. survivors' = {At(s, "model", NoCall)} /\ s' = At(s, "model", NoCall)
        BY <1>0, <2>1, <2>3, SaveContinues DEF Phase
      <3>2. pc' # "tool"
        BY <1>2 DEF RequestCompaction, RequestSummary, Request
      <3>3. At(s, "model", NoCall).phase = "model"
        BY <1>0 DEF At, Checkpoint
      <3> QED
        BY <3>1, <3>2, <3>3 DEF Barrier
    <2> QED
      BY <2>2, <2>3
  <1>3. CASE StartTool
    <2>1. PICK outcome \in Store!Outcome :
             /\ SaveAs(s, "tool", Head(batch), outcome)
             /\ \/ Succeeded(outcome) /\ pc' = "tool" /\ batch' = batch
                \/ pc' \notin AtBarrier
      BY <1>3 DEF StartTool, AtBarrier
    <2>2. CASE pc' \notin AtBarrier
      BY <1>1, <2>2
    <2>3. CASE Succeeded(outcome) /\ pc' = "tool" /\ batch' = batch
      <3>1. Head(batch) \in CallId
        BY <1>0, <1>3, HeadTailProperties DEF StartTool
      <3>2. /\ survivors' = {At(s, "tool", Head(batch))}
            /\ s' = At(s, "tool", Head(batch))
        BY <1>0, <2>1, <2>3, <3>1, SaveContinues DEF Phase
      <3>3. /\ At(s, "tool", Head(batch)).phase = "tool"
            /\ At(s, "tool", Head(batch)).inFlight = Head(batch)
        BY <1>0 DEF At, Checkpoint
      <3> QED
        BY <2>3, <3>2, <3>3 DEF Barrier
    <2> QED
      BY <2>1, <2>2, <2>3
  <1>4. CASE Interrupt \/ UNCHANGED vars
    BY <1>4 DEF Interrupt, vars, store, Barrier
  <1>5. CASE /\ Progress \/ User \/ Restart
             /\ ~(RequestCompaction \/ RequestSummary \/ Request \/ StartTool \/ Interrupt)
    <2>1. CASE Compaction \/ BeginTurn \/ AppendUser \/ Summary \/ Response \/ Finish
               \/ CancelledBetweenRequests
      BY <1>1, <1>5, <2>1
      DEF AtBarrier, Compaction, CompactionSucceeds, CompactionFails, Withdraw,
          BeginTurn, AppendUser, Summary, SummarySkipped, SummaryStarts, SummaryFails,
          SummaryUseless, SummaryTooLong, SummaryAccepted, Response, ModelFails,
          ModelRejected, ModelReplies, ModelCalls, AcceptCalls, Finish,
          CancelledBetweenRequests
    <2>2. CASE Dispatch
      BY <1>1, <1>5, <2>2
      DEF AtBarrier, Dispatch, CallDenied, CallRefused, ToolReturns, AfterTool,
          BatchDone, NotExecuted, Denied
    <2>3. CASE SaveAtPrompt \/ StopAfterFailure \/ User \/ Restart
      BY <1>1, <1>5, <2>3
      DEF AtBarrier, SaveAtPrompt, StopAfterFailure, User, TogglePlan, Shell, Submit,
          SubmitAfterCompaction, CompactCommand, Leave, Restart, Crash, PowerLoss,
          ResumeSettled, ResumeInterrupted, ProcessGone
    <2> QED
      BY <1>5, <2>1, <2>2, <2>3 DEF Progress
  <1> QED
    BY <1>2, <1>3, <1>4, <1>5 DEF Next

(***************************************************************************)
(* Theorems.                                                               *)
(***************************************************************************)

LEMMA Inductive == Spec => []IInv
  BY InitHolds, NextPreserves, PTL DEF Spec

\* Every variable keeps its type, whatever the model answers, the tools
\* report, the disk refuses and the crashes interrupt.
THEOREM TypeCorrect == Spec => []TypeOK
  <1>1. IInv => TypeOK
    BY DEF IInv
  <1> QED
    BY <1>1, Inductive, PTL

\* No call is executed twice, in one process or across restarts: the dispatcher
\* starts a call only when every checkpoint a crash may leave remembers its id,
\* and validateResponse accepts no id that is remembered.
THEOREM ExecutedAtMostOnce == Spec => [](ExecutionsRemembered /\ AtMostOnce)
  <1>1. IInv => ExecutionsRemembered /\ AtMostOnce
    BY DEF IInv, ExecutionsRemembered
  <1> QED
    BY <1>1, Inductive, PTL

\* No compaction, failed save, crash, power loss or recovery forgets an id that
\* every checkpoint on the disk remembers.
THEOREM LedgerOnlyGrows == Spec => LedgerGrows
  <1>1. IInv /\ [Next]_vars => [Remembered \subseteq Remembered']_vars
    BY NextPreserves
  <1> QED
    BY <1>1, Inductive, PTL DEF Spec, LedgerGrows

\* Checkpoints are execution barriers: whatever a crash or a power loss leaves
\* while a tool runs names its call as in flight, and while a request is at the
\* model holds the transcript the request was built from.
THEOREM CheckpointsAreBarriers == Spec => []Barrier
  <1>1. Init => Barrier
    BY DEF Init, Barrier
  <1>2. IInv /\ Barrier /\ [Next]_vars => Barrier'
    BY BarrierPreserved
  <1> QED
    BY <1>1, <1>2, Inductive, PTL DEF Spec

(***************************************************************************)
(* The budgets of a run (--max-steps, --max-tool-calls), for every value   *)
(* of the two.                                                             *)
(***************************************************************************)

InRun == RunPcs \cup {"finish"}

\* What each point of a run has left to spend.  A request is made without
\* looking at the budget: reserve, and compactWithinRun for a summary, have
\* left a step for it before.
OneStepLeft ==
    \/ pc \in {"loop", "ready", "dispatch", "tool", "summarizing"}
    \/ pc = "deny" /\ run.status = ""

StepsLeft ==
    /\ run.steps <= MaxSteps
    /\ OneStepLeft => run.steps + 1 <= MaxSteps
    /\ pc = "summarize" => run.steps + 2 <= MaxSteps
    /\ pc \notin InRun => run.steps = 0

CallsLeft ==
    /\ run.calls <= MaxToolCalls
    /\ pc \notin InRun => run.calls = 0

BudgetInv ==
    /\ MaxSteps # 0 => StepsLeft
    /\ MaxToolCalls # 0 => CallsLeft

LEMMA RunNumbers ==
    ASSUME TypeOK
    PROVE  run.steps \in Nat /\ run.calls \in Nat /\ run.shortenings \in 0..2
  BY DEF TypeOK, RunState

LEMMA EndNumbers ==
    ASSUME TypeOK, NEW status, NEW resumable
    PROVE  /\ End(status, resumable).steps = run.steps
           /\ End(status, resumable).calls = run.calls
           /\ End(status, resumable).status = status
  BY DEF TypeOK, RunState, End

LEMMA NewRunNumbers == NewRun.steps = 0 /\ NewRun.calls = 0
  BY DEF NewRun

\* Outside a run the counters are those of a new one.
LEMMA OutsideSteps ==
    ASSUME TypeOK, BudgetInv,
           \/ SaveAtPrompt \/ Compaction \/ BeginTurn \/ TogglePlan \/ Shell
           \/ Submit \/ SubmitAfterCompaction \/ CompactCommand
           \/ ResumeSettled \/ ResumeInterrupted
    PROVE  BudgetInv'
  <1>1. run' = run /\ pc \notin InRun /\ pc' \notin InRun
    BY DEF SaveAtPrompt, Compaction, RequestCompaction, CompactionSucceeds,
           CompactionFails, Withdraw, BeginTurn, TogglePlan, Shell, Submit,
           SubmitAfterCompaction, CompactCommand, ResumeSettled,
           ResumeInterrupted, InRun, RunPcs
  <1>2. ~OneStepLeft' /\ pc' # "summarize"
    BY <1>1 DEF OneStepLeft, InRun, RunPcs
  <1> QED
    BY <1>1, <1>2 DEF BudgetInv, StepsLeft, CallsLeft

LEMMA EndedSteps ==
    ASSUME TypeOK, Finish \/ Gone
    PROVE  BudgetInv'
  <1>1. run' = NewRun /\ pc' \in {"save", "down"}
    BY DEF Finish, Gone, Leave, StopAfterFailure, Crash, PowerLoss, ProcessGone
  <1>2. ~OneStepLeft' /\ pc' # "summarize"
    BY <1>1 DEF OneStepLeft
  <1>3. MaxSteps \in Nat /\ MaxToolCalls \in Nat
    BY ParameterAssumption
  <1> QED
    BY <1>1, <1>2, <1>3, NewRunNumbers DEF BudgetInv, StepsLeft, CallsLeft

\* The run ends, or a call of it is skipped: nothing is spent.
LEMMA EndingSteps ==
    ASSUME TypeOK, BudgetInv,
           \/ CancelledBetweenRequests \/ SummaryFails \/ ModelFails
           \/ ModelRejected \/ ModelReplies \/ CallDenied
    PROVE  BudgetInv'
  <1>1. PICK status \in RunStatus, resumable \in BOOLEAN : run' = End(status, resumable)
    BY DEF CancelledBetweenRequests, SummaryFails, ModelFails, ModelRejected,
           ModelReplies, CallDenied, RunStatus
  <1>2. run'.steps = run.steps /\ run'.calls = run.calls /\ run'.status # ""
    BY <1>1, EndNumbers DEF RunStatus
  <1>3. pc \in InRun /\ pc' \in {"finish", "deny"}
    BY DEF CancelledBetweenRequests, SummaryFails, ModelFails, ModelRejected,
           ModelReplies, CallDenied, InRun, RunPcs
  <1>4. ~OneStepLeft' /\ pc' # "summarize" /\ pc' \in InRun
    BY <1>2, <1>3 DEF OneStepLeft, InRun, RunPcs
  <1> QED
    BY <1>2, <1>3, <1>4 DEF BudgetInv, StepsLeft, CallsLeft

\* A summary takes a step, and leaves one for the request after it.
LEMMA SummarySteps ==
    ASSUME TypeOK, BudgetInv,
           \/ SummarySkipped \/ SummaryStarts \/ RequestSummary
           \/ SummaryUseless \/ SummaryTooLong \/ SummaryAccepted
    PROVE  BudgetInv'
  <1>0. run \in RunState /\ run.steps \in Nat /\ MaxSteps \in Nat
    BY RunNumbers, ParameterAssumption DEF TypeOK
  <1>1. /\ run'.calls = run.calls /\ run'.status = run.status
        /\ pc \in InRun /\ pc' \in InRun /\ pc' # "deny"
    BY <1>0 DEF SummarySkipped, SummaryStarts, RequestSummary, SummaryUseless,
           SummaryTooLong, SummaryAccepted, SummaryWanted, InRun, RunPcs, RunState
  <1>2. CASE SummarySkipped \/ SummaryUseless \/ SummaryAccepted
    <2>1. run'.steps = run.steps /\ pc' \in {"ready", "finish"} /\ OneStepLeft
      BY <1>0, <1>2 DEF SummarySkipped, SummaryUseless, SummaryAccepted,
             SummaryWanted, OneStepLeft, RunState
    <2> QED
      BY <1>1, <2>1 DEF BudgetInv, StepsLeft, CallsLeft
  <1>3. CASE SummaryStarts \/ SummaryTooLong
    <2>1. run'.steps = run.steps /\ pc' = "summarize" /\ SpareSteps
      BY <1>0, <1>3 DEF SummaryStarts, SummaryTooLong, RunState
    <2>2. ~OneStepLeft'
      BY <2>1 DEF OneStepLeft
    <2> QED
      BY <1>0, <1>1, <2>1, <2>2 DEF BudgetInv, StepsLeft, CallsLeft, SpareSteps
  <1>4. CASE RequestSummary
    <2>1. run'.steps = run.steps + 1 /\ pc = "summarize" /\ pc' \in {"summarizing", "finish"}
      BY <1>0, <1>4 DEF RequestSummary, RunState
    <2> QED
      BY <1>0, <1>1, <2>1 DEF BudgetInv, StepsLeft, CallsLeft
  <1> QED
    BY <1>2, <1>3, <1>4

LEMMA RequestBudget ==
    ASSUME TypeOK, BudgetInv, AppendUser \/ Request
    PROVE  BudgetInv'
  <1>0. run \in RunState /\ run.steps \in Nat /\ MaxSteps \in Nat
    BY RunNumbers, ParameterAssumption DEF TypeOK
  <1>1. CASE AppendUser
    <2>1. run' = run /\ pc \notin InRun /\ pc' \in {"loop", "finish"} /\ pc' \in InRun
      BY <1>1 DEF AppendUser, InRun, RunPcs
    <2> QED
      BY <1>0, <2>1 DEF BudgetInv, StepsLeft, CallsLeft
  <1>2. CASE Request
    <2>1. /\ run'.steps \in {run.steps, run.steps + 1} /\ run'.calls = run.calls
          /\ OneStepLeft /\ pc \in InRun /\ pc' \in {"model", "finish"} /\ pc' \in InRun
      BY <1>0, <1>2 DEF Request, OneStepLeft, InRun, RunPcs, RunState
    <2>2. ~OneStepLeft' /\ pc' # "summarize"
      BY <2>1 DEF OneStepLeft
    <2> QED
      BY <1>0, <2>1, <2>2 DEF BudgetInv, StepsLeft, CallsLeft
  <1> QED
    BY <1>1, <1>2

\* reserve: all the calls of a response, on a step that is not the last one.
LEMMA ReserveSteps ==
    ASSUME TypeOK, BudgetInv, ModelCalls
    PROVE  BudgetInv'
  <1>0. /\ run \in RunState /\ run.steps \in Nat /\ run.calls \in Nat
        /\ MaxSteps \in Nat /\ MaxToolCalls \in Nat
    BY RunNumbers, ParameterAssumption DEF TypeOK
  <1>1. PICK n \in 1..MaxBatch :
           \E calls \in [1..n -> CallId], outcome \in Store!Outcome :
              Valid(calls) /\ AcceptCalls(calls, outcome)
    BY DEF ModelCalls
  <1>2. PICK calls \in [1..n -> CallId], outcome \in Store!Outcome :
           AcceptCalls(calls, outcome)
    BY <1>1
  <1>3. n \in Nat
    BY ParameterAssumption
  <1>4. Len(calls) \in Nat
    BY <1>2, <1>3, SeqDef, LenProperties
  <1>5. pc \in InRun /\ pc' \in {"finish", "deny", "dispatch"} /\ pc' \in InRun
    BY <1>2 DEF ModelCalls, AcceptCalls, InRun, RunPcs
  <1>6. CASE run' = run /\ pc' = "finish"
    BY <1>5, <1>6 DEF BudgetInv, StepsLeft, CallsLeft, OneStepLeft
  <1>7. CASE run' = End("limit_exceeded", FALSE) /\ pc' = "deny"
    <2>1. ~OneStepLeft'
      BY <1>7, EndNumbers DEF OneStepLeft
    <2> QED
      BY <1>5, <1>7, <2>1, EndNumbers DEF BudgetInv, StepsLeft, CallsLeft
  <1>8. CASE Reserved(Len(calls)) /\ run' = [run EXCEPT !.calls = @ + Len(calls)]
    <2>1. run'.steps = run.steps /\ run'.calls = run.calls + Len(calls)
      BY <1>0, <1>8 DEF RunState
    <2>2. MaxSteps # 0 => run.steps + 1 <= MaxSteps
      BY <1>0, <1>8 DEF Reserved
    <2>3. MaxToolCalls # 0 => run'.calls <= MaxToolCalls
      BY <1>0, <1>4, <1>8, <2>1 DEF Reserved
    <2> QED
      BY <1>0, <1>5, <2>1, <2>2, <2>3 DEF BudgetInv, StepsLeft, CallsLeft
  <1> QED
    BY <1>2, <1>6, <1>7, <1>8 DEF AcceptCalls

LEMMA DispatchBudget ==
    ASSUME TypeOK, BudgetInv,
           \/ CallRefused \/ StartTool \/ ToolReturns \/ BatchDone
           \/ NotExecuted \/ Denied \/ Interrupt
    PROVE  BudgetInv'
  <1>0. run \in RunState
    BY DEF TypeOK
  <1>1. CASE CallRefused \/ BatchDone \/ NotExecuted \/ StartTool \/ Denied
    <2>1. /\ run' = run /\ pc \in InRun /\ pc' \in InRun /\ pc' # "summarize"
          /\ OneStepLeft' => OneStepLeft
      BY <1>1 DEF CallRefused, BatchDone, NotExecuted, StartTool, Denied,
             OneStepLeft, InRun, RunPcs
    <2> QED
      BY <2>1 DEF BudgetInv, StepsLeft, CallsLeft
  <1>2. CASE ToolReturns
    <2>1. PICK code \in ToolCodes(Kind[Head(batch)]) : AfterTool(code)
      BY <1>2 DEF ToolReturns
    <2>2. run' = run \/ \E status, resumable : run' = End(status, resumable)
      BY <2>1 DEF AfterTool
    <2>3. run'.steps = run.steps /\ run'.calls = run.calls
      BY <2>2, EndNumbers
    <2>4. /\ pc \in InRun /\ OneStepLeft
          /\ pc' \in InRun /\ pc' # "summarize"
      BY <1>2, <2>1 DEF ToolReturns, AfterTool, OneStepLeft, InRun, RunPcs
    <2> QED
      BY <2>3, <2>4 DEF BudgetInv, StepsLeft, CallsLeft
  <1>3. CASE Interrupt
    <2>1. /\ run'.steps = run.steps /\ run'.calls = run.calls
          /\ run'.status = run.status /\ pc' = pc
      BY <1>0, <1>3 DEF Interrupt, RunState
    <2> QED
      BY <2>1 DEF BudgetInv, StepsLeft, CallsLeft, OneStepLeft
  <1> QED
    BY <1>1, <1>2, <1>3

LEMMA BudgetPreserved ==
    ASSUME TypeOK, BudgetInv, [Next]_vars
    PROVE  BudgetInv'
  <1>1. CASE UNCHANGED vars
    BY <1>1 DEF vars, BudgetInv, StepsLeft, CallsLeft, OneStepLeft
  <1>2. CASE Progress
    BY <1>2, OutsideSteps, EndedSteps, EndingSteps, SummarySteps, RequestBudget,
       ReserveSteps, DispatchBudget
    DEF Progress, Summary, Response, Dispatch, Gone
  <1>3. CASE User \/ Restart
    BY <1>3, OutsideSteps, EndedSteps, DispatchBudget DEF User, Restart, Gone
  <1> QED
    BY <1>1, <1>2, <1>3 DEF Next

LEMMA BudgetAtFirst == Init => BudgetInv
  <1> SUFFICES ASSUME Init PROVE BudgetInv
    OBVIOUS
  <1>1. run = NewRun /\ pc = "prompt"
    BY DEF Init
  <1> QED
    BY <1>1, NewRunNumbers, ParameterAssumption
    DEF BudgetInv, StepsLeft, CallsLeft, OneStepLeft

\* --max-steps and --max-tool-calls are never exceeded, although requests are
\* made without a check of their own and in-run summaries spend steps too; and
\* no tool runs on a step that no later step could report.
THEOREM BudgetsHold == Spec => []WithinBudget
  <1>1. TypeOK /\ BudgetInv => WithinBudget
    <2> SUFFICES ASSUME TypeOK, BudgetInv PROVE WithinBudget
      OBVIOUS
    <2>1. run.steps \in Nat /\ MaxSteps \in Nat
      BY RunNumbers, ParameterAssumption
    <2>2. MaxSteps # 0 /\ pc = "tool" => run.steps + 1 <= MaxSteps
      BY DEF BudgetInv, StepsLeft, OneStepLeft
    <2>3. MaxSteps # 0 => run.steps <= MaxSteps
      BY DEF BudgetInv, StepsLeft
    <2>4. MaxToolCalls # 0 => run.calls <= MaxToolCalls
      BY DEF BudgetInv, CallsLeft
    <2> QED
      BY <2>1, <2>2, <2>3, <2>4 DEF WithinBudget
  <1>2. TypeOK /\ BudgetInv /\ [Next]_vars => BudgetInv'
    BY BudgetPreserved
  <1> QED
    BY <1>1, <1>2, BudgetAtFirst, TypeCorrect, PTL DEF Spec


(***************************************************************************)
(* What recovery makes of a session: it denies nothing that began,         *)
(* whatever the disk does; and while the disk does not come back after a   *)
(* failed save, every checkpoint that a crash may leave loads and is       *)
(* recovered in exactly one way.  Then what becomes of the user's          *)
(* messages.                                                               *)
(***************************************************************************)


(***************************************************************************)
(* Finite strict orders have one enumeration.  An element's rank is the    *)
(* number of those before it; the only enumeration is the inverse of rank. *)
(***************************************************************************)
Ordered(U, R) ==
    /\ \A c \in U : <<c, c>> \notin R
    /\ \A c, d \in U : c # d => <<c, d>> \in R \/ <<d, c>> \in R
    /\ \A c, d, e \in U : <<c, d>> \in R /\ <<d, e>> \in R => <<c, e>> \in R

Enumerations(U, R) ==
    {q \in [1..Cardinality(U) -> U] :
        \A a, b \in DOMAIN q : a < b => <<q[a], q[b]>> \in R /\ q[a] # q[b]}

Before(U, R, c) == {d \in U : <<d, c>> \in R}
Rank(U, R) == [c \in U |-> Cardinality(Before(U, R, c)) + 1]

LEMMA BeforeFinite ==
    ASSUME NEW U, IsFiniteSet(U), NEW R, Ordered(U, R), NEW c \in U
    PROVE  /\ IsFiniteSet(Before(U, R, c)) /\ Cardinality(Before(U, R, c)) \in Nat
           /\ Cardinality(U) \in Nat
           /\ Cardinality(Before(U, R, c)) < Cardinality(U)
  <1> DEFINE B == Before(U, R, c)
  <1>1. B \in SUBSET U /\ B # U
    BY DEF Before, Ordered
  <1>2. IsFiniteSet(B) /\ Cardinality(B) <= Cardinality(U) /\ Cardinality(B) # Cardinality(U)
    BY <1>1, FS_Subset
  <1>3. Cardinality(B) \in Nat /\ Cardinality(U) \in Nat
    BY <1>2, FS_CardinalityType
  <1> QED
    BY <1>2, <1>3

LEMMA RankGrows ==
    ASSUME NEW U, IsFiniteSet(U), NEW R, Ordered(U, R), NEW c \in U, NEW d \in U,
           <<c, d>> \in R
    PROVE  Rank(U, R)[c] < Rank(U, R)[d]
  <1> DEFINE B == Before(U, R, c)
             D == Before(U, R, d)
  <1>1. B \in SUBSET D /\ c \in D /\ c \notin B
    BY DEF Before, Ordered
  <1>2. IsFiniteSet(D) /\ Cardinality(B) \in Nat /\ Cardinality(D) \in Nat
    BY BeforeFinite
  <1>3. Cardinality(B) <= Cardinality(D) /\ Cardinality(B) # Cardinality(D)
    BY <1>1, <1>2, FS_Subset
  <1> QED
    BY <1>2, <1>3 DEF Rank

LEMMA RankBijection ==
    ASSUME NEW U, IsFiniteSet(U), NEW R, Ordered(U, R)
    PROVE  Rank(U, R) \in Bijection(U, 1..Cardinality(U))
  <1> DEFINE n == Cardinality(U)
             rank == Rank(U, R)
  <1>1. n \in Nat
    BY FS_CardinalityType
  <1>2. rank \in [U -> 1..n]
    <2>1. \A c \in U : Cardinality(Before(U, R, c)) + 1 \in 1..n
      BY <1>1, BeforeFinite
    <2> QED
      BY <2>1 DEF Rank
  <1>3. \A c, d \in U : rank[c] = rank[d] => c = d
    <2> SUFFICES ASSUME NEW c \in U, NEW d \in U, c # d
                 PROVE  rank[c] # rank[d]
      OBVIOUS
    <2>1. rank[c] < rank[d] \/ rank[d] < rank[c]
      BY RankGrows DEF Ordered
    <2>2. rank[c] \in Nat /\ rank[d] \in Nat
      BY <1>1, <1>2
    <2> QED
      BY <2>1, <2>2
  <1>4. rank \in Injection(U, 1..n)
    BY <1>2, <1>3 DEF Injection, IsInjective
  <1>5. IsFiniteSet(1..n) /\ Cardinality(1..n) = n
    BY <1>1, FS_Interval
  <1>6. rank \in Surjection(U, 1..n)
    BY <1>4, <1>5, FS_Injection
  <1> QED
    BY <1>4, <1>6 DEF Bijection

LEMMA EnumerationsRank ==
    ASSUME NEW U, IsFiniteSet(U), NEW R, Ordered(U, R), NEW q \in Enumerations(U, R)
    PROVE  \A i \in 1..Cardinality(U) : Rank(U, R)[q[i]] = i
  <1> DEFINE n == Cardinality(U)
  <1>1. n \in Nat
    BY FS_CardinalityType
  <1>2. /\ q \in [1..n -> U]
        /\ \A a, b \in 1..n : a < b => <<q[a], q[b]>> \in R /\ q[a] # q[b]
    BY DEF Enumerations
  <1>3. q \in Surjection(1..n, U) /\ q \in Injection(1..n, U)
    <2>1. ASSUME NEW a \in 1..n, NEW b \in 1..n, a # b
          PROVE  q[a] # q[b]
      <3>1. a < b \/ b < a
        BY <1>1, <2>1
      <3> QED
        BY <1>2, <3>1
    <2>2. q \in Injection(1..n, U)
      BY <1>2, <2>1 DEF Injection, IsInjective
    <2>3. Cardinality(1..n) = n
      BY <1>1, FS_Interval
    <2> QED
      BY <2>2, <2>3, FS_Injection
  <1> SUFFICES ASSUME NEW i \in 1..n
               PROVE  Cardinality(Before(U, R, q[i])) + 1 = i
    BY <1>2 DEF Rank
  <1>4. i \in Nat /\ i - 1 \in Nat
    BY <1>1
  <1> DEFINE T == Before(U, R, q[i])
             f == [a \in 1..(i - 1) |-> q[a]]
  <1>5. \A a \in 1..(i - 1) : a \in 1..n /\ a < i
    BY <1>1
  <1>6. f \in [1..(i - 1) -> T]
    BY <1>2, <1>5 DEF Before
  <1>7. \A a, b \in 1..(i - 1) : f[a] = f[b] => a = b
    BY <1>3, <1>5 DEF Surjection, Injection, IsInjective
  <1>8. \A d \in T : \E a \in 1..(i - 1) : f[a] = d
    <2> SUFFICES ASSUME NEW d \in T PROVE \E a \in 1..(i - 1) : f[a] = d
      OBVIOUS
    <2>1. d \in U /\ <<d, q[i]>> \in R
      BY DEF Before
    <2>2. PICK a \in 1..n : q[a] = d
      BY <1>3, <2>1 DEF Surjection
    <2>3. ~(i < a) /\ i # a
      BY <1>2, <2>1, <2>2 DEF Ordered
    <2>4. a \in 1..(i - 1)
      BY <1>1, <2>3
    <2> QED
      BY <2>2, <2>4
  <1>9. f \in Bijection(1..(i - 1), T)
    BY <1>6, <1>7, <1>8 DEF Bijection, Injection, IsInjective, Surjection
  <1>10. IsFiniteSet(1..(i - 1)) /\ Cardinality(1..(i - 1)) = i - 1
    BY <1>4, FS_Interval
  <1>11. Cardinality(T) = i - 1
    BY <1>9, <1>10, FS_Bijection DEF ExistsBijection
  <1> QED
    BY <1>4, <1>11

\* There is exactly one enumeration.
LEMMA OneEnumeration ==
    ASSUME NEW U, IsFiniteSet(U), NEW R, Ordered(U, R)
    PROVE  \E q : Enumerations(U, R) = {q}
  <1> DEFINE n == Cardinality(U)
             rank == Rank(U, R)
             p == [i \in 1..n |-> CHOOSE c \in U : rank[c] = i]
  <1>1. n \in Nat
    BY FS_CardinalityType
  <1>2. /\ rank \in [U -> 1..n]
        /\ \A c, d \in U : rank[c] = rank[d] => c = d
        /\ \A i \in 1..n : \E c \in U : rank[c] = i
    BY RankBijection DEF Bijection, Injection, IsInjective, Surjection
  <1>3. \A i \in 1..n : p[i] \in U /\ rank[p[i]] = i
    BY <1>2
  <1>4. p \in Enumerations(U, R)
    <2>1. p \in [1..n -> U]
      BY <1>3
    <2>2. ASSUME NEW a \in 1..n, NEW b \in 1..n, a < b
          PROVE  <<p[a], p[b]>> \in R /\ p[a] # p[b]
      <3>1. p[a] # p[b]
        BY <1>3, <2>2
      <3>2. <<p[b], p[a]>> \notin R
        <4> SUFFICES ASSUME <<p[b], p[a]>> \in R PROVE FALSE
          OBVIOUS
        <4>1. rank[p[b]] < rank[p[a]]
          BY <1>3, RankGrows
        <4> QED
          BY <1>1, <1>3, <2>2, <4>1
      <3> QED
        BY <1>3, <3>1, <3>2 DEF Ordered
    <2>3. DOMAIN p = 1..n
      OBVIOUS
    <2> QED
      BY <2>1, <2>2, <2>3 DEF Enumerations
  <1>5. ASSUME NEW q \in Enumerations(U, R)
        PROVE  q = p
    <2>1. \A i \in 1..n : rank[q[i]] = i
      BY <1>5, EnumerationsRank
    <2>2. q \in [1..n -> U]
      BY <1>5 DEF Enumerations
    <2>3. \A i \in 1..n : q[i] = p[i]
      BY <1>2, <1>3, <2>1, <2>2
    <2>4. p \in [1..n -> U]
      BY <1>3
    <2> QED
      BY <2>2, <2>3, <2>4
  <1> QED
    BY <1>4, <1>5

(***************************************************************************)
(* What a transcript says, entry by entry.                                 *)
(***************************************************************************)

\* The calls a transcript says were not executed.
Denials(h) == {i \in Positions(h, "tool") : h[i].code \in {"not_executed", "refused"}}
DeniedIn(h) == {h[i].call : i \in Denials(h)}

\* What load asks of a transcript, whatever the phase.
WellFormed(h, seen) == CallsAcceptedOnce(h, seen) /\ ResultsMatchCalls(h)

LEMMA NotDeniedMeans ==
    ASSUME NEW h
    PROVE  NotDenied(h) <=> \A c \in DeniedIn(h) : started[c] = 0
  BY DEF NotDenied, DeniedIn, Denials

LEMMA Says ==
    ASSUME NEW h
    PROVE  /\ \A c : c \in CallsIn(h) <=> \E i \in Positions(h, "assistant") : c \in ToSet(h[i].calls)
           /\ \A c : c \in AnsweredIn(h) <=> \E i \in Positions(h, "tool") : h[i].call = c
           /\ \A c : c \in DeniedIn(h) <=> \E i \in Positions(h, "tool") :
                        h[i].call = c /\ h[i].code \in {"not_executed", "refused"}
  <1>1. \A c : c \in CallsIn(h) <=> \E i \in Positions(h, "assistant") : c \in ToSet(h[i].calls)
    BY DEF CallsIn
  <1>2. \A c : c \in AnsweredIn(h) <=> \E i \in Positions(h, "tool") : h[i].call = c
    BY DEF AnsweredIn
  <1>3. \A c : c \in DeniedIn(h) <=> \E i \in Positions(h, "tool") :
           h[i].call = c /\ h[i].code \in {"not_executed", "refused"}
    BY DEF DeniedIn, Denials
  <1> QED
    BY <1>1, <1>2, <1>3

\* Entries without calls and results leave what a transcript says of calls.
Idle(e) == e.kind \in {"user", "shell", "summary"} \/ (e.kind = "assistant" /\ e.calls = <<>>)

LEMMA AppendPositions ==
    ASSUME NEW h \in Seq(Entry), NEW e \in Entry
    PROVE  /\ Append(h, e) \in Seq(Entry)
           /\ Len(h) \in Nat /\ DOMAIN h = 1..Len(h)
           /\ DOMAIN Append(h, e) = 1..(Len(h) + 1)
           /\ \A i \in DOMAIN h : Append(h, e)[i] = h[i] /\ i # Len(h) + 1
           /\ Append(h, e)[Len(h) + 1] = e
           /\ \A kind : Positions(Append(h, e), kind) =
                 Positions(h, kind) \cup (IF e.kind = kind THEN {Len(h) + 1} ELSE {})
  <1> DEFINE k == Append(h, e)
             n == Len(h)
  <1>1. n \in Nat /\ DOMAIN h = 1..n
    BY LenProperties
  <1>2. /\ k \in Seq(Entry) /\ Len(k) = n + 1
        /\ \A i \in 1..n : k[i] = h[i]
        /\ k[n + 1] = e
    BY AppendProperties
  <1>3. DOMAIN k = 1..(n + 1)
    BY <1>2, LenProperties
  <1>4. \A i \in 1..(n + 1) : i \in 1..n \/ i = n + 1
    BY <1>1
  <1>5. \A i \in 1..n : i \in 1..(n + 1) /\ i # n + 1
    BY <1>1
  <1>6. ASSUME NEW kind
        PROVE  Positions(k, kind) = Positions(h, kind) \cup (IF e.kind = kind THEN {n + 1} ELSE {})
    BY <1>1, <1>2, <1>3, <1>4, <1>5 DEF Positions
  <1> QED
    BY <1>1, <1>2, <1>3, <1>5, <1>6

LEMMA AppendKinds ==
    ASSUME NEW h \in Seq(Entry), NEW e \in Entry
    PROVE  /\ e.kind = "tool" =>
                 /\ Positions(Append(h, e), "tool") = Positions(h, "tool") \cup {Len(h) + 1}
                 /\ Positions(Append(h, e), "assistant") = Positions(h, "assistant")
           /\ e.kind = "assistant" =>
                 /\ Positions(Append(h, e), "tool") = Positions(h, "tool")
                 /\ Positions(Append(h, e), "assistant") = Positions(h, "assistant") \cup {Len(h) + 1}
           /\ e.kind \notin {"tool", "assistant"} =>
                 /\ Positions(Append(h, e), "tool") = Positions(h, "tool")
                 /\ Positions(Append(h, e), "assistant") = Positions(h, "assistant")
           /\ \A i \in Positions(h, "assistant") \cup Positions(h, "tool") :
                 Append(h, e)[i] = h[i] /\ i # Len(h) + 1 /\ i < Len(h) + 1
           /\ Append(h, e)[Len(h) + 1] = e
  <1>1. Positions(Append(h, e), "tool") =
           Positions(h, "tool") \cup (IF e.kind = "tool" THEN {Len(h) + 1} ELSE {})
    BY AppendPositions
  <1>2. Positions(Append(h, e), "assistant") =
           Positions(h, "assistant") \cup (IF e.kind = "assistant" THEN {Len(h) + 1} ELSE {})
    BY AppendPositions
  <1>3. /\ Len(h) \in Nat /\ DOMAIN h = 1..Len(h)
        /\ \A i \in DOMAIN h : Append(h, e)[i] = h[i] /\ i # Len(h) + 1
        /\ Append(h, e)[Len(h) + 1] = e
    BY AppendPositions
  <1>4. \A i \in Positions(h, "assistant") \cup Positions(h, "tool") : i \in DOMAIN h
    BY DEF Positions
  <1>5. \A i \in Positions(h, "assistant") \cup Positions(h, "tool") :
           Append(h, e)[i] = h[i] /\ i # Len(h) + 1 /\ i < Len(h) + 1
    BY <1>3, <1>4
  <1> QED
    BY <1>1, <1>2, <1>3, <1>5

LEMMA AppendSays ==
    ASSUME NEW h \in Seq(Entry), NEW e \in Entry
    PROVE  /\ CallsIn(Append(h, e)) =
                 CallsIn(h) \cup (IF e.kind = "assistant" THEN ToSet(e.calls) ELSE {})
           /\ AnsweredIn(Append(h, e)) =
                 AnsweredIn(h) \cup (IF e.kind = "tool" THEN {e.call} ELSE {})
           /\ DeniedIn(Append(h, e)) =
                 DeniedIn(h) \cup (IF e.kind = "tool" /\ e.code \in {"not_executed", "refused"}
                                   THEN {e.call} ELSE {})
  <1> DEFINE k == Append(h, e)
             n == Len(h) + 1
  <1>1. /\ \A i \in DOMAIN h : k[i] = h[i] /\ i # n
        /\ k[n] = e
        /\ \A kind : Positions(k, kind) = Positions(h, kind) \cup (IF e.kind = kind THEN {n} ELSE {})
    BY AppendPositions
  <1>2. \A kind : Positions(h, kind) \subseteq DOMAIN h
    BY DEF Positions
  <1>3. \A i \in Positions(h, "assistant") \cup Positions(h, "tool") : k[i] = h[i] /\ i # n
    BY <1>1, <1>2
  <1>4. ASSUME NEW c
        PROVE  c \in CallsIn(k) <=> c \in CallsIn(h) \/ (e.kind = "assistant" /\ c \in ToSet(e.calls))
    <2>1. c \in CallsIn(k) <=> \E i \in Positions(k, "assistant") : c \in ToSet(k[i].calls)
      BY Says
    <2>2. c \in CallsIn(h) <=> \E i \in Positions(h, "assistant") : c \in ToSet(h[i].calls)
      BY Says
    <2>3. Positions(k, "assistant") = Positions(h, "assistant") \cup (IF e.kind = "assistant" THEN {n} ELSE {})
      BY <1>1
    <2> QED
      BY <1>1, <1>3, <2>1, <2>2, <2>3
  <1>5. Positions(k, "tool") = Positions(h, "tool") \cup (IF e.kind = "tool" THEN {n} ELSE {})
    BY <1>1
  <1>6. ASSUME NEW c
        PROVE  c \in AnsweredIn(k) <=> c \in AnsweredIn(h) \/ (e.kind = "tool" /\ c = e.call)
    <2>1. c \in AnsweredIn(k) <=> \E i \in Positions(k, "tool") : k[i].call = c
      BY Says
    <2>2. c \in AnsweredIn(h) <=> \E i \in Positions(h, "tool") : h[i].call = c
      BY Says
    <2> QED
      BY <1>1, <1>3, <1>5, <2>1, <2>2
  <1>7. ASSUME NEW c
        PROVE  c \in DeniedIn(k) <=>
                  \/ c \in DeniedIn(h)
                  \/ e.kind = "tool" /\ e.code \in {"not_executed", "refused"} /\ c = e.call
    <2>1. c \in DeniedIn(k) <=>
             \E i \in Positions(k, "tool") : k[i].call = c /\ k[i].code \in {"not_executed", "refused"}
      BY DEF DeniedIn, Denials
    <2>2. c \in DeniedIn(h) <=>
             \E i \in Positions(h, "tool") : h[i].call = c /\ h[i].code \in {"not_executed", "refused"}
      BY DEF DeniedIn, Denials
    <2> QED
      BY <1>1, <1>3, <1>5, <2>1, <2>2
  <1>8. CallsIn(k) = CallsIn(h) \cup (IF e.kind = "assistant" THEN ToSet(e.calls) ELSE {})
    BY <1>4
  <1>9. AnsweredIn(k) = AnsweredIn(h) \cup (IF e.kind = "tool" THEN {e.call} ELSE {})
    BY <1>6
  <1>10. DeniedIn(k) = DeniedIn(h) \cup (IF e.kind = "tool" /\ e.code \in {"not_executed", "refused"}
                                        THEN {e.call} ELSE {})
    BY <1>7
  <1> QED
    BY <1>8, <1>9, <1>10

LEMMA IdleSays ==
    ASSUME NEW h \in Seq(Entry), NEW e \in Entry, Idle(e), NEW seen
    PROVE  /\ CallsIn(Append(h, e)) = CallsIn(h) /\ AnsweredIn(Append(h, e)) = AnsweredIn(h)
           /\ DeniedIn(Append(h, e)) = DeniedIn(h)
           /\ WellFormed(h, seen) => WellFormed(Append(h, e), seen)
  <1> DEFINE k == Append(h, e)
             n == Len(h) + 1
  <1>1. e.kind = "assistant" => ToSet(e.calls) = {} /\ NoRepeats(e.calls)
    BY DEF Idle, ToSet, NoRepeats
  <1>2. e.kind # "tool"
    BY DEF Idle
  <1>3. /\ CallsIn(k) = CallsIn(h) \cup (IF e.kind = "assistant" THEN ToSet(e.calls) ELSE {})
        /\ AnsweredIn(k) = AnsweredIn(h) /\ DeniedIn(k) = DeniedIn(h)
    BY <1>2, AppendSays
  <1>4. CallsIn(k) = CallsIn(h)
    BY <1>1, <1>3
  <1>5. /\ Positions(k, "tool") = Positions(h, "tool")
        /\ \/ Positions(k, "assistant") = Positions(h, "assistant")
           \/ e.kind = "assistant" /\ Positions(k, "assistant") = Positions(h, "assistant") \cup {n}
        /\ k[n] = e
    BY <1>2, AppendKinds
  <1>6. \A i \in Positions(h, "assistant") \cup Positions(h, "tool") : k[i] = h[i] /\ i # n /\ i < n
    BY AppendKinds
  <1>7. ASSUME WellFormed(h, seen)
        PROVE  CallsAcceptedOnce(k, seen)
    BY <1>1, <1>4, <1>5, <1>6, <1>7 DEF WellFormed, CallsAcceptedOnce
  <1>8. ASSUME WellFormed(h, seen)
        PROVE  ResultsMatchCalls(k)
    BY <1>5, <1>6, <1>8 DEF WellFormed, ResultsMatchCalls
  <1> QED
    BY <1>3, <1>4, <1>7, <1>8 DEF WellFormed

\* A transcript of such entries says nothing of calls.
LEMMA NothingSaid ==
    ASSUME NEW h, \A i \in DOMAIN h : h[i].kind \in {"user", "shell", "summary"}, NEW seen
    PROVE  /\ CallsIn(h) = {} /\ AnsweredIn(h) = {} /\ DeniedIn(h) = {} /\ Unanswered(h) = {}
           /\ WellFormed(h, seen)
  <1>1. Positions(h, "assistant") = {} /\ Positions(h, "tool") = {}
    BY DEF Positions
  <1> QED
    BY <1>1 DEF CallsIn, AnsweredIn, DeniedIn, Denials, Unanswered, WellFormed,
                CallsAcceptedOnce, ResultsMatchCalls

\* A response with calls that are new to the session.
LEMMA AcceptedSays ==
    ASSUME NEW h \in Seq(Entry), NEW calls \in Seq(CallId), NEW seen,
           NoRepeats(calls), ToSet(calls) \cap seen = {}, WellFormed(h, seen)
    PROVE  WellFormed(Append(h, AssistantEntry(calls)), seen \cup ToSet(calls))
  <1> DEFINE e == AssistantEntry(calls)
             k == Append(h, e)
             n == Len(h) + 1
  <1>1. e \in Entry /\ e.kind = "assistant" /\ e.calls = calls
    BY AssistantEntryType DEF AssistantEntry
  <1>2. CallsIn(k) = CallsIn(h) \cup ToSet(calls)
    BY <1>1, AppendSays
  <1>3. /\ k[n] = e
        /\ Positions(k, "tool") = Positions(h, "tool")
        /\ Positions(k, "assistant") = Positions(h, "assistant") \cup {n}
    BY <1>1, AppendKinds
  <1>4. \A i \in Positions(h, "assistant") \cup Positions(h, "tool") : k[i] = h[i] /\ i # n /\ i < n
    BY <1>1, AppendKinds
  <1>5. \A i \in Positions(h, "assistant") : ToSet(h[i].calls) \cap ToSet(calls) = {}
    BY DEF WellFormed, CallsAcceptedOnce, CallsIn
  <1>6. CallsAcceptedOnce(k, seen \cup ToSet(calls))
    <2>1. CallsIn(k) \subseteq seen \cup ToSet(calls)
      BY <1>2 DEF WellFormed, CallsAcceptedOnce
    <2>2. \A i \in Positions(k, "assistant") : NoRepeats(k[i].calls)
      BY <1>1, <1>3, <1>4 DEF WellFormed, CallsAcceptedOnce
    <2>3. \A i \in Positions(k, "assistant") : \A j \in Positions(k, "assistant") \ {i} :
             ToSet(k[i].calls) \cap ToSet(k[j].calls) = {}
      BY <1>1, <1>3, <1>4, <1>5 DEF WellFormed, CallsAcceptedOnce
    <2> QED
      BY <2>1, <2>2, <2>3 DEF CallsAcceptedOnce
  <1>7. ResultsMatchCalls(k)
    BY <1>3, <1>4 DEF WellFormed, ResultsMatchCalls
  <1> QED
    BY <1>6, <1>7 DEF WellFormed

\* The result of a call that was accepted and has none.
LEMMA AnsweredSays ==
    ASSUME NEW h \in Seq(Entry), NEW c \in CallId, NEW code \in Code, NEW seen
    PROVE  /\ CallsIn(Append(h, ToolEntry(c, code))) = CallsIn(h)
           /\ AnsweredIn(Append(h, ToolEntry(c, code))) = AnsweredIn(h) \cup {c}
           /\ Unanswered(Append(h, ToolEntry(c, code))) = Unanswered(h) \ {c}
           /\ DeniedIn(Append(h, ToolEntry(c, code))) =
                 DeniedIn(h) \cup (IF code \in {"not_executed", "refused"} THEN {c} ELSE {})
           /\ WellFormed(h, seen) /\ c \in Unanswered(h)
                 => WellFormed(Append(h, ToolEntry(c, code)), seen)
  <1> DEFINE e == ToolEntry(c, code)
             k == Append(h, e)
             n == Len(h) + 1
  <1>1. e \in Entry /\ e.kind = "tool" /\ e.call = c /\ e.code = code
    BY ToolEntryType DEF ToolEntry
  <1>2. /\ CallsIn(k) = CallsIn(h) /\ AnsweredIn(k) = AnsweredIn(h) \cup {c}
        /\ DeniedIn(k) = DeniedIn(h) \cup (IF code \in {"not_executed", "refused"} THEN {c} ELSE {})
    BY <1>1, AppendSays
  <1>3. /\ k[n] = e
        /\ Positions(k, "tool") = Positions(h, "tool") \cup {n}
        /\ Positions(k, "assistant") = Positions(h, "assistant")
    BY <1>1, AppendKinds
  <1>4. \A i \in Positions(h, "assistant") \cup Positions(h, "tool") : k[i] = h[i] /\ i # n /\ i < n
    BY <1>1, AppendKinds
  <1>5. ASSUME WellFormed(h, seen), c \in Unanswered(h)
        PROVE  WellFormed(k, seen)
    <2>1. CallsAcceptedOnce(k, seen)
      BY <1>2, <1>3, <1>4, <1>5 DEF WellFormed, CallsAcceptedOnce
    <2>2. PICK j \in Positions(h, "assistant") : c \in ToSet(h[j].calls)
      BY <1>5 DEF Unanswered, CallsIn
    <2>3. \A i \in Positions(h, "tool") : h[i].call # c
      BY <1>5 DEF Unanswered, AnsweredIn
    <2>4. \A i \in Positions(k, "tool") :
             \E a \in Positions(k, "assistant") : a < i /\ k[i].call \in ToSet(k[a].calls)
      <3>1. ASSUME NEW i \in Positions(h, "tool")
            PROVE  \E a \in Positions(h, "assistant") : a < i /\ h[i].call \in ToSet(h[a].calls)
        BY <1>5 DEF WellFormed, ResultsMatchCalls
      <3>2. k[n].call = c /\ j < n
        BY <1>1, <1>3, <1>4
      <3> QED
        BY <1>3, <1>4, <2>2, <3>1, <3>2
    <2>5. \A i \in Positions(k, "tool") : \A a \in Positions(k, "tool") \ {i} : k[a].call # k[i].call
      BY ZenonT(30), <1>1, <1>3, <1>4, <1>5, <2>3 DEF WellFormed, ResultsMatchCalls
    <2> QED
      BY <2>1, <2>4, <2>5 DEF WellFormed, ResultsMatchCalls
  <1> QED
    BY <1>2, <1>5 DEF Unanswered

(***************************************************************************)
(* recoverInterrupted.                                                     *)
(***************************************************************************)

LEMMA PlaceOfCall ==
    ASSUME NEW h \in Seq(Entry), NEW seen, WellFormed(h, seen), NEW c \in CallsIn(h)
    PROVE  \E i \in Positions(h, "assistant"), a \in Nat :
              /\ i \in Nat /\ a \in DOMAIN h[i].calls /\ h[i].calls[a] = c
              /\ \A j \in Positions(h, "assistant") : \A b \in DOMAIN h[j].calls :
                    h[j].calls[b] = c => j = i /\ b = a
  <1>1. PICK i \in Positions(h, "assistant") : c \in ToSet(h[i].calls)
    BY Says
  <1>2. i \in DOMAIN h /\ i \in Nat /\ h[i] \in Entry /\ h[i].kind = "assistant"
    BY LenProperties DEF Positions
  <1>3. h[i].calls \in Seq(CallId)
    BY <1>2, EntryFields
  <1>4. PICK a \in DOMAIN h[i].calls : h[i].calls[a] = c
    BY <1>1 DEF ToSet
  <1>5. a \in Nat
    BY <1>3, <1>4, LenProperties
  <1>6. ASSUME NEW j \in Positions(h, "assistant"), NEW b \in DOMAIN h[j].calls, h[j].calls[b] = c
        PROVE  j = i /\ b = a
    <2>1. c \in ToSet(h[j].calls)
      BY <1>6 DEF ToSet
    <2>2. j = i
      BY <1>1, <2>1 DEF WellFormed, CallsAcceptedOnce
    <2>3. NoRepeats(h[i].calls)
      BY DEF WellFormed, CallsAcceptedOnce
    <2> QED
      BY <1>4, <1>6, <2>2, <2>3 DEF NoRepeats
  <1> QED
    BY <1>2, <1>4, <1>5, <1>6

OutputOrder(h) == {p \in Unanswered(h) \X Unanswered(h) : Precedes(h, p[1], p[2])}

LEMMA PrecedesByPlace ==
    ASSUME NEW h, NEW c, NEW d, NEW i \in Positions(h, "assistant"), NEW j \in Positions(h, "assistant"),
           i \in Nat, j \in Nat,
           NEW a \in Nat, NEW b \in Nat,
           a \in DOMAIN h[i].calls, h[i].calls[a] = c,
           b \in DOMAIN h[j].calls, h[j].calls[b] = d,
           \A x \in Positions(h, "assistant") : \A y \in DOMAIN h[x].calls :
              h[x].calls[y] = c => x = i /\ y = a,
           \A x \in Positions(h, "assistant") : \A y \in DOMAIN h[x].calls :
              h[x].calls[y] = d => x = j /\ y = b
    PROVE  Precedes(h, c, d) <=> i < j \/ (i = j /\ a < b)
  BY DEF Precedes

\* Call c stands in the response at i, in its place a, and nowhere else.
PlaceIs(h, c, i, a) ==
    /\ i \in Positions(h, "assistant") /\ i \in Nat /\ a \in Nat
    /\ a \in DOMAIN h[i].calls /\ h[i].calls[a] = c
    /\ \A x \in Positions(h, "assistant") : \A y \in DOMAIN h[x].calls :
          h[x].calls[y] = c => x = i /\ y = a

LEMMA CallsHavePlaces ==
    ASSUME NEW h \in Seq(Entry), NEW seen, WellFormed(h, seen), NEW c \in Unanswered(h)
    PROVE  \E i \in Nat, a \in Nat : PlaceIs(h, c, i, a)
  BY PlaceOfCall DEF PlaceIs, Unanswered

LEMMA OrderByPlace ==
    ASSUME NEW h, NEW c \in Unanswered(h), NEW d \in Unanswered(h),
           NEW i \in Nat, NEW a \in Nat, NEW j \in Nat, NEW b \in Nat,
           PlaceIs(h, c, i, a), PlaceIs(h, d, j, b)
    PROVE  /\ <<c, d>> \in OutputOrder(h) <=> i < j \/ (i = j /\ a < b)
           /\ c # d => i # j \/ a # b
  <1>1. Precedes(h, c, d) <=> i < j \/ (i = j /\ a < b)
    BY PrecedesByPlace DEF PlaceIs
  <1>2. c # d => i # j \/ a # b
    BY DEF PlaceIs
  <1> QED
    BY <1>1, <1>2 DEF OutputOrder

LEMMA OutputOrdered ==
    ASSUME NEW h \in Seq(Entry), NEW seen, WellFormed(h, seen)
    PROVE  Ordered(Unanswered(h), OutputOrder(h))
  <1> DEFINE U == Unanswered(h)
             R == OutputOrder(h)
  <1>1. \A c \in U : \E i \in Nat, a \in Nat : PlaceIs(h, c, i, a)
    BY CallsHavePlaces
  <1>2. \A c \in U : <<c, c>> \notin R
    <2> SUFFICES ASSUME NEW c \in U PROVE <<c, c>> \notin R
      OBVIOUS
    <2>1. PICK i \in Nat, a \in Nat : PlaceIs(h, c, i, a)
      BY <1>1
    <2> QED
      BY <2>1, OrderByPlace
  <1>3. \A c, d \in U : c # d => <<c, d>> \in R \/ <<d, c>> \in R
    <2> SUFFICES ASSUME NEW c \in U, NEW d \in U, c # d PROVE <<c, d>> \in R \/ <<d, c>> \in R
      OBVIOUS
    <2>1. PICK i \in Nat, a \in Nat : PlaceIs(h, c, i, a)
      BY <1>1
    <2>2. PICK j \in Nat, b \in Nat : PlaceIs(h, d, j, b)
      BY <1>1
    <2>3. <<c, d>> \in R <=> i < j \/ (i = j /\ a < b)
      BY <2>1, <2>2, OrderByPlace
    <2>4. <<d, c>> \in R <=> j < i \/ (j = i /\ b < a)
      BY <2>1, <2>2, OrderByPlace
    <2>5. i # j \/ a # b
      BY <2>1, <2>2 DEF PlaceIs
    <2> QED
      BY <2>3, <2>4, <2>5
  <1>4. \A c, d, e \in U : <<c, d>> \in R /\ <<d, e>> \in R => <<c, e>> \in R
    <2> SUFFICES ASSUME NEW c \in U, NEW d \in U, NEW e \in U, <<c, d>> \in R, <<d, e>> \in R
                 PROVE  <<c, e>> \in R
      OBVIOUS
    <2>1. PICK i \in Nat, a \in Nat : PlaceIs(h, c, i, a)
      BY <1>1
    <2>2. PICK j \in Nat, b \in Nat : PlaceIs(h, d, j, b)
      BY <1>1
    <2>3. PICK x \in Nat, y \in Nat : PlaceIs(h, e, x, y)
      BY <1>1
    <2>4. i < j \/ (i = j /\ a < b)
      BY <2>1, <2>2, OrderByPlace
    <2>5. j < x \/ (j = x /\ b < y)
      BY <2>2, <2>3, OrderByPlace
    <2>6. <<c, e>> \in R <=> i < x \/ (i = x /\ a < y)
      BY <2>1, <2>3, OrderByPlace
    <2> QED
      BY <2>4, <2>5, <2>6
  <1> QED
    BY <1>2, <1>3, <1>4 DEF Ordered

LEMMA UnansweredFinite ==
    ASSUME NEW h \in Seq(Entry)
    PROVE  IsFiniteSet(Unanswered(h)) /\ Unanswered(h) \in SUBSET CallId
  BY UnansweredAreCalls, CallIdAssumption, FS_Subset

LEMMA OrdersEnumerate ==
    ASSUME NEW h
    PROVE  RecoveryOrders(h) = Enumerations(Unanswered(h), OutputOrder(h))
  <1> DEFINE U == Unanswered(h)
             n == Cardinality(U)
  <1>1. ASSUME NEW q \in [1..n -> U]
        PROVE  \A a, b \in DOMAIN q :
                  Precedes(h, q[a], q[b]) <=> <<q[a], q[b]>> \in OutputOrder(h)
    BY <1>1 DEF OutputOrder
  <1> QED
    BY <1>1 DEF RecoveryOrders, Enumerations

\* There is exactly one way to recover a well-formed transcript.
LEMMA OneRecovery ==
    ASSUME NEW cp \in Checkpoint, WellFormed(cp.history, cp.seen)
    PROVE  \E order \in RecoveryOrders(cp.history) : Recoveries(cp) = {Recovered(cp, order)}
  <1> DEFINE h == cp.history
  <1>1. h \in Seq(Entry)
    BY DEF Checkpoint
  <1>2. IsFiniteSet(Unanswered(h)) /\ Ordered(Unanswered(h), OutputOrder(h))
    BY <1>1, UnansweredFinite, OutputOrdered
  <1>3. PICK order : RecoveryOrders(h) = {order}
    BY <1>2, OneEnumeration, OrdersEnumerate
  <1> QED
    BY <1>3 DEF Recoveries

\* The results recovery adds: one for each unanswered call, and no other.
LEMMA ResultsAdded ==
    ASSUME NEW cp \in Checkpoint, NEW seen, WellFormed(cp.history, seen),
           NEW order \in RecoveryOrders(cp.history)
    PROVE  LET U == Unanswered(cp.history)
               m == Cardinality(U)
               r == RecoveryResults(cp, order)
           IN  /\ m \in Nat /\ r \in Seq(Entry) /\ Len(r) = m
               /\ order \in [1..m -> U]
               /\ \A c \in U : \E i \in 1..m : order[i] = c
               /\ \A i, j \in 1..m : order[i] = order[j] => i = j
               /\ \A i \in 1..m : r[i] = ToolEntry(order[i], RecoveryCode(cp, order[i]))
  <1> DEFINE h == cp.history
             U == Unanswered(h)
             R == OutputOrder(h)
             m == Cardinality(U)
             r == RecoveryResults(cp, order)
  <1>1. h \in Seq(Entry)
    BY DEF Checkpoint
  <1>2. IsFiniteSet(U) /\ U \in SUBSET CallId /\ Ordered(U, R)
    BY <1>1, UnansweredFinite, OutputOrdered
  <1>3. m \in Nat
    BY <1>2, FS_CardinalityType
  <1>4. order \in Enumerations(U, R)
    BY OrdersEnumerate
  <1>5. order \in [1..m -> U]
    BY <1>4 DEF Enumerations
  <1>6. \A i \in 1..m : Rank(U, R)[order[i]] = i
    BY <1>2, <1>4, EnumerationsRank
  <1>7. \A i, j \in 1..m : order[i] = order[j] => i = j
    BY <1>6
  <1>8. order \in Injection(1..m, U)
    BY <1>5, <1>7 DEF Injection, IsInjective
  <1>9. IsFiniteSet(1..m) /\ Cardinality(1..m) = m
    BY <1>3, FS_Interval
  <1>10. order \in Surjection(1..m, U)
    BY <1>2, <1>8, <1>9, FS_Injection
  <1>11. \A i \in 1..m : ToolEntry(order[i], RecoveryCode(cp, order[i])) \in Entry
    <2> SUFFICES ASSUME NEW i \in 1..m PROVE ToolEntry(order[i], RecoveryCode(cp, order[i])) \in Entry
      OBVIOUS
    <2>1. order[i] \in CallId
      BY <1>2, <1>5
    <2>2. RecoveryCode(cp, order[i]) \in Code
      BY DEF RecoveryCode, Code
    <2> QED
      BY <2>1, <2>2, ToolEntryType
  <1>12. /\ r \in [1..m -> Entry]
         /\ \A i \in 1..m : r[i] = ToolEntry(order[i], RecoveryCode(cp, order[i]))
    BY <1>5, <1>11 DEF RecoveryResults
  <1>13. r \in Seq(Entry) /\ Len(r) = m
    BY <1>3, <1>12, SeqDef, LenProperties
  <1> QED
    BY <1>3, <1>5, <1>7, <1>10, <1>12, <1>13 DEF Surjection

LEMMA ResultsSay ==
    ASSUME NEW cp \in Checkpoint, NEW seen, WellFormed(cp.history, seen),
           NEW order \in RecoveryOrders(cp.history)
    PROVE  LET h == cp.history
               k == h \o RecoveryResults(cp, order)
           IN  /\ k \in Seq(Entry)
               /\ CallsIn(k) = CallsIn(h)
               /\ AnsweredIn(k) = AnsweredIn(h) \cup Unanswered(h)
               /\ Unanswered(k) = {}
               /\ DeniedIn(k) \subseteq DeniedIn(h) \cup (Unanswered(h) \ {cp.inFlight})
               /\ WellFormed(k, seen)
               /\ Positions(k, "user") = Positions(h, "user")
               /\ \A i \in Positions(k, "user") : k[i] = h[i]
  <1> DEFINE h == cp.history
             U == Unanswered(h)
             m == Cardinality(U)
             r == RecoveryResults(cp, order)
             k == h \o r
             n == Len(h)
  <1>1. h \in Seq(Entry) /\ n \in Nat /\ DOMAIN h = 1..n
    BY LenProperties DEF Checkpoint
  <1>2. /\ m \in Nat /\ r \in Seq(Entry) /\ Len(r) = m
        /\ order \in [1..m -> U]
        /\ \A c \in U : \E i \in 1..m : order[i] = c
        /\ \A i, j \in 1..m : order[i] = order[j] => i = j
        /\ \A i \in 1..m : r[i] = ToolEntry(order[i], RecoveryCode(cp, order[i]))
    BY ResultsAdded
  <1>3. /\ k \in Seq(Entry) /\ Len(k) = n + m
        /\ \A i \in 1..(n + m) : k[i] = IF i <= n THEN h[i] ELSE r[i - n]
    BY <1>1, <1>2, ConcatProperties
  <1>4. DOMAIN k = 1..(n + m)
    BY <1>3, LenProperties
  <1>5. \A i \in DOMAIN h : i \in DOMAIN k /\ k[i] = h[i] /\ i <= n
    BY <1>1, <1>2, <1>3, <1>4
  <1>6. \A j \in 1..m : n + j \in DOMAIN k /\ k[n + j] = r[j] /\ n + j > n
    BY <1>1, <1>2, <1>3, <1>4
  <1>7. \A i \in DOMAIN k : i \in DOMAIN h \/ \E j \in 1..m : i = n + j
    <2> SUFFICES ASSUME NEW i \in DOMAIN k, i \notin DOMAIN h PROVE \E j \in 1..m : i = n + j
      OBVIOUS
    <2>1. i - n \in 1..m /\ i = n + (i - n)
      BY <1>1, <1>2, <1>4
    <2> QED
      BY <2>1
  <1>8. \A j \in 1..m : /\ k[n + j].kind = "tool" /\ k[n + j].call = order[j]
                        /\ k[n + j].code = RecoveryCode(cp, order[j])
    BY <1>2, <1>6 DEF ToolEntry
  <1>9. Positions(k, "assistant") = Positions(h, "assistant") /\ Positions(k, "user") = Positions(h, "user")
    BY <1>5, <1>7, <1>8 DEF Positions
  <1>10. /\ \A i \in Positions(h, "tool") : i \in Positions(k, "tool")
         /\ \A j \in 1..m : n + j \in Positions(k, "tool")
         /\ \A i \in Positions(k, "tool") : i \in Positions(h, "tool") \/ \E j \in 1..m : i = n + j
    BY <1>5, <1>6, <1>7, <1>8 DEF Positions
  <1>11. \A kind : \A i \in Positions(h, kind) : k[i] = h[i] /\ i <= n /\ i \in Nat
    BY <1>1, <1>5 DEF Positions
  <1>12. CallsIn(k) = CallsIn(h)
    <2>1. ASSUME NEW c
          PROVE  c \in CallsIn(k) <=> c \in CallsIn(h)
      <3>1. c \in CallsIn(k) <=> \E i \in Positions(k, "assistant") : c \in ToSet(k[i].calls)
        BY Says
      <3>2. c \in CallsIn(h) <=> \E i \in Positions(h, "assistant") : c \in ToSet(h[i].calls)
        BY Says
      <3>3. \A i \in Positions(h, "assistant") : k[i] = h[i]
        BY <1>11
      <3> QED
        BY <1>9, <3>1, <3>2, <3>3
    <2> QED
      BY <2>1
  <1>13. AnsweredIn(k) = AnsweredIn(h) \cup U
    <2>1. ASSUME NEW c
          PROVE  c \in AnsweredIn(k) <=> c \in AnsweredIn(h) \/ c \in U
      <3>1. c \in AnsweredIn(k) <=> \E i \in Positions(k, "tool") : k[i].call = c
        BY Says
      <3>2. c \in AnsweredIn(h) <=> \E i \in Positions(h, "tool") : h[i].call = c
        BY Says
      <3>3. (\E j \in 1..m : order[j] = c) <=> c \in U
        BY <1>2
      <3>4. (\E i \in Positions(k, "tool") : k[i].call = c) <=>
               (\E i \in Positions(h, "tool") : h[i].call = c) \/ (\E j \in 1..m : order[j] = c)
        <4>1. \A i \in Positions(h, "tool") : k[i] = h[i]
          BY <1>11
        <4>2. ASSUME NEW i \in Positions(k, "tool"), k[i].call = c
              PROVE  (\E x \in Positions(h, "tool") : h[x].call = c) \/ (\E j \in 1..m : order[j] = c)
          <5>1. CASE i \in Positions(h, "tool")
            BY <4>1, <4>2, <5>1
          <5>2. ASSUME NEW j \in 1..m, i = n + j
                PROVE  order[j] = c
            BY <1>8, <4>2, <5>2
          <5> QED
            BY <1>10, <5>1, <5>2
        <4>3. ASSUME NEW i \in Positions(h, "tool"), h[i].call = c
              PROVE  i \in Positions(k, "tool") /\ k[i].call = c
          BY <1>10, <4>1, <4>3
        <4>4. ASSUME NEW j \in 1..m, order[j] = c
              PROVE  n + j \in Positions(k, "tool") /\ k[n + j].call = c
          BY <1>8, <1>10, <4>4
        <4> QED
          BY <4>2, <4>3, <4>4
      <3> QED
        BY <3>1, <3>2, <3>3, <3>4
    <2> QED
      BY <2>1
  <1>14. Unanswered(k) = {}
    BY <1>12, <1>13 DEF Unanswered
  <1>15. DeniedIn(k) \subseteq DeniedIn(h) \cup (U \ {cp.inFlight})
    <2> SUFFICES ASSUME NEW c \in DeniedIn(k) PROVE c \in DeniedIn(h) \/ (c \in U /\ c # cp.inFlight)
      OBVIOUS
    <2>1. PICK i \in Positions(k, "tool") : k[i].call = c /\ k[i].code \in {"not_executed", "refused"}
      BY DEF DeniedIn, Denials
    <2>2. CASE i \in Positions(h, "tool")
      <3>1. k[i] = h[i]
        BY <1>11, <2>2
      <3> QED
        BY <2>1, <2>2, <3>1 DEF DeniedIn, Denials
    <2>3. ASSUME NEW j \in 1..m, i = n + j
          PROVE  c \in U /\ c # cp.inFlight
      <3>1. order[j] = c /\ RecoveryCode(cp, order[j]) \in {"not_executed", "refused"}
        BY <1>8, <2>1, <2>3
      <3> QED
        BY <1>2, <3>1 DEF RecoveryCode
    <2> QED
      BY <1>10, <2>2, <2>3
  <1>16. CallsAcceptedOnce(k, seen)
    BY <1>9, <1>11, <1>12 DEF WellFormed, CallsAcceptedOnce
  <1>17. ResultsMatchCalls(k)
    <2>1. ASSUME NEW i \in Positions(h, "tool")
          PROVE  /\ \E a \in Positions(h, "assistant") : a < i /\ h[i].call \in ToSet(h[a].calls)
                 /\ h[i].call \notin U
      BY Says DEF WellFormed, ResultsMatchCalls, Unanswered
    <2>2. ASSUME NEW j \in 1..m
          PROVE  \E a \in Positions(h, "assistant") : a < n + j /\ order[j] \in ToSet(h[a].calls)
      <3>1. order[j] \in CallsIn(h)
        BY <1>2 DEF Unanswered
      <3>2. PICK a \in Positions(h, "assistant") : order[j] \in ToSet(h[a].calls)
        BY <3>1, Says
      <3>3. a < n + j
        BY <1>1, <1>11
      <3> QED
        BY <3>2, <3>3
    <2>3. \A i \in Positions(k, "tool") :
             \E a \in Positions(k, "assistant") : a < i /\ k[i].call \in ToSet(k[a].calls)
      <3>1. \A i \in Positions(h, "tool") :
               \E a \in Positions(k, "assistant") : a < i /\ k[i].call \in ToSet(k[a].calls)
        BY <1>9, <1>11, <2>1
      <3>2. \A j \in 1..m :
               \E a \in Positions(k, "assistant") : a < n + j /\ k[n + j].call \in ToSet(k[a].calls)
        BY <1>8, <1>9, <1>11, <2>2
      <3> QED
        BY <1>10, <3>1, <3>2
    <2>4. \A i, a \in Positions(h, "tool") : k[i].call = k[a].call => i = a
      BY <1>11 DEF WellFormed, ResultsMatchCalls
    <2>5. \A i \in Positions(h, "tool") : \A j \in 1..m : k[i].call # k[n + j].call
      <3> TAKE i \in Positions(h, "tool")
      <3> TAKE j \in 1..m
      <3>1. k[i].call \notin U
        BY <1>11, <2>1
      <3>2. k[n + j].call = order[j]
        BY <1>8
      <3>3. order[j] \in U
        BY <1>2
      <3> QED
        BY <3>1, <3>2, <3>3
    <2>6. \A j, l \in 1..m : k[n + j].call = k[n + l].call => j = l
      BY <1>2, <1>8
    <2>7. \A i, a \in Positions(k, "tool") : k[i].call = k[a].call => i = a
      BY ZenonT(30), <1>10, <2>4, <2>5, <2>6
    <2> QED
      BY <2>3, <2>7 DEF ResultsMatchCalls
  <1> QED
    BY <1>3, <1>9, <1>11, <1>12, <1>13, <1>14, <1>15, <1>16, <1>17 DEF WellFormed

LEMMA RecoveredSays ==
    ASSUME NEW cp \in Checkpoint, NEW seen, WellFormed(cp.history, seen),
           NEW order \in RecoveryOrders(cp.history), Interrupted(cp)
    PROVE  LET h == cp.history
               k == Recovered(cp, order).history
           IN  /\ CallsIn(k) = CallsIn(h)
               /\ AnsweredIn(k) = AnsweredIn(h) \cup Unanswered(h)
               /\ Unanswered(k) = {}
               /\ DeniedIn(k) \subseteq DeniedIn(h) \cup (Unanswered(h) \ {cp.inFlight})
               /\ WellFormed(k, seen)
  <1> DEFINE h == cp.history
             g == h \o RecoveryResults(cp, order)
             k == Recovered(cp, order).history
  <1>1. g \in Seq(Entry) /\ cp.pending \in Nat
    BY ResultsSay DEF Checkpoint
  <1>2. k = g \o RecoveredSubmission(cp)
    <2>1. h \o RecoveryResults(cp, order) \o RecoveredSubmission(cp) = g \o RecoveredSubmission(cp)
      OBVIOUS
    <2> QED
      BY <2>1 DEF Recovered, At, Checkpoint
  <1>3. /\ CallsIn(g) = CallsIn(h)
        /\ AnsweredIn(g) = AnsweredIn(h) \cup Unanswered(h)
        /\ Unanswered(g) = {}
        /\ DeniedIn(g) \subseteq DeniedIn(h) \cup (Unanswered(h) \ {cp.inFlight})
        /\ WellFormed(g, seen)
    BY ResultsSay
  <1>4. k = g \/ k = Append(g, UserEntry(cp.pending))
    <2>1. CASE cp.pending = 0
      BY <1>1, <1>2, <2>1, ConcatEmptySeq DEF RecoveredSubmission
    <2>2. CASE cp.pending # 0
      <3>1. k = g \o <<UserEntry(cp.pending)>>
        BY <1>2, <2>2 DEF RecoveredSubmission
      <3> QED
        BY <1>1, <3>1, InputEntryType, AppendIsConcat
    <2> QED
      BY <2>1, <2>2
  <1>5. CASE k = g
    BY <1>3, <1>5
  <1>6. CASE k = Append(g, UserEntry(cp.pending))
    <2> DEFINE e == UserEntry(cp.pending)
    <2>1. e \in Entry /\ Idle(e)
      BY <1>1, InputEntryType DEF Idle, UserEntry
    <2>2. /\ CallsIn(k) = CallsIn(g) /\ AnsweredIn(k) = AnsweredIn(g) /\ DeniedIn(k) = DeniedIn(g)
          /\ WellFormed(g, seen) => WellFormed(k, seen)
      BY <1>1, <1>6, <2>1, IdleSays
    <2> QED
      BY <1>3, <2>2 DEF Unanswered
  <1> QED
    BY <1>4, <1>5, <1>6

(***************************************************************************)
(* Saves.                                                                  *)
(***************************************************************************)

LEMMA SaveOutcome ==
    ASSUME NEW session, NEW phase, NEW inFlight, NEW outcome \in Store!Outcome,
           failed \in BOOLEAN, SaveAs(session, phase, inFlight, outcome)
    PROVE  LET cp == At(session, phase, inFlight)
           IN  /\ survivors' \subseteq survivors \cup {cp}
               /\ Succeeded(outcome) => survivors' = {cp} /\ s' = cp /\ failed' = failed
               /\ ~Succeeded(outcome) => s' = session /\ failed'
               /\ failed => failed'
               /\ ~DiskRecovers /\ failed => survivors' = survivors /\ ~Succeeded(outcome)
               /\ ~DiskRecovers /\ Succeeded(outcome) => ~failed /\ ~failed'
  <1>1. /\ failed /\ ~DiskRecovers => outcome = "unchanged"
        /\ Store!Save(At(session, phase, inFlight), outcome)
        /\ s' = IF Succeeded(outcome) THEN At(session, phase, inFlight) ELSE session
        /\ failed' = (failed \/ ~Succeeded(outcome))
    BY DEF SaveAs
  <1>2. survivors' \subseteq survivors \cup {At(session, phase, inFlight)}
    BY <1>1 DEF Store!Save, Store!vars
  <1>3. Succeeded(outcome) => survivors' = {At(session, phase, inFlight)}
    BY <1>1 DEF Store!Save, Succeeded
  <1>4. failed' <=> failed \/ ~Succeeded(outcome)
    BY <1>1 DEF Succeeded
  <1>5. ~DiskRecovers /\ failed => survivors' = survivors /\ ~Succeeded(outcome)
    BY <1>1 DEF Store!Save, Store!vars, Succeeded
  <1>6. failed' \in BOOLEAN
    BY <1>1 DEF Succeeded
  <1> QED
    BY <1>1, <1>2, <1>3, <1>4, <1>5, <1>6

\* A session that says no more of calls than the one in memory does.
Quiet(session) ==
    /\ session \in Checkpoint /\ session.seen = s.seen
    /\ session.phase = s.phase /\ session.inFlight = s.inFlight
    /\ CallsIn(session.history) \subseteq CallsIn(s.history)
    /\ AnsweredIn(session.history) \subseteq AnsweredIn(s.history)
    /\ DeniedIn(session.history) \subseteq DeniedIn(s.history)
    /\ Unanswered(session.history) \subseteq Unanswered(s.history)
    /\ WellFormed(s.history, s.seen) => WellFormed(session.history, s.seen)

LEMMA SameHistoryQuiet ==
    ASSUME s \in Checkpoint, NEW session \in Checkpoint,
           session.history = s.history, session.seen = s.seen,
           session.phase = s.phase, session.inFlight = s.inFlight
    PROVE  Quiet(session)
  BY DEF Quiet

LEMMA IdleQuiet ==
    ASSUME s \in Checkpoint, NEW session \in Checkpoint, NEW e \in Entry, Idle(e),
           session.history = Append(s.history, e), session.seen = s.seen,
           session.phase = s.phase, session.inFlight = s.inFlight
    PROVE  Quiet(session)
  <1>1. s.history \in Seq(Entry)
    BY DEF Checkpoint
  <1> QED
    BY <1>1, IdleSays DEF Quiet, Unanswered

LEMMA SilentQuiet ==
    ASSUME s \in Checkpoint, NEW session \in Checkpoint,
           \A i \in DOMAIN session.history : session.history[i].kind \in {"user", "shell", "summary"},
           session.seen = s.seen, session.phase = s.phase, session.inFlight = s.inFlight
    PROVE  Quiet(session)
  BY NothingSaid DEF Quiet

\* The sessions of the steps that neither accept nor settle a call.
LEMMA QuietSessions ==
    ASSUME TypeOK
    PROVE  /\ Quiet(s) /\ Quiet(Compacted(s)) /\ Quiet(Summarized(s)) /\ Quiet(Submitted(s))
           /\ Quiet(Finished(s)) /\ Quiet(PersistenceError(s))
           /\ Quiet([s EXCEPT !.plan = ~@])
           /\ \A n \in Nat : /\ Quiet([s EXCEPT !.history = Append(@, ShellEntry(n))])
                             /\ Quiet([s EXCEPT !.pending = n])
           /\ Quiet([s EXCEPT !.history = Append(@, AssistantEntry(<<>>))])
  <1>1. s \in Checkpoint /\ inputs \in Nat /\ s.history \in Seq(Entry)
    BY DEF TypeOK, Checkpoint
  <1>2. Quiet(s)
    BY <1>1, SameHistoryQuiet
  <1>3. Quiet(Compacted(s))
    <2>1. Compacted(s) \in Checkpoint /\ Compacted(s).seen = s.seen
      BY <1>1, CompactedType
    <2>2. /\ Compacted(s).history = <<SummaryEntry(InputsIn(s.history))>>
          /\ Compacted(s).phase = s.phase /\ Compacted(s).inFlight = s.inFlight
      BY <1>1 DEF Compacted, Checkpoint
    <2>3. \A i \in DOMAIN Compacted(s).history : Compacted(s).history[i].kind = "summary"
      BY <2>2 DEF SummaryEntry
    <2> QED
      BY <1>1, <2>1, <2>2, <2>3, SilentQuiet
  <1>4. Quiet(Summarized(s))
    <2>1. Summarized(s) \in Checkpoint /\ Summarized(s).seen = s.seen
      BY <1>1, SummarizedType
    <2>2. /\ Summarized(s).history = <<UserEntry(inputs), SummaryEntry(InputsIn(s.history))>>
          /\ Summarized(s).phase = s.phase /\ Summarized(s).inFlight = s.inFlight
      BY <1>1 DEF Summarized, Checkpoint
    <2>3. \A i \in DOMAIN Summarized(s).history : Summarized(s).history[i].kind \in {"user", "summary"}
      BY <2>2 DEF SummaryEntry, UserEntry
    <2> QED
      BY <1>1, <2>1, <2>2, <2>3, SilentQuiet
  <1>5. Quiet(Submitted(s))
    <2>1. Submitted(s) \in Checkpoint /\ Submitted(s).seen = s.seen
      BY <1>1, SubmittedType
    <2>2. /\ Submitted(s).history = Append(s.history, UserEntry(inputs))
          /\ Submitted(s).phase = s.phase /\ Submitted(s).inFlight = s.inFlight
      BY <1>1 DEF Submitted, Checkpoint
    <2>3. UserEntry(inputs) \in Entry /\ Idle(UserEntry(inputs))
      BY <1>1, InputEntryType DEF Idle, UserEntry
    <2> QED
      BY <1>1, <2>1, <2>2, <2>3, IdleQuiet
  <1>6. Quiet(Finished(s))
    <2>1. Finished(s) \in Checkpoint
      BY <1>1, FinishedType DEF TypeOK
    <2>2. /\ Finished(s).history = s.history /\ Finished(s).seen = s.seen
          /\ Finished(s).phase = s.phase /\ Finished(s).inFlight = s.inFlight
      BY <1>1 DEF Finished, Checkpoint
    <2> QED
      BY <1>1, <2>1, <2>2, SameHistoryQuiet
  <1>7. Quiet(PersistenceError(s))
    <2>1. PersistenceError(s) \in Checkpoint
      BY <1>1 DEF PersistenceError, Checkpoint, RunStatus
    <2>2. /\ PersistenceError(s).history = s.history /\ PersistenceError(s).seen = s.seen
          /\ PersistenceError(s).phase = s.phase /\ PersistenceError(s).inFlight = s.inFlight
      BY <1>1 DEF PersistenceError, Checkpoint
    <2> QED
      BY <1>1, <2>1, <2>2, SameHistoryQuiet
  <1>8. Quiet([s EXCEPT !.plan = ~@])
    <2> DEFINE session == [s EXCEPT !.plan = ~@]
    <2>1. session \in Checkpoint
      BY <1>1 DEF Checkpoint
    <2>2. session.history = s.history /\ session.seen = s.seen
          /\ session.phase = s.phase /\ session.inFlight = s.inFlight
      BY <1>1 DEF Checkpoint
    <2> QED
      BY <1>1, <2>1, <2>2, SameHistoryQuiet
  <1>9. ASSUME NEW n \in Nat PROVE Quiet([s EXCEPT !.pending = n])
    <2> DEFINE session == [s EXCEPT !.pending = n]
    <2>1. session \in Checkpoint
      BY <1>1 DEF Checkpoint
    <2>2. session.history = s.history /\ session.seen = s.seen
          /\ session.phase = s.phase /\ session.inFlight = s.inFlight
      BY <1>1 DEF Checkpoint
    <2> QED
      BY <1>1, <2>1, <2>2, SameHistoryQuiet
  <1>10. ASSUME NEW n \in Nat PROVE Quiet([s EXCEPT !.history = Append(@, ShellEntry(n))])
    <2> DEFINE session == [s EXCEPT !.history = Append(@, ShellEntry(n))]
    <2>1. ShellEntry(n) \in Entry /\ Idle(ShellEntry(n))
      BY InputEntryType DEF Idle, ShellEntry
    <2>2. session \in Checkpoint
      BY <1>1, <2>1, AppendType
    <2>3. session.history = Append(s.history, ShellEntry(n)) /\ session.seen = s.seen
          /\ session.phase = s.phase /\ session.inFlight = s.inFlight
      BY <1>1 DEF Checkpoint
    <2> QED
      BY <1>1, <2>1, <2>2, <2>3, IdleQuiet
  <1>11. Quiet([s EXCEPT !.history = Append(@, AssistantEntry(<<>>))])
    <2> DEFINE session == [s EXCEPT !.history = Append(@, AssistantEntry(<<>>))]
    <2>0. <<>> \in Seq(CallId)
      OBVIOUS
    <2>1. AssistantEntry(<<>>) \in Entry /\ Idle(AssistantEntry(<<>>))
      BY <2>0, AssistantEntryType DEF Idle, AssistantEntry
    <2>2. session \in Checkpoint
      BY <1>1, <2>1, AppendType
    <2>3. session.history = Append(s.history, AssistantEntry(<<>>)) /\ session.seen = s.seen
          /\ session.phase = s.phase /\ session.inFlight = s.inFlight
      BY <1>1 DEF Checkpoint
    <2> QED
      BY <1>1, <2>1, <2>2, <2>3, IdleQuiet
  <1> QED
    BY <1>2, <1>3, <1>4, <1>5, <1>6, <1>7, <1>8, <1>9, <1>10, <1>11

(***************************************************************************)
(* Calm steps: they start no tool, and neither accept nor settle a call.   *)
(***************************************************************************)

\* The places a process is in only while every checkpoint has been saved.
SavedPcs == {"prompt", "start", "append", "compact", "compacting", "withdraw", "model",
             "summarizing", "tool", "down"}
Steady == pc \in SavedPcs => ~failed

CalmStore ==
    /\ \E session :
          /\ Quiet(session)
          /\ s'.history = session.history /\ s'.seen = session.seen
          /\ \A cp \in survivors' : cp \in survivors \/
                /\ cp.history = session.history /\ cp.seen = session.seen /\ batch = <<>>
                /\ (cp.phase # "tool" /\ cp.inFlight = NoCall)
                      \/ (cp.phase = s.phase /\ cp.inFlight = s.inFlight)
    /\ failed => failed'
    /\ failed /\ ~DiskRecovers => survivors' \subseteq survivors
    /\ ~failed' => \/ s'.phase # "tool" /\ s'.inFlight = NoCall
                   \/ s'.phase = s.phase /\ s'.inFlight = s.inFlight

Calm ==
    /\ CalmStore
    /\ started' = started
    /\ batch' = batch /\ (s' = s \/ batch = <<>>)
    /\ pc # "tool" \/ (pc' = pc /\ s' = s)
    /\ ~DiskRecovers /\ Steady => Steady'

LEMMA UnsavedCalm ==
    ASSUME TypeOK, Quiet(s'), UNCHANGED <<store, failed>>
    PROVE  CalmStore
  <1>1. survivors' = survivors /\ failed' = failed
    BY DEF store
  <1>2. s'.seen = s.seen /\ s'.phase = s.phase /\ s'.inFlight = s.inFlight
    BY DEF Quiet
  <1>3. \E session : /\ Quiet(session) /\ s'.history = session.history /\ s'.seen = session.seen
                     /\ \A cp \in survivors' : cp \in survivors
    BY <1>1
  <1> QED
    BY <1>1, <1>2, <1>3 DEF CalmStore

LEMMA SaveCalm ==
    ASSUME TypeOK, NEW session, Quiet(session), NEW phase, NEW inFlight,
           (phase # "tool" /\ inFlight = NoCall) \/ (phase = s.phase /\ inFlight = s.inFlight),
           NEW outcome \in Store!Outcome, SaveAs(session, phase, inFlight, outcome), batch = <<>>
    PROVE  /\ CalmStore
           /\ ~DiskRecovers /\ Succeeded(outcome) => ~failed'
  <1> DEFINE cp == At(session, phase, inFlight)
  <1>1. /\ cp.history = session.history /\ cp.seen = session.seen
        /\ cp.phase = phase /\ cp.inFlight = inFlight
    BY DEF At, Quiet, Checkpoint
  <1>2. /\ survivors' \subseteq survivors \cup {cp}
        /\ Succeeded(outcome) => survivors' = {cp} /\ s' = cp /\ failed' = failed
        /\ ~Succeeded(outcome) => s' = session /\ failed'
        /\ failed => failed'
        /\ ~DiskRecovers /\ failed => survivors' = survivors /\ ~Succeeded(outcome)
        /\ ~DiskRecovers /\ Succeeded(outcome) => ~failed /\ ~failed'
    BY SaveOutcome DEF TypeOK
  <1>3. s'.history = session.history /\ s'.seen = session.seen
    BY <1>1, <1>2
  <1>4. \A c \in survivors' : c \in survivors \/
           /\ c.history = session.history /\ c.seen = session.seen /\ batch = <<>>
           /\ (c.phase # "tool" /\ c.inFlight = NoCall)
                 \/ (c.phase = s.phase /\ c.inFlight = s.inFlight)
    BY <1>1, <1>2
  <1>5. ~failed' => s'.phase = phase /\ s'.inFlight = inFlight
    BY <1>1, <1>2
  <1> QED
    BY <1>2, <1>3, <1>4, <1>5 DEF CalmStore

LEMMA SaveAgainCalm ==
    ASSUME TypeOK, NEW session, Quiet(session), NEW outcome \in Store!Outcome,
           SaveAgain(session, outcome), batch = <<>>
    PROVE  CalmStore /\ (~DiskRecovers /\ Succeeded(outcome) => ~failed')
  BY SaveCalm DEF SaveAgain, Quiet

LEMMA CalmAtPrompt ==
    ASSUME IInv, \/ TogglePlan \/ Shell \/ Submit \/ SubmitAfterCompaction
                 \/ CompactCommand \/ SaveAtPrompt
    PROVE  Calm
  <1>0. TypeOK /\ pc \in {"prompt", "save"} /\ batch = <<>>
    BY DEF IInv, ExecutionsRemembered, BatchFresh, TogglePlan, Shell, Submit,
           SubmitAfterCompaction, CompactCommand, SaveAtPrompt
  <1>1. started' = started /\ batch' = batch
    BY DEF TogglePlan, Shell, Submit, SubmitAfterCompaction, CompactCommand, SaveAtPrompt, ghosts
  <1>2. CASE TogglePlan \/ Shell \/ Submit \/ CompactCommand
    <2>1. inputs' \in Nat
      BY <1>0, <1>2 DEF TypeOK, TogglePlan, Shell, Submit, CompactCommand
    <2>2. Quiet(s')
      BY <1>0, <1>2, <2>1, QuietSessions DEF TogglePlan, Shell, Submit, CompactCommand
    <2>3. UNCHANGED <<store, failed>> /\ pc = "prompt"
      BY <1>2 DEF TogglePlan, Shell, Submit, CompactCommand
    <2>4. CalmStore
      BY <1>0, <2>2, <2>3, UnsavedCalm
    <2>5. Steady => Steady'
      BY <2>3 DEF Steady, SavedPcs
    <2> QED
      BY <1>0, <1>1, <2>4, <2>5 DEF Calm
  <1>3. CASE SubmitAfterCompaction
    <2>1. inputs' \in Nat
      BY <1>0, <1>3, Counters DEF TypeOK, SubmitAfterCompaction
    <2>2. PICK outcome \in Store!Outcome :
             /\ SaveAgain([s EXCEPT !.pending = inputs'], outcome)
             /\ pc' = IF Succeeded(outcome) THEN "compact" ELSE "save"
      BY <1>3 DEF SubmitAfterCompaction
    <2>3. Quiet([s EXCEPT !.pending = inputs'])
      BY <1>0, <2>1, QuietSessions
    <2>4. CalmStore /\ (~DiskRecovers /\ Succeeded(outcome) => ~failed')
      BY <1>0, <2>2, <2>3, SaveAgainCalm
    <2>5. ~DiskRecovers => Steady'
      BY <2>2, <2>4 DEF Steady, SavedPcs
    <2> QED
      BY <1>0, <1>1, <2>4, <2>5 DEF Calm
  <1>4. CASE SaveAtPrompt
    <2>1. PICK outcome \in Store!Outcome :
             SaveAgain(s, outcome) /\ pc' = IF failed' THEN "stopping" ELSE "prompt"
      BY <1>4 DEF SaveAtPrompt
    <2>2. CalmStore
      BY <1>0, <2>1, QuietSessions, SaveAgainCalm
    <2>3. Steady'
      BY <2>1 DEF Steady, SavedPcs
    <2> QED
      BY <1>0, <1>1, <2>2, <2>3 DEF Calm
  <1> QED
    BY <1>2, <1>3, <1>4

LEMMA CalmBeforeRun ==
    ASSUME IInv, \/ RequestCompaction \/ CompactionSucceeds \/ CompactionFails \/ Withdraw
                 \/ BeginTurn \/ AppendUser
    PROVE  Calm
  <1>0. TypeOK /\ pc \notin {"tool", "dispatch", "deny"} /\ batch = <<>>
    BY DEF IInv, ExecutionsRemembered, BatchFresh, RequestCompaction, CompactionSucceeds,
           CompactionFails, Withdraw, BeginTurn, AppendUser
  <1>1. started' = started /\ batch' = batch
    BY DEF RequestCompaction, CompactionSucceeds, CompactionFails, Withdraw, BeginTurn,
           AppendUser, ghosts
  <1>2. SUFFICES CalmStore /\ (~DiskRecovers => Steady')
    BY <1>0, <1>1 DEF Calm
  <1>3. CASE RequestCompaction
    <2>1. PICK outcome \in Store!Outcome :
             /\ SaveAs(s, "model", NoCall, outcome)
             /\ Succeeded(outcome) \/ pc' = "save"
      BY <1>3 DEF RequestCompaction
    <2> QED
      BY <1>0, <2>1, QuietSessions, SaveCalm DEF Steady, SavedPcs
  <1>4. CASE CompactionSucceeds
    <2>1. PICK outcome \in Store!Outcome :
             /\ SaveAs(Compacted(s), "terminal", NoCall, outcome)
             /\ Succeeded(outcome) \/ pc' = "save"
      BY <1>4 DEF CompactionSucceeds
    <2> QED
      BY <1>0, <2>1, QuietSessions, SaveCalm DEF Steady, SavedPcs
  <1>5. CASE CompactionFails
    <2>1. PICK outcome \in Store!Outcome :
             /\ SaveAs(s, "terminal", NoCall, outcome)
             /\ Succeeded(outcome) \/ pc' = "save"
      BY <1>5 DEF CompactionFails
    <2> QED
      BY <1>0, <2>1, QuietSessions, SaveCalm DEF Steady, SavedPcs
  <1>6. CASE Withdraw
    <2>1. PICK outcome \in Store!Outcome : SaveAgain([s EXCEPT !.pending = 0], outcome)
      BY <1>6 DEF Withdraw
    <2>2. Quiet([s EXCEPT !.pending = 0]) /\ pc' = "save"
      BY <1>0, <1>6, QuietSessions DEF Withdraw
    <2> QED
      BY <1>0, <2>1, <2>2, SaveAgainCalm DEF Steady, SavedPcs
  <1>7. CASE BeginTurn
    <2>1. PICK outcome \in Store!Outcome :
             SaveAgain(s, outcome) /\ (Succeeded(outcome) \/ pc' = "save")
      BY <1>7 DEF BeginTurn
    <2> QED
      BY <1>0, <2>1, QuietSessions, SaveAgainCalm DEF Steady, SavedPcs
  <1>8. CASE AppendUser
    <2>1. PICK outcome \in Store!Outcome : SaveAs(Submitted(s), "model", NoCall, outcome)
      BY <1>8 DEF AppendUser
    <2>2. pc' \in {"loop", "finish"}
      BY <1>8 DEF AppendUser
    <2> QED
      BY <1>0, <2>1, <2>2, QuietSessions, SaveCalm DEF Steady, SavedPcs
  <1> QED
    BY <1>3, <1>4, <1>5, <1>6, <1>7, <1>8

LEMMA CalmInRun ==
    ASSUME IInv, \/ Interrupt \/ CancelledBetweenRequests \/ Summary \/ Request
                 \/ ModelFails \/ ModelRejected \/ ModelReplies \/ CallDenied \/ BatchDone
    PROVE  Calm
  <1>0. TypeOK /\ Quiet(s)
    BY QuietSessions DEF IInv
  <1>1. started' = started /\ batch' = batch
    BY DEF Interrupt, CancelledBetweenRequests, Summary, SummarySkipped, SummaryStarts,
           RequestSummary, SummaryFails, SummaryUseless, SummaryTooLong, SummaryAccepted,
           Request, ModelFails, ModelRejected, ModelReplies, CallDenied, BatchDone, ghosts
  <1>2. CASE \/ Interrupt \/ CancelledBetweenRequests \/ SummarySkipped \/ SummaryStarts
             \/ SummaryFails \/ SummaryUseless \/ SummaryTooLong \/ ModelFails
             \/ ModelRejected \/ CallDenied \/ BatchDone
    <2>1. UNCHANGED <<store, s, failed>>
      BY <1>2 DEF Interrupt, CancelledBetweenRequests, SummarySkipped, SummaryStarts,
                  SummaryFails, SummaryUseless, SummaryTooLong, ModelFails, ModelRejected,
                  CallDenied, BatchDone
    <2>2. pc' = pc \/ (pc # "tool" /\ pc' \notin SavedPcs)
      BY <1>2 DEF SavedPcs, Interrupt, CancelledBetweenRequests, SummarySkipped, SummaryStarts,
                  SummaryWanted, SummaryFails, SummaryUseless, SummaryTooLong, ModelFails,
                  ModelRejected, CallDenied, BatchDone
    <2>3. CalmStore
      BY <1>0, <2>1, UnsavedCalm
    <2> QED
      BY <1>1, <2>1, <2>2, <2>3 DEF Calm, Steady
  <1>3. ASSUME RequestSummary \/ SummaryAccepted \/ Request \/ ModelReplies
        PROVE  pc # "tool" /\ batch = <<>>
    BY <1>3 DEF RequestSummary, SummaryAccepted, Request, ModelReplies, IInv,
                ExecutionsRemembered, BatchFresh
  <1>4. CASE RequestSummary
    <2>1. PICK outcome \in Store!Outcome :
             /\ SaveAs(s, "model", NoCall, outcome)
             /\ Succeeded(outcome) \/ pc' = "finish"
      BY <1>4 DEF RequestSummary
    <2> QED
      BY <1>0, <1>1, <1>3, <1>4, <2>1, SaveCalm DEF Calm, Steady, SavedPcs
  <1>5. CASE SummaryAccepted
    <2>1. PICK outcome \in Store!Outcome : SaveAs(Summarized(s), "accepted", NoCall, outcome)
      BY <1>5 DEF SummaryAccepted
    <2>2. pc' \in {"ready", "finish"} /\ Quiet(Summarized(s))
      BY <1>0, <1>5, QuietSessions DEF SummaryAccepted
    <2> QED
      BY <1>0, <1>1, <1>3, <1>5, <2>1, <2>2, SaveCalm DEF Calm, Steady, SavedPcs
  <1>6. CASE Request
    <2>1. PICK outcome \in Store!Outcome :
             /\ SaveAs(s, "model", NoCall, outcome)
             /\ Succeeded(outcome) \/ pc' = "finish"
      BY <1>6 DEF Request
    <2> QED
      BY <1>0, <1>1, <1>3, <1>6, <2>1, SaveCalm DEF Calm, Steady, SavedPcs
  <1>7. CASE ModelReplies
    <2> DEFINE session == [s EXCEPT !.history = Append(@, AssistantEntry(<<>>))]
    <2>1. PICK outcome \in Store!Outcome : SaveAs(session, "accepted", NoCall, outcome)
      BY <1>7 DEF ModelReplies
    <2>2. pc' = "finish" /\ Quiet(session)
      BY <1>0, <1>7, QuietSessions DEF ModelReplies
    <2> HIDE DEF session
    <2>3. CalmStore
      BY <1>0, <1>3, <1>7, <2>1, <2>2, SaveCalm
    <2> QED
      BY <1>1, <1>3, <1>7, <2>2, <2>3 DEF Calm, Steady, SavedPcs
  <1> QED
    BY <1>2, <1>4, <1>5, <1>6, <1>7 DEF Summary

LEMMA CalmAtEnd ==
    ASSUME IInv, Finish
    PROVE  Calm
  <1>0. TypeOK /\ pc = "finish" /\ batch = <<>> /\ batch' = batch /\ started' = started /\ pc' = "save"
    BY DEF IInv, ExecutionsRemembered, BatchFresh, Finish, ghosts
  <1>1. Quiet(Finished(s)) /\ Quiet(PersistenceError(s))
    BY <1>0, QuietSessions
  <1>2. CASE failed
    <2>1. s' = PersistenceError(s) /\ UNCHANGED <<store, failed>>
      BY <1>2 DEF Finish
    <2>2. CalmStore
      BY <1>0, <1>1, <2>1, UnsavedCalm
    <2> QED
      BY <1>0, <2>2 DEF Calm, Steady, SavedPcs
  <1>3. CASE ~failed
    <2> DEFINE cp == At(Finished(s), "terminal", NoCall)
    <2>1. PICK outcome \in Store!Outcome :
             /\ Store!Save(cp, outcome)
             /\ s' = IF Succeeded(outcome) THEN cp ELSE PersistenceError(s)
             /\ failed' = (~Succeeded(outcome))
      BY <1>3 DEF Finish
    <2>2. /\ Finished(s).history = s.history /\ PersistenceError(s).history = s.history
          /\ Finished(s).seen = s.seen /\ PersistenceError(s).seen = s.seen
          /\ cp.history = s.history /\ cp.seen = s.seen
          /\ cp.phase = "terminal" /\ cp.inFlight = NoCall
      BY <1>0 DEF Finished, PersistenceError, At, TypeOK, Checkpoint
    <2>3. s'.history = s.history /\ s'.seen = s.seen
      BY <2>1, <2>2
    <2>4. survivors' \subseteq survivors \cup {cp}
      BY <2>1 DEF Store!Save, Store!vars
    <2>5. \A c \in survivors' : c \in survivors \/
             /\ c.history = s.history /\ c.seen = s.seen /\ batch = <<>>
             /\ (c.phase # "tool" /\ c.inFlight = NoCall)
                   \/ (c.phase = s.phase /\ c.inFlight = s.inFlight)
      BY <1>0, <2>2, <2>4
    <2>6. ~failed' => s'.phase = "terminal" /\ s'.inFlight = NoCall
      BY <2>1, <2>2
    <2>7. Quiet(s)
      BY <1>0, QuietSessions
    <2>8. CalmStore
      BY <1>3, <2>3, <2>5, <2>6, <2>7 DEF CalmStore
    <2> QED
      BY <1>0, <2>8 DEF Calm, Steady, SavedPcs
  <1> QED
    BY <1>2, <1>3

LEMMA CalmStutter ==
    ASSUME IInv, UNCHANGED vars
    PROVE  Calm
  <1>1. UNCHANGED <<store, s, failed, started, batch, pc>>
    BY DEF vars, ghosts
  <1>2. CalmStore
    BY <1>1, QuietSessions, UnsavedCalm DEF IInv
  <1> QED
    BY <1>1, <1>2 DEF Calm, Steady

(***************************************************************************)
(* Steps that accept or settle calls.                                      *)
(***************************************************************************)

LEMMA CallsAccepted ==
    ASSUME IInv, ModelCalls
    PROVE  \E calls \in Seq(CallId), outcome \in Store!Outcome :
              /\ NoRepeats(calls) /\ ToSet(calls) \cap s.seen = {} /\ ToSet(calls) \in SUBSET CallId
              /\ \A c \in ToSet(calls) : started[c] = 0
              /\ SaveAs(Accepted(s, calls), "accepted", NoCall, outcome)
              /\ Accepted(s, calls).history = Append(s.history, AssistantEntry(calls))
              /\ Accepted(s, calls).seen = s.seen \cup ToSet(calls)
              /\ \/ ~Succeeded(outcome) /\ pc' = "finish" /\ batch' = batch
                 \/ Succeeded(outcome) /\ pc' \in {"deny", "dispatch"} /\ batch' = calls
              /\ pc = "model" /\ started' = started
  <1>0. TypeOK /\ Ledger /\ s \in Checkpoint /\ pc = "model" /\ started' = started
    BY DEF IInv, ExecutionsRemembered, TypeOK, ModelCalls, ghosts
  <1>1. PICK n \in 1..MaxBatch :
           \E calls \in [1..n -> CallId], outcome \in Store!Outcome :
              Valid(calls) /\ AcceptCalls(calls, outcome)
    BY DEF ModelCalls
  <1>2. PICK calls \in [1..n -> CallId], outcome \in Store!Outcome :
           Valid(calls) /\ AcceptCalls(calls, outcome)
    BY <1>1
  <1>3. n \in Nat
    BY ParameterAssumption
  <1>4. calls \in Seq(CallId)
    BY <1>2, <1>3, SeqDef
  <1>5. NoRepeats(calls) /\ ToSet(calls) \cap s.seen = {}
    BY <1>2 DEF Valid
  <1>6. ToSet(calls) \in SUBSET CallId
    BY <1>2 DEF ToSet
  <1>7. \A c \in ToSet(calls) : started[c] = 0
    BY <1>0, <1>5, <1>6 DEF Ledger
  <1>8. /\ Accepted(s, calls).history = Append(s.history, AssistantEntry(calls))
        /\ Accepted(s, calls).seen = s.seen \cup ToSet(calls)
    BY <1>0 DEF Accepted, Checkpoint
  <1>9. /\ SaveAs(Accepted(s, calls), "accepted", NoCall, outcome)
        /\ \/ ~Succeeded(outcome) /\ pc' = "finish" /\ batch' = batch
           \/ Succeeded(outcome) /\ pc' \in {"deny", "dispatch"} /\ batch' = calls
    BY <1>2 DEF AcceptCalls
  <1> QED
    BY <1>0, <1>4, <1>5, <1>6, <1>7, <1>8, <1>9

\* The batch without its settled call.
LEMMA TailSet ==
    ASSUME NEW calls \in Seq(CallId), calls # <<>>, NoRepeats(calls)
    PROVE  /\ Head(calls) \in CallId /\ Head(calls) \in ToSet(calls)
           /\ ToSet(Tail(calls)) = ToSet(calls) \ {Head(calls)}
  <1>1. /\ Head(calls) = calls[1] /\ Head(calls) \in CallId
        /\ Tail(calls) \in Seq(CallId) /\ Len(Tail(calls)) = Len(calls) - 1
        /\ \A i \in 1..Len(Tail(calls)) : Tail(calls)[i] = calls[i + 1]
    BY HeadTailProperties
  <1>2. Len(calls) \in Nat /\ DOMAIN calls = 1..Len(calls) /\ Len(calls) # 0
    BY LenProperties, EmptySeq
  <1>3. DOMAIN Tail(calls) = 1..(Len(calls) - 1)
    BY <1>1, LenProperties
  <1>4. 1 \in DOMAIN calls
    BY <1>2
  <1>5. ASSUME NEW i \in DOMAIN Tail(calls)
        PROVE  Tail(calls)[i] \in ToSet(calls) /\ Tail(calls)[i] # Head(calls)
    <2>1. i + 1 \in DOMAIN calls /\ i + 1 # 1 /\ Tail(calls)[i] = calls[i + 1]
      BY <1>1, <1>2, <1>3, <1>5
    <2> QED
      BY <1>1, <1>4, <2>1 DEF ToSet, NoRepeats
  <1>6. ASSUME NEW i \in DOMAIN calls, calls[i] # Head(calls)
        PROVE  calls[i] \in ToSet(Tail(calls))
    <2>1. i - 1 \in DOMAIN Tail(calls) /\ Tail(calls)[i - 1] = calls[(i - 1) + 1] /\ (i - 1) + 1 = i
      BY <1>1, <1>2, <1>3, <1>6
    <2> QED
      BY <2>1 DEF ToSet
  <1> QED
    BY <1>1, <1>4, <1>5, <1>6 DEF ToSet

\* A result joins the transcript.
LEMMA ResultRecorded ==
    ASSUME TypeOK, NEW c \in CallId, NEW code \in Code, NEW outcome \in Store!Outcome,
           Record(c, code, outcome)
    PROVE  LET g == Append(s.history, ToolEntry(c, code))
           IN  /\ s'.history = g /\ s'.seen = s.seen
               /\ \A cp \in survivors' : cp \in survivors \/
                     /\ cp.history = g /\ cp.seen = s.seen
                     /\ cp.phase = "accepted" /\ cp.inFlight = NoCall /\ ~failed
               /\ failed => failed'
               /\ ~failed' => s'.phase = "accepted" /\ s'.inFlight = NoCall
  <1> DEFINE g == Append(s.history, ToolEntry(c, code))
             recorded == [s EXCEPT !.history = g]
             cp == At(recorded, "accepted", NoCall)
  <1>1. s \in Checkpoint /\ recorded.history = g /\ recorded.seen = s.seen
    BY DEF TypeOK, Checkpoint
  <1>2. CASE failed
    <2>1. s' = recorded /\ survivors' = survivors /\ failed' = failed
      BY <1>2 DEF Record, store
    <2> QED
      BY <1>1, <1>2, <2>1
  <1>3. CASE ~failed
    <2>1. SaveAs(recorded, "accepted", NoCall, outcome)
      BY <1>3 DEF Record
    <2>2. /\ cp.history = g /\ cp.seen = s.seen /\ cp.phase = "accepted" /\ cp.inFlight = NoCall
      BY <1>1 DEF At, Checkpoint
    <2>3. /\ survivors' \subseteq survivors \cup {cp}
          /\ Succeeded(outcome) => s' = cp
          /\ ~Succeeded(outcome) => s' = recorded /\ failed'
      BY <2>1, SaveOutcome DEF TypeOK
    <2> QED
      BY <1>1, <1>3, <2>2, <2>3
  <1> QED
    BY <1>2, <1>3

(***************************************************************************)
(* Nothing that began is denied.                                           *)
(***************************************************************************)
Known(cp) == CallsIn(cp.history) \cup AnsweredIn(cp.history) \subseteq cp.seen

\* Of the calls a transcript accepts, those it denies have not begun, and the
\* only open one that has is the call in flight.
DenialInv ==
    /\ \A cp \in survivors : Known(cp)
    /\ Known(s)
    /\ \A cp \in survivors : \A c \in DeniedIn(cp.history) : started[c] = 0
    /\ \A c \in DeniedIn(s.history) : started[c] = 0
    /\ \A cp \in survivors : \A c \in Unanswered(cp.history) : started[c] # 0 => c = cp.inFlight
    /\ \A c \in Unanswered(s.history) : started[c] # 0 => pc = "tool" /\ c = Head(batch)
    /\ ToSet(batch) \subseteq Unanswered(s.history)

Clean(cp) ==
    /\ Known(cp)
    /\ \A c \in DeniedIn(cp.history) : started[c] = 0
    /\ \A c \in Unanswered(cp.history) : started[c] = 0

LEMMA CleanHistory ==
    ASSUME NEW cp, NEW g, Clean(g), cp.history = g.history, cp.seen = g.seen
    PROVE  Clean(cp)
  BY DEF Clean, Known

LEMMA EmptyBatch == ToSet(<<>>) = {}
  BY DEF ToSet

LEMMA CleanStep ==
    ASSUME DenialInv, \A cp \in survivors' : cp \in survivors \/ Clean(cp),
           Clean(s'), started' = started, ToSet(batch') \subseteq Unanswered(s'.history)
    PROVE  DenialInv'
  BY DEF DenialInv, Clean, Known

LEMMA CalmDenial ==
    ASSUME IInv, DenialInv, Calm
    PROVE  DenialInv'
  <1>1. PICK session :
           /\ Quiet(session) /\ s'.history = session.history /\ s'.seen = session.seen
           /\ \A cp \in survivors' : cp \in survivors \/
                 (cp.history = session.history /\ cp.seen = session.seen /\ batch = <<>>)
    BY DEF Calm, CalmStore
  <1>2. started' = started /\ batch' = batch /\ (s' = s \/ batch = <<>>)
    BY DEF Calm
  <1>3. CASE pc # "tool"
    <2>1. Clean(session)
      BY <1>1, <1>3 DEF Quiet, Clean, Known, DenialInv
    <2>2. Clean(s') /\ \A cp \in survivors' : cp \in survivors \/ Clean(cp)
      BY <1>1, <2>1, CleanHistory
    <2>3. ToSet(batch') \subseteq Unanswered(s'.history)
      BY <1>2, EmptyBatch DEF DenialInv
    <2> QED
      BY <1>2, <2>2, <2>3, CleanStep
  <1>4. CASE pc = "tool"
    <2>1. pc' = pc /\ s' = s /\ batch # <<>>
      BY <1>4 DEF Calm, IInv, ExecutionsRemembered, BatchFresh
    <2>2. \A cp \in survivors' : cp \in survivors
      BY <1>1, <2>1
    <2> QED
      BY <1>2, <2>1, <2>2 DEF DenialInv
  <1> QED
    BY <1>3, <1>4

LEMMA CallsDenial ==
    ASSUME IInv, DenialInv, ModelCalls
    PROVE  DenialInv'
  <1>1. PICK calls \in Seq(CallId), outcome \in Store!Outcome :
           /\ ToSet(calls) \cap s.seen = {}
           /\ \A c \in ToSet(calls) : started[c] = 0
           /\ SaveAs(Accepted(s, calls), "accepted", NoCall, outcome)
           /\ Accepted(s, calls).history = Append(s.history, AssistantEntry(calls))
           /\ Accepted(s, calls).seen = s.seen \cup ToSet(calls)
           /\ \/ pc' = "finish" /\ batch' = batch
              \/ pc' \in {"deny", "dispatch"} /\ batch' = calls
           /\ pc = "model" /\ started' = started
    BY CallsAccepted
  <1> DEFINE g == Accepted(s, calls)
             cp == At(g, "accepted", NoCall)
  <1>2. TypeOK /\ s \in Checkpoint /\ s.history \in Seq(Entry) /\ batch = <<>>
    BY <1>1 DEF IInv, TypeOK, Checkpoint, ExecutionsRemembered, BatchFresh
  <1>3. /\ AssistantEntry(calls) \in Entry
        /\ AssistantEntry(calls).kind = "assistant" /\ AssistantEntry(calls).calls = calls
    BY AssistantEntryType DEF AssistantEntry
  <1>4. /\ CallsIn(g.history) = CallsIn(s.history) \cup ToSet(calls)
        /\ AnsweredIn(g.history) = AnsweredIn(s.history)
        /\ DeniedIn(g.history) = DeniedIn(s.history)
    BY <1>1, <1>2, <1>3, AppendSays
  <1>5. Clean(g)
    BY <1>1, <1>4 DEF DenialInv, Clean, Known, Unanswered
  <1>6. g \in Checkpoint
    BY <1>2, AcceptedType
  <1>7. cp.history = g.history /\ cp.seen = g.seen
    BY <1>6 DEF At, Checkpoint
  <1>8. survivors' \subseteq survivors \cup {cp} /\ (s' = cp \/ s' = g)
    BY <1>1, <1>2, SaveOutcome DEF TypeOK
  <1>9. Clean(s') /\ \A c \in survivors' : c \in survivors \/ Clean(c)
    BY <1>5, <1>7, <1>8, CleanHistory
  <1>10. ToSet(calls) \subseteq Unanswered(g.history)
    BY <1>1, <1>4 DEF DenialInv, Known, Unanswered
  <1>11. ToSet(batch') \subseteq Unanswered(s'.history)
    BY <1>1, <1>2, <1>7, <1>8, <1>10, EmptyBatch
  <1> HIDE DEF g, cp
  <1> QED
    BY <1>1, <1>9, <1>11, CleanStep

\* A call is settled: refused or not executed only if it has not begun.
LEMMA SettledDenial ==
    ASSUME IInv, DenialInv, batch # <<>>,
           \/ CallRefused \/ NotExecuted \/ ToolReturns
    PROVE  DenialInv'
  <1> DEFINE c == Head(batch)
  <1>1. TypeOK /\ batch \in Seq(CallId) /\ NoRepeats(batch) /\ s.history \in Seq(Entry)
    BY DEF IInv, TypeOK, Checkpoint, ExecutionsRemembered, BatchFresh
  <1>2. c \in CallId /\ c \in ToSet(batch) /\ ToSet(Tail(batch)) = ToSet(batch) \ {c}
    BY <1>1, TailSet
  <1>3. PICK code \in Code, outcome \in Store!Outcome :
           /\ Record(c, code, outcome)
           /\ code \in {"refused", "not_executed"} => pc # "tool"
    BY DEF CallRefused, NotExecuted, ToolReturns, ToolCodes, Code
  <1>4. started' = started /\ (batch' = <<>> \/ batch' = Tail(batch))
    BY DEF CallRefused, NotExecuted, ToolReturns, ghosts
  <1> DEFINE g == [s EXCEPT !.history = Append(s.history, ToolEntry(c, code))]
  <1>5. /\ CallsIn(g.history) = CallsIn(s.history)
        /\ AnsweredIn(g.history) = AnsweredIn(s.history) \cup {c}
        /\ Unanswered(g.history) = Unanswered(s.history) \ {c}
        /\ DeniedIn(g.history) =
              DeniedIn(s.history) \cup (IF code \in {"not_executed", "refused"} THEN {c} ELSE {})
        /\ g.history = Append(s.history, ToolEntry(c, code)) /\ g.seen = s.seen
    <2>1. g.history = Append(s.history, ToolEntry(c, code)) /\ g.seen = s.seen
      BY <1>1 DEF TypeOK, Checkpoint
    <2> DEFINE h == Append(s.history, ToolEntry(c, code))
    <2>2. /\ CallsIn(h) = CallsIn(s.history)
          /\ AnsweredIn(h) = AnsweredIn(s.history) \cup {c}
          /\ Unanswered(h) = Unanswered(s.history) \ {c}
          /\ DeniedIn(h) =
                DeniedIn(s.history) \cup (IF code \in {"not_executed", "refused"} THEN {c} ELSE {})
      BY ZenonT(30), <1>1, <1>2, AnsweredSays
    <2> QED
      BY <2>1, <2>2
  <1>6. c \in Unanswered(s.history)
    BY <1>2 DEF DenialInv
  <1>7. \A d \in Unanswered(g.history) : started[d] = 0
    BY <1>5 DEF DenialInv
  <1>8. Known(g)
    BY <1>5, <1>6 DEF DenialInv, Known, Unanswered
  <1>9. \A d \in DeniedIn(g.history) : started[d] = 0
    BY <1>3, <1>5, <1>6 DEF DenialInv
  <1>10. Clean(g)
    BY <1>7, <1>8, <1>9 DEF Clean
  <1>11. /\ s'.history = g.history /\ s'.seen = g.seen
         /\ \A cp \in survivors' : cp \in survivors \/ (cp.history = g.history /\ cp.seen = g.seen)
    BY <1>1, <1>2, <1>3, <1>5, ResultRecorded
  <1>12. ToSet(Tail(batch)) \subseteq Unanswered(g.history)
    BY <1>2, <1>5 DEF DenialInv
  <1> HIDE DEF g, c
  <1>13. Clean(s') /\ \A cp \in survivors' : cp \in survivors \/ Clean(cp)
    BY <1>10, <1>11, CleanHistory
  <1>14. ToSet(batch') \subseteq Unanswered(s'.history)
    BY <1>4, <1>11, <1>12, EmptyBatch
  <1> QED
    BY <1>4, <1>13, <1>14, CleanStep

LEMMA StartDenial ==
    ASSUME IInv, DenialInv, StartTool
    PROVE  DenialInv'
  <1> DEFINE c == Head(batch)
  <1>1. /\ TypeOK /\ batch \in Seq(CallId) /\ NoRepeats(batch) /\ pc = "dispatch" /\ batch # <<>>
        /\ s \in Checkpoint /\ started \in [CallId -> Nat]
    BY DEF IInv, TypeOK, Checkpoint, ExecutionsRemembered, BatchFresh, StartTool
  <1>2. c \in CallId /\ c \in ToSet(batch)
    BY <1>1, TailSet
  <1>3. PICK outcome \in Store!Outcome :
           /\ SaveAs(s, "tool", c, outcome)
           /\ IF Succeeded(outcome)
              THEN /\ pc' = "tool" /\ batch' = batch
                   /\ started' = [started EXCEPT ![c] = @ + 1]
              ELSE pc' = "finish" /\ batch' = <<>> /\ started' = started
    BY DEF StartTool
  <1> DEFINE cp == At(s, "tool", c)
  <1>4. cp.history = s.history /\ cp.seen = s.seen /\ cp.inFlight = c
    BY <1>1 DEF At, Checkpoint
  <1>5. /\ survivors' \subseteq survivors \cup {cp}
        /\ Succeeded(outcome) => survivors' = {cp} /\ s' = cp
        /\ ~Succeeded(outcome) => s' = s
    BY <1>1, <1>3, SaveOutcome DEF TypeOK
  <1>6. Clean(s)
    BY <1>1 DEF DenialInv, Clean
  <1>7. CASE ~Succeeded(outcome)
    <2>1. \A d \in survivors' : d \in survivors \/ Clean(d)
      BY <1>4, <1>5, <1>6, CleanHistory
    <2> QED
      BY <1>3, <1>5, <1>6, <1>7, <2>1, CleanStep, EmptyBatch
  <1>8. CASE Succeeded(outcome)
    <2>1. /\ survivors' = {cp} /\ s' = cp /\ pc' = "tool" /\ batch' = batch
          /\ started' = [started EXCEPT ![c] = @ + 1]
      BY <1>3, <1>5, <1>8
    <2>2. \A d : d # c => (started'[d] = 0 <=> started[d] = 0)
      BY <1>1, <2>1
    <2>3. c \notin DeniedIn(s.history)
      <3>1. c \notin AnsweredIn(s.history)
        BY <1>2 DEF DenialInv, Unanswered
      <3> QED
        BY <3>1, Says
    <2>4. \A d \in DeniedIn(s.history) : started'[d] = 0
      BY <1>6, <2>2, <2>3 DEF Clean
    <2>5. \A d \in Unanswered(s.history) : started'[d] # 0 => d = c
      BY <1>6, <2>2 DEF Clean
    <2>6. Known(cp) /\ ToSet(batch) \subseteq Unanswered(s.history)
      BY <1>4 DEF DenialInv, Known
    <2> HIDE DEF cp
    <2> QED
      BY <1>4, <2>1, <2>4, <2>5, <2>6 DEF DenialInv, Known
  <1> QED
    BY <1>7, <1>8

LEMMA DeniedDenial ==
    ASSUME IInv, DenialInv, Denied
    PROVE  DenialInv'
  <1>1. /\ survivors' = survivors /\ s' = s /\ started' = started /\ batch' = <<>> /\ pc = "deny"
    BY DEF Denied, store, ghosts
  <1>2. Clean(s)
    BY <1>1 DEF DenialInv, Clean
  <1> QED
    BY <1>1, <1>2, CleanStep, EmptyBatch

LEMMA EmptyHistory ==
    /\ CallsIn(EmptySession.history) = {} /\ AnsweredIn(EmptySession.history) = {}
    /\ DeniedIn(EmptySession.history) = {} /\ Unanswered(EmptySession.history) = {}
    /\ EmptySession.seen = {} /\ EmptySession.phase = "idle" /\ EmptySession.inFlight = NoCall
    /\ WellFormed(EmptySession.history, {})
  <1>1. EmptySession.history = <<>>
    BY DEF EmptySession
  <1>2. \A i \in DOMAIN EmptySession.history : EmptySession.history[i].kind \in {"user", "shell", "summary"}
    BY <1>1
  <1> QED
    BY <1>2, NothingSaid DEF EmptySession

LEMMA EmptyClean == Clean(EmptySession)
  BY EmptyHistory DEF Clean, Known

LEMMA GoneDenial ==
    ASSUME IInv, DenialInv, Gone
    PROVE  DenialInv'
  <1>1. /\ started' = started /\ batch' = <<>> /\ survivors' \subseteq survivors
    BY GoneSteps DEF IInv, ExecutionsRemembered, Ledger
  <1>2. s' = EmptySession
    BY DEF Gone, Leave, StopAfterFailure, Crash, PowerLoss, ProcessGone
  <1> QED
    BY <1>1, <1>2, EmptyClean, CleanStep, EmptyBatch

\* A checkpoint that loads is recovered into one that denies nothing that
\* began: the call in flight is the only open one that may have.
LEMMA RecoveredClean ==
    ASSUME DenialInv, NEW cp \in survivors, cp \in Checkpoint, Loads(cp), Interrupted(cp),
           NEW recovered \in Recoveries(cp)
    PROVE  Clean(recovered) /\ recovered.seen = cp.seen /\ Unanswered(recovered.history) = {}
  <1>1. WellFormed(cp.history, cp.seen)
    BY DEF Loads, WellFormed
  <1>2. PICK order \in RecoveryOrders(cp.history) : recovered = Recovered(cp, order)
    BY DEF Recoveries
  <1> DEFINE h == cp.history
             k == recovered.history
  <1>3. /\ CallsIn(k) = CallsIn(h)
        /\ AnsweredIn(k) = AnsweredIn(h) \cup Unanswered(h)
        /\ Unanswered(k) = {}
        /\ DeniedIn(k) \subseteq DeniedIn(h) \cup (Unanswered(h) \ {cp.inFlight})
    BY <1>1, <1>2, RecoveredSays
  <1>4. recovered.seen = cp.seen
    BY RecoveredType
  <1>5. Known(recovered)
    BY <1>3, <1>4 DEF DenialInv, Known, Unanswered
  <1>6. \A c \in DeniedIn(k) : started[c] = 0
    BY <1>3 DEF DenialInv
  <1> QED
    BY <1>3, <1>4, <1>5, <1>6 DEF Clean

\* A checkpoint that loads and needs no recovery leaves no call open.
LEMMA SettledLoads ==
    ASSUME NEW cp, Loads(cp), ~Interrupted(cp)
    PROVE  Unanswered(cp.history) = {} /\ cp.phase # "tool" /\ cp.inFlight = NoCall
  BY DEF Loads, Interrupted

LEMMA ResumeDenial ==
    ASSUME IInv, DenialInv, Resume
    PROVE  DenialInv'
  <1>0. TypeOK /\ file \in survivors /\ pc = "down" /\ batch = <<>> /\ file \in Checkpoint
    BY DEF IInv, TypeOK, ExecutionsRemembered, Ledger, BatchFresh, Resume, ResumeSettled,
           ResumeInterrupted, Store!TypeOK
  <1>1. batch' = batch /\ started' = started
    BY DEF Resume, ResumeSettled, ResumeInterrupted, ghosts
  <1>2. CASE ResumeSettled
    <2>1. s' = file /\ survivors' = survivors /\ Loads(file) /\ ~Interrupted(file)
      BY <1>2 DEF ResumeSettled, store
    <2>2. Clean(file)
      BY <1>0, <2>1, SettledLoads DEF DenialInv, Clean
    <2> QED
      BY <1>0, <1>1, <2>1, <2>2, CleanStep, EmptyBatch
  <1>3. CASE ResumeInterrupted
    <2>1. PICK recovered \in Recoveries(file), outcome \in Store!Outcome :
             /\ Store!Save(recovered, outcome)
             /\ IF Succeeded(outcome) THEN s' = recovered /\ pc' = "prompt"
                                      ELSE UNCHANGED <<s, pc>>
      BY <1>3 DEF ResumeInterrupted
    <2>2. Loads(file) /\ Interrupted(file)
      BY <1>3 DEF ResumeInterrupted
    <2>3. Clean(recovered)
      BY <1>0, <2>2, RecoveredClean
    <2>4. survivors' \subseteq survivors \cup {recovered}
      BY <2>1 DEF Store!Save, Store!vars
    <2>5. Clean(s)
      BY <1>0 DEF DenialInv, Clean
    <2>6. s' = recovered \/ s' = s
      BY <2>1
    <2>7. Clean(s') /\ \A cp \in survivors' : cp \in survivors \/ Clean(cp)
      BY <2>3, <2>4, <2>5, <2>6
    <2> QED
      BY <1>0, <1>1, <2>7, CleanStep, EmptyBatch
  <1> QED
    BY <1>2, <1>3 DEF Resume

\* Every step is calm, accepts calls, starts one, settles one, or begins or
\* ends a process.
LEMMA StepKinds ==
    ASSUME IInv, [Next]_vars
    PROVE  \/ Calm \/ ModelCalls \/ StartTool \/ Denied \/ Gone \/ Resume
           \/ batch # <<>> /\ (CallRefused \/ NotExecuted \/ ToolReturns)
  <1>1. CASE UNCHANGED vars
    BY <1>1, CalmStutter
  <1>2. CASE TogglePlan \/ Shell \/ Submit \/ SubmitAfterCompaction \/ CompactCommand \/ SaveAtPrompt
    BY <1>2, CalmAtPrompt
  <1>3. CASE Compaction \/ BeginTurn \/ AppendUser
    BY <1>3, CalmBeforeRun DEF Compaction
  <1>4. CASE \/ Interrupt \/ CancelledBetweenRequests \/ Summary \/ Request
             \/ ModelFails \/ ModelRejected \/ ModelReplies \/ CallDenied \/ BatchDone
    BY <1>4, CalmInRun
  <1>5. CASE Finish
    BY <1>5, CalmAtEnd
  <1>6. CASE CallRefused \/ NotExecuted \/ ToolReturns
    <2>1. batch # <<>>
      BY <1>6 DEF CallRefused, NotExecuted, ToolReturns, IInv, ExecutionsRemembered, BatchFresh
    <2> QED
      BY <1>6, <2>1
  <1>7. CASE ModelCalls \/ StartTool \/ Denied \/ Gone \/ Resume
    BY <1>7
  <1> QED
    BY <1>1, <1>2, <1>3, <1>4, <1>5, <1>6, <1>7
    DEF Next, Progress, User, Restart, Response, Dispatch, Gone, Resume

LEMMA DenialPreserved ==
    ASSUME IInv, DenialInv, [Next]_vars
    PROVE  DenialInv'
  BY StepKinds, CalmDenial, CallsDenial, SettledDenial, StartDenial, DeniedDenial, GoneDenial,
     ResumeDenial

LEMMA DenialInit == Init => DenialInv
  <1> SUFFICES ASSUME Init PROVE DenialInv
    OBVIOUS
  <1>1. survivors = {EmptySession} /\ s = EmptySession /\ batch = <<>>
    BY DEF Init
  <1> QED
    BY <1>1, EmptyHistory, EmptyBatch DEF DenialInv, Known

LEMMA DenialHolds == Spec => [](IInv /\ DenialInv)
  BY InitHolds, DenialInit, NextPreserves, DenialPreserved, PTL DEF Spec

LEMMA DenialImplies ==
    ASSUME IInv, DenialInv
    PROVE  NoFalseDenial
  <1>1. NotDenied(s.history)
    BY NotDeniedMeans DEF DenialInv
  <1>2. ASSUME NEW cp \in survivors, Loads(cp), NEW recovered \in Recoveries(cp)
        PROVE  NotDenied(recovered.history)
    <2>1. cp \in Checkpoint
      BY DEF IInv, TypeOK, Store!TypeOK
    <2>2. CASE Interrupted(cp)
      BY <1>2, <2>1, <2>2, RecoveredClean, NotDeniedMeans DEF Clean
    <2>3. CASE ~Interrupted(cp)
      <3>1. recovered = cp
        BY <2>3 DEF Recoveries, Recovered
      <3> QED
        BY <3>1, NotDeniedMeans DEF DenialInv
    <2> QED
      BY <2>2, <2>3
  <1> QED
    BY <1>1, <1>2 DEF NoFalseDenial

\* Whatever the disk does, no transcript the model is sent, in this process or
\* after any recovery, says of a call that it was not executed when its
\* execution had begun.
THEOREM NothingBegunIsDenied == Spec => []NoFalseDenial
  BY DenialHolds, DenialImplies, PTL

(***************************************************************************)
(* Every checkpoint loads, while the disk does not come back after a       *)
(* failed save.                                                            *)
(***************************************************************************)

\* The transcript in memory is one that load accepts; while every checkpoint
\* has been saved, its open calls are those of the batch.
LoadInv ==
    /\ WellFormed(s.history, s.seen)
    /\ CheckpointLoads
    /\ Steady
    /\ ~failed => Unanswered(s.history) \subseteq ToSet(batch)
    /\ ~failed /\ pc # "tool" => s.phase # "tool" /\ s.inFlight = NoCall

LEMMA LoadsMeans ==
    ASSUME NEW cp, WellFormed(cp.history, cp.seen),
           \/ cp.phase \notin {"tool", "accepted"} /\ cp.inFlight = NoCall
                 /\ Unanswered(cp.history) = {}
           \/ cp.phase = "accepted" /\ cp.inFlight = NoCall
           \/ cp.phase = "tool" /\ cp.inFlight \in Unanswered(cp.history)
    PROVE  Loads(cp)
  BY DEF Loads, WellFormed

LEMMA CalmLoad ==
    ASSUME IInv, DenialInv, LoadInv, ~DiskRecovers, Calm
    PROVE  LoadInv'
  <1>1. PICK session :
           /\ Quiet(session) /\ s'.history = session.history /\ s'.seen = session.seen
           /\ \A cp \in survivors' : cp \in survivors \/
                /\ cp.history = session.history /\ cp.seen = session.seen /\ batch = <<>>
                /\ (cp.phase # "tool" /\ cp.inFlight = NoCall)
                      \/ (cp.phase = s.phase /\ cp.inFlight = s.inFlight)
    BY DEF Calm, CalmStore
  <1>2. /\ batch' = batch /\ (s' = s \/ batch = <<>>)
        /\ pc # "tool" \/ (pc' = pc /\ s' = s)
        /\ Steady' /\ (failed => failed')
        /\ failed => survivors' \subseteq survivors
        /\ ~failed' => \/ s'.phase # "tool" /\ s'.inFlight = NoCall
                       \/ s'.phase = s.phase /\ s'.inFlight = s.inFlight
    BY DEF Calm, CalmStore, LoadInv
  <1>3. batch = <<>> => pc # "tool"
    BY DEF IInv, ExecutionsRemembered, BatchFresh
  <1>4. WellFormed(s'.history, s'.seen) /\ WellFormed(session.history, session.seen)
    BY <1>1 DEF Quiet, LoadInv
  <1>5. ASSUME NEW cp \in survivors', cp \notin survivors
        PROVE  Loads(cp)
    <2>1. ~failed /\ batch = <<>> /\ pc # "tool"
      BY <1>1, <1>2, <1>3, <1>5
    <2>2. Unanswered(cp.history) = {}
      BY <1>1, <1>5, <2>1, EmptyBatch DEF Quiet, LoadInv
    <2>3. cp.phase # "tool" /\ cp.inFlight = NoCall
      BY <1>1, <1>5, <2>1 DEF LoadInv
    <2>4. WellFormed(cp.history, cp.seen)
      BY <1>1, <1>4, <1>5
    <2> QED
      BY <2>2, <2>3, <2>4, LoadsMeans
  <1>6. CheckpointLoads'
    BY <1>5 DEF CheckpointLoads, LoadInv
  <1>7. ~failed' => Unanswered(s'.history) \subseteq ToSet(batch')
    BY <1>1, <1>2 DEF Quiet, LoadInv
  <1>8. ~failed' /\ pc' # "tool" => s'.phase # "tool" /\ s'.inFlight = NoCall
    BY <1>2 DEF LoadInv
  <1> QED
    BY <1>2, <1>4, <1>6, <1>7, <1>8 DEF LoadInv

LEMMA CallsLoad ==
    ASSUME IInv, DenialInv, LoadInv, ~DiskRecovers, ModelCalls
    PROVE  LoadInv'
  <1>1. PICK calls \in Seq(CallId), outcome \in Store!Outcome :
           /\ NoRepeats(calls) /\ ToSet(calls) \cap s.seen = {}
           /\ SaveAs(Accepted(s, calls), "accepted", NoCall, outcome)
           /\ Accepted(s, calls).history = Append(s.history, AssistantEntry(calls))
           /\ Accepted(s, calls).seen = s.seen \cup ToSet(calls)
           /\ \/ ~Succeeded(outcome) /\ pc' = "finish" /\ batch' = batch
              \/ Succeeded(outcome) /\ pc' \in {"deny", "dispatch"} /\ batch' = calls
           /\ pc = "model"
    BY CallsAccepted
  <1> DEFINE g == Accepted(s, calls)
             cp == At(g, "accepted", NoCall)
  <1>2. TypeOK /\ s \in Checkpoint /\ s.history \in Seq(Entry) /\ batch = <<>> /\ ~failed
    BY <1>1 DEF IInv, TypeOK, Checkpoint, ExecutionsRemembered, BatchFresh, LoadInv, Steady, SavedPcs
  <1>3. WellFormed(g.history, g.seen)
    BY <1>1, <1>2, AcceptedSays DEF LoadInv
  <1>4. g \in Checkpoint
    BY <1>2, AcceptedType
  <1>5. cp.history = g.history /\ cp.seen = g.seen /\ cp.phase = "accepted" /\ cp.inFlight = NoCall
    BY <1>4 DEF At, Checkpoint
  <1>6. /\ survivors' \subseteq survivors \cup {cp}
        /\ Succeeded(outcome) => s' = cp
        /\ ~Succeeded(outcome) => s' = g /\ failed'
    BY <1>1, <1>2, SaveOutcome DEF TypeOK
  <1>7. Unanswered(g.history) \subseteq ToSet(calls)
    <2>1. Unanswered(s.history) = {}
      BY <1>2, EmptyBatch DEF LoadInv
    <2>2. /\ AssistantEntry(calls) \in Entry
          /\ AssistantEntry(calls).kind = "assistant" /\ AssistantEntry(calls).calls = calls
      BY AssistantEntryType DEF AssistantEntry
    <2>3. /\ CallsIn(g.history) = CallsIn(s.history) \cup ToSet(calls)
          /\ AnsweredIn(g.history) = AnsweredIn(s.history)
      BY <1>1, <1>2, <2>2, AppendSays
    <2> QED
      BY <2>1, <2>3 DEF Unanswered
  <1> HIDE DEF g, cp
  <1>8. Loads(cp)
    BY <1>3, <1>5, LoadsMeans
  <1>9. CheckpointLoads'
    BY <1>6, <1>8 DEF CheckpointLoads, LoadInv
  <1>10. WellFormed(s'.history, s'.seen)
    BY <1>3, <1>5, <1>6
  <1>11. Steady'
    BY <1>1 DEF Steady, SavedPcs
  <1>12. ~failed' => Unanswered(s'.history) \subseteq ToSet(batch')
    BY <1>1, <1>5, <1>6, <1>7
  <1>13. ~failed' => s'.phase # "tool" /\ s'.inFlight = NoCall
    BY <1>5, <1>6
  <1> QED
    BY <1>9, <1>10, <1>11, <1>12, <1>13 DEF LoadInv

LEMMA SettledLoad ==
    ASSUME IInv, DenialInv, LoadInv, ~DiskRecovers, batch # <<>>,
           CallRefused \/ NotExecuted \/ ToolReturns
    PROVE  LoadInv'
  <1> DEFINE c == Head(batch)
  <1>1. TypeOK /\ batch \in Seq(CallId) /\ NoRepeats(batch) /\ s.history \in Seq(Entry)
    BY DEF IInv, TypeOK, Checkpoint, ExecutionsRemembered, BatchFresh
  <1>2. c \in CallId /\ c \in ToSet(batch) /\ ToSet(Tail(batch)) = ToSet(batch) \ {c}
    BY <1>1, TailSet
  <1>3. PICK code \in Code, outcome \in Store!Outcome :
           /\ Record(c, code, outcome)
           /\ pc' \in {"dispatch", "deny", "finish"}
           /\ batch' = Tail(batch) \/ failed'
    <2>1. CASE CallRefused \/ NotExecuted
      BY <2>1 DEF CallRefused, NotExecuted, Code
    <2>2. CASE ToolReturns
      <3>1. PICK code \in ToolCodes(Kind[c]), outcome \in Store!Outcome :
               Record(c, code, outcome) /\ AfterTool(code)
        BY <2>2 DEF ToolReturns
      <3>2. code \in Code
        BY <3>1 DEF ToolCodes, Code
      <3>3. pc' \in {"dispatch", "deny"} \/ (pc' = "finish" /\ failed')
        BY <3>1 DEF AfterTool
      <3>4. batch' = IF pc' = "finish" THEN <<>> ELSE Tail(batch)
        BY <2>2 DEF ToolReturns
      <3> QED
        BY <3>1, <3>2, <3>3, <3>4
    <2> QED
      BY <2>1, <2>2
  <1> DEFINE h == Append(s.history, ToolEntry(c, code))
  <1>4. c \in Unanswered(s.history)
    BY <1>2 DEF DenialInv
  <1>5. Unanswered(h) = Unanswered(s.history) \ {c} /\ WellFormed(h, s.seen)
    BY <1>1, <1>2, <1>4, AnsweredSays DEF LoadInv
  <1>6. /\ s'.history = h /\ s'.seen = s.seen
        /\ \A cp \in survivors' : cp \in survivors \/
              /\ cp.history = h /\ cp.seen = s.seen
              /\ cp.phase = "accepted" /\ cp.inFlight = NoCall /\ ~failed
        /\ failed => failed'
        /\ ~failed' => s'.phase = "accepted" /\ s'.inFlight = NoCall
    BY <1>1, <1>2, <1>3, ResultRecorded
  <1> HIDE DEF h, c
  <1>7. CheckpointLoads'
    <2>1. ASSUME NEW cp \in survivors', cp \notin survivors PROVE Loads(cp)
      BY <1>5, <1>6, <2>1, LoadsMeans
    <2> QED
      BY <2>1 DEF CheckpointLoads, LoadInv
  <1>8. Steady'
    BY <1>3 DEF Steady, SavedPcs
  <1>9. ~failed' => Unanswered(s'.history) \subseteq ToSet(batch')
    BY <1>2, <1>3, <1>5, <1>6 DEF LoadInv
  <1>10. WellFormed(s'.history, s'.seen)
    BY <1>5, <1>6
  <1>11. ~failed' => s'.phase # "tool" /\ s'.inFlight = NoCall
    BY <1>6
  <1> QED
    BY <1>7, <1>8, <1>9, <1>10, <1>11 DEF LoadInv

LEMMA StartLoad ==
    ASSUME IInv, DenialInv, LoadInv, ~DiskRecovers, StartTool
    PROVE  LoadInv'
  <1> DEFINE c == Head(batch)
             cp == At(s, "tool", c)
  <1>1. TypeOK /\ batch \in Seq(CallId) /\ NoRepeats(batch) /\ batch # <<>> /\ s \in Checkpoint
    BY DEF IInv, TypeOK, ExecutionsRemembered, BatchFresh, StartTool
  <1>2. c \in Unanswered(s.history)
    BY <1>1, TailSet DEF DenialInv
  <1>3. PICK outcome \in Store!Outcome :
           /\ SaveAs(s, "tool", c, outcome)
           /\ \/ Succeeded(outcome) /\ pc' = "tool" /\ batch' = batch
              \/ ~Succeeded(outcome) /\ pc' = "finish" /\ batch' = <<>>
    BY DEF StartTool
  <1>4. cp.history = s.history /\ cp.seen = s.seen /\ cp.phase = "tool" /\ cp.inFlight = c
    BY <1>1 DEF At, Checkpoint
  <1>5. /\ survivors' \subseteq survivors \cup {cp}
        /\ Succeeded(outcome) => s' = cp /\ ~failed'
        /\ ~Succeeded(outcome) => s' = s /\ failed'
        /\ Succeeded(outcome) => ~failed
    BY <1>1, <1>3, SaveOutcome DEF TypeOK
  <1> HIDE DEF cp, c
  <1>6. Loads(cp)
    BY <1>2, <1>4, LoadsMeans DEF LoadInv
  <1>7. CheckpointLoads'
    BY <1>5, <1>6 DEF CheckpointLoads, LoadInv
  <1>8. WellFormed(s'.history, s'.seen)
    BY <1>4, <1>5 DEF LoadInv
  <1>9. Steady'
    BY <1>3, <1>5 DEF Steady, SavedPcs
  <1>10. ~failed' => Unanswered(s'.history) \subseteq ToSet(batch')
    BY <1>3, <1>4, <1>5 DEF LoadInv
  <1>11. ~failed' => pc' = "tool"
    BY <1>3, <1>5
  <1> QED
    BY <1>7, <1>8, <1>9, <1>10, <1>11 DEF LoadInv

LEMMA DeniedLoad ==
    ASSUME IInv, LoadInv, Denied
    PROVE  LoadInv'
  <1>1. /\ survivors' = survivors /\ s' = s /\ failed' = failed /\ pc = "deny"
        /\ pc' \in {"loop", "finish"} /\ batch' = <<>> /\ (batch = <<>> \/ failed)
    BY DEF Denied, store
  <1>2. CheckpointLoads' /\ Steady'
    BY <1>1 DEF CheckpointLoads, LoadInv, Steady, SavedPcs
  <1> QED
    BY <1>1, <1>2 DEF LoadInv

LEMMA GoneLoad ==
    ASSUME IInv, LoadInv, Gone
    PROVE  LoadInv'
  <1>1. survivors' \subseteq survivors
    BY GoneSteps DEF IInv, ExecutionsRemembered, Ledger
  <1>2. s' = EmptySession /\ failed' = FALSE
    BY DEF Gone, Leave, StopAfterFailure, Crash, PowerLoss, ProcessGone
  <1>3. CheckpointLoads' /\ Steady'
    BY <1>1, <1>2 DEF CheckpointLoads, LoadInv, Steady
  <1> QED
    BY <1>2, <1>3, EmptyHistory DEF LoadInv

LEMMA RecoveredLoads ==
    ASSUME NEW cp \in Checkpoint, Loads(cp), Interrupted(cp), NEW recovered \in Recoveries(cp)
    PROVE  /\ Loads(recovered) /\ Unanswered(recovered.history) = {} /\ ~Interrupted(recovered)
           /\ WellFormed(recovered.history, recovered.seen)
           /\ recovered.phase = "terminal" /\ recovered.inFlight = NoCall
  <1>1. WellFormed(cp.history, cp.seen)
    BY DEF Loads, WellFormed
  <1>2. PICK order \in RecoveryOrders(cp.history) : recovered = Recovered(cp, order)
    BY DEF Recoveries
  <1>3. Unanswered(recovered.history) = {} /\ WellFormed(recovered.history, cp.seen)
    BY <1>1, <1>2, RecoveredSays
  <1>4. /\ recovered.phase = "terminal" /\ recovered.inFlight = NoCall /\ recovered.pending = 0
        /\ recovered.seen = cp.seen
    BY <1>2 DEF Recovered, At, Checkpoint
  <1> QED
    BY <1>3, <1>4, LoadsMeans DEF Interrupted

LEMMA ResumeLoad ==
    ASSUME IInv, LoadInv, Resume
    PROVE  LoadInv'
  <1>0. /\ pc = "down" /\ batch = <<>> /\ file \in Checkpoint /\ ~failed
        /\ batch' = batch /\ failed' = failed
    BY DEF IInv, TypeOK, ExecutionsRemembered, BatchFresh, Resume, ResumeSettled,
           ResumeInterrupted, Store!TypeOK, LoadInv, Steady, SavedPcs
  <1>1. Steady'
    BY <1>0 DEF Steady
  <1>2. CASE ResumeSettled
    <2>1. s' = file /\ survivors' = survivors /\ Loads(file) /\ ~Interrupted(file)
      BY <1>2 DEF ResumeSettled, store
    <2>2. Unanswered(file.history) = {} /\ file.phase # "tool" /\ file.inFlight = NoCall
      BY <2>1, SettledLoads
    <2>3. WellFormed(file.history, file.seen)
      BY <2>1 DEF Loads, WellFormed
    <2>4. CheckpointLoads'
      BY <2>1 DEF CheckpointLoads, LoadInv
    <2> QED
      BY <1>1, <2>1, <2>2, <2>3, <2>4 DEF LoadInv
  <1>3. CASE ResumeInterrupted
    <2>1. PICK recovered \in Recoveries(file), outcome \in Store!Outcome :
             /\ Store!Save(recovered, outcome)
             /\ IF Succeeded(outcome) THEN s' = recovered /\ pc' = "prompt"
                                      ELSE UNCHANGED <<s, pc>>
      BY <1>3 DEF ResumeInterrupted
    <2>2. Loads(file) /\ Interrupted(file)
      BY <1>3 DEF ResumeInterrupted
    <2>3. /\ Loads(recovered) /\ Unanswered(recovered.history) = {}
          /\ WellFormed(recovered.history, recovered.seen)
          /\ recovered.phase = "terminal" /\ recovered.inFlight = NoCall
      BY <1>0, <2>2, RecoveredLoads
    <2>4. survivors' \subseteq survivors \cup {recovered}
      BY <2>1 DEF Store!Save, Store!vars
    <2>5. CheckpointLoads'
      BY <2>3, <2>4 DEF CheckpointLoads, LoadInv
    <2>6. CASE s' = recovered
      BY <1>1, <2>3, <2>5, <2>6 DEF LoadInv
    <2>7. CASE s' = s
      BY <1>0, <1>1, <2>5, <2>7 DEF LoadInv
    <2> QED
      BY <2>1, <2>6, <2>7
  <1> QED
    BY <1>2, <1>3 DEF Resume

LEMMA LoadPreserved ==
    ASSUME IInv, DenialInv, LoadInv, ~DiskRecovers, [Next]_vars
    PROVE  LoadInv'
  BY StepKinds, CalmLoad, CallsLoad, SettledLoad, StartLoad, DeniedLoad, GoneLoad, ResumeLoad

LEMMA LoadInit == Init => LoadInv
  <1> SUFFICES ASSUME Init PROVE LoadInv
    OBVIOUS
  <1>1. survivors = {EmptySession} /\ s = EmptySession /\ batch = <<>> /\ failed = FALSE
    BY DEF Init
  <1>2. Loads(EmptySession)
    BY EmptyHistory, LoadsMeans
  <1>3. CheckpointLoads /\ Steady
    BY <1>1, <1>2 DEF CheckpointLoads, Steady
  <1> QED
    BY <1>1, <1>3, EmptyHistory DEF LoadInv

LEMMA LoadImplies ==
    ASSUME IInv, LoadInv
    PROVE  CheckpointLoads /\ RecoverySettles /\ RequestsSettled
  <1>1. CheckpointLoads
    BY DEF LoadInv
  <1>2. ASSUME NEW cp \in survivors, Loads(cp)
        PROVE  /\ Cardinality(Recoveries(cp)) = 1
               /\ \A recovered \in Recoveries(cp) :
                     /\ Loads(recovered) /\ Unanswered(recovered.history) = {}
                     /\ ~Interrupted(recovered)
    <2>1. cp \in Checkpoint
      BY DEF IInv, TypeOK, Store!TypeOK
    <2>2. WellFormed(cp.history, cp.seen)
      BY <1>2 DEF Loads, WellFormed
    <2>3. PICK order \in RecoveryOrders(cp.history) : Recoveries(cp) = {Recovered(cp, order)}
      BY <2>1, <2>2, OneRecovery
    <2>4. Cardinality(Recoveries(cp)) = 1
      BY <2>3, FS_Singleton
    <2>5. ASSUME NEW recovered \in Recoveries(cp)
          PROVE  /\ Loads(recovered) /\ Unanswered(recovered.history) = {}
                 /\ ~Interrupted(recovered)
      <3>1. CASE Interrupted(cp)
        BY <1>2, <2>1, <3>1, RecoveredLoads
      <3>2. CASE ~Interrupted(cp)
        <4>1. recovered = cp
          BY <3>2 DEF Recoveries, Recovered
        <4> QED
          BY <1>2, <3>2, <4>1, SettledLoads
      <3> QED
        BY <3>1, <3>2
    <2> QED
      BY <2>4, <2>5
  <1>3. RequestsSettled
    <2> SUFFICES ASSUME pc \in {"model", "summarizing", "compacting"}
                 PROVE  Loads(At(s, "model", NoCall))
      BY DEF RequestsSettled
    <2>1. batch = <<>> /\ ~failed /\ s \in Checkpoint
      BY DEF IInv, TypeOK, ExecutionsRemembered, BatchFresh, LoadInv, Steady, SavedPcs
    <2>2. Unanswered(s.history) = {} /\ WellFormed(s.history, s.seen)
      BY <2>1, EmptyBatch DEF LoadInv
    <2> DEFINE cp == At(s, "model", NoCall)
    <2>3. cp.history = s.history /\ cp.seen = s.seen /\ cp.phase = "model" /\ cp.inFlight = NoCall
      BY <2>1 DEF At, Checkpoint
    <2> HIDE DEF cp
    <2>4. Loads(cp)
      BY <2>2, <2>3, LoadsMeans
    <2> QED
      BY <2>4 DEF cp
  <1> QED
    BY <1>1, <1>2, <1>3 DEF RecoverySettles

(***************************************************************************)
(* Uncertain effects.                                                      *)
(***************************************************************************)
Uncertain == {"unknown", "recovery_effect_unknown"}

\* The user has spoken after every uncertain effect of the transcript.
Settled(h) ==
    \A i \in Positions(h, "tool") :
       h[i].code \in Uncertain => \E j \in Positions(h, "user") : j > i

\* From here the run may come to ask the model again.
Asking ==
    \/ pc \in {"loop", "ready", "summarize", "summarizing", "model", "dispatch", "tool"}
    \/ pc = "deny" /\ run.status = ""

UncertainInv == Asking => Settled(s.history)

LEMMA SettledAppend ==
    ASSUME NEW h \in Seq(Entry), NEW e \in Entry, Settled(h),
           e.kind = "tool" => e.code \notin Uncertain
    PROVE  Settled(Append(h, e))
  <1> DEFINE k == Append(h, e)
             n == Len(h) + 1
  <1>1. /\ \A i \in DOMAIN h : k[i] = h[i]
        /\ k[n] = e
        /\ \A kind : Positions(k, kind) = Positions(h, kind) \cup (IF e.kind = kind THEN {n} ELSE {})
    BY AppendPositions
  <1>2. Positions(h, "user") \subseteq Positions(k, "user")
    BY <1>1
  <1> SUFFICES ASSUME NEW i \in Positions(k, "tool"), k[i].code \in Uncertain
               PROVE  \E j \in Positions(k, "user") : j > i
    BY DEF Settled
  <1>3. i \in Positions(h, "tool")
    <2>1. Positions(k, "tool") = Positions(h, "tool") \cup (IF e.kind = "tool" THEN {n} ELSE {})
      BY <1>1
    <2> QED
      BY <1>1, <2>1
  <1>4. h[i].code \in Uncertain
    BY <1>1, <1>3 DEF Positions
  <1> QED
    BY <1>2, <1>3, <1>4 DEF Settled

LEMMA SettledByUser ==
    ASSUME NEW h \in Seq(Entry), NEW e \in Entry, e.kind = "user"
    PROVE  Settled(Append(h, e))
  <1> DEFINE k == Append(h, e)
             n == Len(h) + 1
  <1>1. /\ Len(h) \in Nat /\ DOMAIN h = 1..Len(h)
        /\ \A kind : Positions(k, kind) = Positions(h, kind) \cup (IF e.kind = kind THEN {n} ELSE {})
    BY AppendPositions
  <1>2. Positions(k, "tool") = Positions(h, "tool") /\ n \in Positions(k, "user")
    BY <1>1
  <1>3. \A i \in Positions(h, "tool") : i < n
    BY <1>1 DEF Positions
  <1> QED
    BY <1>2, <1>3 DEF Settled

LEMMA UncertainPreserved ==
    ASSUME IInv, UncertainInv, [Next]_vars
    PROVE  UncertainInv'
  <1>0. /\ TypeOK /\ s \in Checkpoint /\ s.history \in Seq(Entry) /\ batch \in Seq(CallId)
        /\ inputs \in Nat /\ failed \in BOOLEAN
    BY DEF IInv, TypeOK, Checkpoint
  <1>1. CASE UNCHANGED <<pc, s>> /\ run'.status = run.status
    BY <1>1 DEF UncertainInv, Asking, Settled
  <1>2. ASSUME NEW phase, NEW outcome \in Store!Outcome, SaveAs(s, phase, s.inFlight, outcome)
                   \/ SaveAs(s, phase, NoCall, outcome) \/ SaveAs(s, phase, Head(batch), outcome)
        PROVE  s'.history = s.history
    <2>1. \A inFlight : At(s, phase, inFlight).history = s.history
      BY <1>0 DEF At, Checkpoint
    <2> QED
      BY <1>2, <2>1 DEF SaveAs
  <1>3. CASE Interrupt \/ UNCHANGED vars
    <2>1. UNCHANGED <<pc, s>>
      BY <1>3 DEF Interrupt, vars
    <2>2. run'.status = run.status
      BY <1>0, <1>3 DEF Interrupt, vars, TypeOK, RunState
    <2> QED
      BY <1>1, <2>1, <2>2
  <1>4. CASE \/ SummarySkipped \/ SummaryStarts \/ SummaryUseless \/ SummaryTooLong
             \/ BatchDone \/ Denied \/ CancelledBetweenRequests \/ SummaryFails
             \/ ModelFails \/ ModelRejected \/ CallDenied
    <2>1. s' = s
      BY <1>4 DEF SummarySkipped, SummaryStarts, SummaryUseless, SummaryTooLong, BatchDone, Denied,
                  CancelledBetweenRequests, SummaryFails, ModelFails, ModelRejected, CallDenied
    <2>2. Asking \/ ~Asking'
      <3>1. CASE Denied
        BY <3>1 DEF Denied, Asking
      <3>2. CASE CallDenied
        BY <3>2 DEF CallDenied, Asking
      <3>3. CASE \/ SummarySkipped \/ SummaryStarts \/ SummaryUseless \/ SummaryTooLong
                 \/ BatchDone \/ CancelledBetweenRequests \/ SummaryFails
                 \/ ModelFails \/ ModelRejected
        BY <3>3 DEF Asking, SummarySkipped, SummaryStarts, SummaryUseless, SummaryTooLong,
                    SummaryWanted, BatchDone, CancelledBetweenRequests, SummaryFails, ModelFails,
                    ModelRejected
      <3> QED
        BY <1>4, <3>1, <3>2, <3>3
    <2> QED
      BY <2>1, <2>2 DEF UncertainInv
  <1>5. CASE RequestSummary \/ Request
    <2>1. s'.history = s.history
      <3>1. PICK outcome \in Store!Outcome : SaveAs(s, "model", NoCall, outcome)
        BY <1>5 DEF RequestSummary, Request
      <3> QED
        BY <1>2, <3>1
    <2>2. Asking
      BY <1>5 DEF RequestSummary, Request, Asking
    <2> QED
      BY <2>1, <2>2 DEF UncertainInv
  <1>6. CASE StartTool
    <2>1. PICK outcome \in Store!Outcome : SaveAs(s, "tool", Head(batch), outcome)
      BY <1>6 DEF StartTool
    <2>2. s'.history = s.history
      BY <1>2, <2>1
    <2>3. Asking
      BY <1>6 DEF StartTool, Asking
    <2> QED
      BY <2>2, <2>3 DEF UncertainInv
  <1>7. CASE SummaryAccepted
    <2>1. PICK outcome \in Store!Outcome : SaveAs(Summarized(s), "accepted", NoCall, outcome)
      BY <1>7 DEF SummaryAccepted
    <2>2. Summarized(s).history = <<UserEntry(inputs), SummaryEntry(InputsIn(s.history))>>
          /\ Summarized(s) \in Checkpoint
      BY <1>0, SummarizedType DEF Summarized, Checkpoint
    <2>3. At(Summarized(s), "accepted", NoCall).history = Summarized(s).history
      BY <2>2 DEF At, Checkpoint
    <2>4. s'.history = Summarized(s).history
      BY <2>1, <2>3 DEF SaveAs
    <2>5. Positions(s'.history, "tool") = {}
      BY <2>2, <2>4 DEF Positions, UserEntry, SummaryEntry
    <2> QED
      BY <2>5 DEF UncertainInv, Settled
  <1>8. CASE AppendUser
    <2>1. PICK outcome \in Store!Outcome : SaveAs(Submitted(s), "model", NoCall, outcome)
      BY <1>8 DEF AppendUser
    <2>2. Submitted(s).history = Append(s.history, UserEntry(inputs)) /\ Submitted(s) \in Checkpoint
      BY <1>0, SubmittedType DEF Submitted, Checkpoint
    <2>3. At(Submitted(s), "model", NoCall).history = Submitted(s).history
      BY <2>2 DEF At, Checkpoint
    <2>4. s'.history = Append(s.history, UserEntry(inputs))
      BY <2>1, <2>2, <2>3 DEF SaveAs
    <2>5. UserEntry(inputs) \in Entry /\ UserEntry(inputs).kind = "user"
      BY <1>0, InputEntryType DEF UserEntry
    <2> QED
      BY <1>0, <2>4, <2>5, SettledByUser DEF UncertainInv
  <1>9. CASE ModelCalls
    <2>1. PICK calls \in Seq(CallId), outcome \in Store!Outcome :
             /\ SaveAs(Accepted(s, calls), "accepted", NoCall, outcome)
             /\ Accepted(s, calls).history = Append(s.history, AssistantEntry(calls))
             /\ pc = "model"
      BY <1>9, CallsAccepted
    <2>2. Accepted(s, calls) \in Checkpoint
      BY <1>0, AcceptedType
    <2>3. At(Accepted(s, calls), "accepted", NoCall).history = Accepted(s, calls).history
      BY <2>2 DEF At, Checkpoint
    <2>4. s'.history = Append(s.history, AssistantEntry(calls))
      BY <2>1, <2>3 DEF SaveAs
    <2>5. AssistantEntry(calls) \in Entry /\ AssistantEntry(calls).kind = "assistant"
      BY AssistantEntryType DEF AssistantEntry
    <2>6. Settled(s.history)
      BY <2>1 DEF UncertainInv, Asking
    <2> QED
      BY <1>0, <2>4, <2>5, <2>6, SettledAppend DEF UncertainInv
  <1>10. CASE CallRefused \/ NotExecuted
    <2>1. PICK code \in {"refused", "not_executed"}, outcome \in Store!Outcome :
             Record(Head(batch), code, outcome)
      BY <1>10 DEF CallRefused, NotExecuted
    <2>2. batch # <<>> /\ pc' = pc /\ run' = run
      BY <1>10 DEF CallRefused, NotExecuted
    <2>3. Head(batch) \in CallId /\ code \in Code
      BY <1>0, <2>2, HeadTailProperties DEF Code
    <2>4. s'.history = Append(s.history, ToolEntry(Head(batch), code))
      BY <1>0, <2>1, <2>3, ResultRecorded
    <2>5. /\ ToolEntry(Head(batch), code) \in Entry
          /\ ToolEntry(Head(batch), code).code \notin Uncertain
      BY <2>3, ToolEntryType DEF ToolEntry, Uncertain
    <2> QED
      BY <1>0, <2>2, <2>4, <2>5, SettledAppend DEF UncertainInv, Asking
  <1>11. CASE ToolReturns
    <2>1. PICK code \in ToolCodes(Kind[Head(batch)]), outcome \in Store!Outcome :
             Record(Head(batch), code, outcome) /\ AfterTool(code)
      BY <1>11 DEF ToolReturns
    <2>2. pc = "tool" /\ batch # <<>>
      BY <1>11 DEF ToolReturns, IInv, ExecutionsRemembered, BatchFresh
    <2>3. Head(batch) \in CallId /\ code \in Code
      BY <1>0, <2>1, <2>2, HeadTailProperties DEF ToolCodes, Code
    <2>4. s'.history = Append(s.history, ToolEntry(Head(batch), code))
      BY <1>0, <2>1, <2>3, ResultRecorded
    <2>5. ToolEntry(Head(batch), code) \in Entry /\ ToolEntry(Head(batch), code).code = code
      BY <2>3, ToolEntryType DEF ToolEntry
    <2>6. CASE code \notin Uncertain
      <3>1. Settled(s.history)
        BY <2>2 DEF UncertainInv, Asking
      <3> QED
        BY <1>0, <2>4, <2>5, <2>6, <3>1, SettledAppend DEF UncertainInv
    <2>7. CASE code \in Uncertain
      <3>1. code = "unknown"
        BY <2>1, <2>7 DEF ToolCodes, Uncertain
      <3>2. \/ pc' = "finish"
            \/ pc' = "deny" /\ run' \in {End("cancelled", FALSE), End("effect_unknown", FALSE)}
        BY <2>1, <3>1 DEF AfterTool, EndsBatchOnly
      <3>3. End("cancelled", FALSE).status # "" /\ End("effect_unknown", FALSE).status # ""
        BY <1>0 DEF End, TypeOK, RunState
      <3> QED
        BY <3>2, <3>3 DEF UncertainInv, Asking
    <2> QED
      BY <2>6, <2>7
  <1>12. CASE ModelReplies \/ Finish \/ SaveAtPrompt \/ Compaction \/ BeginTurn \/ StopAfterFailure
    BY <1>12 DEF UncertainInv, Asking, ModelReplies, Finish, SaveAtPrompt, Compaction,
                 RequestCompaction, CompactionSucceeds, CompactionFails, Withdraw, BeginTurn,
                 StopAfterFailure, ProcessGone
  <1>13. CASE \/ TogglePlan \/ Shell \/ Submit \/ SubmitAfterCompaction \/ CompactCommand \/ Leave
    BY <1>13 DEF UncertainInv, Asking, TogglePlan, Shell, Submit, SubmitAfterCompaction,
                 CompactCommand, Leave, ProcessGone
  <1>14. CASE Restart
    <2>1. pc' \in {"down", "prompt"}
      BY <1>14 DEF Restart, Crash, PowerLoss, ResumeSettled, ResumeInterrupted, ProcessGone
    <2> QED
      BY <2>1 DEF UncertainInv, Asking
  <1> QED
    BY <1>3, <1>4, <1>5, <1>6, <1>7, <1>8, <1>9, <1>10, <1>11, <1>12, <1>13, <1>14
    DEF Next, Progress, User, Summary, Response, Dispatch

LEMMA UncertainImplies == UncertainInv => UncertainStops
  BY DEF UncertainInv, UncertainStops, Asking, Settled, Uncertain

\* The model is not asked again after an uncertain effect, other than an exec
\* that timed out, before the user has said something: whatever the disk does.
THEOREM UncertainEffectsStop == Spec => []UncertainStops
  <1>1. Init => UncertainInv
    BY DEF Init, UncertainInv, Asking
  <1>2. IInv /\ UncertainInv /\ [Next]_vars => UncertainInv'
    BY UncertainPreserved
  <1> QED
    BY <1>1, <1>2, Inductive, UncertainImplies, PTL DEF Spec

\* While the disk does not come back after a failed save, whatever a crash or a
\* power loss leaves is a checkpoint that --resume accepts and recovers in one
\* way, into a session with every call answered; no request reaches the model
\* with a call open; and nothing that began is denied or forgotten.
THEOREM RecoveryIsSound ==
    ASSUME ~DiskRecovers
    PROVE  Spec => []RecoveryHolds
  <1>1. Init => LoadInv
    BY LoadInit
  <1>2. IInv /\ DenialInv /\ LoadInv /\ [Next]_vars => LoadInv'
    BY LoadPreserved
  <1>3. Spec => [](IInv /\ DenialInv /\ LoadInv)
    BY <1>1, <1>2, DenialHolds, PTL DEF Spec
  <1>4. IInv /\ LoadInv => CheckpointLoads /\ RecoverySettles /\ RequestsSettled
    BY LoadImplies
  <1>5. Spec => [](NoFalseDenial /\ CheckpointLoads /\ RecoverySettles
                      /\ RequestsSettled /\ UncertainStops)
    BY <1>3, <1>4, NothingBegunIsDenied, UncertainEffectsStop, PTL
  <1>6. NoFalseDenial /\ CheckpointLoads /\ RecoverySettles /\ RequestsSettled /\ UncertainStops
           => RecoveryHolds
    BY DEF RecoveryHolds
  <1> QED
    BY <1>5, <1>6, PTL

-----------------------------------------------------------------------------
(***************************************************************************)
(* What becomes of the user's messages, for every value of the constants:  *)
(* a message is in no transcript twice; and while the disk does not come   *)
(* back after a failed save, one that no crash could lose is not lost      *)
(* later, unless the user cancels the compaction that was to precede it.   *)
(***************************************************************************)

(***************************************************************************)
(* The messages of a transcript.                                           *)
(***************************************************************************)
Carried(cp) == InputsIn(cp.history) \cup {cp.pending}

\* No message of the user twice, none waiting that was already sent, and none
\* later than the last.
Once(cp, latest) ==
    /\ \A i \in Positions(cp.history, "user") :
          cp.history[i].input \in 1..latest /\ cp.history[i].input # cp.pending
    /\ \A i, j \in Positions(cp.history, "user") : cp.history[i].input = cp.history[j].input => i = j
    /\ cp.pending <= latest

LEMMA InputsMean ==
    ASSUME NEW h, NEW n
    PROVE  n \in InputsIn(h) <=>
              \/ \E i \in Positions(h, "user") \cup Positions(h, "shell") : h[i].input = n
              \/ \E i \in Positions(h, "summary") : n \in h[i].covers
  <1>1. n \in CoveredBy(h) <=> \E i \in Positions(h, "summary") : n \in h[i].covers
    BY DEF CoveredBy
  <1> QED
    BY <1>1 DEF InputsIn

\* A transcript that begins as another carries what that one carries.
LEMMA LongerCarries ==
    ASSUME NEW h, NEW k, \A i \in DOMAIN h : i \in DOMAIN k /\ k[i] = h[i]
    PROVE  InputsIn(h) \subseteq InputsIn(k)
  <1> SUFFICES ASSUME NEW n \in InputsIn(h) PROVE n \in InputsIn(k)
    OBVIOUS
  <1>1. \A kind : \A i \in Positions(h, kind) : i \in Positions(k, kind) /\ k[i] = h[i]
    BY DEF Positions
  <1>2. CASE \E i \in Positions(h, "user") \cup Positions(h, "shell") : h[i].input = n
    <2>1. PICK i \in Positions(h, "user") \cup Positions(h, "shell") : h[i].input = n
      BY <1>2
    <2>2. i \in Positions(k, "user") \cup Positions(k, "shell") /\ k[i].input = n
      BY <1>1, <2>1
    <2> QED
      BY <2>2, InputsMean
  <1>3. CASE \E i \in Positions(h, "summary") : n \in h[i].covers
    <2>1. PICK i \in Positions(h, "summary") : n \in h[i].covers
      BY <1>3
    <2>2. i \in Positions(k, "summary") /\ n \in k[i].covers
      BY <1>1, <2>1
    <2> QED
      BY <2>2, InputsMean
  <1> QED
    BY <1>2, <1>3, InputsMean

LEMMA AppendCarries ==
    ASSUME NEW h \in Seq(Entry), NEW e \in Entry
    PROVE  /\ InputsIn(h) \subseteq InputsIn(Append(h, e))
           /\ e.kind = "user" => e.input \in InputsIn(Append(h, e))
           /\ Positions(Append(h, e), "user") =
                 Positions(h, "user") \cup (IF e.kind = "user" THEN {Len(h) + 1} ELSE {})
           /\ \A i \in Positions(h, "user") : Append(h, e)[i] = h[i] /\ i # Len(h) + 1
           /\ Append(h, e)[Len(h) + 1] = e
  <1> DEFINE k == Append(h, e)
             n == Len(h) + 1
  <1>1. /\ Len(h) \in Nat /\ DOMAIN h = 1..Len(h) /\ DOMAIN k = 1..(Len(h) + 1)
        /\ \A i \in DOMAIN h : k[i] = h[i] /\ i # n
        /\ k[n] = e
        /\ \A kind : Positions(k, kind) = Positions(h, kind) \cup (IF e.kind = kind THEN {n} ELSE {})
    BY AppendPositions
  <1>2. \A i \in DOMAIN h : i \in DOMAIN k /\ k[i] = h[i]
    BY <1>1
  <1>3. InputsIn(h) \subseteq InputsIn(k)
    BY <1>2, LongerCarries
  <1>4. e.kind = "user" => n \in Positions(k, "user")
    BY <1>1
  <1>5. e.kind = "user" => e.input \in InputsIn(k)
    BY <1>1, <1>4, InputsMean
  <1>6. \A i \in Positions(h, "user") : k[i] = h[i] /\ i # n
    BY <1>1 DEF Positions
  <1> QED
    BY <1>1, <1>3, <1>5, <1>6

\* A message that the transcript does not have joins it.
LEMMA SaidOnce ==
    ASSUME NEW h \in Seq(Entry), NEW n \in Nat, NEW latest \in Nat, n # 0, n <= latest,
           \A i \in Positions(h, "user") : h[i].input \in 1..latest /\ h[i].input # n,
           \A i, j \in Positions(h, "user") : h[i].input = h[j].input => i = j
    PROVE  LET k == Append(h, UserEntry(n))
           IN  /\ \A i \in Positions(k, "user") : k[i].input \in 1..latest
               /\ \A i, j \in Positions(k, "user") : k[i].input = k[j].input => i = j
               /\ InputsIn(h) \cup {n} \subseteq InputsIn(k)
  <1> DEFINE e == UserEntry(n)
             k == Append(h, e)
             x == Len(h) + 1
             U == Positions(h, "user")
  <1>1. e \in Entry /\ e.kind = "user" /\ e.input = n
    BY InputEntryType DEF UserEntry
  <1>2. /\ InputsIn(h) \subseteq InputsIn(k) /\ n \in InputsIn(k)
        /\ Positions(k, "user") = U \cup {x}
        /\ \A i \in U : k[i] = h[i] /\ i # x
        /\ k[x] = e
    BY ZenonT(30), <1>1, AppendCarries
  <1>3. \A i \in U : k[i].input \in 1..latest /\ k[i].input # n
    BY <1>2
  <1>4. k[x].input = n /\ n \in 1..latest
    BY <1>1, <1>2
  <1>5. \A i, j \in U : k[i].input = k[j].input => i = j
    BY <1>2
  <1> HIDE DEF k, x, U, e
  <1>6. \A i \in U \cup {x} : k[i].input \in 1..latest
    BY <1>3, <1>4
  <1>7. \A i, j \in U \cup {x} : k[i].input = k[j].input => i = j
    BY <1>3, <1>4, <1>5
  <1> QED
    BY <1>2, <1>6, <1>7 DEF k, e

\* What the summary of a compaction covers it carries.
LEMMA SummaryCarries ==
    ASSUME NEW covered, NEW n
    PROVE  /\ Positions(<<SummaryEntry(covered)>>, "user") = {}
           /\ covered \subseteq InputsIn(<<SummaryEntry(covered)>>)
           /\ covered \subseteq InputsIn(<<UserEntry(n), SummaryEntry(covered)>>)
           /\ Positions(<<UserEntry(n), SummaryEntry(covered)>>, "user") = {1}
           /\ <<UserEntry(n), SummaryEntry(covered)>>[1].input = n
  <1> DEFINE h == <<SummaryEntry(covered)>>
             k == <<UserEntry(n), SummaryEntry(covered)>>
  <1>1. 1 \in Positions(h, "summary") /\ h[1].covers = covered
    BY DEF Positions, SummaryEntry
  <1>2. 2 \in Positions(k, "summary") /\ k[2].covers = covered
    BY DEF Positions, SummaryEntry
  <1>3. covered \subseteq InputsIn(h) /\ covered \subseteq InputsIn(k)
    BY <1>1, <1>2, InputsMean
  <1>4. Positions(h, "user") = {}
    BY DEF Positions, SummaryEntry
  <1>5. Positions(k, "user") = {1} /\ k[1].input = n
    <2>1. DOMAIN k = {1, 2} /\ k[1].kind = "user" /\ k[2].kind = "summary" /\ k[1].input = n
      BY DEF UserEntry, SummaryEntry
    <2> QED
      BY <2>1 DEF Positions
  <1> QED
    BY <1>3, <1>4, <1>5

\* Recovery keeps the messages, the one waiting for a compaction included.
LEMMA RecoveredCarries ==
    ASSUME NEW cp \in Checkpoint, Loads(cp), NEW recovered \in Recoveries(cp), NEW latest \in Nat,
           Once(cp, latest)
    PROVE  /\ Once(recovered, latest)
           /\ \A n \in Carried(cp) : n = 0 \/ n \in Carried(recovered)
  <1>1. CASE ~Interrupted(cp)
    <2>1. recovered = cp
      BY <1>1 DEF Recoveries, Recovered
    <2> QED
      BY <2>1
  <1>2. CASE Interrupted(cp)
    <2>1. PICK order \in RecoveryOrders(cp.history) : recovered = Recovered(cp, order)
      BY DEF Recoveries
    <2> DEFINE h == cp.history
               r == RecoveryResults(cp, order)
               g == h \o r
               k == recovered.history
    <2>2. WellFormed(h, cp.seen)
      BY DEF Loads, WellFormed
    <2>3. /\ h \in Seq(Entry) /\ g \in Seq(Entry) /\ cp.pending \in Nat
          /\ Positions(g, "user") = Positions(h, "user")
          /\ \A i \in Positions(g, "user") : g[i] = h[i]
      BY <2>2, ResultsSay DEF Checkpoint
    <2>4. r \in Seq(Entry)
      BY <2>2, ResultsAdded
    <2>5. \A i \in DOMAIN h : i \in DOMAIN g /\ g[i] = h[i]
      <3>1. /\ Len(g) = Len(h) + Len(r) /\ Len(h) \in Nat /\ Len(r) \in Nat
            /\ \A i \in 1..(Len(h) + Len(r)) : g[i] = IF i <= Len(h) THEN h[i] ELSE r[i - Len(h)]
        BY <2>3, <2>4, ConcatProperties, LenProperties
      <3>2. DOMAIN h = 1..Len(h) /\ DOMAIN g = 1..Len(g)
        BY <2>3, LenProperties
      <3> QED
        BY <3>1, <3>2
    <2>6. InputsIn(h) \subseteq InputsIn(g)
      BY <2>5, LongerCarries
    <2>7. recovered.pending = 0 /\ k = g \o RecoveredSubmission(cp)
      <3>1. h \o r \o RecoveredSubmission(cp) = g \o RecoveredSubmission(cp)
        OBVIOUS
      <3> QED
        BY <1>2, <2>1, <3>1 DEF Recovered, At, Checkpoint
    <2>8. CASE cp.pending = 0
      <3>1. k = g
        BY <2>3, <2>7, <2>8, ConcatEmptySeq DEF RecoveredSubmission
      <3>2. Once(recovered, latest)
        BY ZenonT(30), <2>3, <2>7, <2>8, <3>1 DEF Once
      <3> QED
        BY <2>6, <2>8, <3>1, <3>2 DEF Carried
    <2>9. CASE cp.pending # 0
      <3> DEFINE e == UserEntry(cp.pending)
      <3>1. e \in Entry /\ cp.pending \in 1..latest /\ cp.pending <= latest
        BY <2>3, <2>9, InputEntryType DEF Once
      <3>2. k = Append(g, e)
        BY <2>3, <2>7, <2>9, <3>1, AppendIsConcat DEF RecoveredSubmission
      <3>3. /\ \A i \in Positions(g, "user") : g[i].input \in 1..latest /\ g[i].input # cp.pending
            /\ \A i, j \in Positions(g, "user") : g[i].input = g[j].input => i = j
        BY <2>3 DEF Once
      <3> HIDE DEF g
      <3>a. /\ \A i \in Positions(Append(g, UserEntry(cp.pending)), "user") :
                  Append(g, UserEntry(cp.pending))[i].input \in 1..latest
            /\ \A i, j \in Positions(Append(g, UserEntry(cp.pending)), "user") :
                  Append(g, UserEntry(cp.pending))[i].input =
                     Append(g, UserEntry(cp.pending))[j].input => i = j
            /\ InputsIn(g) \cup {cp.pending} \subseteq InputsIn(Append(g, UserEntry(cp.pending)))
        BY <2>3, <2>9, <3>1, <3>3, SaidOnce
      <3>4. /\ \A i \in Positions(k, "user") : k[i].input \in 1..latest
            /\ \A i, j \in Positions(k, "user") : k[i].input = k[j].input => i = j
            /\ InputsIn(g) \cup {cp.pending} \subseteq InputsIn(k)
        BY <3>2, <3>a
      <3>b. \A i \in Positions(k, "user") : k[i].input # 0
        BY <3>4
      <3>c. \A i \in Positions(k, "user") : k[i].input \in 1..latest /\ k[i].input # recovered.pending
        BY <2>7, <3>4, <3>b
      <3>d. recovered.pending <= latest
        BY <2>7
      <3>5. Once(recovered, latest)
        BY <3>4, <3>c, <3>d, Zenon DEF Once
      <3>6. \A n \in Carried(cp) : n \in InputsIn(k)
        BY <2>6, <3>4 DEF Carried
      <3> QED
        BY <3>5, <3>6 DEF Carried
    <2> QED
      BY <2>8, <2>9
  <1> QED
    BY <1>1, <1>2

(***************************************************************************)
(* What a step does to the messages is what the session it saves, or keeps *)
(* in memory, says of them.                                                *)
(***************************************************************************)
InputInv ==
    /\ \A cp \in survivors : Once(cp, inputs)
    /\ Once(s, inputs)
    /\ pc \in {"start", "append", "compact", "compacting"} =>
          \A i \in Positions(s.history, "user") : s.history[i].input # inputs
    /\ pc \in RunPcs \cup {"prompt", "finish"} => s.pending = 0
    /\ pc = "save" => failed \/ s.pending = 0
    /\ pc \in {"compact", "compacting", "start", "append", "withdraw"} =>
          s.pending \in {0, inputs} /\ inputs # 0
    /\ pc \in {"compact", "compacting", "start"} /\ s.pending # 0 => s.blocked = ""
    /\ pc \in RunPcs => inputs # 0

\* A message no crash could lose is in the transcript in memory.
KeepInv ==
    pc # "down" /\ ~failed =>
       \A n \in 1..MaxInputs : Kept(n) => n \in Carried(s)

Yields(g) ==
    /\ s'.history = g.history /\ s'.pending = g.pending
    /\ \A cp \in survivors' : cp \in survivors \/ (cp.history = g.history /\ cp.pending = g.pending)
    /\ failed /\ ~DiskRecovers => survivors' = survivors
    /\ failed => failed'
    /\ ~failed' => \/ survivors' = survivors
                   \/ \E cp \in survivors' : cp.history = g.history /\ cp.pending = g.pending

LEMMA SaveYields ==
    ASSUME TypeOK, NEW g \in Checkpoint, NEW phase, NEW inFlight, NEW outcome \in Store!Outcome,
           SaveAs(g, phase, inFlight, outcome)
    PROVE  Yields(g) /\ s'.blocked = g.blocked /\ (Succeeded(outcome) \/ failed')
  <1> DEFINE cp == At(g, phase, inFlight)
  <1>1. cp.history = g.history /\ cp.pending = g.pending /\ cp.blocked = g.blocked
    BY DEF At, Checkpoint
  <1>2. /\ survivors' \subseteq survivors \cup {cp}
        /\ Succeeded(outcome) => survivors' = {cp} /\ s' = cp
        /\ ~Succeeded(outcome) => s' = g /\ failed'
        /\ failed => failed'
        /\ ~DiskRecovers /\ failed => survivors' = survivors
    BY SaveOutcome DEF TypeOK
  <1> HIDE DEF cp
  <1>3. s'.history = g.history /\ s'.pending = g.pending /\ s'.blocked = g.blocked
    BY <1>1, <1>2
  <1>4. \A x \in survivors' : x \in survivors \/ (x.history = g.history /\ x.pending = g.pending)
    BY <1>1, <1>2
  <1>5. ~failed' => \E x \in survivors' : x.history = g.history /\ x.pending = g.pending
    BY <1>1, <1>2
  <1> QED
    BY <1>2, <1>3, <1>4, <1>5 DEF Yields

LEMMA UnsavedYields ==
    ASSUME NEW g, s'.history = g.history, s'.pending = g.pending, UNCHANGED <<store, failed>>
    PROVE  Yields(g)
  BY DEF Yields, store

LEMMA RecordYields ==
    ASSUME TypeOK, NEW c \in CallId, NEW code \in Code, NEW outcome \in Store!Outcome,
           Record(c, code, outcome)
    PROVE  Yields([s EXCEPT !.history = Append(@, ToolEntry(c, code))])
  <1> DEFINE g == [s EXCEPT !.history = Append(@, ToolEntry(c, code))]
  <1>1. g \in Checkpoint
    BY ToolEntryType, AppendType DEF TypeOK
  <1>2. CASE failed
    BY <1>2, UnsavedYields DEF Record
  <1>3. CASE ~failed
    <2>1. SaveAs(g, "accepted", NoCall, outcome)
      BY <1>3 DEF Record
    <2> QED
      BY <1>1, <2>1, SaveYields
  <1> QED
    BY <1>2, <1>3

LEMMA FinishYields ==
    ASSUME TypeOK, Finish
    PROVE  Yields(s)
  <1>1. /\ Finished(s).history = s.history /\ Finished(s).pending = s.pending
        /\ PersistenceError(s).history = s.history /\ PersistenceError(s).pending = s.pending
    BY DEF TypeOK, Finished, PersistenceError, Checkpoint
  <1>2. CASE failed
    BY <1>1, <1>2, UnsavedYields DEF Finish
  <1>3. CASE ~failed
    <2> DEFINE cp == At(Finished(s), "terminal", NoCall)
    <2>1. cp.history = s.history /\ cp.pending = s.pending
      BY <1>1, FinishedType DEF At, Checkpoint
    <2>2. PICK outcome \in Store!Outcome :
             /\ Store!Save(cp, outcome)
             /\ s' = IF Succeeded(outcome) THEN cp ELSE PersistenceError(s)
             /\ failed' = (~Succeeded(outcome))
      BY <1>3 DEF Finish
    <2> HIDE DEF cp
    <2>3. s'.history = s.history /\ s'.pending = s.pending
      BY <1>1, <2>1, <2>2
    <2>4. /\ survivors' \subseteq survivors \cup {cp}
          /\ Succeeded(outcome) => survivors' = {cp}
      BY <2>2 DEF Store!Save, Store!vars, Succeeded
    <2>5. \A x \in survivors' : x \in survivors \/ (x.history = s.history /\ x.pending = s.pending)
      BY <2>1, <2>4
    <2>6. ~failed' => \E x \in survivors' : x.history = s.history /\ x.pending = s.pending
      BY <2>1, <2>2, <2>4
    <2> QED
      BY <1>3, <2>3, <2>5, <2>6 DEF Yields
  <1> QED
    BY <1>2, <1>3

\* The step says each message once if the session it yields does.
LEMMA YieldsOnce ==
    ASSUME TypeOK, InputInv, NEW g, Yields(g), Once(g, inputs'), inputs' \in {inputs, inputs + 1}
    PROVE  (\A cp \in survivors' : Once(cp, inputs')) /\ Once(s', inputs')
  <1>1. inputs \in Nat /\ \A cp \in survivors : cp \in Checkpoint
    BY DEF TypeOK, Store!TypeOK
  <1>2. ASSUME NEW cp \in survivors PROVE Once(cp, inputs')
    <2>1. Once(cp, inputs) /\ cp.pending \in Nat
      BY <1>1, <1>2 DEF InputInv, Checkpoint
    <2>2. 1..inputs \subseteq 1..inputs' /\ cp.pending <= inputs'
      BY <1>1, <2>1 DEF Once
    <2> QED
      BY <2>1, <2>2 DEF Once
  <1>3. ASSUME NEW cp, cp.history = g.history, cp.pending = g.pending PROVE Once(cp, inputs')
    BY <1>3 DEF Once
  <1> QED
    BY <1>2, <1>3 DEF Yields

Keeps == ~DiskRecovers /\ KeepInv => KeepInv' /\ KeepsInputs

\* It loses none if that session carries what the one in memory did.
LEMMA YieldsKeep ==
    ASSUME NEW g, Yields(g), pc # "down", \A n \in Carried(s) : n = 0 \/ n \in Carried(g)
    PROVE  Keeps
  <1> SUFFICES ASSUME ~DiskRecovers, KeepInv PROVE KeepInv' /\ KeepsInputs
    BY DEF Keeps
  <1>0. \A n \in 1..MaxInputs : n # 0
    OBVIOUS
  <1>1. \A n \in 1..MaxInputs : ~failed /\ Kept(n) => n \in Carried(g)
    BY <1>0 DEF KeepInv
  <1>2. \A cp : cp.history = g.history /\ cp.pending = g.pending => Carried(cp) = Carried(g)
    BY DEF Carried
  <1>3. ASSUME NEW n \in 1..MaxInputs, Kept(n) PROVE Kept(n)'
    <2>1. CASE failed
      BY <1>3, <2>1 DEF Kept, Yields
    <2>2. CASE ~failed
      <3>1. ASSUME NEW cp \in survivors' PROVE n \in Carried(cp)
        BY <1>1, <1>2, <1>3, <2>2, <3>1 DEF Kept, Yields, Carried
      <3> QED
        BY <3>1 DEF Kept, Carried
    <2> QED
      BY <2>1, <2>2
  <1>4. ASSUME ~failed', NEW n \in 1..MaxInputs, Kept(n)' PROVE n \in Carried(s')
    <2>1. Carried(s') = Carried(g) /\ ~failed
      BY <1>2, <1>4 DEF Yields
    <2>2. CASE survivors' = survivors
      <3>1. Kept(n)
        BY <1>4, <2>2 DEF Kept
      <3> QED
        BY <1>1, <2>1, <3>1
    <2>3. CASE \E cp \in survivors' : cp.history = g.history /\ cp.pending = g.pending
      BY <1>2, <1>4, <2>1, <2>3 DEF Kept, Carried
    <2> QED
      BY <1>4, <2>2, <2>3 DEF Yields
  <1> QED
    BY <1>3, <1>4 DEF KeepInv, KeepsInputs

\* A session that says what the one in memory does of the messages.
Mute(g) ==
    /\ g.pending = s.pending
    /\ InputsIn(s.history) \subseteq InputsIn(g.history)
    /\ \A i \in Positions(g.history, "user") :
          i \in Positions(s.history, "user") /\ g.history[i] = s.history[i]

LEMMA MuteCarries ==
    ASSUME InputInv, NEW g, Mute(g)
    PROVE  Once(g, inputs) /\ \A n \in Carried(s) : n \in Carried(g)
  <1>1. Once(s, inputs)
    BY DEF InputInv
  <1>2. Once(g, inputs)
    <2>1. \A i \in Positions(g.history, "user") :
             g.history[i].input \in 1..inputs /\ g.history[i].input # g.pending
      BY <1>1 DEF Once, Mute
    <2>2. \A i, j \in Positions(g.history, "user") : g.history[i].input = g.history[j].input => i = j
      BY <1>1 DEF Once, Mute
    <2> QED
      BY <1>1, <2>1, <2>2 DEF Once, Mute
  <1> QED
    BY <1>2 DEF Mute, Carried

LEMMA OtherAppended ==
    ASSUME NEW h \in Seq(Entry), NEW e \in Entry, e.kind # "user"
    PROVE  /\ InputsIn(h) \subseteq InputsIn(Append(h, e))
           /\ \A i \in Positions(Append(h, e), "user") :
                 i \in Positions(h, "user") /\ Append(h, e)[i] = h[i]
  <1> DEFINE k == Append(h, e)
  <1>1. /\ \A i \in DOMAIN h : k[i] = h[i]
        /\ \A kind : Positions(k, kind) = Positions(h, kind) \cup (IF e.kind = kind THEN {Len(h) + 1} ELSE {})
    BY AppendPositions
  <1>2. InputsIn(h) \subseteq InputsIn(k)
    BY AppendCarries
  <1>3. \A i \in Positions(k, "user") : i \in Positions(h, "user")
    BY <1>1
  <1>4. \A i \in Positions(h, "user") : k[i] = h[i]
    BY <1>1 DEF Positions
  <1> QED
    BY <1>2, <1>3, <1>4

LEMMA MuteAppend ==
    ASSUME s \in Checkpoint, NEW e \in Entry, e.kind # "user"
    PROVE  Mute([s EXCEPT !.history = Append(@, e)])
  <1>1. s.history \in Seq(Entry)
    BY DEF Checkpoint
  <1>2. /\ [s EXCEPT !.history = Append(@, e)].history = Append(s.history, e)
        /\ [s EXCEPT !.history = Append(@, e)].pending = s.pending
    BY DEF Checkpoint
  <1>3. /\ InputsIn(s.history) \subseteq InputsIn(Append(s.history, e))
        /\ \A i \in Positions(Append(s.history, e), "user") :
              i \in Positions(s.history, "user") /\ Append(s.history, e)[i] = s.history[i]
    BY <1>1, OtherAppended
  <1> QED
    BY <1>2, <1>3 DEF Mute

LEMMA MuteSame ==
    ASSUME NEW g, g.history = s.history, g.pending = s.pending
    PROVE  Mute(g)
  BY DEF Mute

LEMMA MuteCompacted ==
    ASSUME s \in Checkpoint
    PROVE  Mute(Compacted(s)) /\ Compacted(s).blocked = ""
  <1>1. /\ Compacted(s).history = <<SummaryEntry(InputsIn(s.history))>>
        /\ Compacted(s).pending = s.pending /\ Compacted(s).blocked = ""
    BY DEF Compacted, Checkpoint
  <1> QED
    BY <1>1, SummaryCarries DEF Mute

(***************************************************************************)
(* The steps: at the prompt, before a run, in a run, and the end of it.    *)
(***************************************************************************)
Sound == InputInv' /\ Keeps

LEMMA PromptInputs ==
    ASSUME IInv, InputInv, \/ TogglePlan \/ Shell \/ Submit \/ CompactCommand
    PROVE  Sound
  <1>0. /\ TypeOK /\ s \in Checkpoint /\ inputs \in Nat /\ pc = "prompt"
        /\ UNCHANGED <<store, failed>> /\ inputs' = inputs + 1
        /\ pc' \in {"save", "start", "compact"} /\ s.pending = 0
    BY DEF IInv, TypeOK, TogglePlan, Shell, Submit, CompactCommand, InputInv
  <1>1. Mute(s') /\ Yields(s') /\ s'.pending = 0
    <2>1. CASE Shell
      <3>1. ShellEntry(inputs') \in Entry /\ ShellEntry(inputs').kind # "user"
        BY <1>0, InputEntryType DEF ShellEntry
      <3>2. s' = [s EXCEPT !.history = Append(@, ShellEntry(inputs'))]
        BY <2>1 DEF Shell
      <3>3. Mute(s')
        BY <1>0, <3>1, <3>2, MuteAppend
      <3> QED
        BY <1>0, <3>3, UnsavedYields DEF Mute
    <2>2. CASE TogglePlan \/ Submit \/ CompactCommand
      <3>1. s'.history = s.history /\ s'.pending = s.pending
        BY <1>0, <2>2 DEF TogglePlan, Submit, CompactCommand, Checkpoint
      <3> QED
        BY <1>0, <3>1, MuteSame, UnsavedYields
    <2> QED
      BY <2>1, <2>2
  <1>2. Once(s', inputs) /\ \A n \in Carried(s) : n \in Carried(s')
    BY <1>1, MuteCarries
  <1>3. /\ \A i \in Positions(s'.history, "user") :
              s'.history[i].input \in 1..inputs' /\ s'.history[i].input # inputs'
        /\ Once(s', inputs')
    BY <1>0, <1>1, <1>2 DEF Once
  <1>4. (\A cp \in survivors' : Once(cp, inputs')) /\ Once(s', inputs')
    BY <1>0, <1>1, <1>3, YieldsOnce
  <1>5. InputInv'
    BY <1>0, <1>1, <1>3, <1>4 DEF InputInv, RunPcs
  <1>6. Keeps
    BY <1>0, <1>1, <1>2, YieldsKeep
  <1> QED
    BY <1>5, <1>6 DEF Sound

LEMMA NextNumber ==
    \A n \in Nat : /\ n + 1 \in Nat /\ n + 1 # 0 /\ n <= n + 1 /\ n <= n
                   /\ \A i \in 1..n : i \in 1..(n + 1) /\ i # n + 1
  OBVIOUS

LEMMA WaitingInputs ==
    ASSUME IInv, InputInv, SubmitAfterCompaction
    PROVE  Sound
  <1>a. /\ TypeOK /\ s \in Checkpoint /\ inputs \in Nat /\ inputs' = inputs + 1
        /\ pc = "prompt" /\ s.blocked = "" /\ s.pending = 0
    BY DEF IInv, TypeOK, SubmitAfterCompaction, InputInv
  <1>b. /\ inputs' \in Nat /\ inputs' # 0 /\ inputs <= inputs'
        /\ \A i \in 1..inputs : i \in 1..inputs' /\ i # inputs'
    BY <1>a, NextNumber
  <1>0. /\ TypeOK /\ s \in Checkpoint /\ inputs \in Nat /\ inputs' \in Nat /\ inputs' # 0
        /\ inputs' \in {inputs, inputs + 1}
        /\ pc = "prompt" /\ s.blocked = "" /\ s.pending = 0
    BY <1>a, <1>b
  <1> DEFINE g == [s EXCEPT !.pending = inputs']
  <1>1. PICK outcome \in Store!Outcome :
           /\ SaveAgain(g, outcome)
           /\ pc' = IF Succeeded(outcome) THEN "compact" ELSE "save"
    BY DEF SubmitAfterCompaction
  <1>2. /\ g \in Checkpoint /\ g.history = s.history /\ g.pending = inputs' /\ g.blocked = ""
    BY <1>0 DEF Checkpoint
  <1> HIDE DEF g
  <1>3. Yields(g) /\ s'.blocked = "" /\ (Succeeded(outcome) \/ failed')
    BY <1>0, <1>1, <1>2, SaveYields DEF SaveAgain
  <1>4. /\ \A i \in Positions(s.history, "user") : s.history[i].input \in 1..inputs
        /\ \A i, j \in Positions(s.history, "user") : s.history[i].input = s.history[j].input => i = j
    BY DEF InputInv, Once
  <1>5. \A i \in Positions(s.history, "user") :
           s.history[i].input \in 1..inputs' /\ s.history[i].input # inputs'
    BY <1>b, <1>4
  <1>c. g.pending <= inputs'
    BY <1>0, <1>2, NextNumber
  <1>d. \A i \in Positions(g.history, "user") :
           g.history[i].input \in 1..inputs' /\ g.history[i].input # g.pending
    BY <1>2, <1>5
  <1>e. \A i, j \in Positions(g.history, "user") : g.history[i].input = g.history[j].input => i = j
    BY <1>2, <1>4
  <1>6. Once(g, inputs')
    BY <1>c, <1>d, <1>e DEF Once
  <1>7. (\A cp \in survivors' : Once(cp, inputs')) /\ Once(s', inputs')
    BY <1>0, <1>3, <1>6, YieldsOnce
  <1>8. s'.history = s.history /\ s'.pending = inputs' /\ inputs' # 0
    BY <1>0, <1>2, <1>3 DEF Yields
  <1>9. InputInv'
    BY <1>0, <1>1, <1>3, <1>5, <1>7, <1>8 DEF InputInv, RunPcs
  <1>10. \A n \in Carried(s) : n = 0 \/ n \in Carried(g)
    BY <1>0, <1>2 DEF Carried
  <1>11. Keeps
    BY <1>0, <1>3, <1>10, YieldsKeep
  <1> QED
    BY <1>9, <1>11 DEF Sound

\* A step that saves the session in memory, changed in nothing but its block,
\* or its history by a compaction.
LEMMA CompactionInputs ==
    ASSUME IInv, InputInv,
           SaveAtPrompt \/ RequestCompaction \/ CompactionSucceeds \/ CompactionFails \/ BeginTurn
    PROVE  Sound
  <1>0. /\ TypeOK /\ s \in Checkpoint /\ inputs \in Nat /\ inputs' = inputs
        /\ pc \in {"save", "compact", "compacting", "start"}
    BY DEF IInv, TypeOK, SaveAtPrompt, RequestCompaction, CompactionSucceeds, CompactionFails,
           BeginTurn, ghosts
  <1>1. \E g : /\ Mute(g) /\ Yields(g) /\ s'.blocked = g.blocked
               /\ g.blocked = "" \/ g.blocked = s.blocked
               /\ \/ pc = "save" /\ pc' = (IF failed' THEN "stopping" ELSE "prompt")
                  \/ pc = "compact" /\ pc' = "compacting"
                  \/ pc = "compacting" /\ pc' \in {"start", "withdraw"}
                  \/ pc = "start" /\ pc' = "append"
                  \/ pc # "save" /\ pc' = "save" /\ (failed' \/ s.pending = 0)
    <2>1. Mute(s)
      BY MuteSame
    <2>2. CASE SaveAtPrompt
      <3>1. PICK outcome \in Store!Outcome :
               SaveAgain(s, outcome) /\ pc' = IF failed' THEN "stopping" ELSE "prompt"
        BY <2>2 DEF SaveAtPrompt
      <3>2. Yields(s) /\ s'.blocked = s.blocked
        BY <1>0, <3>1, SaveYields DEF SaveAgain
      <3> QED
        BY <2>1, <2>2, <3>1, <3>2 DEF SaveAtPrompt
    <2>3. CASE RequestCompaction
      <3>1. PICK outcome \in Store!Outcome :
               /\ SaveAs(s, "model", NoCall, outcome)
               /\ pc' = IF Succeeded(outcome) THEN "compacting" ELSE "save"
        BY <2>3 DEF RequestCompaction
      <3>2. Yields(s) /\ s'.blocked = s.blocked /\ (Succeeded(outcome) \/ failed')
        BY <1>0, <3>1, SaveYields
      <3> QED
        BY <2>1, <2>3, <3>1, <3>2 DEF RequestCompaction
    <2>4. CASE CompactionSucceeds
      <3>1. PICK outcome \in Store!Outcome :
               /\ SaveAs(Compacted(s), "terminal", NoCall, outcome)
               /\ pc' = IF Succeeded(outcome) /\ s.pending # 0 THEN "start" ELSE "save"
        BY <2>4 DEF CompactionSucceeds
      <3>2. /\ Yields(Compacted(s)) /\ s'.blocked = Compacted(s).blocked
            /\ Succeeded(outcome) \/ failed'
        BY <1>0, <3>1, CompactedType, SaveYields
      <3>3. Mute(Compacted(s)) /\ Compacted(s).blocked = ""
        BY <1>0, MuteCompacted
      <3> QED
        BY <2>4, <3>1, <3>2, <3>3 DEF CompactionSucceeds
    <2>5. CASE CompactionFails
      <3>1. PICK outcome \in Store!Outcome, cancelled \in BOOLEAN :
               /\ SaveAs(s, "terminal", NoCall, outcome)
               /\ pc' = IF ~Succeeded(outcome) \/ s.pending = 0 THEN "save"
                        ELSE IF cancelled THEN "withdraw" ELSE "start"
        BY <2>5 DEF CompactionFails
      <3>2. Yields(s) /\ s'.blocked = s.blocked /\ (Succeeded(outcome) \/ failed')
        BY <1>0, <3>1, SaveYields
      <3> QED
        BY <2>1, <2>5, <3>1, <3>2 DEF CompactionFails
    <2>6. CASE BeginTurn
      <3>1. PICK outcome \in Store!Outcome :
               /\ SaveAgain(s, outcome)
               /\ pc' = IF Succeeded(outcome) /\ s.blocked = "" THEN "append" ELSE "save"
        BY <2>6 DEF BeginTurn
      <3>2. Yields(s) /\ s'.blocked = s.blocked /\ (Succeeded(outcome) \/ failed')
        BY <1>0, <3>1, SaveYields DEF SaveAgain
      <3>3. pc = "start" /\ (s.pending # 0 => s.blocked = "")
        BY <2>6 DEF BeginTurn, InputInv
      <3> QED
        BY <2>1, <2>6, <3>1, <3>2, <3>3
    <2> QED
      BY <2>2, <2>3, <2>4, <2>5, <2>6
  <1>2. PICK g : /\ Mute(g) /\ Yields(g) /\ s'.blocked = g.blocked
                 /\ g.blocked = "" \/ g.blocked = s.blocked
                 /\ \/ pc = "save" /\ pc' = (IF failed' THEN "stopping" ELSE "prompt")
                    \/ pc = "compact" /\ pc' = "compacting"
                    \/ pc = "compacting" /\ pc' \in {"start", "withdraw"}
                    \/ pc = "start" /\ pc' = "append"
                    \/ pc # "save" /\ pc' = "save" /\ (failed' \/ s.pending = 0)
    BY <1>1
  <1>3. Once(g, inputs) /\ \A n \in Carried(s) : n \in Carried(g)
    BY <1>2, MuteCarries
  <1>4. (\A cp \in survivors' : Once(cp, inputs')) /\ Once(s', inputs')
    BY <1>0, <1>2, <1>3, YieldsOnce
  <1>5. s'.pending = s.pending /\ \A i \in Positions(s'.history, "user") :
           i \in Positions(s.history, "user") /\ s'.history[i] = s.history[i]
    BY <1>2 DEF Mute, Yields
  <1>6. failed => failed'
    BY <1>2 DEF Yields
  <1>7. pc # "save" => /\ s.pending \in {0, inputs} /\ inputs # 0
                       /\ s.pending # 0 => s'.blocked = ""
                       /\ \A i \in Positions(s'.history, "user") : s'.history[i].input # inputs
    BY <1>0, <1>2, <1>5 DEF InputInv
  <1>8. pc = "save" => failed' \/ s.pending = 0
    BY <1>6 DEF InputInv
  <1>9. InputInv'
    BY <1>0, <1>2, <1>4, <1>5, <1>7, <1>8 DEF InputInv, RunPcs
  <1>10. Keeps
    BY <1>0, <1>2, <1>3, YieldsKeep
  <1> QED
    BY <1>9, <1>10 DEF Sound

\* The submission is sent, or taken back: it waits no longer.
LEMMA SentInputs ==
    ASSUME IInv, InputInv, AppendUser
    PROVE  Sound
  <1>0. /\ TypeOK /\ s \in Checkpoint /\ inputs \in Nat /\ inputs' = inputs /\ inputs # 0
        /\ pc = "append" /\ pc' \in {"loop", "finish"} /\ s.pending \in {0, inputs}
        /\ \A i \in Positions(s.history, "user") : s.history[i].input # inputs
    BY DEF IInv, TypeOK, AppendUser, InputInv, ghosts
  <1> DEFINE g == Submitted(s)
             k == Append(s.history, UserEntry(inputs))
  <1>1. PICK outcome \in Store!Outcome : SaveAs(g, "model", NoCall, outcome)
    BY DEF AppendUser
  <1>2. g \in Checkpoint /\ g.history = k /\ g.pending = 0
    BY <1>0, SubmittedType DEF Submitted, Checkpoint
  <1>3. Once(s, inputs) /\ s.history \in Seq(Entry)
    BY <1>0 DEF InputInv, Checkpoint
  <1>4. inputs <= inputs /\ 0 <= inputs
    BY <1>0
  <1>5. \A i \in Positions(s.history, "user") :
           s.history[i].input \in 1..inputs /\ s.history[i].input # inputs
    BY <1>0, <1>3 DEF Once
  <1>6. /\ \A i \in Positions(k, "user") : k[i].input \in 1..inputs
        /\ \A i, j \in Positions(k, "user") : k[i].input = k[j].input => i = j
        /\ InputsIn(s.history) \cup {inputs} \subseteq InputsIn(k)
    BY <1>0, <1>3, <1>4, <1>5, SaidOnce DEF Once
  <1> HIDE DEF g, k
  <1>7. \A i \in Positions(k, "user") : k[i].input \in 1..inputs /\ k[i].input # 0
    BY <1>6
  <1>8. Once(g, inputs)
    <2>1. \A i \in Positions(g.history, "user") :
             g.history[i].input \in 1..inputs /\ g.history[i].input # g.pending
      BY <1>2, <1>7
    <2>2. \A i, j \in Positions(g.history, "user") : g.history[i].input = g.history[j].input => i = j
      BY <1>2, <1>6
    <2>3. g.pending <= inputs
      BY <1>2, <1>4
    <2> QED
      BY <2>1, <2>2, <2>3 DEF Once
  <1>9. \A n \in Carried(s) : n = 0 \/ n \in Carried(g)
    BY <1>0, <1>2, <1>6 DEF Carried
  <1>10. Yields(g)
    BY <1>0, <1>1, <1>2, SaveYields
  <1>11. (\A cp \in survivors' : Once(cp, inputs')) /\ Once(s', inputs')
    BY <1>0, <1>8, <1>10, YieldsOnce
  <1>12. s'.pending = 0
    BY <1>2, <1>10 DEF Yields
  <1>13. InputInv'
    BY <1>0, <1>11, <1>12 DEF InputInv, RunPcs
  <1>14. Keeps
    BY <1>0, <1>9, <1>10, YieldsKeep
  <1> QED
    BY <1>13, <1>14 DEF Sound

LEMMA WithdrawnInputs ==
    ASSUME IInv, InputInv, Withdraw
    PROVE  Sound
  <1>0. /\ TypeOK /\ s \in Checkpoint /\ inputs \in Nat /\ inputs' = inputs
        /\ pc = "withdraw" /\ pc' = "save" /\ s.pending \in {0, inputs}
    BY DEF IInv, TypeOK, Withdraw, InputInv, ghosts
  <1> DEFINE g == [s EXCEPT !.pending = 0]
  <1>1. PICK outcome \in Store!Outcome : SaveAgain(g, outcome)
    BY DEF Withdraw
  <1>2. g \in Checkpoint /\ g.history = s.history /\ g.pending = 0 /\ g.phase = s.phase /\ g.inFlight = s.inFlight
    BY <1>0 DEF Checkpoint
  <1> HIDE DEF g
  <1>3. Yields(g) /\ (Succeeded(outcome) \/ failed')
    BY <1>0, <1>1, <1>2, SaveYields DEF SaveAgain
  <1>4. Once(s, inputs)
    BY DEF InputInv
  <1>5. Once(g, inputs)
    <2>1. \A i \in Positions(g.history, "user") : g.history[i].input \in 1..inputs
      BY <1>2, <1>4 DEF Once
    <2>2. \A i \in Positions(g.history, "user") :
             g.history[i].input \in 1..inputs /\ g.history[i].input # g.pending
      BY <1>2, <2>1
    <2>3. \A i, j \in Positions(g.history, "user") : g.history[i].input = g.history[j].input => i = j
      BY <1>2, <1>4 DEF Once
    <2>4. g.pending <= inputs
      BY <1>0, <1>2
    <2> QED
      BY <2>2, <2>3, <2>4 DEF Once
  <1>6. (\A cp \in survivors' : Once(cp, inputs')) /\ Once(s', inputs')
    BY <1>0, <1>3, <1>5, YieldsOnce
  <1>7. s'.pending = 0
    BY <1>2, <1>3 DEF Yields
  <1>8. InputInv'
    BY <1>0, <1>6, <1>7 DEF InputInv, RunPcs
  <1>9. ASSUME ~DiskRecovers, KeepInv PROVE KeepInv' /\ KeepsInputs
    <2>1. \A cp : cp.history = g.history /\ cp.pending = g.pending => Carried(cp) = Carried(g)
      BY DEF Carried
    <2>2. /\ Carried(s) \subseteq Carried(g) \cup {inputs}
          /\ \A n \in 1..MaxInputs : n # 0
      BY <1>0, <1>2 DEF Carried
    <2>3. ASSUME NEW n \in 1..MaxInputs, Kept(n), n # inputs PROVE Kept(n)'
      <3>1. CASE failed
        BY <1>3, <1>9, <2>3, <3>1 DEF Kept, Yields
      <3>2. CASE ~failed
        <4>1. n \in Carried(g)
          BY <1>0, <1>9, <2>2, <2>3, <3>2 DEF KeepInv
        <4>2. ASSUME NEW cp \in survivors' PROVE n \in Carried(cp)
          BY <1>3, <2>1, <2>3, <4>1, <4>2 DEF Kept, Yields, Carried
        <4> QED
          BY <4>2 DEF Kept, Carried
      <3> QED
        BY <3>1, <3>2
    <2>4. ASSUME ~failed', NEW n \in 1..MaxInputs, Kept(n)' PROVE n \in Carried(s')
      <3>1. /\ survivors' = {At(g, g.phase, g.inFlight)} /\ s' = At(g, g.phase, g.inFlight)
        BY <1>0, <1>1, <1>3, <2>4, SaveOutcome DEF SaveAgain, TypeOK
      <3> QED
        BY <2>4, <3>1 DEF Kept, Carried
    <2> QED
      BY <1>0, <2>3, <2>4 DEF KeepInv, KeepsInputs
  <1> QED
    BY <1>8, <1>9 DEF Sound, Keeps

\* A step of a run, in which no submission waits.
LEMMA RunInputs ==
    ASSUME IInv, InputInv, pc \in RunPcs, pc' \in RunPcs \cup {"finish"}, inputs' = inputs,
           NEW g, Yields(g), Once(g, inputs), g.pending = 0,
           \A n \in Carried(s) : n = 0 \/ n \in Carried(g)
    PROVE  Sound
  <1>1. (\A cp \in survivors' : Once(cp, inputs')) /\ Once(s', inputs')
    BY YieldsOnce DEF IInv
  <1>2. s'.pending = 0 /\ inputs # 0
    BY DEF Yields, InputInv
  <1>3. pc # "down"
    BY DEF RunPcs
  <1>4. InputInv'
    BY <1>1, <1>2 DEF InputInv, RunPcs
  <1>5. Keeps
    BY <1>3, YieldsKeep
  <1> QED
    BY <1>4, <1>5 DEF Sound

LEMMA SummaryInputs ==
    ASSUME IInv, InputInv, SummaryAccepted
    PROVE  Sound
  <1>0. /\ TypeOK /\ s \in Checkpoint /\ inputs \in Nat /\ inputs' = inputs
        /\ pc = "summarizing" /\ pc' \in {"ready", "finish"}
    BY DEF IInv, TypeOK, SummaryAccepted, ghosts
  <1>1. s.pending = 0 /\ inputs # 0
    BY <1>0 DEF InputInv, RunPcs
  <1> DEFINE g == Summarized(s)
             k == <<UserEntry(inputs), SummaryEntry(InputsIn(s.history))>>
  <1>2. PICK outcome \in Store!Outcome : SaveAs(g, "accepted", NoCall, outcome)
    BY DEF SummaryAccepted
  <1>3. g \in Checkpoint /\ g.history = k /\ g.pending = 0
    BY <1>0, <1>1, SummarizedType DEF Summarized, Checkpoint
  <1>4. Positions(k, "user") = {1} /\ k[1].input = inputs /\ InputsIn(s.history) \subseteq InputsIn(k)
    BY SummaryCarries
  <1> HIDE DEF g, k
  <1>5. Yields(g)
    BY <1>0, <1>2, <1>3, SaveYields
  <1>6. Once(g, inputs)
    BY <1>0, <1>1, <1>3, <1>4 DEF Once
  <1>7. \A n \in Carried(s) : n = 0 \/ n \in Carried(g)
    BY <1>1, <1>3, <1>4 DEF Carried
  <1> QED
    BY <1>0, <1>3, <1>5, <1>6, <1>7, RunInputs DEF RunPcs

\* Every other step of a run adds no message and loses none.
LEMMA MuteRun ==
    ASSUME IInv, InputInv, pc \in RunPcs, pc' \in RunPcs \cup {"finish"}, inputs' = inputs,
           NEW g, Mute(g), Yields(g)
    PROVE  Sound
  <1>1. Once(g, inputs) /\ \A n \in Carried(s) : n \in Carried(g)
    BY MuteCarries
  <1>2. g.pending = 0
    BY DEF Mute, InputInv
  <1> QED
    BY <1>1, <1>2, RunInputs

LEMMA QuietInputs ==
    ASSUME IInv, InputInv,
           \/ Interrupt \/ CancelledBetweenRequests \/ SummarySkipped \/ SummaryStarts
           \/ SummaryFails \/ SummaryUseless \/ SummaryTooLong \/ ModelFails
           \/ ModelRejected \/ CallDenied \/ BatchDone \/ Denied
    PROVE  Sound
  <1>1. UNCHANGED <<store, s, failed, inputs>>
    BY DEF Interrupt, CancelledBetweenRequests, SummarySkipped, SummaryStarts,
           SummaryFails, SummaryUseless, SummaryTooLong, ModelFails, ModelRejected,
           CallDenied, BatchDone, Denied, ghosts
  <1>2. pc \in RunPcs /\ pc' \in RunPcs \cup {"finish"}
    BY DEF Interrupt, CancelledBetweenRequests, SummarySkipped, SummaryStarts, SummaryWanted,
           SummaryFails, SummaryUseless, SummaryTooLong, ModelFails, ModelRejected,
           CallDenied, BatchDone, Denied, RunPcs
  <1>3. Yields(s)
    BY <1>1, UnsavedYields
  <1> QED
    BY <1>1, <1>2, <1>3, MuteSame, MuteRun

LEMMA SavedInputs ==
    ASSUME IInv, InputInv, RequestSummary \/ Request \/ ModelReplies \/ ModelCalls \/ StartTool
    PROVE  Sound
  <1>0. TypeOK /\ s \in Checkpoint
    BY DEF IInv, TypeOK
  <1>1. /\ pc \in RunPcs /\ pc' \in RunPcs \cup {"finish"} /\ inputs' = inputs
    <2>1. CASE ModelCalls
      BY <2>1, CallsAccepted DEF ModelCalls, RunPcs, ghosts
    <2>2. CASE RequestSummary \/ Request \/ ModelReplies \/ StartTool
      BY <2>2 DEF RequestSummary, Request, ModelReplies, StartTool, RunPcs, ghosts
    <2> QED
      BY <2>1, <2>2
  <1>2. CASE RequestSummary \/ Request \/ StartTool
    <2>1. PICK outcome \in Store!Outcome :
             SaveAs(s, "model", NoCall, outcome) \/ SaveAs(s, "tool", Head(batch), outcome)
      BY <1>2 DEF RequestSummary, Request, StartTool
    <2>2. Yields(s)
      BY <1>0, <2>1, SaveYields
    <2> QED
      BY <1>1, <2>2, MuteSame, MuteRun
  <1>3. CASE ModelReplies
    <2> DEFINE e == AssistantEntry(<<>>)
               g == [s EXCEPT !.history = Append(@, e)]
    <2>1. PICK outcome \in Store!Outcome : SaveAs(g, "accepted", NoCall, outcome)
      BY <1>3 DEF ModelReplies
    <2>a. <<>> \in Seq(CallId)
      OBVIOUS
    <2>b. e \in Entry
      BY <2>a, AssistantEntryType
    <2>c. e.kind # "user"
      BY DEF AssistantEntry
    <2>2. e \in Entry /\ e.kind # "user"
      BY <2>b, <2>c
    <2> HIDE DEF e
    <2>3. g \in Checkpoint /\ Mute(g)
      BY <1>0, <2>2, AppendType, MuteAppend
    <2> HIDE DEF g
    <2>4. Yields(g)
      BY <1>0, <2>1, <2>3, SaveYields
    <2> QED
      BY <1>1, <2>3, <2>4, MuteRun
  <1>4. CASE ModelCalls
    <2>1. PICK calls \in Seq(CallId), outcome \in Store!Outcome :
             SaveAs(Accepted(s, calls), "accepted", NoCall, outcome)
      BY <1>4, CallsAccepted
    <2> DEFINE e == AssistantEntry(calls)
               g == Accepted(s, calls)
               h == [s EXCEPT !.history = Append(@, e)]
    <2>2. e \in Entry /\ e.kind # "user"
      BY AssistantEntryType DEF AssistantEntry
    <2>3. g \in Checkpoint /\ g.history = h.history /\ g.pending = h.pending
      BY <1>0, AcceptedType DEF Accepted, Checkpoint
    <2>4. Mute(h)
      BY <1>0, <2>2, MuteAppend
    <2>5. Mute(g)
      BY <2>3, <2>4 DEF Mute
    <2>6. Yields(g)
      BY <1>0, <2>1, <2>3, SaveYields
    <2> HIDE DEF g, h, e
    <2> QED
      BY <1>1, <2>5, <2>6, MuteRun
  <1> QED
    BY <1>2, <1>3, <1>4

LEMMA ResultInputs ==
    ASSUME IInv, InputInv, batch # <<>>, CallRefused \/ NotExecuted \/ ToolReturns
    PROVE  Sound
  <1>0. TypeOK /\ s \in Checkpoint /\ Head(batch) \in CallId
    BY HeadTailProperties DEF IInv, TypeOK
  <1>1. /\ pc \in RunPcs /\ pc' \in RunPcs \cup {"finish"} /\ inputs' = inputs
    BY DEF CallRefused, NotExecuted, ToolReturns, AfterTool, RunPcs, ghosts
  <1>2. PICK code \in Code, outcome \in Store!Outcome : Record(Head(batch), code, outcome)
    <2>1. ToolCodes(Kind[Head(batch)]) \subseteq Code /\ {"refused", "not_executed"} \subseteq Code
      BY DEF ToolCodes, Code
    <2> QED
      BY <2>1 DEF CallRefused, NotExecuted, ToolReturns
  <1> DEFINE e == ToolEntry(Head(batch), code)
             g == [s EXCEPT !.history = Append(@, e)]
  <1>3. e \in Entry /\ e.kind # "user"
    BY <1>0, ToolEntryType DEF ToolEntry
  <1>4. Mute(g)
    BY <1>0, <1>3, MuteAppend
  <1>5. Yields(g)
    BY <1>0, <1>2, RecordYields
  <1> HIDE DEF g
  <1> QED
    BY <1>1, <1>4, <1>5, MuteRun

LEMMA FinishInputs ==
    ASSUME IInv, InputInv, Finish
    PROVE  Sound
  <1>0. TypeOK /\ pc = "finish" /\ pc' = "save" /\ inputs' = inputs /\ s.pending = 0
    BY DEF IInv, Finish, InputInv, ghosts
  <1>1. Yields(s) /\ Mute(s)
    BY <1>0, FinishYields, MuteSame
  <1>2. Once(s, inputs) /\ \A n \in Carried(s) : n \in Carried(s)
    BY DEF InputInv
  <1>3. (\A cp \in survivors' : Once(cp, inputs')) /\ Once(s', inputs')
    BY <1>0, <1>1, <1>2, YieldsOnce
  <1>4. s'.pending = 0
    BY <1>0, <1>1 DEF Yields
  <1>5. InputInv'
    BY <1>0, <1>3, <1>4 DEF InputInv, RunPcs
  <1>6. Keeps
    BY <1>0, <1>1, <1>2, YieldsKeep
  <1> QED
    BY <1>5, <1>6 DEF Sound

LEMMA NothingOnce ==
    ASSUME NEW latest \in Nat
    PROVE  Once(EmptySession, latest)
  BY DEF Once, EmptySession, Positions

LEMMA GoneInputs ==
    ASSUME IInv, InputInv, Gone
    PROVE  Sound
  <1>1. pc' = "down" /\ s' = EmptySession /\ inputs' = inputs
    BY DEF Gone, Leave, StopAfterFailure, Crash, PowerLoss, ProcessGone, ghosts
  <1>2. survivors' \subseteq survivors
    BY GoneSteps DEF IInv, ExecutionsRemembered, Ledger
  <1>3. Once(s', inputs')
    BY <1>1, NothingOnce DEF IInv, TypeOK
  <1>4. \A cp \in survivors' : Once(cp, inputs')
    BY <1>1, <1>2 DEF InputInv
  <1>5. InputInv'
    BY <1>1, <1>3, <1>4 DEF InputInv, RunPcs
  <1>6. Keeps
    BY <1>1, <1>2 DEF Keeps, KeepInv, KeepsInputs, Kept
  <1> QED
    BY <1>5, <1>6 DEF Sound

LEMMA ResumeInputs ==
    ASSUME IInv, InputInv, Resume
    PROVE  Sound
  <1>0. /\ TypeOK /\ file \in survivors /\ file \in Checkpoint /\ inputs \in Nat /\ inputs' = inputs
        /\ Once(file, inputs) /\ pc = "down"
    BY DEF IInv, TypeOK, Store!TypeOK, ExecutionsRemembered, Ledger, InputInv, Resume,
           ResumeSettled, ResumeInterrupted, ghosts
  <1>1. CASE ResumeSettled
    <2>1. s' = file /\ pc' = "prompt" /\ survivors' = survivors /\ ~Interrupted(file)
      BY <1>1 DEF ResumeSettled, store
    <2>2. s'.pending = 0
      BY <2>1 DEF Interrupted
    <2>3. InputInv'
      BY <1>0, <2>1, <2>2 DEF InputInv, RunPcs
    <2>4. Keeps
      BY <1>0, <2>1 DEF Keeps, KeepInv, KeepsInputs, Kept, Carried
    <2> QED
      BY <2>3, <2>4 DEF Sound
  <1>2. CASE ResumeInterrupted
    <2>1. PICK recovered \in Recoveries(file), outcome \in Store!Outcome :
             /\ Store!Save(recovered, outcome)
             /\ IF Succeeded(outcome) THEN s' = recovered /\ pc' = "prompt" ELSE UNCHANGED <<s, pc>>
      BY <1>2 DEF ResumeInterrupted
    <2>2. /\ Once(recovered, inputs)
          /\ \A n \in Carried(file) : n = 0 \/ n \in Carried(recovered)
      BY <1>0, <1>2, RecoveredCarries DEF ResumeInterrupted
    <2>3. recovered.pending = 0
      BY <1>0, <1>2, <2>1 DEF ResumeInterrupted, Recoveries, Recovered, At, Checkpoint
    <2>4. /\ survivors' \subseteq survivors \cup {recovered}
          /\ Succeeded(outcome) => survivors' = {recovered}
      BY <2>1 DEF Store!Save, Store!vars, Succeeded
    <2>5. \A cp \in survivors' : Once(cp, inputs')
      BY <1>0, <2>2, <2>4 DEF InputInv
    <2>6. \/ pc' = "prompt" /\ s' = recovered /\ survivors' = {recovered}
          \/ pc' = "down" /\ s' = s
      BY <1>0, <2>1, <2>4
    <2>7. InputInv'
      <3>1. Once(s', inputs')
        BY <1>0, <2>2, <2>6 DEF InputInv
      <3> QED
        BY <2>3, <2>5, <2>6, <3>1 DEF InputInv, RunPcs
    <2>8. \A n \in 1..MaxInputs : Kept(n) => Kept(n)'
      <3>1. \A n \in 1..MaxInputs : n # 0
        OBVIOUS
      <3> QED
        BY <1>0, <2>2, <2>4, <3>1 DEF Kept, Carried
    <2>9. KeepInv'
      BY <2>6 DEF KeepInv, Kept, Carried
    <2> QED
      BY <2>7, <2>8, <2>9 DEF Sound, Keeps, KeepsInputs
  <1> QED
    BY <1>1, <1>2 DEF Resume

LEMMA StutterInputs ==
    ASSUME InputInv, UNCHANGED vars
    PROVE  Sound
  <1>1. InputInv'
    BY DEF vars, store, ghosts, InputInv
  <1>2. Keeps
    BY DEF vars, store, ghosts, Keeps, KeepInv, KeepsInputs, Kept, Carried
  <1> QED
    BY <1>1, <1>2 DEF Sound

LEMMA InputsPreserved ==
    ASSUME IInv, InputInv, [Next]_vars
    PROVE  Sound
  <1>1. CASE UNCHANGED vars
    BY <1>1, StutterInputs
  <1>2. CASE TogglePlan \/ Shell \/ Submit \/ CompactCommand
    BY <1>2, PromptInputs
  <1>3. CASE SubmitAfterCompaction
    BY <1>3, WaitingInputs
  <1>4. CASE SaveAtPrompt \/ Compaction \/ BeginTurn
    BY <1>4, CompactionInputs, WithdrawnInputs DEF Compaction
  <1>5. CASE AppendUser
    BY <1>5, SentInputs
  <1>6. CASE \/ Interrupt \/ CancelledBetweenRequests \/ Summary \/ Request \/ Response
    BY <1>6, QuietInputs, SavedInputs, SummaryInputs DEF Summary, Response
  <1>7. CASE Dispatch
    <2>1. CallRefused \/ NotExecuted \/ ToolReturns => batch # <<>>
      BY DEF CallRefused, NotExecuted, ToolReturns, IInv, ExecutionsRemembered, BatchFresh
    <2> QED
      BY <1>7, <2>1, QuietInputs, SavedInputs, ResultInputs DEF Dispatch
  <1>8. CASE Finish
    BY <1>8, FinishInputs
  <1>9. CASE Gone
    BY <1>9, GoneInputs
  <1>10. CASE Resume
    BY <1>10, ResumeInputs
  <1> QED
    BY <1>1, <1>2, <1>3, <1>4, <1>5, <1>6, <1>7, <1>8, <1>9, <1>10
    DEF Next, Progress, User, Restart, Gone, Resume

LEMMA InputInit == Init => InputInv /\ KeepInv
  <1> SUFFICES ASSUME Init PROVE InputInv /\ KeepInv
    OBVIOUS
  <1>1. survivors = {EmptySession} /\ s = EmptySession /\ pc = "prompt" /\ inputs = 0
    BY DEF Init
  <1>2. Once(EmptySession, inputs)
    BY <1>1, NothingOnce
  <1>3. InputInv
    BY <1>1, <1>2 DEF InputInv, EmptySession, RunPcs
  <1>4. KeepInv
    BY <1>1 DEF KeepInv, Kept, Carried
  <1> QED
    BY <1>3, <1>4

LEMMA InputsHold == Spec => [](IInv /\ InputInv)
  <1>1. IInv /\ InputInv /\ [Next]_vars => InputInv'
    BY InputsPreserved DEF Sound
  <1> QED
    BY <1>1, InputInit, InitHolds, NextPreserves, PTL DEF Spec

LEMMA OnceOccurs ==
    ASSUME NEW cp, NEW latest, Once(cp, latest), NEW n
    PROVE  Occurrences(cp, n) <= 1
  <1> DEFINE X == {i \in Positions(cp.history, "user") : cp.history[i].input = n}
  <1>1. CASE cp.pending = n
    <2>1. X = {}
      BY <1>1 DEF Once
    <2>2. Cardinality(X) = 0
      BY <2>1, FS_EmptySet
    <2> QED
      BY <1>1, <2>2 DEF Occurrences
  <1>2. CASE cp.pending # n
    <2>1. CASE X = {}
      <3>1. Cardinality(X) = 0
        BY <2>1, FS_EmptySet
      <3> QED
        BY <1>2, <3>1 DEF Occurrences
    <2>2. CASE X # {}
      <3>1. PICK i \in X : TRUE
        BY <2>2
      <3>2. X = {i}
        BY <3>1 DEF Once
      <3>3. Cardinality(X) = 1
        BY <3>2, FS_Singleton
      <3> QED
        BY <1>2, <3>3 DEF Occurrences
    <2> QED
      BY <2>1, <2>2
  <1> QED
    BY <1>1, <1>2

\* A message of the user is in no transcript twice, whatever crashes, recoveries
\* and failed saves there were while it waited for a compaction.
THEOREM EachMessageOnce == Spec => []SubmittedOnce
  <1>1. InputInv => SubmittedOnce
    BY OnceOccurs DEF InputInv, SubmittedOnce
  <1> QED
    BY <1>1, InputsHold, PTL

\* While the disk does not come back after a failed save, a message no crash
\* could lose is not lost by a later step, unless the user cancels the
\* compaction that was to precede it.
THEOREM MessagesAreKept ==
    ASSUME ~DiskRecovers
    PROVE  Spec => InputsKept
  <1>1. IInv /\ InputInv /\ KeepInv /\ [Next]_vars => KeepInv' /\ KeepsInputs
    BY InputsPreserved DEF Sound, Keeps
  <1>2. Spec => [][KeepsInputs]_vars
    BY <1>1, InputInit, InputsHold, PTL DEF Spec
  <1>3. InputsKept <=> [][KeepsInputs]_vars
    BY DEF InputsKept
  <1> QED
    BY <1>2, <1>3, PTL

=============================================================================
