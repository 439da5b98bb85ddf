--------------------------- MODULE SessionHistory ---------------------------
(***************************************************************************)
(* The accepted transcript of a session and the state a checkpoint holds   *)
(* (session.go, session_store.go): which checkpoints load accepts, and how *)
(* recoverInterrupted closes a transcript that stopped in mid-batch.       *)
(*                                                                         *)
(* Messages are the numbers of the user's inputs, tool calls are their     *)
(* call ids, and a tool result is the class of its outcome.                *)
(***************************************************************************)
EXTENDS Integers, Sequences, FiniteSets, SequencesExt

CONSTANTS
    CallId,     \* the call ids the provider may produce in this session
    NoCall      \* checkpoint without an in-flight call

ASSUME CallIdAssumption == IsFiniteSet(CallId) /\ NoCall \notin CallId

Phase == {"idle", "model", "accepted", "tool", "terminal"}

\* Outcomes of a call: it ran to a known end, its effects are unknown, it was
\* an exec that timed out, it was refused without starting, the tool returned
\* a Go error, it was never executed, or recovery found it in flight.
Code == {"done", "unknown", "timeout", "refused", "internal_error",
         "not_executed", "recovery_effect_unknown"}

\* A refusal ends a run as a completed reply does.
RunStatus == {"completed", "cancelled", "provider_error", "incomplete_response",
              "protocol_error", "limit_exceeded", "effect_unknown", "tool_internal_error",
              "persistence_error"}

(***************************************************************************)
(* Transcript entries.                                                     *)
(***************************************************************************)
UserEntry(n) == [kind |-> "user", input |-> n]
ShellEntry(n) == [kind |-> "shell", input |-> n]
AssistantEntry(calls) == [kind |-> "assistant", calls |-> calls]
ToolEntry(c, code) == [kind |-> "tool", call |-> c, code |-> code]
SummaryEntry(covered) == [kind |-> "summary", covers |-> covered]

Entry == [kind : {"user", "shell"}, input : Nat]
            \cup [kind : {"assistant"}, calls : Seq(CallId)]
            \cup [kind : {"tool"}, call : CallId, code : Code]
            \cup [kind : {"summary"}, covers : SUBSET Nat]

\* pending is the submission saved before an automatic compaction, 0 for none.
Checkpoint == [history  : Seq(Entry),
               seen     : SUBSET CallId,
               blocked  : RunStatus \cup {""},
               pending  : Nat,
               plan     : BOOLEAN,
               phase    : Phase,
               inFlight : CallId \cup {NoCall}]

EmptySession == [history |-> <<>>, seen |-> {}, blocked |-> "", pending |-> 0,
                 plan |-> FALSE, phase |-> "idle", inFlight |-> NoCall]

\* The session as a checkpoint taken in that phase holds it.
At(session, phase, inFlight) ==
    [session EXCEPT !.phase = phase, !.inFlight = inFlight]

(***************************************************************************)
(* What a transcript says.                                                 *)
(***************************************************************************)
Positions(h, kind) == {i \in DOMAIN h : h[i].kind = kind}

CallsIn(h) == UNION {ToSet(h[i].calls) : i \in Positions(h, "assistant")}

AnsweredIn(h) == {h[i].call : i \in Positions(h, "tool")}

Unanswered(h) == CallsIn(h) \ AnsweredIn(h)

CoveredBy(h) == UNION {h[i].covers : i \in Positions(h, "summary")}

\* The user's inputs the transcript still carries, in words or in a summary.
InputsIn(h) == {h[i].input : i \in Positions(h, "user") \cup Positions(h, "shell")}
                  \cup CoveredBy(h)

NoRepeats(calls) == \A i, j \in DOMAIN calls : calls[i] = calls[j] => i = j

(***************************************************************************)
(* load: the checks on a checkpoint's transcript.  A call is accepted once *)
(* and recorded in seen, a result answers a call accepted before it and    *)
(* not yet answered, and only a batch in progress has unanswered calls.    *)
(***************************************************************************)
CallsAcceptedOnce(h, seen) ==
    /\ CallsIn(h) \subseteq seen
    /\ \A i \in Positions(h, "assistant") :
          /\ NoRepeats(h[i].calls)
          /\ \A j \in Positions(h, "assistant") \ {i} :
                ToSet(h[i].calls) \cap ToSet(h[j].calls) = {}

ResultsMatchCalls(h) ==
    \A i \in Positions(h, "tool") :
       /\ \E j \in Positions(h, "assistant") : j < i /\ h[i].call \in ToSet(h[j].calls)
       /\ \A j \in Positions(h, "tool") \ {i} : h[j].call # h[i].call

Loads(cp) ==
    /\ CallsAcceptedOnce(cp.history, cp.seen)
    /\ ResultsMatchCalls(cp.history)
    /\ IF cp.phase = "tool" THEN cp.inFlight \in Unanswered(cp.history)
                            ELSE cp.inFlight = NoCall
    /\ Unanswered(cp.history) # {} => cp.phase \in {"accepted", "tool"}

(***************************************************************************)
(* recoverInterrupted: every unanswered call gets a result, in output      *)
(* order, and a submission waiting for a compaction is kept as a message.  *)
(***************************************************************************)
Interrupted(cp) == cp.phase \notin {"terminal", "idle"} \/ cp.pending # 0

RecoveryCodeDenying(cp, c) == "not_executed"
RecoveryCode(cp, c) ==
    IF c = cp.inFlight THEN "recovery_effect_unknown" ELSE "not_executed"

Precedes(h, c, d) ==
    \E i, j \in Positions(h, "assistant") :
       \E a \in DOMAIN h[i].calls, b \in DOMAIN h[j].calls :
          /\ h[i].calls[a] = c /\ h[j].calls[b] = d
          /\ i < j \/ (i = j /\ a < b)

\* The unanswered calls in output order: one sequence for every transcript
\* that accepts a call once.
RecoveryOrders(h) ==
    {q \in [1..Cardinality(Unanswered(h)) -> Unanswered(h)] :
        \A a, b \in DOMAIN q : a < b => Precedes(h, q[a], q[b]) /\ q[a] # q[b]}

RecoveryResults(cp, order) ==
    [i \in DOMAIN order |-> ToolEntry(order[i], RecoveryCode(cp, order[i]))]

RecoveredSubmissionDropped(cp) == <<>>
RecoveredSubmission(cp) ==
    IF cp.pending = 0 THEN <<>> ELSE <<UserEntry(cp.pending)>>

Recovered(cp, order) ==
    IF ~Interrupted(cp) THEN cp
    ELSE [At(cp, "terminal", NoCall) EXCEPT
             !.history = @ \o RecoveryResults(cp, order) \o RecoveredSubmission(cp),
             !.pending = 0, !.blocked = ""]

Recoveries(cp) == {Recovered(cp, order) : order \in RecoveryOrders(cp.history)}
=============================================================================
