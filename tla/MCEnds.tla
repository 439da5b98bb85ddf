------------------------------- MODULE MCEnds -------------------------------
(***************************************************************************)
(* What must eventually happen, for TLC, one scene at a time: the calls of  *)
(* a run of RunLoop, a turn of AgentTree with two agents, a command of Exec *)
(* that never ends by itself, a case of CaseProcesses whose candidate does  *)
(* not exit, and a TerminalSession. Symmetry is not sound for liveness.     *)
(***************************************************************************)
EXTENDS Integers, Sequences, FiniteSets, TLC

CONSTANTS w, m, a1, a2, root, NoOne, c, d, i1, i2

VARIABLES
    scene,
    file, survivors, pc, s, run, batch, failed, inputs, crashes, started,
    node, act, aim, interrupted, carried, turns, runs,
    proc, ex, execs, cancelled, out, made, faults, hit,
    snap, owned, leaks, monitor, cand, close, pending, young, unnoted, struck, silent,
    todo, wrote, child, helper, queue, term, raw, events, shots, error, reader, note, stop, copy, record

common == <<pc, run, failed, proc>>      \* names that several modules have
loop == <<file, survivors, s, batch, inputs, crashes, started>>
tree == <<node, act, aim, interrupted, carried, turns, runs>>
command == <<ex, execs, cancelled, out, made, faults, hit>>
case == <<snap, owned, leaks, monitor, cand, close, pending, young, unnoted, struck, silent>>
terminal == <<todo, wrote, child, helper, queue, term, raw, events, shots, error, reader, note, stop,
              copy, record>>
vars == <<scene, common, loop, tree, command, case, terminal>>

\* A write and a call that names no tool, in a process that does not crash.
Answers == INSTANCE RunLoop WITH
    NoCall <- NoOne, CallId <- {w, m}, Kind <- (w :> "write" @@ m :> "missing"), MaxSteps <- 3, MaxToolCalls <- 3,
    InRunCompact <- FALSE, DiskRecovers <- FALSE, MaxBatch <- 2, MaxInputs <- 2, MaxCrashes <- 0

Team == INSTANCE AgentTree WITH
    Agent <- {a1, a2}, Root <- root, MaxLive <- 2, MaxDepth <- 2, MaxQueue <- 1, MaxRuns <- 1,
    MaxTurns <- 1

Bare == INSTANCE Exec WITH
    Agents <- {}, Overlap <- {}, Calls <- <<>>, Abilities <- {}, Statuses <- {},
    MaxPids <- 0, MaxFaults <- 0, MaxCalls <- 0

Command == INSTANCE Exec WITH
    Agents <- {a1}, Overlap <- {}, Calls <- [a \in {a1} |-> {[Bare!NoCall EXCEPT !.commands = <<"run">>]}],
    Abilities <- {"fork", "ignore", "setsid"}, Statuses <- {},
    MaxPids <- 2, MaxFaults <- 0, MaxCalls <- 1

Case == INSTANCE CaseProcesses WITH
    Lives <- {c, d}, Pids <- {i1, i2}, Foreign <- {}, Escapes <- FALSE, PidFds <- TRUE,
    MaxInvocations <- 1

\* A query between two texts, an update that is never closed, an unsupported
\* control.
Terminal == INSTANCE TerminalSession WITH
    Programs <- {<<"text", "ask", "text">>, <<"begin", "text">>, <<"text", "bad">>},
    Helpers <- {"none", "group", "escaped"}, Sizes <- {}, Labels <- {"a"}, RawLimit <- 2, MaxResizes <- 0

ASSUME Case!CaseProcessesAssumption
ASSUME Answers!ParameterAssumption /\ Team!AgentTreeAssumption /\ Command!ExecAssumption

NoLoop ==
    /\ file = 0 /\ survivors = 0 /\ s = 0 /\ batch = 0 /\ inputs = 0 /\ crashes = 0 /\ started = 0
NoTree ==
    /\ node = 0 /\ act = 0 /\ aim = 0 /\ interrupted = 0 /\ carried = 0 /\ turns = 0 /\ runs = 0
NoCommand ==
    /\ ex = 0 /\ execs = 0 /\ cancelled = 0 /\ out = 0 /\ made = 0 /\ faults = 0 /\ hit = 0
NoCase ==
    /\ snap = 0 /\ owned = 0 /\ leaks = 0 /\ monitor = 0 /\ cand = 0 /\ close = 0 /\ pending = 0
    /\ young = 0 /\ unnoted = 0 /\ struck = 0 /\ silent = 0
NoTerminal ==
    /\ todo = 0 /\ wrote = 0 /\ child = 0 /\ helper = 0 /\ queue = 0 /\ term = 0 /\ raw = 0 /\ events = 0
    /\ shots = 0 /\ error = 0 /\ reader = 0 /\ note = 0 /\ stop = 0 /\ copy = 0 /\ record = 0

Init ==
    \/ /\ scene = "calls" /\ Answers!Init /\ proc = 0
       /\ NoTree /\ NoCommand /\ NoCase /\ NoTerminal
    \/ /\ scene = "turn" /\ Team!Init /\ pc = 0 /\ run = 0 /\ failed = 0 /\ proc = 0
       /\ NoLoop /\ NoCommand /\ NoCase /\ NoTerminal
    \/ /\ scene = "command" /\ Command!Init /\ pc = 0 /\ run = 0 /\ failed = 0
       /\ NoLoop /\ NoTree /\ NoCase /\ NoTerminal
    \/ /\ scene = "case" /\ Case!CaseInit /\ failed = 0
       /\ NoLoop /\ NoTree /\ NoCommand /\ NoTerminal
    \/ /\ scene = "terminal" /\ Terminal!SessionInit /\ run = 0 /\ proc = 0
       /\ NoLoop /\ NoTree /\ NoCommand /\ NoCase

InCalls == scene = "calls" /\ UNCHANGED <<scene, proc, tree, command, case, terminal>>
InTurn == scene = "turn" /\ UNCHANGED <<scene, common, loop, command, case, terminal>>
InCommand == scene = "command" /\ UNCHANGED <<scene, pc, run, failed, loop, tree, case, terminal>>
InCase == scene = "case" /\ UNCHANGED <<scene, failed, loop, tree, command, terminal>>
InTerminal == scene = "terminal" /\ UNCHANGED <<scene, run, proc, loop, tree, command, case>>

Next ==
    \/ InCalls /\ Answers!Next
    \/ InTurn /\ Team!Next
    \/ InCommand /\ Command!Next
    \/ InCase /\ Case!CaseNext
    \/ InTerminal /\ Terminal!SessionNext

-----------------------------------------------------------------------------
(* The fairness of the modules. A behaviour stays in its scene, so    *)
(* that fairness of a disjunction over scenes is fairness in each of them.  *)
Fairness ==
    /\ WF_vars(\/ InCalls /\ Answers!Progress
               \/ InTurn /\ Team!Turn(root)
               \/ InCommand /\ Command!Harness(a1)
               \/ InCase /\ Case!MainThread
               \/ InTerminal /\ Terminal!Waiter)
    /\ WF_vars(\/ InTurn /\ Team!TurnEnds
               \/ InCommand /\ Command!Deadline(a1)
               \/ InCase /\ Case!MonitorGoesOn
               \/ InTerminal /\ Terminal!Reader)
    /\ WF_vars(\/ InTurn /\ Team!Turn(a1)
               \/ InCommand /\ 1 \in Command!Pids /\ Command!Die(1)
               \/ InTerminal /\ Terminal!Finishing)
    /\ WF_vars(\/ InTurn /\ Team!Turn(a2)
               \/ InCommand /\ 2 \in Command!Pids /\ Command!Die(2))
    /\ WF_vars(InTurn /\ Team!Publish(a1))
    /\ WF_vars(InTurn /\ Team!Publish(a2))

Spec == Init /\ [][Next]_vars /\ Fairness

-----------------------------------------------------------------------------
(* Properties. *)

\* Something is due: a call has no result, a turn is cancelled, a command, a
\* case or the end of a session goes on.
Due ==
    \/ scene = "calls" /\ \E call \in {w, m} : ~Answers!Answered(call)
    \/ scene = "turn" /\ interrupted /\ act[root] \in Team!Turning
    \/ scene = "command" /\ ex[a1].pc # "idle"
    \/ scene = "case" /\ pc # "closed"
    \/ scene = "terminal" /\ pc = "waiting"

Met ==
    \/ scene = "calls" /\ (pc = "down" \/ \A call \in {w, m} : Answers!Answered(call))
    \/ scene = "turn" /\ act[root] = "off" /\ \A n \in {a1, a2} : ~node[n].working
    \/ scene = "command" /\ ex[a1].pc = "idle"
    \/ scene = "case" /\ pc = "closed"
    \/ scene = "terminal" /\ pc = "done"

Failing == scene = "turn" /\ \E a \in Team!Session : act[a] = "failing"

\* Every accepted call gets its result if the process lives, a cancelled turn
\* ends with every agent stopped, and a call of exec returns even when its
\* command never ends, a case comes to its end, and finish returns. A turn or an
\* agent that has failed does not wait for work that nobody has cancelled.
EverythingEnds == (Due ~> Met) /\ (Failing ~> ~Failing)
=============================================================================
