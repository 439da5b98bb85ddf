--------------------------------- MODULE Exec ---------------------------------
(***************************************************************************)
(* exec: commands run one after another by the root and its agents          *)
(* (tool_exec.go), the trees of processes they grow, and their termination  *)
(* on a timeout or a cancellation (exec_processes.go).  The processes of a  *)
(* command do as they like: they fork, leave for a session of their own,    *)
(* join the harness' group, close their output, ignore SIGTERM and exit.    *)
(* Both output pipes are one: they are opened, read and closed alike.       *)
(* Process ids are not used again.                                          *)
(***************************************************************************)
EXTENDS Naturals, Sequences, FiniteSets

CONSTANTS
  Agents,      \* who may call exec: the root and its agents
  Overlap,     \* the agents whose workspace roots lie within each other
  Calls,       \* bound: agent -> the arguments it may call exec with
  Abilities,   \* bound: what the processes of commands may do besides ending
  Statuses,    \* bound: how they may end by themselves
  MaxPids,     \* bound: processes started by commands
  MaxFaults,   \* bound: reads of the process table that fail
  MaxCalls     \* bound: calls of each agent

\* What the arguments of a call come to: commands that run, that are not found,
\* that cannot be started, that are empty or contain a NUL.
Arguments ==
  [argv : {"ok", "null", "string"}, timeout : [given : {"omitted", "null", "bad", "int"}, ms : Nat],
   cwd : {"dir", "escape", "missing", "file"},
   commands : Seq({"run", "missing", "unstartable", "empty", "nul"})]

ASSUME ExecAssumption ==
  /\ Overlap \subseteq Agents \X Agents
  /\ \A a, b \in Agents : <<a, b>> \in Overlap => <<b, a>> \in Overlap
  /\ DOMAIN Calls = Agents
  /\ \A a \in Agents : \A k \in Calls[a] : k \in Arguments /\ k.commands # <<>>
  /\ {MaxPids, MaxFaults, MaxCalls} \subseteq Nat

VARIABLES
  proc,       \* pid -> the process; 0 is the harness and the leader of its group
  ex,         \* agent -> its call: where it is and the command it runs
  execs,      \* agentTree.execs: the agents that run a command
  cancelled,  \* agents whose run is cancelled
  out,        \* agent -> the outcome of its last call
  made,       \* agent -> calls made
  faults,     \* failed reads of the process table
  hit         \* pids the harness sent a signal to that ends a process

vars == <<proc, ex, execs, cancelled, out, made, faults, hit>>

Reaper == MaxPids + 1   \* init
Pids == DOMAIN proc \ {0}
Executing(p) == proc[p].st = "run"
Alive(p) == proc[p].st \in {"run", "dying"}
Exists(p) == proc[p].st # "gone"

-----------------------------------------------------------------------------
(* Processes and signals. *)

Process(parent, group, pipe, resists, owner) ==
  [st |-> "run", parent |-> parent, group |-> group, pipe |-> pipe,
   resists |-> resists, status |-> "none", owner |-> owner]

Gone(p) == [proc[p] EXCEPT !.st = "gone", !.group = p, !.pipe = 0, !.resists = FALSE]

\* A process that ends leaves its children to init, which reaps them.
Ended(p, status) ==
  [q \in DOMAIN proc |->
     IF q = p
     THEN IF proc[p].parent = Reaper THEN Gone(p)
          ELSE [proc[p] EXCEPT !.st = "zombie", !.pipe = 0, !.resists = FALSE,
                               !.status = IF proc[p].parent = 0 THEN status ELSE "none"]
     ELSE IF proc[q].parent # p THEN proc[q]
     ELSE IF proc[q].st = "zombie" THEN [Gone(q) EXCEPT !.parent = Reaper]
     ELSE [proc[q] EXCEPT !.parent = Reaper]]

Fork(p) ==
  /\ Executing(p) /\ Cardinality(Pids) < MaxPids
  /\ LET q == Cardinality(Pids) + 1
         child == Process(p, proc[p].group, proc[p].pipe, proc[p].resists, proc[p].owner)
     IN proc' = [r \in DOMAIN proc \cup {q} |-> IF r = q THEN child ELSE proc[r]]
  /\ UNCHANGED <<ex, execs, cancelled, out, made, faults, hit>>

Changes(p, new) ==
  /\ Executing(p) /\ new # proc[p]
  /\ proc' = [proc EXCEPT ![p] = new]
  /\ UNCHANGED <<ex, execs, cancelled, out, made, faults, hit>>

Redirect(p) == Changes(p, [proc[p] EXCEPT !.pipe = 0])
Ignore(p) == Changes(p, [proc[p] EXCEPT !.resists = TRUE])
Setsid(p) == (\A q \in Pids : proc[q].group # p) /\ Changes(p, [proc[p] EXCEPT !.group = p])
JoinHarness(p) ==   \* within the session of the harness
  /\ proc[p].group # 0 /\ proc[proc[p].group].parent = 0
  /\ Changes(p, [proc[p] EXCEPT !.group = 0])

Exit(p, status) ==
  /\ Executing(p)
  /\ proc' = Ended(p, status)
  /\ UNCHANGED <<ex, execs, cancelled, out, made, faults, hit>>

\* A signal has been delivered; the process takes a while to be gone.
Die(p) ==
  /\ proc[p].st = "dying"
  /\ proc' = Ended(p, "signal")
  /\ UNCHANGED <<ex, execs, cancelled, out, made, faults, hit>>

Reap(p) ==
  /\ proc[p].st = "zombie" /\ proc[p].parent \in Pids /\ Executing(proc[p].parent)
  /\ proc' = [proc EXCEPT ![p] = Gone(p)]
  /\ UNCHANGED <<ex, execs, cancelled, out, made, faults, hit>>

\* kill(2) with SIGTERM or SIGKILL, of processes and whole groups.
Signal(sig, pids, groups) ==
  LET reached == {p \in DOMAIN proc : Executing(p) /\ (p \in pids \/ proc[p].group \in groups)}
      ends == {p \in reached : sig = "KILL" \/ ~proc[p].resists}
  IN /\ proc' = [p \in DOMAIN proc |->
                   IF p \in ends THEN [proc[p] EXCEPT !.st = "dying"] ELSE proc[p]]
     /\ hit' = hit \cup ends

-----------------------------------------------------------------------------
(* execTool.Execute *)

NoCall == [argv |-> "ok", timeout |-> [given |-> "omitted", ms |-> 0], cwd |-> "dir", commands |-> <<>>]

\* pc: where run is; w: the goroutine that waits for the context's end.
Idle == [pc |-> "idle", call |-> NoCall, step |-> 0, leader |-> 0, timed |-> FALSE, w |-> "off",
         todo |-> {}, rows |-> {}, alive |-> {}, unverified |-> FALSE, incomplete |-> FALSE,
         effect |-> "none", told |-> {}]

Outcome(code, effect) ==
  [code |-> code, effect |-> effect, steps |-> 0, survivors |-> {}, incomplete |-> FALSE,
   reason |-> "none", status |-> "none"]

\* What Execute refuses before anything runs, in its order.
refusal(k) ==
  IF \/ k.argv # "ok" \/ k.timeout.given \in {"null", "bad"}
     \/ (k.timeout.given = "int" /\ k.timeout.ms < 1)
     \/ Len(k.commands) > 8
     \/ \E i \in DOMAIN k.commands : k.commands[i] \in {"empty", "nul"}
  THEN "invalid_arguments"
  ELSE CASE k.cwd = "escape" -> "invalid_path"
         [] k.cwd = "missing" -> "not_found"
         [] k.cwd = "file" -> "not_directory"
         [] OTHER -> ""

\* How long each command may run: two minutes by default, ten seconds at least.
timeoutMs(k) ==
  IF k.timeout.given = "omitted" THEN 120000
  ELSE IF k.timeout.ms < 10000 THEN 10000 ELSE k.timeout.ms

Init ==
  /\ proc = [p \in {0} |-> Process(0, 0, 0, FALSE, "harness")]
  /\ ex = [a \in Agents |-> Idle]
  /\ execs = {}
  /\ cancelled = {}
  /\ out = [a \in Agents |-> Outcome("none", "none")]
  /\ made = [a \in Agents |-> 0]
  /\ faults = 0
  /\ hit = {}

Execute(a, k) ==
  /\ ex[a].pc = "idle" /\ made[a] < MaxCalls /\ a \notin cancelled
  /\ made' = [made EXCEPT ![a] = @ + 1]
  /\ IF refusal(k) # ""
     THEN ex' = [ex EXCEPT ![a] = Idle] /\ out' = [out EXCEPT ![a] = Outcome(refusal(k), "none")]
     ELSE /\ ex' = [ex EXCEPT ![a] = [Idle EXCEPT !.pc = "register", !.call = k, !.step = 1]]
          /\ UNCHANGED out
  /\ UNCHANGED <<proc, execs, cancelled, faults, hit>>

\* faulty: an agent looks first and enters itself when its command has started.
startExecLate(a) ==
  /\ ex[a].pc = "register"
  /\ ex' = [ex EXCEPT ![a].pc = "start", ![a].told = {b \in execs : <<a, b>> \in Overlap}]
  /\ execs' = execs \cup {b \in Agents : ex[b].pc \in {"wait", "reaped"}}
  /\ UNCHANGED <<proc, cancelled, out, made, faults, hit>>

\* agentTree.startExec: who else runs a command, and from now on this one does.
startExec(a) ==
  /\ ex[a].pc = "register"
  /\ ex' = [ex EXCEPT ![a].pc = "start", ![a].told = {b \in execs \ {a} : <<a, b>> \in Overlap}]
  /\ execs' = execs \cup {a}
  /\ UNCHANGED <<proc, cancelled, out, made, faults, hit>>

\* faulty: the command stays in the group of the harness.
StartInGroup(a) ==
  /\ ex[a].pc = "start"
  /\ LET kind == ex[a].call.commands[ex[a].step]
         q == Cardinality(Pids) + 1
     IN IF kind \in {"missing", "unstartable"} \/ a \in cancelled \/ ex[a].timed
        THEN ex' = [ex EXCEPT ![a].pc = "classify"] /\ UNCHANGED proc
        ELSE /\ q <= MaxPids
             /\ proc' = [r \in DOMAIN proc \cup {q} |->
                           IF r = q THEN Process(0, 0, q, FALSE, a) ELSE proc[r]]
             /\ ex' = [ex EXCEPT ![a].pc = "wait", ![a].leader = q, ![a].w = "armed"]
  /\ UNCHANGED <<execs, cancelled, out, made, faults, hit>>

\* command.Start: the leader of a group of its own, holding the pipe.
Start(a) ==
  /\ ex[a].pc = "start"
  /\ LET kind == ex[a].call.commands[ex[a].step]
         q == Cardinality(Pids) + 1
     IN IF kind \in {"missing", "unstartable"} \/ a \in cancelled \/ ex[a].timed
        THEN ex' = [ex EXCEPT ![a].pc = "classify"] /\ UNCHANGED proc
        ELSE /\ q <= MaxPids
             /\ proc' = [r \in DOMAIN proc \cup {q} |->
                           IF r = q THEN Process(0, q, q, FALSE, a) ELSE proc[r]]
             /\ ex' = [ex EXCEPT ![a].pc = "wait", ![a].leader = q, ![a].w = "armed"]
  /\ UNCHANGED <<execs, cancelled, out, made, faults, hit>>

\* The deadline of the command's context passes, or the run is cancelled.
Deadline(a) ==
  /\ ex[a].pc \notin {"idle", "register"} /\ ~ex[a].timed
  /\ ex' = [ex EXCEPT ![a].timed = TRUE]
  /\ UNCHANGED <<proc, execs, cancelled, out, made, faults, hit>>

Cancel(a) ==
  /\ ex[a].pc # "idle" /\ a \notin cancelled
  /\ cancelled' = cancelled \cup {a}
  /\ UNCHANGED <<proc, ex, execs, out, made, faults, hit>>

-----------------------------------------------------------------------------
(* terminateExecTree, run by the context's goroutine. *)

\* The names in /proc are listed, then each is read; ps fails or is whole.
SnapshotBegins(a) ==
  /\ ex[a].w = "armed" /\ (ex[a].timed \/ a \in cancelled)
  /\ ex' = [ex EXCEPT ![a].w = "reading", ![a].todo = {p \in Pids : Exists(p)}]
  /\ UNCHANGED <<proc, execs, cancelled, out, made, faults, hit>>

\* A process gone by now is left out.
ReadStat(a) ==
  /\ ex[a].w = "reading" /\ ex[a].todo # {}
  /\ LET p == CHOOSE p \in ex[a].todo : \A q \in ex[a].todo : p <= q
         row == {[pid |-> p, ppid |-> proc[p].parent, pgid |-> proc[p].group]}
     IN ex' = [ex EXCEPT ![a].todo = @ \ {p}, ![a].rows = @ \cup (IF Exists(p) THEN row ELSE {})]
  /\ UNCHANGED <<proc, execs, cancelled, out, made, faults, hit>>

SnapshotFails(a) ==
  /\ ex[a].w = "reading" /\ faults < MaxFaults
  /\ faults' = faults + 1
  /\ ex' = [ex EXCEPT ![a].todo = {}, ![a].rows = {}, ![a].unverified = TRUE]
  /\ UNCHANGED <<proc, execs, cancelled, out, made, hit>>

\* The leader and whoever descends from it by the rows read: the least set of
\* them that has the children of its own.
descendants(pid, rows) ==
  LET leader == [pid |-> pid, pgid |-> pid, ppid |-> 0]
      all == rows \cup {leader}
      closed(T) == leader \in T /\ \A t \in T, r \in rows : r.ppid = t.pid => r \in T
  IN {t \in all : \A T \in SUBSET all : closed(T) => t \in T}

tree(a) == descendants(ex[a].leader, ex[a].rows)
treePids(a) == {t.pid : t \in tree(a)}

\* faulty: every group found in the tree is signalled, the harness' too.
groupsAll(a) == {t.pgid : t \in tree(a)}

\* A descendant may have joined the harness' group: that one is spared.
groups(a) == {t.pgid : t \in tree(a)} \ {0}

Term(a) ==
  /\ ex[a].w = "reading" /\ ex[a].todo = {}
  /\ Signal("TERM", treePids(a), groups(a))
  /\ ex' = [ex EXCEPT ![a].w = "grace"]
  /\ UNCHANGED <<execs, cancelled, out, made, faults>>

\* faulty: only the processes of the snapshot are killed, not their groups.
KillTree(a) ==
  /\ ex[a].w = "grace"
  /\ Signal("KILL", treePids(a), {})
  /\ ex' = [ex EXCEPT ![a].w = "check"]
  /\ UNCHANGED <<execs, cancelled, out, made, faults>>

\* After the grace period of 200 ms.
Kill(a) ==
  /\ ex[a].w = "grace"
  /\ Signal("KILL", treePids(a), groups(a))
  /\ ex' = [ex EXCEPT ![a].w = "check"]
  /\ UNCHANGED <<execs, cancelled, out, made, faults>>

liveExecPIDs(a) == {p \in treePids(a) : Alive(p)}

\* Polled until none is alive or 200 ms have passed.
Checked(a) ==
  /\ ex[a].w = "check"
  /\ ex' = [ex EXCEPT ![a].w = "done", ![a].alive = liveExecPIDs(a)]
  /\ UNCHANGED <<proc, execs, cancelled, out, made, faults, hit>>

CheckFails(a) ==
  /\ ex[a].w = "check" /\ faults < MaxFaults /\ \E p \in treePids(a) : Exists(p)
  /\ faults' = faults + 1
  /\ ex' = [ex EXCEPT ![a].w = "done", ![a].unverified = TRUE,
                      ![a].alive = {p \in treePids(a) : Exists(p)}]
  /\ UNCHANGED <<proc, execs, cancelled, out, made, hit>>

-----------------------------------------------------------------------------
(* command.Wait, the wait for the output, and the outcome. *)

Wait(a) ==
  /\ ex[a].pc = "wait" /\ proc[ex[a].leader].st = "zombie"
  /\ proc' = [proc EXCEPT ![ex[a].leader] = Gone(ex[a].leader)]
  /\ ex' = [ex EXCEPT ![a].pc = "reaped"]
  /\ UNCHANGED <<execs, cancelled, out, made, faults, hit>>

\* Wait joins the context's goroutine, which may be about to begin.
Joined(a) ==
  /\ ex[a].pc = "reaped" /\ ex[a].w \in {"armed", "done"}
  /\ ex' = [ex EXCEPT ![a].pc = "output", ![a].w = IF @ = "armed" THEN "off" ELSE @]
  /\ UNCHANGED <<proc, execs, cancelled, out, made, faults, hit>>

Holders(leader) == {p \in Pids : Alive(p) /\ proc[p].pipe = leader}

OutputEnds(a) ==
  /\ ex[a].pc = "output" /\ Holders(ex[a].leader) = {}
  /\ ex' = [ex EXCEPT ![a].pc = "classify"]
  /\ UNCHANGED <<proc, execs, cancelled, out, made, faults, hit>>

\* One second later the readers give up and the leader's group is killed.
OutputGivenUp(a) ==
  /\ ex[a].pc = "output"
  /\ Signal("KILL", {}, {ex[a].leader})
  /\ ex' = [ex EXCEPT ![a].pc = "classify", ![a].incomplete = TRUE]
  /\ UNCHANGED <<execs, cancelled, out, made, faults>>

classifyRun(a) ==
  LET e == ex[a]
      kind == e.call.commands[e.step]
  IN IF e.leader = 0
     THEN <<IF kind = "missing" THEN "executable_not_found"
            ELSE IF a \in cancelled THEN "cancelled" ELSE "process_start_failed", "none">>
     ELSE IF a \in cancelled THEN <<"cancelled", "unknown">>
     ELSE IF e.timed THEN <<"timeout", "unknown">>
     ELSE IF e.incomplete THEN <<"output_wait_failed", "unknown">>
     ELSE IF proc[e.leader].status # "zero" THEN <<"command_failed", "applied">>
     ELSE <<"ok", "applied">>

\* The effect of a chain after one more command.
chainEffect(so_far, effect) ==
  IF effect = "unknown" \/ (effect = "applied" /\ so_far = "none") THEN effect ELSE so_far

\* The outcome of the command that has just run.
outcome(a) ==
  LET e == ex[a]
      started == e.leader # 0
      own == IF e.unverified \/ e.alive # {} THEN "unknown" ELSE classifyRun(a)[2]
  IN [code |-> classifyRun(a)[1], effect |-> chainEffect(e.effect, own), steps |-> e.step,
      survivors |-> e.alive, incomplete |-> e.incomplete,
      reason |-> CASE started /\ a \in cancelled -> "cancelled"
                   [] started /\ a \notin cancelled /\ e.timed -> "timeout"
                   [] OTHER -> "none",
      status |-> IF started THEN proc[e.leader].status ELSE "none"]

goesOn(a, o) == o.code = "ok" /\ ex[a].step < Len(ex[a].call.commands)

\* runChain takes the outcome and starts the next command, or ends the call.
Classify(a) ==
  /\ ex[a].pc = "classify"
  /\ LET o == outcome(a)
         next == [Idle EXCEPT !.pc = "register", !.call = ex[a].call, !.step = ex[a].step + 1,
                              !.effect = o.effect]
     IN IF goesOn(a, o)
        THEN ex' = [ex EXCEPT ![a] = next] /\ UNCHANGED out
        ELSE ex' = [ex EXCEPT ![a].pc = "idle"] /\ out' = [out EXCEPT ![a] = o]
  /\ execs' = execs \ {a}
  /\ UNCHANGED <<proc, cancelled, made, faults, hit>>

\* What the processes of the commands do, while a call is under way.
Acts(p) ==
  \/ "fork" \in Abilities /\ Fork(p)
  \/ "redirect" \in Abilities /\ Redirect(p)
  \/ "ignore" \in Abilities /\ Ignore(p)
  \/ "setsid" \in Abilities /\ Setsid(p)
  \/ "join" \in Abilities /\ JoinHarness(p)
  \/ Reap(p)
  \/ \E s \in Statuses : Exit(p, s)

Harness(a) ==
  \/ startExec(a) \/ Start(a) \/ Wait(a) \/ Joined(a) \/ OutputEnds(a) \/ OutputGivenUp(a)
  \/ Classify(a) \/ SnapshotBegins(a) \/ ReadStat(a) \/ Term(a) \/ Kill(a) \/ Checked(a)

Busy == \E a \in Agents : ex[a].pc # "idle"

Next ==
  \/ Busy /\ \E p \in Pids : Acts(p) \/ Die(p)
  \/ \E a \in Agents :
       \/ Harness(a) \/ Deadline(a) \/ Cancel(a) \/ SnapshotFails(a) \/ CheckFails(a)
       \/ \E k \in Calls[a] : Execute(a, k)

\* The goroutines go on, timers expire, and a killed process ends; a command
\* itself may run for ever.
Fairness ==
  /\ \A a \in Agents : WF_vars(Harness(a)) /\ WF_vars(Deadline(a))
  /\ \A p \in 1 .. MaxPids : WF_vars(p \in Pids /\ Die(p))

Spec == Init /\ [][Next]_vars /\ Fairness

-----------------------------------------------------------------------------
(* Properties. *)

Done(a) == ex[a].pc = "idle" /\ out[a].code # "none"
Own(a) == {p \in Pids : proc[p].owner = a}
Leaders(a) == {p \in Own(a) : proc[p].parent = 0}

Status == Statuses \cup {"none", "signal"}

ProcessType ==
  [st : {"run", "dying", "zombie", "gone"}, parent : Nat, group : Nat, pipe : Nat,
   resists : BOOLEAN, status : Status, owner : Agents \cup {"harness"}]

CallType ==
  [pc : {"idle", "register", "start", "wait", "reaped", "output", "classify"},
   call : Arguments, step : Nat, leader : Nat, timed : BOOLEAN,
   w : {"off", "armed", "reading", "grace", "check", "done"},
   todo : SUBSET Nat, rows : SUBSET [pid : Nat, ppid : Nat, pgid : Nat], alive : SUBSET Nat,
   unverified : BOOLEAN, incomplete : BOOLEAN, effect : {"none", "applied", "unknown"},
   told : SUBSET Agents]

OutcomeType ==
  [code : {"none", "invalid_arguments", "invalid_path", "not_found", "not_directory",
           "executable_not_found", "process_start_failed", "output_wait_failed",
           "command_failed", "cancelled", "timeout", "ok"},
   effect : {"none", "applied", "unknown"}, steps : Nat, survivors : SUBSET Nat,
   incomplete : BOOLEAN, reason : {"none", "cancelled", "timeout"}, status : Status]

TypeOK ==
  /\ \E n \in 0 .. MaxPids : proc \in [0 .. n -> ProcessType]
  /\ ex \in [Agents -> CallType]
  /\ execs = {a \in Agents : ex[a].pc \notin {"idle", "register"}}
  /\ cancelled \subseteq Agents
  /\ out \in [Agents -> OutcomeType]
  /\ made \in [Agents -> Nat] /\ faults \in Nat
  /\ hit \subseteq Pids

\* The effect is never understated: "none" when no process was started, and
\* "applied" only when the harness ended nothing the call started and the last
\* command's output was read to its end.
EffectTrue ==
  \A a \in Agents : Done(a) /\ made[a] = 1 =>
    /\ out[a].effect = "none" <=> Own(a) = {}
    /\ out[a].effect = "applied" =>
         Own(a) \cap hit = {} /\ (ex[a].leader # 0 => Holders(ex[a].leader) = {})

\* "ok" means every command ended by itself with status 0, before any timeout
\* or cancellation was seen.
OkMeansDone ==
  \A a \in Agents : Done(a) /\ out[a].code = "ok" =>
    /\ out[a].steps = Len(ex[a].call.commands) /\ out[a].effect = "applied"
    /\ proc[ex[a].leader].status = "zero"
    /\ ex[a].w = "off" /\ ~ex[a].timed /\ a \notin cancelled

\* Once a cancelled or timed out command's tree has been terminated, nothing in
\* its group runs on, whatever the group forked since the snapshot.
GroupEnds ==
  \A a \in Agents : ex[a].w \in {"check", "done"} =>
    \A p \in Pids : proc[p].group = ex[a].leader => ~Executing(p)

\* As the code's comment has it: no process of the group outlives a command
\* that is reported cancelled or timed out.
NoneOutlives ==
  \A a \in Agents : (Done(a) /\ ex[a].leader # 0 /\ out[a].code \in {"cancelled", "timeout"}) =>
    \A p \in Pids : proc[p].group = ex[a].leader => ~Executing(p)

\* A process of the snapshot that is alive at the outcome is named in it, and
\* the effect is then unknown.
SurvivorsNamed ==
  \A a \in Agents : Done(a) /\ ex[a].w = "done" =>
    /\ {p \in treePids(a) : Alive(p)} \subseteq out[a].survivors
    /\ out[a].survivors # {} => out[a].effect = "unknown"

\* A signal reaches only what the agent's own commands started: neither the
\* harness, whose group a descendant may join, nor another agent's processes.
OnlyOwn == \A a \in Agents : ex'[a] # ex[a] => hit' \ hit \subseteq Own(a)

\* A command of a chain starts only after every command before it has ended by
\* itself with status 0 and nothing holds its output.
ChainStops ==
  \A a \in Agents : ex'[a].leader \notin {0, ex[a].leader} /\ made[a] = 1 =>
    /\ Own(a) \cap hit = {}
    /\ \A p \in Leaders(a) : proc[p].status = "zero" /\ Holders(p) = {}

\* Two agents that run commands in overlapping workspaces at once: the later
\* one is told of the other.
OverlapTold ==
  \A a, b \in Agents :
    (a # b /\ <<a, b>> \in Overlap /\ {ex[a].pc, ex[b].pc} \cap {"idle", "register"} = {}) =>
      a \in ex[b].told \/ b \in ex[a].told

\* Nothing in the group of a command that was cancelled or timed out runs on
\* once its tree has been terminated, and what is still alive is named.
TreesEnd == GroupEnds /\ SurvivorsNamed

\* The outcome says of the effect and of success what happened, and of two
\* commands in overlapping workspaces one is told of the other.
OutcomesTrue == EffectTrue /\ OkMeansDone /\ OverlapTold

\* Signals reach only what the call started, and a chain goes on only after a
\* command that ended well with nothing holding its output.
OwnProcessesOnly == [][OnlyOwn /\ ChainStops]_vars

=============================================================================
