------------------------------ MODULE ExecCases ------------------------------
(***************************************************************************)
(* The scripted cases of parity/cases/tools_exec.py run against Exec: what  *)
(* each process does is given by its script, a timeout or an interruption   *)
(* comes when the whole tree is ready, and every interleaving must give the *)
(* outcome the case asserts.                                                *)
(***************************************************************************)
EXTENDS Exec, FiniteSetsExt

VARIABLES
  test,   \* the case
  at      \* pid -> how far it is in its script

CONSTANT tool   \* the agent that calls exec

caseVars == <<proc, ex, execs, cancelled, out, made, faults, hit, test, at>>

-----------------------------------------------------------------------------
(* The cases.  A script is what a process does, by the order of its start. *)

Args(commands) == [NoCall EXCEPT !.commands = commands]
Runs(n) == [i \in 1 .. n |-> "run"]
Ends(status) == <<status>>

Expected(code, effect, steps, ran) ==
  [code |-> code, effect |-> effect, steps |-> steps, ran |-> ran, status |-> "none",
   reason |-> "none", incomplete |-> FALSE, executing |-> {}, termed |-> {}, ms |-> 120000]

Case(id, call, scripts, when, expect) ==
  [id |-> id, call |-> call, scripts |-> scripts, when |-> when, expect |-> expect]

\* _invalid: refused before any process.
invalid ==
  LET ok == Args(Runs(1))
      Timeout(given, ms) == [ok EXCEPT !.timeout = [given |-> given, ms |-> ms]]
      Refused(id, call, code) == Case(id, call, <<>>, "never", Expected(code, "none", 0, 0))
      bad == "invalid_arguments"
  IN {Refused("string-vector", [ok EXCEPT !.argv = "string"], bad),
      Refused("null-vector", [ok EXCEPT !.argv = "null"], bad),
      Refused("empty-vector", Args(<<"empty">>), bad),
      Refused("nul", Args(<<"nul">>), bad),
      Refused("then-nine", Args(Runs(9)), bad),
      Refused("then-invalid", Args(<<"run", "empty">>), bad),
      Refused("cwd-missing", [ok EXCEPT !.cwd = "missing"], "not_found"),
      Refused("cwd-file", [ok EXCEPT !.cwd = "file"], "not_directory"),
      Refused("cwd-escape", [ok EXCEPT !.cwd = "escape"], "invalid_path"),
      Refused("timeout-zero", Timeout("int", 0), bad),
      Refused("timeout-fraction", Timeout("bad", 0), bad),
      Refused("timeout-null", Timeout("null", 0), bad)}

\* _timeout_value: the default, and the floor of ten seconds.
timeout_value ==
  {Case("timeout", [Args(Runs(1)) EXCEPT !.timeout = [given |-> g, ms |-> 1]], <<Ends("zero")>>,
        "never", [Expected("ok", "applied", 1, 1) EXCEPT !.status = "zero",
                     !.ms = IF g = "omitted" THEN 120000 ELSE 10000]) : g \in {"omitted", "int"}}

\* _status: exits, signals, and commands that do not start.
status ==
  LET One(id, kind, script, code, effect, ran, s) ==
        Case(id, Args(<<kind>>), <<Ends(script)>>, "never",
             [Expected(code, effect, 1, ran) EXCEPT !.status = s])
  IN {One("success", "run", "zero", "ok", "applied", 1, "zero"),
      One("nonzero", "run", "seven", "command_failed", "applied", 1, "seven"),
      One("signal", "run", "signal", "command_failed", "applied", 1, "signal"),
      One("missing", "missing", "zero", "executable_not_found", "none", 0, "none"),
      One("start", "unstartable", "zero", "process_start_failed", "none", 0, "none")}

\* _chain: all of n commands, or those up to the one that fails.
chain ==
  {Case("success", Args(Runs(n)), [i \in 1 .. n |-> Ends("zero")], "never",
        [Expected("ok", "applied", n, n) EXCEPT !.status = "zero"]) : n \in 1 .. 8}
  \cup
  {Case("failure", Args(Runs(8)), [i \in 1 .. f |-> Ends(IF i = f THEN "seven" ELSE "zero")], "never",
        [Expected("command_failed", "applied", f, f) EXCEPT !.status = "seven"]) : f \in {1, 4, 8}}

\* exec_tree.py: the leader forks a child and it a grandchild, both deaf to
\* SIGTERM; all wait, or the leader exits when they are ready.
exec_tree(mode, pipes, escape) ==
  LET quiet == IF pipes = "redirected" THEN <<"redirect">> ELSE <<>>
      away == IF escape THEN <<"setsid">> ELSE <<>>
      leader == <<"fork", "ready">> \o (IF mode = "natural" THEN <<"zero">> ELSE <<>>)
  IN <<leader, <<"fork">> \o quiet \o <<"ignore">>, away \o quiet \o <<"ignore">>, Ends("zero")>>

\* _tree: what is left executing, what SIGTERM reached, and whether the command
\* after it ran.
tree_cases ==
  LET Tree(mode, pipes, escape) ==
        LET background == mode = "natural" /\ pipes = "redirected"
            code == CASE mode = "natural" -> IF background THEN "ok" ELSE "output_wait_failed"
                      [] OTHER -> mode
        IN Case(mode, Args(Runs(2)), exec_tree(mode, pipes, escape),
                IF mode = "natural" THEN "never" ELSE mode,
                [Expected(code, IF background THEN "applied" ELSE "unknown",
                          IF background THEN 2 ELSE 1, IF background THEN 2 ELSE 1)
                   EXCEPT !.status = IF mode = "natural" THEN "zero" ELSE "signal",
                          !.reason = IF mode = "natural" THEN "none" ELSE mode,
                          !.incomplete = mode = "natural" /\ ~background,
                          !.executing = IF background THEN {2, 3} ELSE {},
                          !.termed = IF mode = "natural" THEN {} ELSE {1, 2, 3}])
  IN {Tree("timeout", "redirected", FALSE), Tree("timeout", "retained", FALSE),
      Tree("timeout", "retained", TRUE), Tree("timeout", "redirected", TRUE),
      Tree("natural", "retained", FALSE), Tree("natural", "redirected", FALSE),
      Tree("cancelled", "retained", TRUE)}

collect == invalid \cup timeout_value \cup status \cup chain \cup tree_cases

-----------------------------------------------------------------------------
(* A case is driven to its outcome. *)

Left(p) == SubSeq(test.scripts[p], at[p], Len(test.scripts[p]))
Waits(p) == Left(p) # <<>> => Head(Left(p)) = "ready"
Ready == Cardinality(Pids) >= Min({3, Len(test.scripts)}) /\ \A p \in Pids : p <= 3 => Waits(p)

\* The next thing a process does; the leader waits until the others are ready.
Act(p) ==
  /\ Executing(p) /\ Left(p) # <<>>
  /\ at' = [at EXCEPT ![p] = @ + 1]
  /\ LET op == Head(Left(p)) IN
       \/ op = "fork" /\ Fork(p)
       \/ op = "redirect" /\ Redirect(p)
       \/ op = "ignore" /\ Ignore(p)
       \/ op = "setsid" /\ Setsid(p)
       \/ op = "ready" /\ Ready /\ UNCHANGED vars
       \/ op \in {"zero", "seven", "signal"} /\ Exit(p, op)

CaseInit ==
  /\ Init
  /\ test \in collect
  /\ at = [p \in 1 .. MaxPids |-> 1]

\* The timeout and the interruption come when the tree is ready; a second is
\* time enough to read what has been written.
Timed ==
  \/ test.when = "timeout" /\ Ready /\ ex[tool].pc = "wait" /\ Deadline(tool)
  \/ test.when = "cancelled" /\ Ready /\ ex[tool].pc = "wait" /\ Cancel(tool)
  \/ Holders(ex[tool].leader) # {} /\ OutputGivenUp(tool)

CaseNext ==
  /\ UNCHANGED test
  /\ \/ Done(tool) /\ UNCHANGED <<vars, at>>
     \/ Execute(tool, test.call) /\ UNCHANGED at
     \/ \E p \in Pids : Act(p) \/ (Die(p) /\ UNCHANGED at) \/ (Reap(p) /\ UNCHANGED at)
     \/ Timed /\ UNCHANGED at
     \/ UNCHANGED at /\ (\/ startExec(tool) \/ Start(tool) \/ Wait(tool) \/ Joined(tool)
                          \/ OutputEnds(tool) \/ Classify(tool) \/ SnapshotBegins(tool)
                          \/ ReadStat(tool) \/ Term(tool) \/ Kill(tool))
     \* 200 ms are time enough for the killed to be gone.
     \/ UNCHANGED at /\ liveExecPIDs(tool) = {} /\ Checked(tool)

CaseSpec == CaseInit /\ [][CaseNext]_caseVars

\* Every case ends with the outcome, the processes started and the processes
\* left executing that it asserts.
CasesHold ==
  Done(tool) =>
    LET o == out[tool]
        e == test.expect
    IN /\ <<o.code, o.effect, o.steps, o.status, o.reason, o.incomplete>>
            = <<e.code, e.effect, e.steps, e.status, e.reason, e.incomplete>>
       /\ Cardinality(Leaders(tool)) = e.ran
       /\ {p \in Pids : Executing(p)} = e.executing
       /\ (IF ex[tool].w = "done" THEN treePids(tool) ELSE {}) = e.termed
       /\ e.code # "invalid_arguments" => timeoutMs(test.call) = e.ms
       /\ o.survivors = {}

=============================================================================
