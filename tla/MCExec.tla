------------------------------- MODULE MCExec -------------------------------
(***************************************************************************)
(* Exec and ExecOutput for TLC, one scene at a time: a command whose tree   *)
(* resists and reads of the process table that fail; one whose processes    *)
(* change groups; chains; two agents at once; the scripted cases; and the   *)
(* output of one command.  The constants of Exec are what the scenes have   *)
(* in common, its properties are checked in all of them.                    *)
(***************************************************************************)
EXTENDS Exec

CONSTANTS a1, a2

VARIABLES scene, test, at, source, writer, kept, text, cut, replaced, phase

output == <<source, writer, kept, text, cut, replaced, phase>>
allVars == <<scene, vars, test, at, output>>

-----------------------------------------------------------------------------
(* The scenes. *)

Command(cs) == [NoCall EXCEPT !.commands = cs]
Single == {Command(<<"run">>)}

\* Chains whose commands run, are missing or cannot be started, and arguments
\* that are refused.
Chain == {Command(c) : c \in {<<"run", "run">>, <<"run", "missing">>, <<"unstartable", "run">>,
                              <<"run", "nul">>}}

\* Values of the constants: the two agents work in one workspace.
OneWorkspace == {<<a1, a2>>, <<a2, a1>>}
AnyCall == [a \in Agents |-> Single \cup Chain]

By(caller, calls) == [a \in Agents |-> IF a = caller THEN calls ELSE {}]

Tree == INSTANCE Exec WITH
  Calls <- By(a1, Single), Abilities <- {"fork", "ignore", "setsid"}, Statuses <- {"zero"},
  MaxPids <- 3, MaxCalls <- 1

Groups == INSTANCE Exec WITH
  Calls <- By(a1, Single), Statuses <- {"zero"}, MaxPids <- 2, MaxCalls <- 1

Chains == INSTANCE Exec WITH
  Calls <- By(a1, Chain), Abilities <- {"fork", "redirect"}, MaxPids <- 3, MaxFaults <- 0, MaxCalls <- 1

Pair == INSTANCE Exec WITH
  Calls <- [a \in Agents |-> Single], Abilities <- {}, Statuses <- {"zero"},
  MaxPids <- 2, MaxFaults <- 0, MaxCalls <- 1

Scripted == INSTANCE ExecCases WITH tool <- a1, Calls <- By(a1, {}), MaxFaults <- 0

\* Texts of at most four runes of one, two or three bytes, or of no UTF-8,
\* with an empty, a short or a longer text on the other stream.
RunesUpTo(S, n) == UNION {[1 .. i -> S] : i \in 0 .. n}
Others == {<<>>, <<1, 3>>, <<2, 1, 2, 3, 1>>}
Mixed == {<<t, u>> : t \in RunesUpTo({1, 3}, 4) \cup RunesUpTo({0, 1, 2}, 4), u \in Others}
         \cup {<<u, t>> : t \in RunesUpTo({2, 3}, 4), u \in Others}

Output == INSTANCE ExecOutput WITH Texts <- Mixed, Limit <- 7, Budget <- 9, Marker <- 5

ASSUME Tree!ExecAssumption /\ Groups!ExecAssumption /\ Chains!ExecAssumption
ASSUME Pair!ExecAssumption /\ Scripted!ExecAssumption /\ Output!ExecOutputAssumption

NoCase == test = 0 /\ at = 0
NoOutput == source = 0 /\ writer = 0 /\ kept = 0 /\ text = 0 /\ cut = 0 /\ replaced = 0 /\ phase = 0

SceneInit ==
  \/ /\ NoOutput
     /\ \/ scene = "tree" /\ Tree!Init /\ NoCase
        \/ scene = "groups" /\ Groups!Init /\ NoCase
        \/ scene = "chains" /\ Chains!Init /\ NoCase
        \/ scene = "pair" /\ Pair!Init /\ NoCase
        \/ scene = "cases" /\ Scripted!CaseInit
  \/ scene = "output" /\ Output!Init /\ Init /\ NoCase

TreeStep == scene = "tree" /\ Tree!Next /\ UNCHANGED <<scene, test, at, output>>
GroupsStep == scene = "groups" /\ Groups!Next /\ UNCHANGED <<scene, test, at, output>>
ChainsStep == scene = "chains" /\ Chains!Next /\ UNCHANGED <<scene, test, at, output>>
PairStep == scene = "pair" /\ Pair!Next /\ UNCHANGED <<scene, test, at, output>>
CasesStep == scene = "cases" /\ Scripted!CaseNext /\ UNCHANGED <<scene, output>>
OutputStep == scene = "output" /\ Output!Next /\ UNCHANGED <<scene, vars, test, at>>

\* The bounds end every scene but the cases, which must come to their end.
BoundReached ==
  /\ \/ scene \in {"tree", "groups", "chains", "pair"} /\ \A a \in DOMAIN ex : ex[a].pc = "idle"
     \/ scene = "output" /\ phase = "done"
  /\ UNCHANGED allVars

SceneNext == TreeStep \/ GroupsStep \/ ChainsStep \/ PairStep \/ CasesStep \/ OutputStep \/ BoundReached

SceneSpec == SceneInit /\ [][SceneNext]_allVars

-----------------------------------------------------------------------------
(* Properties beside those of Exec. *)

\* However the output arrives, its ends are kept, shown whole where they are
\* UTF-8, and as the whole text at once would be shown.
OutputKept ==
  scene = "output" =>
    Output!TypeOK /\ Output!KeepsEnds /\ Output!ShowsEnds /\ Output!MatchesReference

\* Every scripted case ends as it asserts, in every interleaving.
ExecCasesHold == TypeOK /\ (scene = "cases" => Scripted!CasesHold)

=============================================================================
