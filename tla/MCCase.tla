------------------------------- MODULE MCCase -------------------------------
(***************************************************************************)
(* CaseProcesses and Provider for TLC, one scene at a time: a candidate     *)
(* that leaves processes behind, beside one of somebody else that gets its  *)
(* reused pids; and two connections with two scripts of one key, what comes *)
(* beyond them being unexpected.                                            *)
(***************************************************************************)
EXTENDS CaseProcesses, Provider, TLC

CONSTANTS own1, own2, foreign, i1, i2, i3, n1, n2, x, key, go, more

VARIABLE scene

sceneVars == <<scene, caseVars, vars>>

TwoKeys == <<key, key>>
OneKey == x :> {key}
FirstWaits == <<go, NoName>>
SecondWaits == <<NoName, more>>

\* Pids are interchangeable, and so are the case's own lifetimes and the
\* connections.
Interchangeable ==
    Permutations({own1, own2}) \cup Permutations({i1, i2, i3}) \cup Permutations({n1, n2})

SceneInit == scene \in {"processes", "provider"} /\ CaseInit /\ Init

\* A scene stops only when the guard has closed, or the case has its verdict:
\* every other state without a step is a deadlock.
ProcessesStep ==
    /\ scene = "processes" /\ UNCHANGED <<scene, vars>>
    /\ CaseNext \/ (pc = "closed" /\ UNCHANGED caseVars)

ProviderStep ==
    /\ scene = "provider" /\ UNCHANGED <<scene, caseVars>>
    /\ Next \/ (main = "done" /\ UNCHANGED vars)

SceneSpec == SceneInit /\ [][ProcessesStep \/ ProviderStep]_sceneVars

=============================================================================
