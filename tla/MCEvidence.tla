----------------------------- MODULE MCEvidence -----------------------------
(***************************************************************************)
(* What the suite records and seals, for TLC, one scene at a time: captures*)
(* and comparisons that share the cache of the reference; the locks while  *)
(* areas are added, and through the two changes of the reference; a screen *)
(* taken while the candidate redraws; a terminal finished while helpers    *)
(* keep it; and a screen of three rows and columns.  While one is played   *)
(* the others stay in one of their initial states.                         *)
(***************************************************************************)
EXTENDS OracleLocks, ReferenceCache, TerminalSession, ScreenGrid, TLC

CONSTANTS
    v1, v2, o1, o2, a, b,   \* versions, oracles, samples
    gone, cover, shell, wire, exec, spinner   \* cases

VARIABLE scene

allVars == <<scene, vars, cacheVars, sessionVars, screenVars>>

-----------------------------------------------------------------------------
(* The scenes. *)

\* Two versions of the suite with an oracle each, and its samples.
OwnSample == (o1 :> a) @@ (o2 :> b)
OwnLock == (v1 :> o1) @@ (v2 :> o2)

\* The lists of OracleLocks that are not plain sets.
CoveredByOne == gone :> {cover}
SomeZeros == {{}, {"top", "exec", "shell1"}}

\* A redraw with a query in the middle, a query in two halves, an update that
\* is never closed, an unsupported control.
Short == {<<"text", "ask", "text">>, <<"as", "k", "text">>, <<"begin", "text">>, <<"text", "bad">>,
          <<"text", "text", "ask", "end">>}
Frames == {<<"begin", "ask", "end", "text">>, <<"text", "as", "k", "begin">>}
Written == Frames \cup Short

\* What stays while another scene is played.
NoCache == CacheInit /\ suite = Committed(v1)
NoLocks ==
    /\ Init
    /\ pin = "first" /\ program = [c \in Cases |-> 1] /\ Executable(declared) = Cases
    /\ lock.cases = [c \in Cases |-> CaseLock(Evidence(c, "new", {}))]
NoSession == SessionInit /\ todo = <<"begin", "ask", "end", "text">> /\ helper = "none"
NoScreen == ScreenInit /\ rows = 1 /\ cols = 2

\* Bytes are alike: what the reference shows first is 1.
SceneInit ==
    \/ scene = "cache" /\ CacheInit /\ NoLocks /\ NoSession /\ NoScreen
    \/ scene = "locks" /\ Init /\ program = [c \in Cases |-> 1] /\ NoCache /\ NoSession /\ NoScreen
    \/ scene = "replay" /\ SessionInit /\ todo \in Frames /\ helper = "none" /\ NoCache /\ NoLocks /\ NoScreen
    \/ scene = "finish" /\ SessionInit /\ todo \in Short /\ NoCache /\ NoLocks /\ NoScreen
    \/ scene = "grid" /\ ScreenInit /\ NoCache /\ NoLocks /\ NoSession

CacheStep == scene = "cache" /\ CacheNext /\ UNCHANGED <<scene, vars, sessionVars, screenVars>>
LocksStep == scene = "locks" /\ Next /\ UNCHANGED <<scene, cacheVars, sessionVars, screenVars>>
\* Labels are alike: the first screenshot is "a".  The replay scene takes two and
\* does not end; the finish scene takes one, and no resize.
ReplayStep ==
    /\ scene = "replay" /\ SessionNext /\ (pc # "waiting" /\ (shots = <<>> => copy.label # "b"))'
    /\ UNCHANGED <<scene, cacheVars, vars, screenVars>>
FinishStep ==
    /\ scene = "finish" /\ SessionNext
    /\ (copy.label # "b" /\ \A i \in DOMAIN events : events[i].kind # "resize")'
    /\ UNCHANGED <<scene, cacheVars, vars, screenVars>>
GridStep == scene = "grid" /\ ScreenNext /\ UNCHANGED <<scene, cacheVars, vars, sessionVars>>

SceneNext == CacheStep \/ LocksStep \/ ReplayStep \/ FinishStep \/ GridStep

SceneSpec == SceneInit /\ [][SceneNext]_allVars

=============================================================================
