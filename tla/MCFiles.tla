------------------------------ MODULE MCFiles ------------------------------
(***************************************************************************)
(* FileTools for TLC, one scene at a time: two conversations that share one *)
(* file, one that knows a file by an alias, a tree that is deleted while    *)
(* others write into it; and, on a copy of the variables, the repository's  *)
(* scripted cases.                                                          *)
(***************************************************************************)
EXTENDS FileTools

CONSTANTS c1, c2

VARIABLES
  scene, test, step,
  fs2, ids2, holder2, seen2, digests2, pc2, call2, work2, out2, cancelled2, made2,
  outside2, touched2, shown2, slipped2    \* those of the cases

second == <<fs2, ids2, holder2, seen2, digests2, pc2, call2, work2, out2, cancelled2, made2,
            outside2, touched2, shown2, slipped2>>
allVars == <<scene, vars, second, test, step>>

-----------------------------------------------------------------------------
(* Names, calls and trees. *)

Ordered == <<"..", ".env", ".environment", ".git", "NUL", "a", "absent", "b", "child", "d", "dir",
             "f", "g", "h", "l", "link", "m", "n", "new", "outside", "sentinel", "tree", "x", "z">>
MCRank == [n \in ToSet(Ordered) |-> CHOOSE i \in DOMAIN Ordered : Ordered[i] = n]
Scripted == INSTANCE FileCases WITH
  fs <- fs2, ids <- ids2, holder <- holder2, seen <- seen2, digests <- digests2, pc <- pc2,
  call <- call2, work <- work2, out <- out2, cancelled <- cancelled2, made <- made2,
  outside <- outside2, touched <- touched2, shown <- shown2, slipped <- slipped2,
  plain <- c1, agents <- c2, Conversations <- {c1, c2}, AgentTools <- {c2},
  WithheldNames <- {".git", ".env"}, Rank <- MCRank, Trees <- {}, Calls <- {}, Texts <- {},
  MaxFileBytes <- 10, PageLines <- 9, LedgerMax <- 4, MaxCalls <- 9, MaxOutside <- 9

f == <<"f">>
g == <<"d", "g">>
alias == <<"l", "g">>
deep == <<"n", "m", "h">>

Common == [bad |-> "", data |-> <<>>, expected |-> None, edits |-> <<>>, append |-> <<>>,
           recursive |-> FALSE, start |-> 1, max |-> 2]
ReadCall(p) == [tool |-> "read_file", path |-> p] @@ Common
WriteCall(p, d) == [tool |-> "write_file", path |-> p, data |-> d] @@ Common
EditCall(p, a, b) ==
  [tool |-> "edit_file", path |-> p, edits |-> <<[old |-> <<a>>, new |-> <<b>>, all |-> FALSE]>>] @@ Common
DeleteCall(p) == [tool |-> "delete_file", path |-> p] @@ Common
NamedDelete(p, d) == [tool |-> "delete_file", path |-> p, expected |-> d] @@ Common
TreeCall(p) == [tool |-> "delete_file", path |-> p, recursive |-> TRUE] @@ Common

FileCalls == {ReadCall(f), WriteCall(f, <<"a">>), EditCall(f, "a", "b"), DeleteCall(f),
              NamedDelete(f, <<"b">>)}
AliasCalls == {ReadCall(g), ReadCall(alias), WriteCall(g, <<"b">>), WriteCall(alias, <<"b">>),
               DeleteCall(g), DeleteCall(alias), WriteCall(deep, <<"a">>)}
TreeCalls == {WriteCall(g, <<"b">>), NamedDelete(g, <<"a">>), TreeCall(<<"d">>), TreeCall(<<"l">>),
              WriteCall(<<"d", ".env">>, <<"b">>)}

Plain == <<>> :> Dir(0) @@ f :> File(<<"a">>, 1)
Aliased == Plain @@ <<"d">> :> Dir(2) @@ g :> File(<<"a">>, 3) @@ <<"l">> :> Link(<<"d">>, 4)
Branch == <<>> :> Dir(0) @@ <<"d">> :> Dir(2) @@ g :> File(<<"a">>, 3)
          @@ <<"d", "h">> :> File(<<"a">>, 5) @@ <<"d", "m">> :> Dir(6)
          @@ <<"d", "m", "f">> :> File(<<"a">>, 7) @@ <<"..", "x">> :> File(<<"a">>, 8)
TreeTrees ==
  {Branch @@ <<"l">> :> Link(<<"d">>, 4), Branch @@ <<"l">> :> Link(<<"..", "x">>, 4),
   [Branch EXCEPT ![<<"d", "m">>].locked = TRUE],
   Branch @@ <<"d", "m", ".env">> :> File(<<"a">>, 9)}
FileTrees == {Plain}
FileTexts == {<<"a">>, <<"b">>}

-----------------------------------------------------------------------------
(* The scenes. *)

Aliases == INSTANCE FileTools WITH
  Trees <- {Aliased}, Calls <- AliasCalls, MaxCalls <- 3, MaxOutside <- 2
Deletions == INSTANCE FileTools WITH
  Trees <- TreeTrees, Calls <- TreeCalls, MaxCalls <- 1

ASSUME Aliases!FileToolsAssumption
ASSUME Deletions!FileToolsAssumption /\ Scripted!FileToolsAssumption

Elsewhere ==
  /\ fs2 = 0 /\ ids2 = 0 /\ holder2 = 0 /\ seen2 = 0 /\ digests2 = 0 /\ pc2 = 0 /\ call2 = 0
  /\ work2 = 0 /\ out2 = 0 /\ cancelled2 = 0 /\ made2 = 0 /\ outside2 = 0 /\ touched2 = 0
  /\ shown2 = 0 /\ slipped2 = 0 /\ test = None /\ step = 0

SceneInit ==
  \/ scene = "files" /\ Init /\ Elsewhere
  \/ scene = "aliases" /\ Aliases!Init /\ Elsewhere
  \/ scene = "deletions" /\ Deletions!Init /\ Elsewhere
  \/ scene = "cases" /\ Init /\ Scripted!CaseInit

\* In the scene of the aliases the calls are those of one conversation.
Alone == pc'[c2] = "idle"

FilesStep == scene = "files" /\ Next /\ UNCHANGED <<scene, second, test, step>>
AliasesStep == scene = "aliases" /\ Aliases!Next /\ Alone /\ UNCHANGED <<scene, second, test, step>>
DeletionsStep == scene = "deletions" /\ Deletions!Next /\ UNCHANGED <<scene, second, test, step>>
CasesStep == scene = "cases" /\ Scripted!CaseNext /\ UNCHANGED <<scene, vars>>

\* The bounds end every scene but the cases, which must come to their end.
BoundReached ==
  /\ scene # "cases" /\ \A c \in Conversations : pc[c] = "idle"
  /\ UNCHANGED allVars

SceneNext == FilesStep \/ AliasesStep \/ DeletionsStep \/ CasesStep \/ BoundReached

SceneSpec == SceneInit /\ [][SceneNext]_allVars

-----------------------------------------------------------------------------
(* Properties, beside those of FileTools. *)

\* Every scripted case has the outcomes and leaves the files it asserts.
FileCasesHold == scene = "cases" => Scripted!CasesHold

=============================================================================
