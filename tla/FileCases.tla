----------------------------- MODULE FileCases -----------------------------
(***************************************************************************)
(* The scripted cases of parity/cases/tools_files.py against FileTools: each *)
(* case is a tree, the calls one conversation makes with what commands do   *)
(* between them, the outcome each call must have and the files that must be *)
(* there at the end.  They hold the model to what the repository's own      *)
(* tests demand of every implementation of these tools.                     *)
(***************************************************************************)
EXTENDS FileTools

CONSTANTS plain, agents    \* conversations without and with agents enabled

VARIABLES test, step       \* the case that runs and its next step

caseVars == <<vars, test, step>>

-----------------------------------------------------------------------------
(* Calls, commands and fixtures. *)

Arguments == [bad |-> "", data |-> <<>>, expected |-> None, edits |-> <<>>, append |-> <<>>,
              recursive |-> FALSE, start |-> 1, max |-> 3]
read(p) == [tool |-> "read_file", path |-> p] @@ Arguments
write(p, d) == [tool |-> "write_file", path |-> p, data |-> d] @@ Arguments
edits(es) == [tool |-> "edit_file", path |-> <<"f">>, edits |-> es] @@ Arguments
delete(p) == [tool |-> "delete_file", path |-> p] @@ Arguments
tree(p) == [delete(p) EXCEPT !.recursive = TRUE]
named(k, d) == [k EXCEPT !.expected = d]
malformed(k) == [k EXCEPT !.bad = "invalid_arguments"]
E(old, new) == [old |-> old, new |-> new, all |-> FALSE]
All(old, new) == [old |-> old, new |-> new, all |-> TRUE]

command(name, p, d) == [tool |-> name, path |-> p, data |-> d]

alpha == <<"a", "lpha", "LF", "beta", "LF">>
Old == <<"a", "lpha">>
Big == [i \in 1 .. MaxFileBytes + 1 |-> "x"]
At(p, data) == p :> File(data, 1)
D(p) == p :> Dir(2)
Locked(n) == [n EXCEPT !.locked = TRUE]
Root == D(<<>>) @@ <<>>
base == <<>> :> Dir(RootId)
setup == base @@ At(<<"f">>, alpha) @@ D(<<"d">>)

files(t) == [p \in {q \in DOMAIN t : t[q].kind = "file"} |-> t[p].data]

\* An expected outcome: the fields the case asserts.
ok(effect) == [code |-> "ok", effect |-> effect]
fails(code) == [code |-> code, effect |-> FALSE]
ran == <<>>

Test(c, t, calls, expect, final) ==
  [who |-> c, tree |-> t, calls |-> calls, expect |-> expect, final |-> final]
\* One call that must leave every file as it is.
Refused(t, k, code) == Test(plain, t, <<k>>, <<fails(code)>>, files(t))
Reads(t, k, first, last, eof) ==
  Test(plain, t, <<k>>, <<ok(FALSE) @@ [first |-> first, last |-> last, eof |-> eof]>>, files(t))

-----------------------------------------------------------------------------
(* The families of cases. *)

BASE == {read(<<"f">>), write(<<"new">>, <<"new">>), edits(<<E(Old, <<"beta">>)>>), delete(<<"f">>)}

\* T01: malformed arguments; a missing path is the workspace root.
argument ==
  {Refused(setup, malformed(k), "invalid_arguments") : k \in BASE}
  \cup {Refused(setup, [k EXCEPT !.path = <<>>],
          IF k.tool \in {"read_file", "edit_file"} THEN "not_file" ELSE "invalid_arguments") : k \in BASE}

\* T02: optional arguments omitted, valid and of a wrong kind.
optional ==
  {Refused(setup, malformed(k), "invalid_arguments") : k \in {read(<<"f">>), tree(<<"f">>)}}
  \cup {Refused(setup, k, "invalid_arguments") :
          k \in {delete(<<"f">>), tree(<<"f">>), edits(<<E(Old, <<"g">>)>>), edits(<<All(Old, <<"g">>)>>)}}
  \cup {Reads(setup, read(<<"f">>), 1, 2, TRUE)}

\* T03: withheld names, parents, NUL and absolute paths outside are refused.
paths ==
  LET t == setup @@ At(<<"..", "outside">>, <<"SECRET">>) @@ At(<<".environment">>, alpha)
           @@ [w \in {<<n>> : n \in WithheldNames} |-> Dir(3)]
           @@ [w \in {<<n, "sentinel">> : n \in WithheldNames} |-> File(<<"SECRET">>, 4)]
  IN {Refused(t, read(p), "invalid_path") :
        p \in {<<n, "sentinel">> : n \in WithheldNames}
              \cup {<<"d", "..", "f">>, <<"NUL">>, <<"..", "outside">>}}
     \cup {Reads(t, read(p), 1, 2, TRUE) : p \in {<<"f">>, <<".environment">>}}

\* T04: aliases inside are followed by readers, refused by writers; links that
\* leave the workspace are refused whatever is behind them.
symlinks ==
  LET t(to) == setup @@ At(<<"..", "outside">>, <<"SECRET">>) @@ D(<<"..", "dir">>)
               @@ At(<<"..", "dir", "sentinel">>, <<"EXTERNAL">>) @@ <<"link">> :> Link(to, 5)
      inside == t(<<"f">>)
  IN {Test(plain, inside, <<read(<<"link">>), write(<<"link">>, <<"NO">>)>>,
           <<ok(FALSE), fails("symlink_target")>>, files(inside)),
      Refused(t(<<"..", "outside">>), read(<<"link">>), "invalid_path"),
      Refused(t(<<"..", "absent">>), read(<<"link">>), "not_found"),
      Refused(t(<<"..", "dir">>), write(<<"link", "new">>, <<"NO">>), "invalid_path"),
      Reads(t(<<>>), read(<<"link", "f">>), 1, 2, TRUE)}

\* T04: another directory takes the workspace's name: nothing is deleted there.
replaced_root ==
  {Test(plain, setup, <<read(<<"f">>), command("replaceRoot", <<"f">>, <<"replacement">>), tree(<<"f">>)>>,
        <<ok(FALSE), ran, fails("invalid_path")>>, <<"f">> :> <<"replacement">>)}

\* T06: the lines of one result and where the next one starts.
reading ==
  LET t(data) == base @@ At(<<"f">>, data)
      page(s, m) == [read(<<"f">>) EXCEPT !.start = s, !.max = m]
      abc == <<"a", "LF", "b", "LF", "c", "LF">>
  IN {Reads(t(<<>>), page(1, 3), 1, 0, TRUE), Reads(t(<<"a", "LF", "b">>), page(1, 3), 1, 2, TRUE),
      Reads(t(abc), page(2, 1), 2, 2, FALSE), Reads(t(<<"a", "LF">>), page(1, 1), 1, 1, TRUE),
      Refused(t(<<"a", "LF">>), page(2, 1), "line_out_of_range"),
      Reads(t(abc \o <<"d">>), page(1, 3), 1, 3, FALSE), Reads(t(abc \o <<"d">>), page(1, 4), 1, 4, TRUE)}

\* T07: what is not text, not a file, not readable or too large.
read_refusal ==
  LET t(node) == base @@ <<"f">> :> node
      huge == t(File(<<"huge">>, 1))
  IN {Refused(t(File(<<"a", "NUL">>, 1)), read(<<"f">>), "binary_file"),
      Refused(t(File(<<"xFF">>, 1)), read(<<"f">>), "invalid_utf8"),
      Refused(t(Dir(1)), read(<<"f">>), "not_file"), Refused(t(Fifo(1)), read(<<"f">>), "not_file"),
      Refused(base, read(<<"f">>), "not_found"),
      Refused(t(Locked(File(alpha, 1))), read(<<"f">>), "permission_denied"),
      Refused(t(File(Big, 1)), read(<<"f">>), "file_too_large"),
      Reads(t(File(Tail(Big), 1)), read(<<"f">>), 1, 1, TRUE),
      Test(plain, huge, <<read(<<"f">>), write(<<"f">>, <<"NO">>)>>,
           <<fails("line_too_long"), fails("invalid_arguments")>>, files(huge))}

\* T12: creation with its missing parents, and replacement once seen.
writing ==
  LET t == base @@ At(<<"f">>, alpha)
      new == write(<<"f">>, <<"new">>)
      replaced == <<"f">> :> <<"new">>
  IN {Test(plain, base, <<write(<<"f">>, d)>>, <<ok(TRUE)>>, <<"f">> :> d) : d \in {<<>>, <<"new">>}}
     \cup {Test(plain, base, <<write(<<"a", "b", "f">>, <<"new">>)>>,
                <<ok(TRUE) @@ [created |-> <<<<"a">>, <<"a", "b">>>>]>>, <<"a", "b", "f">> :> <<"new">>),
           Refused(t, new, "invalid_arguments"),
           Test(plain, t, <<read(<<"f">>), new>>, <<ok(FALSE), ok(TRUE)>>, replaced),
           Test(plain, t, <<[read(<<"f">>) EXCEPT !.max = 1], new>>, <<ok(FALSE), ok(TRUE)>>, replaced),
           Test(plain, base, <<write(<<"f">>, alpha), new>>, <<ok(TRUE), ok(TRUE)>>, replaced)}

\* T13: a digest is optional, exact when given, and diagnosed when it is not.
digestCases ==
  LET t == base @@ At(<<"f">>, alpha)
      after(k) == CASE k.tool = "write_file" -> <<"f">> :> <<"new">>
                    [] k.tool = "edit_file" -> <<"f">> :> <<"new", "LF", "beta", "LF">>
                    [] OTHER -> <<>>
      tools == {write(<<"f">>, <<"new">>), edits(<<E(Old, <<"new">>)>>), delete(<<"f">>)}
  IN UNION {{Refused(t, k, "invalid_arguments"), Refused(t, malformed(k), "invalid_arguments"),
             Refused(t, named(k, <<"unknown">>), "unknown_digest"),
             Test(plain, t, <<named(k, alpha)>>, <<ok(TRUE)>>, after(k))} : k \in tools}

\* T14: the file changes, appears or goes after it was read.
stale ==
  LET t == base @@ At(<<"f">>, alpha)
      changed == command("put", <<"f">>, <<"changed">>)
      gone == command("remove", <<"f">>, <<>>)
      new == write(<<"f">>, <<"new">>)
      put == <<"f">> :> <<"changed">>
      s == fails("stale_file")
  IN {Test(plain, base, <<command("put", <<"new">>, <<"new">>), write(<<"new">>, <<"NO">>)>>,
           <<ran, fails("invalid_arguments")>>, <<"new">> :> <<"new">>),
      Test(plain, t, <<read(<<"f">>), changed, new>>, <<ok(FALSE), ran, s>>, put),
      Test(plain, t, <<read(<<"f">>), changed, named(new, alpha)>>, <<ok(FALSE), ran, s>>, put),
      Test(agents, t, <<read(<<"f">>), gone, new>>, <<ok(FALSE), ran, s>>, <<>>),
      Test(agents, t, <<read(<<"f">>), gone, new, read(<<"f">>), new>>,
           <<ok(FALSE), ran, s, fails("not_found"), ok(TRUE)>>, <<"f">> :> <<"new">>)}

\* T15: content that is missing, not text, too large, or has no place.
write_refusal ==
  LET new(d) == write(<<"new">>, d)
      held(dir) == base @@ <<"d">> :> dir @@ At(<<"d", "f">>, <<"old">>)
      k == named(write(<<"d", "f">>, <<"new">>), <<"old">>)
      limit == Tail(Big)
  IN {Refused(base, malformed(new(<<>>)), "invalid_arguments"),
      Refused(base, new(<<"NUL">>), "binary_file"),
      Refused(base, new(Big), "file_too_large"),
      Test(plain, base, <<new(limit)>>, <<ok(TRUE)>>, <<"new">> :> limit),
      Refused(base @@ At(<<"f">>, alpha), write(<<"f", "child">>, <<"new">>), "io_error"),
      Refused(held(Locked(Dir(2))), k, "permission_denied"),
      Test(plain, held(Dir(2)), <<k>>, <<ok(TRUE)>>, <<"d", "f">> :> <<"new">>)}

\* T16-T19: one edit, several in one snapshot, appended text, and refusals.
edit ==
  LET twice == alpha \o <<"a", "lpha", "LF">>
      gamma == <<"gamma">>
      t(data) == base @@ At(<<"f">>, data)
      Case(data, k, o, after) ==
        Test(plain, t(data), <<read(<<"f">>), k>>, <<ok(FALSE), o>>, <<"f">> :> after)
      Fails(data, es, code) == Case(data, edits(es), fails(code), data)
      Gives(data, es, after) == Case(data, edits(es), ok(TRUE), after)
      add(es) == [edits(es) EXCEPT !.append = <<"TAIL">>]
      both(e) == <<e, E(<<"beta">>, <<"end">>)>>
  IN {Gives(alpha, <<E(Old, gamma)>>, <<"gamma", "LF", "beta", "LF">>),
      Fails(alpha, <<E(<<"absent">>, gamma)>>, "edit_not_found"),
      Fails(alpha, <<E(<<"a", "lpha", "SP", "LF">>, gamma)>>, "edit_not_found"),
      Fails(twice, <<E(Old, gamma)>>, "ambiguous_edit"),
      Fails(twice, <<E(Old, Old)>>, "ambiguous_edit"),
      Gives(alpha, <<E(Old, <<>>)>>, <<"LF", "beta", "LF">>),
      Gives(alpha, both(E(Old, <<"beta">>)), <<"beta", "LF", "end", "LF">>),
      Fails(alpha, <<E(Old, gamma), E(<<"absent">>, gamma)>>, "edit_not_found"),
      Fails(alpha, <<E(Old, gamma), E(<<"lpha">>, gamma)>>, "invalid_arguments"),
      Fails(alpha, <<E(Old, Old)>>, "invalid_arguments"),
      Gives(alpha, both(E(Old, Old)), <<"a", "lpha", "LF", "end", "LF">>),
      Gives(twice, <<All(Old, gamma)>>, <<"gamma", "LF", "beta", "LF", "gamma", "LF">>),
      Gives(<<"a", "a", "a", "a">>, <<All(<<"a", "a">>, <<"x">>)>>, <<"x", "x">>),
      Case(alpha, add(<<>>), ok(TRUE), alpha \o <<"TAIL">>),
      Case(alpha, add(<<E(Old, gamma)>>), ok(TRUE), <<"gamma", "LF", "beta", "LF", "TAIL">>),
      Case(alpha, malformed(edits(<<>>)), fails("invalid_arguments"), alpha),
      Fails(alpha, <<E(Old, <<"NUL">>)>>, "binary_file"), Fails(alpha, <<E(Old, Big)>>, "file_too_large")}

\* T19: edit_file creates nothing, follows no link and needs a current version.
edit_guard ==
  LET k == edits(<<E(Old, <<"gamma">>)>>)
      linked == setup @@ <<"link">> :> Link(<<"f">>, 5)
      f(data) == At(<<"f">>, data) @@ setup
      changed == command("put", <<"f">>, <<"changed">>)
  IN {Refused(setup, k, "invalid_arguments"), Refused(setup, [k EXCEPT !.path = <<"m">>], "not_found"),
      Refused(linked, [k EXCEPT !.path = <<"link">>], "symlink_target"),
      Refused(f(Big), k, "file_too_large"), Refused(f(<<"a", "lpha", "NUL">>), k, "binary_file"),
      Test(plain, setup, <<read(<<"f">>), command("lock", <<>>, <<>>), k>>,
           <<ok(FALSE), ran, fails("permission_denied")>>, files(setup)),
      Test(plain, setup, <<read(<<"f">>), changed, named(k, alpha)>>,
           <<ok(FALSE), ran, fails("stale_file")>>, <<"f">> :> <<"changed">>)}

\* T20: one file is deleted at the version seen or named, binary ones too.
deleting ==
  LET t(data) == base @@ At(<<"f">>, data)
      binary == Big \o <<"NUL", "xFF">>
      gone == ok(TRUE) @@ [listed |-> <<<<"f">>>>]
  IN {Refused(t(alpha), delete(<<"f">>), "invalid_arguments"),
      Test(plain, t(alpha), <<read(<<"f">>), delete(<<"f">>)>>, <<ok(FALSE), gone>>, <<>>),
      Test(plain, base, <<command("put", <<"f">>, alpha), delete(<<"f">>)>>,
           <<ran, fails("invalid_arguments")>>, <<"f">> :> alpha),
      Test(plain, t(alpha), <<read(<<"f">>), command("put", <<"f">>, <<"changed">>), named(delete(<<"f">>), alpha)>>,
           <<ok(FALSE), ran, fails("stale_file")>>, <<"f">> :> <<"changed">>)}
     \cup {Test(plain, t(d), <<named(delete(<<"f">>), d)>>, <<gone>>, <<>>) : d \in {alpha, binary}}

\* T21: directories and links only with recursive, links never followed, and
\* nothing removed from a tree with a withheld name or a special file.
delete_tree ==
  LET t == base @@ D(<<"tree">>) @@ At(<<"tree", "a">>, <<"a">>) @@ At(<<"..", "outside">>, <<"SECRET">>)
      link(to) == t @@ <<"link">> :> Link(to, 5)
      to == <<"tree">>
      hidden == t @@ D(<<"tree", "z">>) @@ At(<<"tree", "z", ".env">>, <<"SECRET">>)
      Gone(u, p, listed, final) ==
        Test(plain, u, <<tree(p)>>, <<ok(TRUE) @@ [listed |-> listed, count |-> Len(listed)]>>, final)
  IN {Gone(t, to, <<<<"tree", "a">>, to>>, <<"..", "outside">> :> <<"SECRET">>),
      Gone(link(to), <<"link">>, <<<<"link">>>>, files(t)),
      Gone(link(<<"..", "outside">>), <<"link">>, <<<<"link">>>>, files(t)),
      Refused(t, delete(to), "invalid_arguments"), Refused(t, tree(<<>>), "invalid_path"),
      Refused(link(to), delete(<<"link">>), "symlink_target"),
      Refused(hidden, tree(to), "invalid_path"),
      Refused(t @@ <<"tree", "z">> :> Fifo(5), tree(to), "invalid_arguments"),
      Refused(link(to), tree(<<"link", "a">>), "symlink_target"),
      Refused(t, named(tree(to), <<"a">>), "invalid_arguments")}

\* T22: the ledger of a deletion: whole, longer than a result has room for, and
\* stopped at a directory whose entries cannot be removed.
recursive ==
  LET d(n) == <<"tree">> \o n
      File1(n) == At(d(n), <<"x">>)
      top == base @@ D(<<"tree">>)
      safe == top @@ D(d(<<"a">>)) @@ File1(<<"a", "f">>) @@ File1(<<"m">>)
      long == top @@ File1(<<"a">>) @@ File1(<<"b">>) @@ File1(<<"f">>) @@ File1(<<"m">>)
      half == top @@ d(<<"a">>) :> Locked(Dir(2)) @@ File1(<<"a", "f">>) @@ File1(<<"z">>)
      Gives(u, o, final) == Test(plain, u, <<tree(<<"tree">>)>>, <<o>>, final)
  IN {Gives(safe, ok(TRUE) @@ [count |-> 4, listed |-> <<d(<<"m">>), d(<<"a", "f">>), d(<<"a">>), <<"tree">>>>], <<>>),
      Gives(long, ok(TRUE) @@ [count |-> 5, listed |-> <<d(<<"m">>), d(<<"f">>), d(<<"b">>), d(<<"a">>)>>], <<>>),
      Gives(half, [code |-> "permission_denied", effect |-> TRUE, count |-> 1,
                   listed |-> <<d(<<"z">>)>>, failed |-> d(<<"a", "f">>)], d(<<"a", "f">>) :> <<"x">>)}

Tests == argument \cup optional \cup paths \cup symlinks \cup replaced_root \cup reading
         \cup read_refusal \cup writing \cup digestCases \cup stale \cup write_refusal
         \cup edit \cup edit_guard \cup deleting \cup delete_tree \cup recursive

-----------------------------------------------------------------------------
(* Running a case. *)

CaseInit ==
  /\ test \in Tests /\ step = 1
  /\ fs = test.tree /\ ids = 9 /\ holder = None
  /\ seen = [c \in Conversations |-> <<>>] /\ digests = [c \in Conversations |-> {}]
  /\ pc = [c \in Conversations |-> "idle"] /\ call = [c \in Conversations |-> Idle]
  /\ work = [c \in Conversations |-> NoWork]
  /\ out = [c \in Conversations |-> Outcome("none", FALSE)]
  /\ cancelled = {} /\ made = [c \in Conversations |-> 0] /\ outside = 0
  /\ touched = [c \in Conversations |-> {}] /\ shown = [c \in Conversations |-> <<>>]
  /\ slipped = [c \in Conversations |-> {}]

\* drive: the calls of the script one after another.
drive ==
  /\ pc[test.who] = "idle" /\ step <= Len(test.calls)
  /\ step' = step + 1
  /\ LET k == test.calls[step]
     IN CASE k.tool = "put" -> IF Kind(fs, k.path) = "file" THEN OutsideWrites(k.path, k.data)
                               ELSE OutsidePuts(k.path, k.data)
          [] k.tool = "remove" -> OutsideRemoves(k.path)
          [] k.tool = "lock" -> Outside(k.path, [fs EXCEPT ![k.path].locked = TRUE])
          [] k.tool = "replaceRoot" ->
               Outside(k.path, <<>> :> Dir(ids) @@ k.path :> File(k.data, ids + 1))
          [] OTHER -> Call(test.who, k)

Done == pc[test.who] = "idle" /\ step > Len(test.calls)

CaseNext ==
  (drive \/ (Step(test.who) /\ UNCHANGED step) \/ (Done /\ UNCHANGED <<vars, step>>)) /\ UNCHANGED test
CaseSpec == CaseInit /\ [][CaseNext]_caseVars

\* Every call of every case ends with the outcome the case asserts, and every
\* case ends with the files it asserts, none lost and no staged one left over.
CasesHold ==
  pc[test.who] = "idle" =>
    /\ step > 1 => \A a \in DOMAIN test.expect[step - 1] :
                      out[test.who][a] = test.expect[step - 1][a]
    /\ Done => files(fs) = test.final

=============================================================================
