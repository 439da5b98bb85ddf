------------------------------ MODULE FileTools ------------------------------
(***************************************************************************)
(* read_file, write_file, edit_file and delete_file over one workspace tree *)
(* (workspace.go, tool_read_file.go, tool_write_file.go, tool_edit_file.go) *)
(* used at once by several conversations, the root's and its agents', each  *)
(* with its own record of the versions it was shown, while commands and the *)
(* user change the same files without taking part.  A path is the sequence  *)
(* of its names below the workspace root; what lies outside begins with     *)
(* "..".  A file's content is a sequence of pieces of text; it stands for   *)
(* its own digest.  A symlink leads straight to what it finally names.      *)
(***************************************************************************)
EXTENDS Naturals, Sequences, FiniteSets, SequencesExt, FiniteSetsExt

CONSTANTS
  Conversations,   \* the handles on the tree: the root and its agents
  AgentTools,      \* those whose tools were built with agents enabled
  WithheldNames,   \* .git, .env, .env.*
  Rank,            \* the order of names: a function from names to numbers
  Trees,           \* the trees a run may start from
  Calls,           \* the calls the conversations may make
  Texts,           \* what outsiders may write
  MaxFileBytes,    \* longest content a tool reads or writes, in pieces
  PageLines,       \* lines of one result
  LedgerMax,       \* removed paths one result lists
  MaxCalls,        \* bound: calls of each conversation
  MaxOutside,      \* bound: changes by outsiders and failed stagings
  None

\* A tree is finite, its root is a directory, and below the root every path has
\* its parent directory.
IsTree(t) ==
  /\ IsFiniteSet(DOMAIN t) /\ <<>> \in DOMAIN t /\ t[<<>>].kind = "dir"
  /\ \A p \in DOMAIN t :
       /\ p \in Seq(DOMAIN Rank) /\ t[p].to \in Seq(DOMAIN Rank)
       /\ t[p] = [kind |-> t[p].kind, data |-> t[p].data, to |-> t[p].to, id |-> t[p].id,
                  locked |-> t[p].locked]
       /\ p # <<>> /\ p[1] # ".." => Front(p) \in DOMAIN t /\ t[Front(p)].kind = "dir"

ASSUME FileToolsAssumption ==
  /\ AgentTools \subseteq Conversations
  /\ Rank \in [DOMAIN Rank -> Nat] /\ \A a, b \in DOMAIN Rank : Rank[a] = Rank[b] => a = b
  /\ \A t \in Trees : IsTree(t)
  /\ \A k \in Calls : k.path \in Seq(DOMAIN Rank)
  /\ None \notin Conversations
  /\ {MaxFileBytes, PageLines, LedgerMax, MaxCalls, MaxOutside} \subseteq Nat

VARIABLES
  fs,        \* path -> node, of the paths that exist
  ids,       \* identities given to files so far
  holder,    \* who holds publishMu, the guard all handles share
  seen,      \* conversation -> path -> version last returned to it
  digests,   \* conversation -> the <<path, version>> ever returned to it
  pc, call, work,   \* the call of a conversation and its local state
  out,       \* conversation -> the outcome of its last call
  cancelled, \* conversations whose context is done
  made,      \* conversation -> calls made
  outside,   \* changes made by outsiders
  touched,   \* conversation -> paths outsiders changed during its call
  shown,     \* conversation -> path -> version, as its results told the model
  slipped    \* conversation -> paths it was told of the absence of since, or that
             \* were gone before the version read could be recorded

vars == <<fs, ids, holder, seen, digests, pc, call, work, out, cancelled, made,
          outside, touched, shown, slipped>>

-----------------------------------------------------------------------------
(* The tree. *)

File(data, id) == [kind |-> "file", data |-> data, to |-> <<>>, id |-> id, locked |-> FALSE]
Dir(id) == [kind |-> "dir", data |-> <<>>, to |-> <<>>, id |-> id, locked |-> FALSE]
Link(to, id) == [kind |-> "link", data |-> <<>>, to |-> to, id |-> id, locked |-> FALSE]
Fifo(id) == [kind |-> "fifo", data |-> <<>>, to |-> <<>>, id |-> id, locked |-> FALSE]

RootId == 0

Kind(t, p) == IF p \in DOMAIN t THEN t[p].kind ELSE "none"
Under(p, q) == p \in Prefixes(q)
insidePath(p) == p = <<>> \/ Head(p) # ".."
withheld(p) == \E i \in DOMAIN p : p[i] \in WithheldNames
Without(t, S) == [p \in DOMAIN t \ S |-> t[p]]
Put(t, p, node) == [q \in DOMAIN t \cup {p} |-> IF q = p THEN node ELSE t[q]]

InOrder(S, lt(_, _)) ==
  [i \in 1 .. Cardinality(S) |->
     CHOOSE x \in S : Cardinality({y \in S : y # x /\ lt(y, x)}) = i - 1]

\* EvalSymlinks, one name after another.
Enter(t, w, name) ==
  LET p == Append(w.at, name) IN
  IF w.err # "" THEN w
  ELSE IF Kind(t, w.at) # "dir" THEN [w EXCEPT !.err = "io_error"]
  ELSE IF Kind(t, p) = "link"
       THEN [at |-> t[p].to, err |-> IF t[p].to \in DOMAIN t THEN "" ELSE "not_found"]
  ELSE [at |-> p, err |-> IF p \in DOMAIN t THEN "" ELSE "not_found"]

Walk(t, p) ==
  LET w[j \in 0 .. Len(p)] == IF j = 0 THEN [at |-> <<>>, err |-> ""]
                              ELSE Enter(t, w[j - 1], p[j])
  IN w

EvalSymlinks(t, p) == Walk(t, p)[Len(p)]

\* Its last name alone is not followed by Lstat.
LstatIn(t, w, name) ==
  IF w.err # "" THEN w
  ELSE IF Kind(t, w.at) # "dir" THEN [w EXCEPT !.err = "io_error"]
  ELSE [at |-> Append(w.at, name),
        err |-> IF Append(w.at, name) \in DOMAIN t THEN "" ELSE "not_found"]

Lstat(t, p) == IF p = <<>> THEN EvalSymlinks(t, p)
               ELSE LstatIn(t, EvalSymlinks(t, Front(p)), Last(p))

\* faulty: an absent path is kept under the name it was asked for.
missingPathAsked(t, p) == p

\* Where an observation of p is kept once p, or its parents, are gone.
missingPath(t, p) ==
  LET w == [j \in 0 .. Len(p) |-> EvalSymlinks(t, SubSeq(p, 1, j))]
      i == Max({j \in 0 .. Len(p) : w[j].err = ""})
  IN IF w[Len(p)].err = "io_error" THEN p ELSE w[i].at \o SubSeq(p, i + 1, Len(p))

\* The code resolve refuses p with, "" when it accepts it.
resolve(t, p) ==
  LET existing == Max({j \in 0 .. Len(p) : Lstat(t, SubSeq(p, 1, j)).err # "not_found"})
      refusal(w) == IF w.err # "" THEN w.err
                    ELSE IF ~insidePath(w.at) \/ withheld(w.at) THEN "invalid_path" ELSE ""
  IN IF withheld(p) \/ \E i \in DOMAIN p : p[i] \in {"..", "NUL"} THEN "invalid_path"
     ELSE refusal(EvalSymlinks(t, SubSeq(p, 1, existing)))

\* Why a content is not text a tool handles.
TextProblem(data) ==
  IF Len(data) > MaxFileBytes THEN "file_too_large"
  ELSE IF \E i \in DOMAIN data : data[i] = "NUL" THEN "binary_file"
  ELSE IF \E i \in DOMAIN data : data[i] = "xFF" THEN "invalid_utf8" ELSE ""

readSnapshot(t, p) ==
  LET code(w) == IF w.err # "" THEN w.err
                 ELSE IF Kind(t, w.at) # "file" THEN "not_file"
                 ELSE IF t[w.at].locked THEN "permission_denied"
                 ELSE TextProblem(t[w.at].data)
      snapshot(at, err) ==
        [code |-> err, at |-> at, data |-> IF err = "" THEN t[at].data ELSE <<>>]
      at(w) == snapshot(w.at, code(w))
  IN at(EvalSymlinks(t, p))

checkDeleteRoot(t) == IF t[<<>>].id = RootId THEN "" ELSE "invalid_path"

\* deletePath: the ancestors must be directories, links among them refused.
deletePath(t, p) ==
  LET ancestors == {q \in Prefixes(p) : q # <<>> /\ q # p}
      Bad(q) == Kind(t, q) # "dir"
      first == CHOOSE q \in ancestors : Bad(q) /\ \A r \in ancestors : Bad(r) => Len(q) <= Len(r)
  IN IF checkDeleteRoot(t) # "" THEN checkDeleteRoot(t)
     ELSE IF withheld(p) \/ p = <<>> \/ \E i \in DOMAIN p : p[i] \in {"..", "NUL"}
          THEN "invalid_path"
     ELSE IF \E q \in ancestors : Bad(q)
          THEN CASE Kind(t, first) = "none" -> "not_found"
                 [] Kind(t, first) = "link" -> "symlink_target"
                 [] OTHER -> "not_directory"
     ELSE IF p \in DOMAIN t THEN "" ELSE "not_found"

\* os.Remove behind removePath.
removeCode(t, p) ==
  IF checkDeleteRoot(t) # "" THEN "io_error"
  ELSE IF p \notin DOMAIN t THEN "not_found"
  ELSE IF t[Front(p)].locked THEN "permission_denied"
  ELSE IF Kind(t, p) = "dir" /\ \E q \in DOMAIN t : Under(p, q) /\ q # p THEN "io_error"
  ELSE ""

\* WalkDir's order: a directory before its entries, entries by name.
Before(p, q) ==
  \/ Under(p, q)
  \/ \E i \in DOMAIN p \cap DOMAIN q :
       /\ SubSeq(p, 1, i - 1) = SubSeq(q, 1, i - 1)
       /\ Rank[p[i]] < Rank[q[i]]

WalkDir(t, p) == InOrder({q \in DOMAIN t : Under(p, q)}, Before)

-----------------------------------------------------------------------------
(* edit_file: all matches are located in one snapshot. *)

Occurrences(data, old) ==
  {i \in 1 .. (Len(data) + 1 - Len(old)) : SubSeq(data, i, i + Len(old) - 1) = old}

\* faulty: replace_all also takes occurrences that overlap.
MatchedOverlapping(data, e) ==
  IF e.all THEN Occurrences(data, e.old) ELSE {Min(Occurrences(data, e.old))}

\* The occurrences of one edit that are replaced, none overlapping another.
Matched(data, e) ==
  LET take(S, i) == IF S = {} \/ i >= Max(S) + Len(e.old) THEN S \cup {i} ELSE S
  IN IF e.all THEN FoldLeft(take, {}, InOrder(Occurrences(data, e.old), <))
     ELSE {Min(Occurrences(data, e.old))}

editCode(data, edits) ==
  LET n(i) == Cardinality(Occurrences(data, edits[i].old))
      unclear(i) == n(i) > 1 /\ ~(edits[i].all /\ edits[i].old # edits[i].new)
      bad == {i \in DOMAIN edits : n(i) = 0 \/ unclear(i)}
      ends(i, m) == m + Len(edits[i].old)
  IN IF bad # {} THEN IF n(Min(bad)) = 0 THEN "edit_not_found" ELSE "ambiguous_edit"
     ELSE IF edits # <<>> /\ \A i \in DOMAIN edits : edits[i].old = edits[i].new
          THEN "invalid_arguments"
     ELSE IF \E i, j \in DOMAIN edits : i # j
               /\ \E a \in Matched(data, edits[i]), b \in Matched(data, edits[j]) :
                    a <= b /\ b < ends(i, a)
          THEN "invalid_arguments"
     ELSE ""

\* The content after the edits: text between matches is kept, and text added.
edited(data, k) ==
  LET at(m) == {i \in DOMAIN k.edits : m \in Matched(data, k.edits[i])}
      marks == InOrder(UNION {Matched(data, k.edits[i]) : i \in DOMAIN k.edits}, <)
      replace(w, m) == LET e == k.edits[CHOOSE i \in at(m) : TRUE]
                       IN [text |-> w.text \o SubSeq(data, w.from, m - 1) \o e.new,
                           from |-> m + Len(e.old)]
      w == FoldLeft(replace, [text |-> <<>>, from |-> 1], marks)
  IN w.text \o SubSeq(data, w.from, Len(data)) \o k.append

\* Lines of a content, "LF" ending each; the last needs none.
totalLines(data) ==
  Cardinality({i \in DOMAIN data : data[i] = "LF"})
    + (IF data # <<>> /\ Last(data) # "LF" THEN 1 ELSE 0)

-----------------------------------------------------------------------------
(* Outcomes and observations. *)

Idle == [tool |-> "none"]
NoWork == [abs |-> <<>>, before |-> <<>>, id |-> 0, created |-> <<>>, plan |-> <<>>,
           removed |-> <<>>, failed |-> None]

Outcome(code, effect) ==
  [code |-> code, effect |-> effect, first |-> 0, last |-> 0, eof |-> FALSE,
   count |-> 0, listed |-> <<>>, failed |-> None, created |-> <<>>]

\* The end of a call: the guard is released, the outcome returned.
Finish(c, o) ==
  /\ out' = [out EXCEPT ![c] = o]
  /\ pc' = [pc EXCEPT ![c] = "idle"]
  /\ holder' = IF holder = c THEN None ELSE holder

Goto(c, l) == pc' = [pc EXCEPT ![c] = l] /\ UNCHANGED <<out, holder>>

\* remember: the version just returned is what the conversation has seen.
remember(c, t, p, data) ==
  LET at == EvalSymlinks(t, p).at
  IN /\ seen' = [seen EXCEPT ![c] = Put(@, at, data)]
     /\ digests' = [digests EXCEPT ![c] = @ \cup {<<at, data>>}]

\* forgetDeleted, of a file or of a whole directory.
forgotten(s, p, directory) ==
  Without(s, {q \in DOMAIN s : q = p \/ (directory /\ Under(p, q))})

\* What the model was told: a version, or that nothing is there any more.
Tells(c, at, data) ==
  /\ shown' = [shown EXCEPT ![c] = Put(@, at, data)]
  /\ slipped' = [slipped EXCEPT ![c] = @ \ {at}]
TellsAbsent(c, p) ==
  /\ slipped' = [slipped EXCEPT ![c] = @ \cup {q \in DOMAIN shown[c] : Under(p, q)}]
  /\ UNCHANGED shown

\* checkSeenDigest: the version last returned must be the one on the disk.
checkSeenDigest(c, p) ==
  LET s == readSnapshot(fs, p)
  IN IF s.code # "" THEN s.code
     ELSE IF s.at \notin DOMAIN seen[c] THEN "invalid_arguments"
     ELSE IF seen[c][s.at] # s.data THEN "stale_file" ELSE ""

\* checkFileDigest, and deleteDigest which hashes any bytes: the version named
\* must be the one on the disk; the provenance only words the refusal.
checkFileDigest(c, p, named, any) ==
  LET s == readSnapshot(fs, p)
      at == EvalSymlinks(fs, p).at
      data == IF any THEN fs[at].data ELSE s.data
  IN IF any /\ fs[at].locked THEN "permission_denied"
     ELSE IF ~any /\ s.code # "" THEN s.code
     ELSE IF data = named THEN ""
     ELSE IF <<at, named>> \in digests[c] THEN "stale_file" ELSE "unknown_digest"

checkDigest(c, k, any) ==
  IF k.expected = None THEN checkSeenDigest(c, k.path)
  ELSE checkFileDigest(c, k.path, k.expected, any)

fileTarget(p) ==
  CASE Kind(fs, p) = "link" -> "symlink_target"
    [] Kind(fs, p) = "file" -> ""
    [] OTHER -> "invalid_arguments"

-----------------------------------------------------------------------------
(* A call. *)

Init ==
  /\ fs \in Trees
  /\ ids = Max({fs[p].id : p \in DOMAIN fs})
  /\ holder = None
  /\ seen = [c \in Conversations |-> <<>>]
  /\ digests = [c \in Conversations |-> {}]
  /\ pc = [c \in Conversations |-> "idle"]
  /\ call = [c \in Conversations |-> Idle]
  /\ work = [c \in Conversations |-> NoWork]
  /\ out = [c \in Conversations |-> Outcome("none", FALSE)]
  /\ cancelled = {}
  /\ made = [c \in Conversations |-> 0]
  /\ outside = 0
  /\ touched = [c \in Conversations |-> {}]
  /\ shown = [c \in Conversations |-> <<>>]
  /\ slipped = [c \in Conversations |-> {}]

\* Execute begins: arguments that do not decode are refused before anything.
Call(c, k) ==
  /\ pc[c] = "idle" /\ made[c] < MaxCalls
  /\ made' = [made EXCEPT ![c] = @ + 1]
  /\ call' = [call EXCEPT ![c] = k]
  /\ work' = [work EXCEPT ![c] = NoWork]
  /\ touched' = [touched EXCEPT ![c] = {}]
  /\ LET code == IF k.bad # "" THEN k.bad
                 ELSE IF k.tool = "write_file" THEN TextProblem(k.data) ELSE ""
     IN IF code # "" THEN Finish(c, Outcome(code, FALSE))
        ELSE Goto(c, IF k.tool = "read_file" THEN "read" ELSE "lock")
  /\ UNCHANGED <<fs, ids, seen, digests, cancelled, outside, shown, slipped>>

\* The lines a read returns, of as many as the content has.
wantedLines(k, total) == Min({k.max, IF total >= k.start THEN total - k.start + 1 ELSE 0})

\* Why the lines asked for cannot be returned.
pageCode(k, data, total) ==
  IF k.start > total /\ ~(k.start = 1 /\ total = 0) THEN "line_out_of_range"
  ELSE IF wantedLines(k, total) > 0 /\ "huge" \in ToSet(data) THEN "line_too_long" ELSE ""

\* read_file takes no guard; its snapshot and its record are apart in time.
Read(c) ==
  /\ pc[c] = "read"
  /\ \E refusal \in {resolve(fs, call[c].path)}, s \in {readSnapshot(fs, call[c].path)} :
       LET total == totalLines(s.data)
           code == IF refusal # "" THEN refusal ELSE IF s.code # "" THEN s.code
                   ELSE pageCode(call[c], s.data, total)
           absent == refusal = "" /\ code = "not_found"
           missing == missingPath(fs, call[c].path)
       IN /\ IF code = "" THEN Goto(c, "remember") ELSE Finish(c, Outcome(code, FALSE))
          /\ work' = [work EXCEPT ![c].before = s.data, ![c].abs = s.at,
                                  ![c].id = Min({wantedLines(call[c], total), PageLines})]
          /\ seen' = IF absent /\ c \in AgentTools
                     THEN [seen EXCEPT ![c] = forgotten(@, missing, FALSE)] ELSE seen
          /\ IF absent THEN TellsAbsent(c, missing) ELSE UNCHANGED <<shown, slipped>>
  /\ UNCHANGED <<fs, ids, digests, call, cancelled, made, outside, touched>>

Remember(c) ==
  /\ pc[c] = "remember"
  /\ LET lines == work[c].id
         last == call[c].start - 1 + lines
         o == [Outcome("ok", FALSE) EXCEPT !.first = call[c].start, !.last = last,
                                           !.eof = (last = totalLines(work[c].before))]
     IN /\ Finish(c, o)
        /\ IF EvalSymlinks(fs, call[c].path).err = ""
           THEN /\ remember(c, fs, call[c].path, work[c].before)
                /\ Tells(c, EvalSymlinks(fs, call[c].path).at, work[c].before)
           ELSE /\ slipped' = [slipped EXCEPT ![c] = @ \cup {work[c].abs}]
                /\ UNCHANGED <<seen, digests, shown>>
  /\ UNCHANGED <<fs, ids, call, work, cancelled, made, outside, touched>>

\* publishMu.Lock: held from here through the rename, link or removals.
Lock(c) ==
  /\ pc[c] = "lock" /\ holder = None
  /\ holder' = c
  /\ pc' = [pc EXCEPT ![c] = "check"]
  /\ touched' = [touched EXCEPT ![c] = {}]
  /\ UNCHANGED <<fs, ids, seen, digests, call, work, out, cancelled, made, outside, shown, slipped>>

\* What write_file finds before it creates: "" and the parents it must make.
createCode(c, k) ==
  LET parent == Front(k.path)
      w == EvalSymlinks(fs, parent)
  IN IF k.expected # None THEN "not_found"
     ELSE IF c \in AgentTools /\ missingPath(fs, k.path) \in DOMAIN seen[c] THEN "stale_file"
     ELSE IF w.err = "not_found"
          THEN IF \E q \in Prefixes(parent) : Kind(fs, q) = "link" THEN "symlink_target"
               ELSE IF \E q \in Prefixes(parent) : Kind(fs, q) = "dir" /\ fs[q].locked
               THEN "permission_denied" ELSE ""
     ELSE IF w.err # "" THEN w.err
     ELSE IF Kind(fs, w.at) # "dir" THEN "not_directory" ELSE ""

\* The check of each tool: the code it fails with, or where it continues.
Checked(c, k) ==
  LET r == IF k.tool = "delete_file"
           THEN IF checkDeleteRoot(fs) # "" THEN checkDeleteRoot(fs)
                ELSE IF k.recursive THEN deletePath(fs, k.path) ELSE resolve(fs, k.path)
           ELSE resolve(fs, k.path)
      l == Lstat(fs, k.path)
      tree == k.recursive /\ Kind(fs, l.at) \in {"dir", "link"}
      digest == checkDigest(c, k, k.tool = "delete_file")
      Fail(code) == [code |-> code, then |-> "idle"]
      Then(code, step) == IF code # "" THEN Fail(code) ELSE [code |-> "", then |-> step]
  IN IF c \in cancelled THEN Fail("not_executed")
     ELSE IF r # "" THEN Fail(r)
     ELSE IF k.tool = "write_file" /\ l.err = "not_found" THEN Then(createCode(c, k), "create")
     ELSE IF l.err # "" THEN Fail(l.err)
     ELSE IF k.tool = "delete_file" /\ tree
          THEN IF k.expected # None THEN Fail("invalid_arguments") ELSE Then("", "plan")
     ELSE IF k.tool = "edit_file"
          THEN IF Kind(fs, l.at) = "link" THEN Fail("symlink_target")
               ELSE IF digest # "" THEN Fail(digest)
               ELSE LET data == fs[l.at].data
                        code == editCode(data, k.edits)
                    IN IF code # "" THEN Fail(code)
                       ELSE Then(TextProblem(edited(data, k)), "publish")
     ELSE IF fileTarget(l.at) # "" THEN Fail(fileTarget(l.at))
     ELSE Then(digest, IF k.tool = "delete_file" THEN "recheck" ELSE "publish")

\* The parents a creation makes, outermost first.
missingParents(p) ==
  InOrder({q \in Prefixes(Front(p)) : EvalSymlinks(fs, q).err = "not_found"},
          LAMBDA a, b : Len(a) < Len(b))

\* The call goes on with what the check found, after a creation made its parents.
Accept(c, l, dirs) ==
  /\ work' = [work EXCEPT ![c].abs = l.at, ![c].created = dirs,
                ![c].before = IF l.err = "" THEN fs[l.at].data ELSE <<>>,
                ![c].id = IF l.err = "" THEN fs[l.at].id ELSE 0]
  /\ fs' = [q \in DOMAIN fs \cup ToSet(dirs) |->
              IF q \in DOMAIN fs THEN fs[q] ELSE Dir(ids + 1)]
  /\ ids' = IF dirs = <<>> THEN ids ELSE ids + 1

Check(c) ==
  /\ pc[c] = "check"
  /\ \E v \in {Checked(c, call[c])} :
       IF v.code # "" THEN Finish(c, Outcome(v.code, FALSE)) /\ UNCHANGED <<fs, ids, work>>
       ELSE /\ Goto(c, v.then)
            /\ Accept(c, Lstat(fs, call[c].path),
                      IF v.then = "create" THEN missingParents(call[c].path) ELSE <<>>)
  /\ UNCHANGED <<seen, digests, call, cancelled, made, outside, touched, shown, slipped>>

Written(c) == IF call[c].tool = "edit_file" THEN edited(work[c].before, call[c])
              ELSE call[c].data

\* A directory takes the staged file when it is still there and writable.
stageCode(p) ==
  LET w == EvalSymlinks(fs, Front(p))
  IN IF w.err # "" THEN w.err ELSE IF fs[w.at].locked THEN "permission_denied" ELSE ""

\* publish: the staged file is renamed over whatever the name holds now.
Publish(c) ==
  /\ pc[c] = "publish"
  /\ LET p == work[c].abs
         code == IF stageCode(p) # "" THEN stageCode(p)
                 ELSE IF Kind(fs, p) = "dir" THEN "io_error" ELSE ""
     IN IF code # ""
        THEN Finish(c, Outcome(code, FALSE)) /\ UNCHANGED <<fs, ids, seen, digests, shown, slipped>>
        ELSE /\ fs' = Put(fs, p, File(Written(c), ids + 1))
             /\ ids' = ids + 1
             /\ remember(c, fs', p, Written(c))
             /\ Tells(c, EvalSymlinks(fs', p).at, Written(c))
             /\ Finish(c, Outcome("ok", TRUE))
  /\ UNCHANGED <<call, work, cancelled, made, outside, touched>>

\* publishNew links the staged file: a name that exists by now is kept.  A
\* creation that fails removes the directories it made, innermost first,
\* up to the first that holds something else.
removeEmptyDirs(t, created) ==
  Without(t, {q \in ToSet(created) : \A r \in DOMAIN t : Under(q, r) => r \in ToSet(created)})

\* faulty: the staged file is renamed into place.
linkCodeReplaces(p) == stageCode(p)

linkCode(p) == IF stageCode(p) # "" THEN stageCode(p)
               ELSE IF p \in DOMAIN fs THEN "invalid_arguments" ELSE ""

Create(c) ==
  /\ pc[c] = "create"
  /\ LET p == work[c].abs
         at == EvalSymlinks(fs, Front(call[c].path)).at
         q == Append(at, Last(call[c].path))
         code == linkCode(q)
     IN IF code # ""
        THEN /\ Finish(c, Outcome(code, FALSE))
             /\ fs' = removeEmptyDirs(fs, work[c].created)
             /\ UNCHANGED <<ids, seen, digests, shown, slipped>>
        ELSE /\ fs' = Put(fs, q, File(call[c].data, ids + 1))
             /\ ids' = ids + 1
             /\ remember(c, fs', q, call[c].data)
             /\ Tells(c, EvalSymlinks(fs', q).at, call[c].data)
             /\ Finish(c, [Outcome("ok", TRUE) EXCEPT !.created = work[c].created])
  /\ UNCHANGED <<call, work, cancelled, made, outside, touched>>

\* The staged file cannot be written: nothing is published.
StageFails(c) ==
  /\ pc[c] \in {"publish", "create"} /\ outside < MaxOutside
  /\ outside' = outside + 1
  /\ fs' = IF pc[c] = "create" THEN removeEmptyDirs(fs, work[c].created) ELSE fs
  /\ Finish(c, Outcome("io_error", FALSE))
  /\ UNCHANGED <<ids, seen, digests, call, work, cancelled, made, touched, shown, slipped>>

\* delete_file of one file: the name must still lead to the file checked.
Recheck(c) ==
  /\ pc[c] = "recheck"
  /\ LET l == Lstat(fs, call[c].path)
         code == IF c \in cancelled THEN "not_executed"
                 ELSE IF l.err # "" THEN l.err
                 ELSE IF fs[l.at].id # work[c].id \/ Kind(fs, l.at) # "file" THEN "stale_file"
                 ELSE ""
     IN IF code # "" THEN Finish(c, Outcome(code, FALSE)) ELSE Goto(c, "remove")
  /\ UNCHANGED <<fs, ids, seen, digests, call, work, cancelled, made, outside, touched, shown, slipped>>

RemoveFile(c) ==
  /\ pc[c] = "remove"
  /\ LET p == work[c].abs
         code == removeCode(fs, p)
     IN IF code # ""
        THEN Finish(c, Outcome(code, FALSE)) /\ UNCHANGED <<fs, seen, shown, slipped>>
        ELSE /\ fs' = Without(fs, {p})
             /\ seen' = [seen EXCEPT ![c] = forgotten(@, p, FALSE)]
             /\ TellsAbsent(c, p)
             /\ Finish(c, [Outcome("ok", TRUE) EXCEPT !.count = 1, !.listed = <<p>>])
  /\ UNCHANGED <<ids, digests, call, work, cancelled, made, outside, touched>>

\* deleteTree looks at the whole tree before it removes anything.
Plan(c) ==
  /\ pc[c] = "plan"
  /\ LET entries == WalkDir(fs, call[c].path)
         bad(i) == IF deletePath(fs, entries[i]) # "" THEN deletePath(fs, entries[i])
                   ELSE IF Kind(fs, entries[i]) = "fifo" THEN "invalid_arguments" ELSE ""
         wrong == {i \in DOMAIN entries : bad(i) # ""}
         code == IF c \in cancelled THEN "not_executed"
                 ELSE IF entries = <<>> THEN "not_found"
                 ELSE IF wrong # {} THEN bad(Min(wrong)) ELSE ""
     IN IF code # "" THEN Finish(c, Outcome(code, FALSE)) /\ UNCHANGED work
        ELSE /\ Goto(c, "entry")
             /\ work' = [work EXCEPT ![c].plan =
                  [i \in DOMAIN entries |-> [path |-> entries[i], id |-> fs[entries[i]].id,
                                             kind |-> Kind(fs, entries[i])]]]
  /\ UNCHANGED <<fs, ids, seen, digests, call, cancelled, made, outside, touched, shown, slipped>>

\* faulty: a deletion that fails is reported without an effect.
reportNoEffect(w, code) ==
  LET n == Len(w.removed)
  IN [Outcome(IF code = "" THEN "ok" ELSE code, code = "")
        EXCEPT !.count = n, !.failed = w.failed,
               !.listed = SubSeq(w.removed, 1, Min({n, LedgerMax}))]

\* Its report: what is gone, as far as the result has room, and what failed.
report(w, code) ==
  LET n == Len(w.removed)
  IN [Outcome(IF code = "" THEN "ok" ELSE code, n > 0)
        EXCEPT !.count = n, !.failed = w.failed,
               !.listed = SubSeq(w.removed, 1, Min({n, LedgerMax}))]

\* The entries go last to first, each looked at again just before.
Entry(c) ==
  /\ pc[c] = "entry"
  /\ LET w == work[c]
         e == w.plan[Len(w.plan) - Len(w.removed)]
         code == IF c \in cancelled THEN "not_executed"
                 ELSE IF deletePath(fs, e.path) # "" THEN deletePath(fs, e.path)
                 ELSE IF fs[e.path].id # e.id \/ Kind(fs, e.path) # e.kind THEN "stale_file"
                 ELSE ""
     IN IF code # ""
        THEN Finish(c, report([w EXCEPT !.failed = e.path], code))
        ELSE Goto(c, "unlink")
  /\ UNCHANGED <<fs, ids, seen, digests, call, work, cancelled, made, outside, touched, shown, slipped>>

Unlink(c) ==
  /\ pc[c] = "unlink"
  /\ LET w == work[c]
         e == w.plan[Len(w.plan) - Len(w.removed)]
         code == removeCode(fs, e.path)
         gone == [w EXCEPT !.removed = Append(@, e.path)]
     IN IF code # ""
        THEN /\ Finish(c, report([w EXCEPT !.failed = e.path], code))
             /\ UNCHANGED <<fs, seen, shown, slipped, work>>
        ELSE /\ fs' = Without(fs, {e.path})
             /\ seen' = [seen EXCEPT ![c] = forgotten(@, e.path, e.kind = "dir")]
             /\ TellsAbsent(c, e.path)
             /\ work' = [work EXCEPT ![c] = gone]
             /\ IF Len(gone.removed) = Len(w.plan) THEN Finish(c, report(gone, ""))
                ELSE Goto(c, "entry")
  /\ UNCHANGED <<ids, digests, call, cancelled, made, outside, touched>>

\* forgetSeen: a compaction or a reset ends what the conversation was shown.
Forget(c) ==
  /\ pc[c] = "idle" /\ seen[c] # <<>>
  /\ seen' = [seen EXCEPT ![c] = <<>>]
  /\ shown' = [shown EXCEPT ![c] = <<>>]
  /\ slipped' = [slipped EXCEPT ![c] = {}]
  /\ UNCHANGED <<fs, ids, holder, digests, pc, call, work, out, cancelled, made, outside, touched>>

\* The run is cancelled while a call is on its way.
Cancel(c) ==
  /\ pc[c] # "idle" /\ c \notin cancelled
  /\ cancelled' = cancelled \cup {c}
  /\ UNCHANGED <<fs, ids, holder, seen, digests, pc, call, work, out, made, outside,
                 touched, shown, slipped>>

\* Commands and the user change files without the guard: they write a file in
\* place, put another one in its place or where none was, or remove one.
Outside(p, t) ==
  /\ outside < MaxOutside
  /\ outside' = outside + 1
  /\ fs' = t
  /\ ids' = ids + 1
  /\ touched' = [c \in Conversations |-> touched[c] \cup {p}]
  /\ UNCHANGED <<holder, seen, digests, pc, call, work, out, cancelled, made, shown, slipped>>

OutsideWrites(p, d) == Kind(fs, p) = "file" /\ Outside(p, [fs EXCEPT ![p].data = d])
OutsidePuts(p, d) ==
  /\ Kind(fs, p) \in {"file", "none"} /\ Kind(fs, Front(p)) = "dir"
  /\ Outside(p, Put(fs, p, File(d, ids + 1)))
OutsideRemoves(p) == Kind(fs, p) = "file" /\ Outside(p, Without(fs, {p}))

Files == {k.path : k \in {k \in Calls : k.path # <<>>}}

Step(c) == Read(c) \/ Remember(c) \/ Lock(c) \/ Check(c) \/ Publish(c) \/ Create(c)
           \/ Recheck(c) \/ RemoveFile(c) \/ Plan(c) \/ Entry(c) \/ Unlink(c)

Next ==
  \/ \E c \in Conversations : Step(c) \/ StageFails(c) \/ Cancel(c) \/ Forget(c) \/ \E k \in Calls : Call(c, k)
  \/ \E p \in Files : OutsideRemoves(p) \/ \E d \in Texts : OutsideWrites(p, d) \/ OutsidePuts(p, d)

Spec == Init /\ [][Next]_vars

-----------------------------------------------------------------------------
(* Properties. *)

Codes == {"none", "ok", "not_executed", "invalid_path", "not_found", "io_error",
          "permission_denied", "not_file", "file_too_large", "binary_file", "invalid_utf8",
          "line_out_of_range", "line_too_long", "symlink_target", "invalid_arguments",
          "not_directory", "stale_file", "unknown_digest", "edit_not_found", "ambiguous_edit"}

\* Every call is at one of its steps with an outcome the tools can return, and
\* the guard is with a conversation that is inside it.
TypeOK ==
  /\ \A c \in Conversations :
       /\ pc[c] \in {"idle", "read", "remember", "lock", "check", "publish", "create",
                     "recheck", "remove", "plan", "entry", "unlink"}
       /\ out[c].code \in Codes
       /\ DOMAIN shown[c] \cap {<<>>} = {}
       /\ pc[c] \in {"check", "publish", "create", "recheck", "remove", "plan", "entry",
                     "unlink"} => holder = c
  /\ <<>> \in DOMAIN fs

\* A tool replaces or removes only the version it named or its own conversation
\* was shown: what another conversation wrote meanwhile is never lost.  Only a
\* change made outside the tools since the check escapes it.
ReplacesKnown ==
  \A c \in Conversations :
    LET p == work[c].abs
    IN (pc[c] \in {"publish", "remove"} /\ fs' # fs /\ outside' = outside) =>
         \/ p \in touched[c]
         \/ /\ Kind(fs, p) = "file"
            /\ \/ fs[p].data = call[c].expected
               \/ p \in DOMAIN shown[c] /\ shown[c][p] = fs[p].data

\* A creation never replaces what the name holds by the time it is published,
\* whoever put it there (write_file links the staged file into place).
KeepsArrivals ==
  \A c \in Conversations : (pc[c] = "create" /\ pc'[c] = "idle" /\ out'[c].effect) =>
    \A p \in DOMAIN fs : p \in DOMAIN fs' /\ fs'[p] = fs[p]

\* What one conversation writes or removes is what it was shown or named, and
\* nothing that arrived meanwhile is replaced by a creation.
VersionsKept == [][ReplacesKnown /\ KeepsArrivals]_vars

\* With agents, a file the conversation was last shown and that was deleted
\* since is not created again before the conversation was told of its absence,
\* by whichever alias it was read and whichever way it went; but for a file that
\* went while it was being read.
CreatesTold ==
  \A c \in AgentTools : \A p \in DOMAIN shown[c] \ slipped[c] :
    pc[c] = "create" /\ outside' = outside /\ p \notin DOMAIN fs => p \notin DOMAIN fs'

\* A creation that fails leaves none of the directories it made, unless
\* somebody has put something in them.
ParentsCleaned ==
  \A c \in Conversations :
    (pc[c] = "create" /\ pc'[c] = "idle" /\ out'[c].code # "ok") =>
      \A q \in ToSet(work[c].created) \cap DOMAIN fs' :
        \E r \in DOMAIN fs' : Under(q, r) /\ Kind(fs', r) # "dir"

\* By whichever alias a deleted file was known, it is created again only after
\* its absence was told; a creation that fails takes its directories away again.
AbsenceKept == [][CreatesTold /\ ParentsCleaned]_vars

\* A recursive deletion, whole or stopped half way, reports what is gone: the
\* count, the listed paths, the effect and the failed path agree with the tree.
RemovalsAgree ==
  \A c \in Conversations : (pc[c] \in {"entry", "unlink"} /\ pc'[c] = "idle") =>
    LET planned == {e.path : e \in ToSet(work[c].plan)}
        gone == planned \ DOMAIN fs'
        o == out'[c]
    IN planned \cap touched'[c] = {} =>
         /\ o.count = Cardinality(gone) /\ ToSet(o.listed) \subseteq gone
         /\ Len(o.listed) = Min({o.count, LedgerMax})
         /\ o.effect <=> gone # {}
         /\ o.code = "ok" <=> gone = planned
         /\ gone # planned => o.failed \in planned \ gone

\* No tool changes what is withheld or lies outside the workspace, through
\* whatever alias, and no recursive deletion starts on a tree with such a name.
WithheldStays ==
  outside' = outside =>
    /\ \A p \in DOMAIN fs \cup DOMAIN fs' : withheld(p) \/ ~insidePath(p) =>
         p \in DOMAIN fs /\ p \in DOMAIN fs' /\ fs'[p] = fs[p]
    /\ \A c \in Conversations : pc[c] = "unlink" /\ touched[c] = {} =>
         ~\E p \in DOMAIN fs : Under(call[c].path, p) /\ withheld(p)

\* A recursive deletion reports what is gone, half way too, and neither it nor
\* any other call reaches what is withheld or outside.
DeletionsTrue == [][RemovalsAgree /\ WithheldStays]_vars

=============================================================================
